------------------------- MODULE LiveSessionsProofs -------------------------
(***************************************************************************)
(* Proofs about LiveSessions, for any number of sessions, connections and  *)
(* commands and whatever fails: until the server is closed, a session has  *)
(* at most one runtime, and none is left unused.                           *)
(*                                                                         *)
(* Both follow from how the two maps of LiveSessionManager and the         *)
(* LiveSession objects point at each other.  (Once the server closes, the  *)
(* maps let go of sessions before their runtimes are disposed of, and the  *)
(* argument ends.)                                                         *)
(***************************************************************************)
EXTENDS LiveSessions, Integers, FiniteSetTheorems, TLAPS

Ready == {"open", "disposing"} \* runtimes that liveSessions names
Begun == Ready \cup {"disposed"}

LiveObject ==
    [connections : SUBSET Connections, operationCount : Int,
     terminal : BOOLEAN, disposing : {"no", "pending", "settled", "rejected"},
     phase : {"idle", "busy"}, subscribed : BOOLEAN,
     runtime : Acquiring \cup Begun \cup {"none", "failed"}]
Command ==
    [at : {"none", "attach", "disposal", "release", "detach", "operation",
           "done"},
     connection : Connections \cup {None}, session : Sessions \cup {None},
     live : Commands \cup {None}]

LiveTyped ==
    /\ stage \in [Connections -> {"ready", "closing", "closed"}]
    /\ sessionIds \in [Connections -> SUBSET Sessions]
    /\ command \in [Commands -> Command]
    /\ received \in 0..MaxCommands
    /\ live \in [Commands -> LiveObject]
    /\ liveSessions \in [Sessions -> Commands \cup {None}]
    /\ openingSessions \in [Sessions -> Commands \cup {None}]
    /\ terminator \in [Commands -> [at : {"none", "close", "disconnect", "done"},
                                    targets : SUBSET Connections]]
    /\ closing = FALSE /\ closer = "none"

\* openingSessions and the runtimes being acquired name each other; the
\* command that acquires one waits to attach to it.
OpeningsMatch ==
    /\ \A l \in Commands : live[l].runtime \in Acquiring =>
        /\ SessionOf(l) \in Sessions
        /\ openingSessions[SessionOf(l)] = l
        /\ command[l].at = "attach" /\ command[l].live = l
    /\ \A s \in Sessions : openingSessions[s] # None =>
        /\ live[openingSessions[s]].runtime \in Acquiring
        /\ SessionOf(openingSessions[s]) = s

\* liveSessions and the runtimes that are open or being disposed of name
\* each other.
LiveMatch ==
    /\ \A l \in Commands : live[l].runtime \in Ready =>
        /\ SessionOf(l) \in Sessions
        /\ liveSessions[SessionOf(l)] = l
    /\ \A s \in Sessions : liveSessions[s] # None =>
        /\ live[liveSessions[s]].runtime \in Ready
        /\ SessionOf(liveSessions[s]) = s

\* A session is not opened while it is live.
OneOrTheOther ==
    \A s \in Sessions : openingSessions[s] # None => liveSessions[s] = None

\* The fields of a LiveSession follow its runtime.
Sound(r) ==
    /\ r.runtime \in Acquiring \cup {"none"} => r.disposing = "no"
    /\ r.runtime = "open" => r.disposing = "no"
    /\ r.runtime = "disposing" => r.disposing = "pending"
    /\ r.runtime = "disposed" => r.disposing # "no"
    /\ r.subscribed => r.runtime = "open"
    /\ r.runtime = "open" => r.subscribed \/ r.terminal
FieldsMatch == \A l \in Commands : Sound(live[l])

\* Which LiveSession a command or terminate is about, by where it waits.
WaitersMatch ==
    /\ \A t \in Commands :
        /\ t > received => command[t] = NewCommand
        /\ (t > received \/ command[t].at = "disposal") => live[t].runtime = "none"
        /\ command[t].at = "attach" =>
            /\ command[t].live \in Commands
            /\ live[command[t].live].runtime # "none"
        /\ command[t].at \in {"attach", "disposal"} =>
            /\ command[t].session \in Sessions
            /\ command[t].connection \in Connections
        /\ command[t].at \in {"detach", "operation"} =>
            /\ command[t].live \in Commands
            /\ live[command[t].live].runtime \in Begun
    /\ \A l \in Commands :
        terminator[l].at \in {"close", "disconnect"} => live[l].runtime \in Begun

\* operationCount is the number of operations that run.
Operations(l) ==
    {t \in Commands : command[t].at = "operation" /\ command[t].live = l}
OperationsCounted ==
    \A l \in Commands : live[l].operationCount = Cardinality(Operations(l))

\* The inductive invariant, until the server is closed.
OpenInv ==
    /\ LiveTyped
    /\ OpeningsMatch
    /\ LiveMatch
    /\ OneOrTheOther
    /\ FieldsMatch
    /\ WaitersMatch
    /\ OperationsCounted
    /\ UnusedIsDisposed
IndInv == ~closing => OpenInv

\* The two halves of UnusedIsDisposed: a LiveSession that could be disposed
\* of, and that somebody will do so.
Unused(r) ==
    /\ r.runtime = "open" /\ r.disposing = "no"
    /\ r.connections = {} /\ r.operationCount = 0
    /\ r.terminal \/ r.phase = "idle"
SeenTo(l) ==
    \/ \E t \in Commands : command[t].at = "attach" /\ command[t].live = l
    \/ terminator[l].at \in {"close", "disconnect"}

\* What most steps may do to a LiveSession: begin its disposal at most.
Evolves(new, old) ==
    /\ new \in LiveObject
    /\ Sound(new)
    /\ \/ new.runtime = old.runtime
       \/ old.runtime = "open" /\ new.runtime = "disposing"

\* No command, connection or session satisfies the invariant.
LEMMA OpenInvInit == Init => OpenInv
<1>. SUFFICES ASSUME Init PROVE OpenInv
  OBVIOUS
<1>. USE LiveAssumption DEF Init, NewLive, NewCommand
<1>1. LiveTyped
  BY DEF LiveTyped, LiveObject, Command, Acquiring, Begun, Ready, Commands
<1>2. OpeningsMatch /\ LiveMatch /\ OneOrTheOther
  BY DEF OpeningsMatch, LiveMatch, OneOrTheOther, Acquiring, Ready
<1>3. FieldsMatch
  BY DEF FieldsMatch, Sound
<1>4. WaitersMatch
  BY DEF WaitersMatch, Commands
<1>5. OperationsCounted
  <2>1. \A l \in Commands : Operations(l) = {}
    BY DEF Operations
  <2>. QED  BY <2>1, FS_EmptySet DEF OperationsCounted
<1>6. UnusedIsDisposed
  BY DEF UnusedIsDisposed
<1>. QED  BY <1>1, <1>2, <1>3, <1>4, <1>5, <1>6 DEF OpenInv

\* maybeDispose leaves no LiveSession unused.
LEMMA MaybeDisposed ==
    ASSUME ~closing, NEW r \in LiveObject, Sound(r), r.runtime \in Begun
    PROVE  /\ Evolves(maybeDispose(r), r)
           /\ ~Unused(maybeDispose(r))
           /\ maybeDispose(r).operationCount = r.operationCount
<1>1. CASE Disposable(r)
  <2>. DEFINE m == [r EXCEPT !.subscribed = FALSE, !.disposing = "pending",
                             !.runtime = "disposing"]
  <2>1. maybeDispose(r) = m
    BY <1>1 DEF maybeDispose
  <2>2. r.runtime = "open"
    BY <1>1 DEF Disposable, Sound, Begun, Ready
  <2>3. /\ m \in LiveObject /\ m.runtime = "disposing" /\ m.disposing = "pending"
        /\ m.subscribed = FALSE /\ m.operationCount = r.operationCount
    BY DEF LiveObject, Begun, Ready
  <2>. HIDE DEF m
  <2>. QED  BY <2>1, <2>2, <2>3 DEF Evolves, Sound, Unused, Acquiring
<1>2. CASE ~Disposable(r)
  <2>1. maybeDispose(r) = r
    BY <1>2 DEF maybeDispose
  <2>2. ~Unused(r)
    BY <1>2, Zenon DEF Unused, Disposable
  <2>3. Evolves(r, r)
    BY DEF Evolves
  <2>. QED  BY <2>1, <2>2, <2>3
<1>. QED  BY <1>1, <1>2

\* While the maps stay as they are and LiveSessions at most begin to be
\* disposed of, only the parts about commands, counts and unused sessions are
\* at stake.
LEMMA MapsKept ==
    ASSUME OpenInv, UNCHANGED <<mapVars, closing, closer>>,
           stage' \in [Connections -> {"ready", "closing", "closed"}],
           sessionIds' \in [Connections -> SUBSET Sessions],
           received' \in 0..MaxCommands,
           command' \in [Commands -> Command],
           terminator' \in [Commands ->
                [at : {"none", "close", "disconnect", "done"},
                 targets : SUBSET Connections]],
           live' \in [Commands -> LiveObject],
           \A l \in Commands : Evolves(live'[l], live[l]),
           \A l \in Commands :
                live[l].runtime \in Acquiring => command'[l] = command[l],
           \A l \in Commands :
                live[l].runtime \in Ready => command'[l].session = command[l].session,
           WaitersMatch', OperationsCounted',
           \A l \in Commands : Unused(live'[l]) => SeenTo(l)'
    PROVE  OpenInv'
<1>1. LiveTyped'
  BY DEF OpenInv, LiveTyped, mapVars
<1>2. \A l \in Commands : /\ live'[l].runtime \in Acquiring <=> live[l].runtime \in Acquiring
                          /\ live'[l].runtime \in Ready <=> live[l].runtime \in Ready
  BY DEF Evolves, Acquiring, Ready
<1>3. OpeningsMatch'
  BY <1>2 DEF OpenInv, LiveTyped, OpeningsMatch, SessionOf, mapVars
<1>4. LiveMatch'
  <2>1. liveSessions' = liveSessions
    BY DEF mapVars
  <2>2. ASSUME NEW l \in Commands, live'[l].runtime \in Ready
        PROVE  SessionOf(l)' \in Sessions /\ liveSessions'[SessionOf(l)'] = l
    BY <1>2, <2>1, <2>2 DEF OpenInv, LiveMatch, SessionOf
  <2>3. ASSUME NEW s \in Sessions, liveSessions'[s] # None
        PROVE  /\ live'[liveSessions'[s]].runtime \in Ready
               /\ SessionOf(liveSessions[s])' = s
    <3>1. liveSessions[s] \in Commands
      BY <2>1, <2>3 DEF OpenInv, LiveTyped
    <3>. QED  BY <1>2, <2>1, <2>3, <3>1 DEF OpenInv, LiveMatch, SessionOf
  <2>. QED  BY <2>2, <2>3 DEF LiveMatch
<1>5. OneOrTheOther'
  BY DEF OpenInv, OneOrTheOther, mapVars
<1>6. FieldsMatch'
  BY DEF FieldsMatch, Evolves
<1>7. UnusedIsDisposed'
  BY DEF UnusedIsDisposed, Disposable, Unused, SeenTo
<1>. QED  BY <1>1, <1>3, <1>4, <1>5, <1>6, <1>7 DEF OpenInv

\* A step of a runtime, a connection or terminate: no command is involved.
LEMMA ObjectStep ==
    ASSUME OpenInv, UNCHANGED <<commandVars, mapVars, closing, closer>>,
           stage' \in [Connections -> {"ready", "closing", "closed"}],
           sessionIds' \in [Connections -> SUBSET Sessions],
           terminator' \in [Commands ->
                [at : {"none", "close", "disconnect", "done"},
                 targets : SUBSET Connections]],
           live' \in [Commands -> LiveObject],
           \A l \in Commands :
                /\ Evolves(live'[l], live[l])
                /\ live'[l].operationCount = live[l].operationCount
                /\ terminator'[l].at \in {"close", "disconnect"} =>
                        live[l].runtime \in Begun
                /\ Unused(live'[l]) =>
                        \/ terminator'[l].at \in {"close", "disconnect"}
                        \/ Unused(live[l]) /\ terminator'[l] = terminator[l]
    PROVE  OpenInv'
<1>1. command' = command /\ received' = received
  BY DEF commandVars
<1>2. \A l \in Commands :
        /\ live[l].runtime = "none" <=> live'[l].runtime = "none"
        /\ live[l].runtime \in Begun => live'[l].runtime \in Begun
  BY DEF Evolves, Begun, Ready
<1>3. WaitersMatch'
  BY <1>1, <1>2 DEF OpenInv, WaitersMatch
<1>4. OperationsCounted'
  BY <1>1, ZenonT(60) DEF OpenInv, OperationsCounted, Operations
<1>5. \A l \in Commands : Unused(live[l]) => SeenTo(l)
  BY DEF OpenInv, LiveTyped, UnusedIsDisposed, Disposable, Unused, SeenTo
<1>6. \A l \in Commands : Unused(live'[l]) => SeenTo(l)'
  BY <1>1, <1>5 DEF SeenTo
<1>. QED  BY <1>1, <1>3, <1>4, <1>6, MapsKept DEF OpenInv, LiveTyped

-----------------------------------------------------------------------------
(* Runtimes, events and connections.                                       *)

\* A runtime that becomes busy or idle, or sends an event, leaves no session
\* unused: becoming idle reports a snapshot, which leads to maybeDispose, and
\* only a terminated session has no subscription (handleRuntimeEvent).
LEMMA EventStep ==
    ASSUME OpenInv, NEW l \in Commands,
           RuntimeBusy(l) \/ RuntimeIdle(l) \/ handleRuntimeEvent(l)
    PROVE  OpenInv'
<1>. DEFINE old == live[l]
<1>1. /\ old \in LiveObject /\ Sound(old) /\ ~closing
      /\ live \in [Commands -> LiveObject]
  BY DEF OpenInv, LiveTyped, FieldsMatch
<1>2. /\ UNCHANGED <<commandVars, mapVars, closing, closer, terminator, stage,
                     sessionIds>>
  BY DEF RuntimeBusy, RuntimeIdle, handleRuntimeEvent, liveRest, connectionVars,
     endVars, closeVars
<1>3. PICK new : /\ live' = [live EXCEPT ![l] = new]
                 /\ Evolves(new, old)
                 /\ new.operationCount = old.operationCount
                 /\ Unused(new) => Unused(old)
  <2>1. CASE RuntimeBusy(l)
    <3>. DEFINE w == [old EXCEPT !.phase = "busy"]
    <3>1. live' = [live EXCEPT ![l] = w]
      BY <2>1 DEF RuntimeBusy
    <3>2. /\ w \in LiveObject /\ w.operationCount = old.operationCount
          /\ w.runtime = old.runtime /\ w.disposing = old.disposing
          /\ w.subscribed = old.subscribed /\ w.terminal = old.terminal
          /\ w.connections = old.connections /\ w.phase = "busy"
      BY <1>1 DEF LiveObject
    <3>. HIDE DEF w
    <3>3. Evolves(w, old) /\ (Unused(w) => Unused(old))
      BY <1>1, <3>2 DEF Evolves, Sound, Unused
    <3>. QED  BY <3>1, <3>2, <3>3
  <2>2. CASE RuntimeIdle(l)
    <3>. DEFINE w == [old EXCEPT !.phase = "idle"]
    <3>1. live' = [live EXCEPT ![l] = IF w.subscribed THEN maybeDispose(w) ELSE w]
          /\ old.runtime = "open"
      BY <2>2 DEF RuntimeIdle
    <3>2. /\ w \in LiveObject /\ w.operationCount = old.operationCount
          /\ w.runtime = old.runtime /\ w.disposing = old.disposing
          /\ w.subscribed = old.subscribed /\ w.terminal = old.terminal
          /\ w.connections = old.connections
      BY <1>1 DEF LiveObject
    <3>. HIDE DEF w
    <3>3. Sound(w) /\ w.runtime \in Begun
      BY <1>1, <3>1, <3>2 DEF Sound, Begun, Ready
    <3>4. CASE w.subscribed
      <4>1. /\ Evolves(maybeDispose(w), w) /\ ~Unused(maybeDispose(w))
            /\ maybeDispose(w).operationCount = w.operationCount
        BY <1>1, <3>2, <3>3, MaybeDisposed
      <4>. QED  BY <3>1, <3>2, <3>4, <4>1 DEF Evolves
    <3>5. CASE ~w.subscribed
      <4>1. Evolves(w, old) /\ (Unused(w) => Unused(old))
        BY <3>1, <3>2, <3>3, <3>5 DEF Evolves, Unused, Sound
      <4>. QED  BY <3>1, <3>2, <3>5, <4>1
    <3>. QED  BY <3>4, <3>5
  <2>3. CASE handleRuntimeEvent(l)
    <3>1. /\ live' = [live EXCEPT ![l] = maybeDispose(old)]
          /\ old.runtime \in Begun
      BY <1>1, <2>3 DEF handleRuntimeEvent, Sound, Begun, Ready
    <3>. QED  BY <1>1, <3>1, MaybeDisposed
  <2>. QED  BY <2>1, <2>2, <2>3
<1>4. live' \in [Commands -> LiveObject]
  BY <1>1, <1>3 DEF Evolves
<1>5. ASSUME NEW k \in Commands
      PROVE  /\ Evolves(live'[k], live[k])
             /\ live'[k].operationCount = live[k].operationCount
             /\ terminator'[k].at \in {"close", "disconnect"} =>
                    live[k].runtime \in Begun
             /\ Unused(live'[k]) => Unused(live[k]) /\ terminator'[k] = terminator[k]
  <2>1. CASE k = l
    BY <1>1, <1>2, <1>3, <2>1 DEF OpenInv, WaitersMatch
  <2>2. CASE k # l
    BY <1>1, <1>2, <1>3, <2>2 DEF OpenInv, WaitersMatch, FieldsMatch, Evolves
  <2>. QED  BY <2>1, <2>2
<1>. QED  BY <1>2, <1>4, <1>5, ObjectStep DEF OpenInv, LiveTyped

\* terminate takes it on itself to dispose of the session (terminate).
LEMMA TerminateStep ==
    ASSUME OpenInv, NEW l \in Commands, terminate(l)
    PROVE  OpenInv'
<1>. DEFINE old == live[l]
            new == [old EXCEPT !.terminal = TRUE, !.subscribed = FALSE]
<1>1. /\ old \in LiveObject /\ Sound(old) /\ old.runtime = "open"
      /\ live \in [Commands -> LiveObject]
  BY DEF OpenInv, LiveTyped, FieldsMatch, Sound, terminate
<1>2. /\ UNCHANGED <<commandVars, mapVars, closing, closer, stage, sessionIds>>
      /\ live' = [live EXCEPT ![l] = new]
      /\ terminator' = [terminator EXCEPT ![l] =
                            [at |-> "close", targets |-> live[l].connections]]
  BY DEF terminate, connectionVars, closeVars
<1>3. /\ new \in LiveObject /\ new.operationCount = old.operationCount
      /\ new.runtime = "open" /\ new.disposing = old.disposing
      /\ new.terminal = TRUE /\ new.subscribed = FALSE
  BY <1>1 DEF LiveObject
<1>. HIDE DEF new
<1>4. Evolves(new, old)
  BY <1>1, <1>3 DEF Evolves, Sound
<1>5. live' \in [Commands -> LiveObject]
  BY <1>1, <1>2, <1>3
<1>6. /\ terminator' \in [Commands ->
                [at : {"none", "close", "disconnect", "done"},
                 targets : SUBSET Connections]]
      /\ terminator'[l].at = "close"
      /\ \A k \in Commands : k # l => terminator'[k] = terminator[k]
  BY <1>1, <1>2 DEF OpenInv, LiveTyped, LiveObject
<1>7. ASSUME NEW k \in Commands
      PROVE  /\ Evolves(live'[k], live[k])
             /\ live'[k].operationCount = live[k].operationCount
             /\ terminator'[k].at \in {"close", "disconnect"} =>
                    live[k].runtime \in Begun
             /\ Unused(live'[k]) =>
                    \/ terminator'[k].at \in {"close", "disconnect"}
                    \/ Unused(live[k]) /\ terminator'[k] = terminator[k]
  <2>1. CASE k = l
    BY <1>1, <1>2, <1>3, <1>4, <1>6, <2>1 DEF Begun, Ready
  <2>2. CASE k # l
    BY <1>1, <1>2, <1>6, <2>2 DEF OpenInv, WaitersMatch, FieldsMatch, Evolves
  <2>. QED  BY <2>1, <2>2
<1>. QED  BY <1>2, <1>5, <1>6, <1>7, ObjectStep DEF OpenInv, LiveTyped

\* terminate ends with maybeDispose (terminate).
LEMMA TerminateEndsStep ==
    ASSUME OpenInv, NEW l \in Commands, terminateEnds(l)
    PROVE  OpenInv'
<1>. DEFINE old == live[l]
            new == maybeDispose(old)
<1>1. /\ old \in LiveObject /\ Sound(old) /\ old.runtime \in Begun /\ ~closing
      /\ live \in [Commands -> LiveObject]
  BY DEF OpenInv, LiveTyped, FieldsMatch, WaitersMatch, terminateEnds
<1>2. /\ UNCHANGED <<commandVars, mapVars, closing, closer, stage, sessionIds>>
      /\ live' = [live EXCEPT ![l] = new]
      /\ terminator' = [terminator EXCEPT ![l].at = "done"]
  BY DEF terminateEnds, connectionVars, closeVars
<1>3. /\ Evolves(new, old) /\ ~Unused(new)
      /\ new.operationCount = old.operationCount
  BY <1>1, MaybeDisposed
<1>. HIDE DEF new
<1>4. live' \in [Commands -> LiveObject]
  BY <1>1, <1>2, <1>3 DEF Evolves
<1>5. /\ terminator' \in [Commands ->
                [at : {"none", "close", "disconnect", "done"},
                 targets : SUBSET Connections]]
      /\ terminator'[l].at = "done"
      /\ \A k \in Commands : k # l => terminator'[k] = terminator[k]
  BY <1>2 DEF OpenInv, LiveTyped
<1>6. ASSUME NEW k \in Commands
      PROVE  /\ Evolves(live'[k], live[k])
             /\ live'[k].operationCount = live[k].operationCount
             /\ terminator'[k].at \in {"close", "disconnect"} =>
                    live[k].runtime \in Begun
             /\ Unused(live'[k]) => Unused(live[k]) /\ terminator'[k] = terminator[k]
  <2>1. CASE k = l
    BY <1>1, <1>2, <1>3, <1>5, <2>1
  <2>2. CASE k # l
    BY <1>1, <1>2, <1>5, <2>2 DEF OpenInv, WaitersMatch, FieldsMatch, Evolves
  <2>. QED  BY <2>1, <2>2
<1>. QED  BY <1>2, <1>4, <1>5, <1>6, ObjectStep DEF OpenInv, LiveTyped

\* Connections that go leave no session unused (LiveSessionManager.disconnect).
LEMMA DisconnectStep ==
    ASSUME OpenInv, NEW C \in SUBSET Connections, disconnect(C),
           UNCHANGED <<commandVars, mapVars, closing, closer>>,
           terminator' \in [Commands ->
                [at : {"none", "close", "disconnect", "done"},
                 targets : SUBSET Connections]],
           \A l \in Commands :
                \/ terminator'[l] = terminator[l]
                \/ /\ terminator[l].at = "close"
                   /\ terminator'[l].at = "disconnect"
    PROVE  OpenInv'
<1>. DEFINE gone == {c \in C : stage[c] # "closed"}
            leavers(l) == {c \in gone : \E s \in sessionIds[c] : liveSessions[s] = l}
            left(l) == [live[l] EXCEPT !.connections = @ \ leavers(l)]
<1>1. /\ live \in [Commands -> LiveObject] /\ ~closing
      /\ stage' \in [Connections -> {"ready", "closing", "closed"}]
      /\ sessionIds' \in [Connections -> SUBSET Sessions]
  BY DEF OpenInv, LiveTyped, disconnect
<1>2. live' = [l \in Commands |-> IF leavers(l) = {} THEN live[l]
                                  ELSE maybeDispose(left(l))]
  BY DEF disconnect
<1>3. ASSUME NEW l \in Commands
      PROVE  /\ Evolves(live'[l], live[l])
             /\ live'[l].operationCount = live[l].operationCount
             /\ Unused(live'[l]) => Unused(live[l])
  <2>1. live[l] \in LiveObject /\ Sound(live[l])
    BY <1>1 DEF OpenInv, FieldsMatch
  <2>2. CASE leavers(l) = {}
    BY <1>2, <2>1, <2>2 DEF Evolves
  <2>3. CASE leavers(l) # {}
    <3>1. live[l].runtime \in Begun
      <4>1. PICK c \in C : \E s \in sessionIds[c] : liveSessions[s] = l
        BY <2>3
      <4>2. PICK s \in Sessions : liveSessions[s] = l
        BY <4>1 DEF OpenInv, LiveTyped
      <4>. QED  BY <4>2, LiveAssumption DEF OpenInv, LiveMatch, Begun, Commands
    <3>2. /\ left(l) \in LiveObject /\ left(l).runtime = live[l].runtime
          /\ left(l).disposing = live[l].disposing
          /\ left(l).subscribed = live[l].subscribed
          /\ left(l).terminal = live[l].terminal
          /\ left(l).operationCount = live[l].operationCount
      <4>. HIDE DEF leavers
      <4>. QED  BY <2>1 DEF LiveObject
    <3>. HIDE DEF left
    <3>3. Sound(left(l)) /\ left(l).runtime \in Begun
      BY <2>1, <3>1, <3>2 DEF Sound
    <3>4. /\ Evolves(maybeDispose(left(l)), left(l))
          /\ ~Unused(maybeDispose(left(l)))
          /\ maybeDispose(left(l)).operationCount = left(l).operationCount
      BY <1>1, <3>2, <3>3, MaybeDisposed
    <3>5. live'[l] = maybeDispose(left(l))
      BY <1>2, <2>3
    <3>. QED  BY <3>2, <3>4, <3>5 DEF Evolves
  <2>. QED  BY <2>2, <2>3
<1>4. live' \in [Commands -> LiveObject]
  <2>1. DOMAIN live' = Commands /\ live' = [l \in Commands |-> live'[l]]
    BY <1>2
  <2>. QED  BY <1>3, <2>1 DEF Evolves
<1>5. ASSUME NEW l \in Commands
      PROVE  /\ Evolves(live'[l], live[l])
             /\ live'[l].operationCount = live[l].operationCount
             /\ terminator'[l].at \in {"close", "disconnect"} =>
                    live[l].runtime \in Begun
             /\ Unused(live'[l]) =>
                    \/ terminator'[l].at \in {"close", "disconnect"}
                    \/ Unused(live[l]) /\ terminator'[l] = terminator[l]
  BY <1>3 DEF OpenInv, WaitersMatch
<1>. QED  BY <1>1, <1>4, <1>5, ObjectStep DEF OpenInv, LiveTyped

\* The steps of connections that end, of their own or because terminate
\* closes them.
LEMMA ConnectionSteps ==
    ASSUME OpenInv,
           \/ \E c \in Connections : ConnectionCloses(c) \/ Disconnect(c)
           \/ \E l \in Commands : terminateDisconnects(l)
    PROVE  OpenInv'
<1>1. ASSUME NEW c \in Connections, ConnectionCloses(c) PROVE OpenInv'
  <2>1. /\ UNCHANGED <<sessionIds, commandVars, live, mapVars, terminator, closing,
                        closer>>
        /\ stage' \in [Connections -> {"ready", "closing", "closed"}]
    BY <1>1 DEF ConnectionCloses, endVars, closeVars, OpenInv, LiveTyped
  <2>2. \A l \in Commands :
            /\ Evolves(live'[l], live[l])
            /\ live'[l].operationCount = live[l].operationCount
            /\ terminator'[l].at \in {"close", "disconnect"} =>
                    live[l].runtime \in Begun
            /\ Unused(live'[l]) => Unused(live[l]) /\ terminator'[l] = terminator[l]
    BY <2>1 DEF OpenInv, LiveTyped, FieldsMatch, WaitersMatch, Evolves
  <2>. QED  BY <2>1, <2>2, ObjectStep DEF OpenInv, LiveTyped
<1>2. ASSUME NEW c \in Connections, Disconnect(c) PROVE OpenInv'
  <2>1. /\ disconnect({c})
        /\ UNCHANGED <<commandVars, mapVars, terminator, closing, closer>>
    BY <1>2 DEF Disconnect, endVars, closeVars
  <2>. QED  BY <2>1, DisconnectStep DEF OpenInv, LiveTyped
<1>3. ASSUME NEW l \in Commands, terminateDisconnects(l) PROVE OpenInv'
  <2>1. /\ disconnect(terminator[l].targets) /\ terminator[l].at = "close"
        /\ terminator' = [terminator EXCEPT ![l].at = "disconnect"]
        /\ UNCHANGED <<commandVars, mapVars, closing, closer>>
    BY <1>3 DEF terminateDisconnects, closeVars
  <2>2. terminator[l].targets \in SUBSET Connections
    BY DEF OpenInv, LiveTyped
  <2>3. /\ terminator' \in [Commands ->
                [at : {"none", "close", "disconnect", "done"},
                 targets : SUBSET Connections]]
        /\ terminator'[l].at = "disconnect"
        /\ \A k \in Commands : k # l => terminator'[k] = terminator[k]
    BY <2>1 DEF OpenInv, LiveTyped
  <2>. QED  BY <2>1, <2>2, <2>3, DisconnectStep
<1>. QED  BY <1>1, <1>2, <1>3

-----------------------------------------------------------------------------
(* Acquiring and disposing of a runtime.                                   *)

\* A step of a runtime leaves everything but its LiveSession and the maps.
RuntimeStepRest ==
    UNCHANGED <<stage, sessionIds, command, received, terminator, closing, closer>>

\* The parts that no such step disturbs, as long as the runtime's count stays
\* and it neither begins nor stops to be one that commands wait for.
LEMMA RuntimeChanges ==
    ASSUME OpenInv, RuntimeStepRest, NEW l \in Commands, NEW new \in LiveObject,
           live' = [live EXCEPT ![l] = new],
           liveSessions' \in [Sessions -> Commands \cup {None}],
           openingSessions' \in [Sessions -> Commands \cup {None}],
           Sound(new), new.operationCount = live[l].operationCount,
           new.runtime # "none", live[l].runtime # "none",
           live[l].runtime \in Begun => new.runtime \in Begun,
           new.runtime = "open" => SeenTo(l)
    PROVE  LiveTyped' /\ FieldsMatch' /\ WaitersMatch' /\ OperationsCounted'
           /\ UnusedIsDisposed'
<1>1. /\ live \in [Commands -> LiveObject] /\ live'[l] = new
      /\ live' \in [Commands -> LiveObject]
      /\ \A k \in Commands : k # l => live'[k] = live[k]
  BY DEF OpenInv, LiveTyped
<1>2. LiveTyped'
  BY <1>1 DEF OpenInv, LiveTyped, RuntimeStepRest
<1>3. FieldsMatch'
  BY <1>1 DEF OpenInv, FieldsMatch
<1>4. \A k \in Commands :
        /\ live[k].runtime = "none" <=> live'[k].runtime = "none"
        /\ live[k].runtime \in Begun => live'[k].runtime \in Begun
        /\ live'[k].operationCount = live[k].operationCount
  BY <1>1
<1>5. WaitersMatch'
  BY <1>4 DEF OpenInv, WaitersMatch, RuntimeStepRest
<1>6. OperationsCounted'
  BY <1>4 DEF OpenInv, OperationsCounted, Operations, RuntimeStepRest
<1>7. ASSUME NEW k \in Commands, live'[k].runtime = "open" /\ Disposable(live[k])'
      PROVE  SeenTo(k)'
  <2>1. SeenTo(k)
    <3>1. CASE k = l
      BY <1>1, <1>7, <3>1
    <3>2. CASE k # l
      BY <1>1, <1>7, <3>2 DEF OpenInv, UnusedIsDisposed, SeenTo, Disposable,
         RuntimeStepRest
    <3>. QED  BY <3>1, <3>2
  <2>. QED  BY <2>1 DEF SeenTo, RuntimeStepRest
<1>8. UnusedIsDisposed'
  BY <1>7 DEF UnusedIsDisposed, SeenTo
<1>. QED  BY <1>2, <1>3, <1>5, <1>6, <1>8

\* A runtime on its way from opening to its first snapshot, or back
\* (LiveSessionManager.create).
LEMMA AcquiringStep ==
    ASSUME OpenInv, NEW l \in Commands, RuntimeAcquired(l) \/ StartFails(l)
    PROVE  OpenInv'
<1>. DEFINE old == live[l]
<1>1. /\ old \in LiveObject /\ Sound(old) /\ old.runtime \in Acquiring
      /\ live \in [Commands -> LiveObject] /\ ~closing
  BY DEF OpenInv, LiveTyped, FieldsMatch, RuntimeAcquired, StartFails, Acquiring
<1>2. RuntimeStepRest /\ UNCHANGED <<liveSessions, openingSessions>>
  BY DEF RuntimeAcquired, StartFails, liveRest, connectionVars, commandVars,
     endVars, closeVars, mapVars, RuntimeStepRest
<1>3. PICK to \in {"starting", "aborting"} :
            live' = [live EXCEPT ![l] = [old EXCEPT !.runtime = to]]
  BY <1>1 DEF RuntimeAcquired, StartFails, SetRuntime
<1>. DEFINE new == [old EXCEPT !.runtime = to]
<1>4. /\ new \in LiveObject /\ new.runtime = to /\ new.disposing = old.disposing
      /\ new.operationCount = old.operationCount /\ new.subscribed = old.subscribed
  BY <1>1 DEF LiveObject, Acquiring
<1>. HIDE DEF new
<1>5. Sound(new) /\ new.runtime \in Acquiring /\ new.runtime \notin Begun
  BY <1>1, <1>4 DEF Sound, Acquiring, Begun, Ready
<1>6. live' = [live EXCEPT ![l] = new]
  BY <1>3 DEF new
<1>7. LiveTyped' /\ FieldsMatch' /\ WaitersMatch' /\ OperationsCounted'
      /\ UnusedIsDisposed'
  <2>1. /\ new.runtime # "none" /\ old.runtime # "none" /\ old.runtime \notin Begun
        /\ new.runtime # "open"
    BY <1>1, <1>5 DEF Acquiring, Begun, Ready
  <2>. QED  BY <1>2, <1>4, <1>5, <1>6, <2>1, RuntimeChanges DEF OpenInv, LiveTyped
<1>8. \A k \in Commands :
        /\ live'[k].runtime \in Acquiring <=> live[k].runtime \in Acquiring
        /\ live'[k].runtime \in Ready <=> live[k].runtime \in Ready
  BY <1>1, <1>5, <1>6 DEF Acquiring, Ready
<1>9. OpeningsMatch' /\ LiveMatch' /\ OneOrTheOther'
  BY <1>2, <1>8, LiveAssumption DEF OpenInv, LiveTyped, OpeningsMatch, LiveMatch,
     OneOrTheOther, SessionOf, RuntimeStepRest
<1>. QED  BY <1>7, <1>9 DEF OpenInv

\* An opening that fails frees the session's place in openingSessions
\* (acquire).
LEMMA OpeningFailsStep ==
    ASSUME OpenInv, NEW l \in Commands, OpeningFails(l)
    PROVE  OpenInv'
<1>. DEFINE old == live[l]
            new == [old EXCEPT !.runtime = "failed"]
<1>1. /\ old \in LiveObject /\ Sound(old) /\ old.runtime \in Acquiring
      /\ live \in [Commands -> LiveObject]
  BY DEF OpenInv, LiveTyped, FieldsMatch, OpeningFails, Acquiring
<1>2. /\ RuntimeStepRest /\ UNCHANGED liveSessions
      /\ openingSessions' = [openingSessions EXCEPT ![SessionOf(l)] = None]
      /\ live' = [live EXCEPT ![l] = new]
  BY DEF OpeningFails, liveRest, connectionVars, commandVars, endVars, closeVars,
     RuntimeStepRest, SetRuntime
<1>3. /\ new \in LiveObject /\ new.runtime = "failed"
      /\ new.operationCount = old.operationCount /\ new.subscribed = old.subscribed
  BY <1>1 DEF LiveObject
<1>. HIDE DEF new
<1>4. Sound(new)
  BY <1>1, <1>3 DEF Sound, Acquiring
<1>5. SessionOf(l) \in Sessions /\ openingSessions[SessionOf(l)] = l
  BY <1>1 DEF OpenInv, OpeningsMatch
<1>6. LiveTyped' /\ FieldsMatch' /\ WaitersMatch' /\ OperationsCounted'
      /\ UnusedIsDisposed'
  <2>1. old.runtime # "none" /\ old.runtime \notin Begun
    BY <1>1 DEF Acquiring, Begun, Ready
  <2>2. openingSessions' \in [Sessions -> Commands \cup {None}]
    BY <1>2 DEF OpenInv, LiveTyped
  <2>. QED  BY <1>2, <1>3, <1>4, <2>1, <2>2, RuntimeChanges DEF OpenInv, LiveTyped
<1>7. /\ live'[l].runtime = "failed"
      /\ \A k \in Commands : k # l => live'[k] = live[k]
  BY <1>1, <1>2, <1>3
<1>8. OpeningsMatch'
  <2>1. ASSUME NEW k \in Commands, live'[k].runtime \in Acquiring
        PROVE  /\ SessionOf(k)' \in Sessions
               /\ openingSessions'[SessionOf(k)'] = k
               /\ command'[k].at = "attach" /\ command'[k].live = k
    <3>1. k # l /\ live[k].runtime \in Acquiring
      BY <1>7, <2>1 DEF Acquiring
    <3>. QED  BY <1>2, <1>5, <3>1 DEF OpenInv, LiveTyped, OpeningsMatch, SessionOf,
         RuntimeStepRest
  <2>2. ASSUME NEW s \in Sessions, openingSessions'[s] # None
        PROVE  /\ live'[openingSessions'[s]].runtime \in Acquiring
               /\ SessionOf(openingSessions[s])' = s
    <3>1. s # SessionOf(l) /\ openingSessions'[s] = openingSessions[s]
      BY <1>2, <1>5, <2>2 DEF OpenInv, LiveTyped
    <3>2. openingSessions[s] \in Commands /\ openingSessions[s] # l
      BY <2>2, <3>1 DEF OpenInv, LiveTyped, OpeningsMatch
    <3>. QED  BY <1>2, <1>7, <2>2, <3>1, <3>2 DEF OpenInv, OpeningsMatch, SessionOf,
         RuntimeStepRest
  <2>. QED  BY <2>1, <2>2 DEF OpeningsMatch
<1>9. LiveMatch'
  <2>1. \A k \in Commands : live'[k].runtime \in Ready <=> live[k].runtime \in Ready
    BY <1>1, <1>7 DEF Ready, Acquiring
  <2>. QED  BY <1>2, <2>1, LiveAssumption DEF OpenInv, LiveTyped, LiveMatch,
       SessionOf, RuntimeStepRest
<1>10. OneOrTheOther'
  BY <1>2, <1>5 DEF OpenInv, LiveTyped, OneOrTheOther
<1>. QED  BY <1>6, <1>8, <1>9, <1>10 DEF OpenInv

\* A runtime that is open moves from openingSessions to liveSessions, and the
\* command that had it opened is about to attach to it (acquire, create).
LEMMA StartedStep ==
    ASSUME OpenInv, NEW l \in Commands, RuntimeStarted(l)
    PROVE  OpenInv'
<1>. DEFINE old == live[l]
            new == [old EXCEPT !.runtime = "open", !.subscribed = TRUE]
            s0 == SessionOf(l)
<1>1. /\ old \in LiveObject /\ Sound(old) /\ old.runtime \in Acquiring
      /\ live \in [Commands -> LiveObject]
  BY DEF OpenInv, LiveTyped, FieldsMatch, RuntimeStarted, Acquiring
<1>2. /\ RuntimeStepRest
      /\ liveSessions' = [liveSessions EXCEPT ![s0] = l]
      /\ openingSessions' = [openingSessions EXCEPT ![s0] = None]
      /\ live' = [live EXCEPT ![l] = new]
  BY DEF RuntimeStarted, liveRest, connectionVars, commandVars, endVars, closeVars,
     RuntimeStepRest
<1>3. /\ new \in LiveObject /\ new.runtime = "open" /\ new.subscribed = TRUE
      /\ new.operationCount = old.operationCount /\ new.disposing = old.disposing
  BY <1>1 DEF LiveObject, Begun, Ready
<1>. HIDE DEF new
<1>4. Sound(new)
  BY <1>1, <1>3 DEF Sound, Acquiring
<1>5. /\ s0 \in Sessions /\ openingSessions[s0] = l /\ liveSessions[s0] = None
      /\ SeenTo(l)
  BY <1>1, LiveAssumption DEF OpenInv, OpeningsMatch, OneOrTheOther, SeenTo, Commands
<1>6. LiveTyped' /\ FieldsMatch' /\ WaitersMatch' /\ OperationsCounted'
      /\ UnusedIsDisposed'
  <2>1. old.runtime # "none" /\ old.runtime \notin Begun
    BY <1>1 DEF Acquiring, Begun, Ready
  <2>2. /\ openingSessions' \in [Sessions -> Commands \cup {None}]
        /\ liveSessions' \in [Sessions -> Commands \cup {None}]
    BY <1>2 DEF OpenInv, LiveTyped
  <2>. QED  BY <1>2, <1>3, <1>4, <1>5, <2>1, <2>2, RuntimeChanges DEF OpenInv, LiveTyped
<1>7. /\ live'[l].runtime = "open"
      /\ \A k \in Commands : k # l => live'[k] = live[k]
  BY <1>1, <1>2, <1>3
<1>8. OpeningsMatch'
  <2>1. ASSUME NEW k \in Commands, live'[k].runtime \in Acquiring
        PROVE  /\ SessionOf(k)' \in Sessions
               /\ openingSessions'[SessionOf(k)'] = k
               /\ command'[k].at = "attach" /\ command'[k].live = k
    <3>1. k # l /\ live[k].runtime \in Acquiring
      BY <1>7, <2>1 DEF Acquiring
    <3>. QED  BY <1>2, <1>5, <3>1 DEF OpenInv, LiveTyped, OpeningsMatch, SessionOf,
         RuntimeStepRest
  <2>2. ASSUME NEW s \in Sessions, openingSessions'[s] # None
        PROVE  /\ live'[openingSessions'[s]].runtime \in Acquiring
               /\ SessionOf(openingSessions[s])' = s
    <3>1. s # s0 /\ openingSessions'[s] = openingSessions[s]
      BY <1>2, <1>5, <2>2 DEF OpenInv, LiveTyped
    <3>2. openingSessions[s] \in Commands /\ openingSessions[s] # l
      BY <2>2, <3>1 DEF OpenInv, LiveTyped, OpeningsMatch
    <3>. QED  BY <1>2, <1>7, <2>2, <3>1, <3>2 DEF OpenInv, OpeningsMatch, SessionOf,
         RuntimeStepRest
  <2>. QED  BY <2>1, <2>2 DEF OpeningsMatch
<1>9. LiveMatch'
  <2>1. ASSUME NEW k \in Commands, live'[k].runtime \in Ready
        PROVE  /\ SessionOf(k)' \in Sessions
               /\ liveSessions'[SessionOf(k)'] = k
    <3>1. CASE k = l
      BY <1>2, <1>5, <3>1 DEF OpenInv, LiveTyped, SessionOf, RuntimeStepRest
    <3>2. CASE k # l
      <4>1. live[k].runtime \in Ready
        BY <1>7, <2>1, <3>2
      <4>2. SessionOf(k) \in Sessions /\ liveSessions[SessionOf(k)] = k
        BY <4>1 DEF OpenInv, LiveMatch
      <4>3. SessionOf(k) # s0
        BY <1>5, <4>2, LiveAssumption DEF Commands
      <4>. QED  BY <1>2, <4>2, <4>3 DEF OpenInv, LiveTyped, SessionOf, RuntimeStepRest
    <3>. QED  BY <3>1, <3>2
  <2>2. ASSUME NEW s \in Sessions, liveSessions'[s] # None
        PROVE  /\ live'[liveSessions'[s]].runtime \in Ready
               /\ SessionOf(liveSessions[s])' = s
    <3>1. CASE s = s0
      BY <1>2, <1>5, <1>7, <3>1 DEF OpenInv, LiveTyped, SessionOf, RuntimeStepRest, Ready
    <3>2. CASE s # s0
      <4>1. /\ liveSessions'[s] = liveSessions[s] /\ liveSessions[s] \in Commands
            /\ liveSessions[s] # l
        BY <1>2, <1>5, <2>2, <3>2 DEF OpenInv, LiveTyped, LiveMatch
      <4>. QED  BY <1>2, <1>7, <2>2, <4>1 DEF OpenInv, LiveMatch, SessionOf,
           RuntimeStepRest
    <3>. QED  BY <3>1, <3>2
  <2>. QED  BY <2>1, <2>2 DEF LiveMatch
<1>10. OneOrTheOther'
  BY <1>2, <1>5 DEF OpenInv, LiveTyped, OneOrTheOther
<1>. QED  BY <1>6, <1>8, <1>9, <1>10 DEF OpenInv

\* A disposed runtime leaves liveSessions, if it is still the one in it
\* (maybeDispose).
LEMMA DisposedStep ==
    ASSUME OpenInv, NEW l \in Commands, RuntimeDisposed(l)
    PROVE  OpenInv'
<1>. DEFINE old == live[l]
            s0 == SessionOf(l)
<1>1. /\ old \in LiveObject /\ Sound(old) /\ old.runtime = "disposing"
      /\ live \in [Commands -> LiveObject]
  BY DEF OpenInv, LiveTyped, FieldsMatch, RuntimeDisposed
<1>2. PICK outcome \in {"settled", "rejected"} : Settle(l, outcome)
  BY DEF RuntimeDisposed
<1>. DEFINE new == [old EXCEPT !.runtime = "disposed", !.disposing = outcome]
<1>3. /\ RuntimeStepRest /\ UNCHANGED openingSessions
      /\ liveSessions' = [s \in Sessions |->
            IF liveSessions[s] = l THEN None ELSE liveSessions[s]]
      /\ live' = [live EXCEPT ![l] = new]
  BY <1>1, <1>2 DEF RuntimeDisposed, Settle, connectionVars, commandVars, endVars,
     closeVars, RuntimeStepRest, Sound
<1>4. /\ new \in LiveObject /\ new.runtime = "disposed"
      /\ new.disposing = outcome /\ new.subscribed = old.subscribed
      /\ new.operationCount = old.operationCount
  BY <1>1 DEF LiveObject, Begun
<1>. HIDE DEF new
<1>5. Sound(new)
  BY <1>1, <1>4 DEF Sound, Acquiring
<1>6. LiveTyped' /\ FieldsMatch' /\ WaitersMatch' /\ OperationsCounted'
      /\ UnusedIsDisposed'
  <2>1. liveSessions' \in [Sessions -> Commands \cup {None}]
    BY <1>3 DEF OpenInv, LiveTyped
  <2>2. new.runtime \in Begun
    BY <1>4 DEF Begun
  <2>. QED  BY <1>1, <1>3, <1>4, <1>5, <2>1, <2>2, RuntimeChanges DEF OpenInv, LiveTyped
<1>7. /\ live'[l].runtime = "disposed"
      /\ \A k \in Commands : k # l => live'[k] = live[k]
  BY <1>1, <1>3, <1>4
<1>8. OpeningsMatch'
  <2>1. \A k \in Commands :
            live'[k].runtime \in Acquiring <=> live[k].runtime \in Acquiring
    BY <1>1, <1>7 DEF Acquiring
  <2>. QED  BY <1>3, <2>1, LiveAssumption DEF OpenInv, LiveTyped, OpeningsMatch,
       SessionOf, RuntimeStepRest
<1>9. LiveMatch'
  <2>1. ASSUME NEW k \in Commands, live'[k].runtime \in Ready
        PROVE  /\ SessionOf(k)' \in Sessions
               /\ liveSessions'[SessionOf(k)'] = k
    <3>1. k # l /\ live[k].runtime \in Ready
      BY <1>7, <2>1 DEF Ready
    <3>. QED  BY <1>3, <3>1 DEF OpenInv, LiveMatch, SessionOf, RuntimeStepRest
  <2>2. ASSUME NEW s \in Sessions, liveSessions'[s] # None
        PROVE  /\ live'[liveSessions'[s]].runtime \in Ready
               /\ SessionOf(liveSessions[s])' = s
    <3>1. /\ liveSessions'[s] = liveSessions[s] /\ liveSessions[s] # l
          /\ liveSessions[s] \in Commands
      BY <1>3, <2>2 DEF OpenInv, LiveTyped
    <3>. QED  BY <1>3, <1>7, <2>2, <3>1 DEF OpenInv, LiveMatch, SessionOf,
         RuntimeStepRest
  <2>. QED  BY <2>1, <2>2 DEF LiveMatch
<1>10. OneOrTheOther'
  BY <1>3 DEF OpenInv, OneOrTheOther
<1>. QED  BY <1>6, <1>8, <1>9, <1>10 DEF OpenInv

-----------------------------------------------------------------------------
(* Commands.                                                               *)

\* The operations that run are finitely many.
LEMMA OperationsFinite == \A l : IsFiniteSet(Operations(l))
<1>1. IsFiniteSet(Commands)
  BY LiveAssumption, FS_Interval DEF Commands
<1>. QED  BY <1>1, FS_Subset DEF Operations

\* A command that neither was nor becomes an operation leaves the counts.
LEMMA OperationsKept ==
    ASSUME OpenInv, NEW t \in Commands, NEW new,
           command' = [command EXCEPT ![t] = new],
           command[t].at # "operation", new.at # "operation",
           \A l \in Commands : live'[l].operationCount = live[l].operationCount
    PROVE  OperationsCounted'
<1>1. \A l : Operations(l)' = Operations(l)
  BY DEF Operations, OpenInv, LiveTyped
<1>. QED  BY <1>1 DEF OpenInv, OperationsCounted

\* An operation of the session begins, and the session counts one more.
LEMMA OperationAdded ==
    ASSUME OpenInv, NEW t \in Commands, NEW l \in Commands, NEW new,
           command' = [command EXCEPT ![t] = new],
           command[t].at # "operation", new.at = "operation", new.live = l,
           live'[l].operationCount = live[l].operationCount + 1,
           \A k \in Commands : k # l => live'[k] = live[k]
    PROVE  OperationsCounted'
<1>1. /\ Operations(l)' = Operations(l) \cup {t} /\ t \notin Operations(l)
      /\ \A k \in Commands : k # l => Operations(k)' = Operations(k)
  BY DEF Operations, OpenInv, LiveTyped
<1>2. Cardinality(Operations(l) \cup {t}) = Cardinality(Operations(l)) + 1
  BY <1>1, OperationsFinite, FS_AddElement
<1>3. \A k \in Commands : live[k].operationCount = Cardinality(Operations(k))
  BY DEF OpenInv, OperationsCounted
<1>4. live'[l].operationCount = Cardinality(Operations(l)')
  BY <1>1, <1>2, <1>3
<1>5. \A k \in Commands :
        k # l => live'[k].operationCount = Cardinality(Operations(k)')
  BY <1>1, <1>3
<1>. QED  BY <1>4, <1>5 DEF OperationsCounted

\* An operation of the session ends, and the session counts one less.
LEMMA OperationRemoved ==
    ASSUME OpenInv, NEW t \in Commands, NEW l \in Commands, NEW new,
           command' = [command EXCEPT ![t] = new],
           command[t].at = "operation", command[t].live = l, new.at # "operation",
           live'[l].operationCount = live[l].operationCount - 1,
           \A k \in Commands : k # l => live'[k] = live[k]
    PROVE  OperationsCounted'
<1>1. /\ Operations(l)' = Operations(l) \ {t} /\ t \in Operations(l)
      /\ \A k \in Commands : k # l => Operations(k)' = Operations(k)
  BY DEF Operations, OpenInv, LiveTyped
<1>2. Cardinality(Operations(l) \ {t}) = Cardinality(Operations(l)) - 1
  BY <1>1, OperationsFinite, FS_RemoveElement
<1>3. \A k \in Commands : live[k].operationCount = Cardinality(Operations(k))
  BY DEF OpenInv, OperationsCounted
<1>4. live'[l].operationCount = Cardinality(Operations(l)')
  BY <1>1, <1>2, <1>3
<1>5. \A k \in Commands :
        k # l => live'[k].operationCount = Cardinality(Operations(k)')
  BY <1>1, <1>3
<1>. QED  BY <1>4, <1>5 DEF OperationsCounted

\* One command goes on, while the maps stay as they are: what it now waits
\* for has to exist, and a session it stops waiting for must not be unused.
LEMMA CommandChanges ==
    ASSUME OpenInv, UNCHANGED <<mapVars, closing, closer, terminator>>,
           stage' = stage,
           sessionIds' \in [Connections -> SUBSET Sessions],
           NEW t \in Commands, NEW new \in Command,
           command' = [command EXCEPT ![t] = new],
           received' \in 0..MaxCommands, received <= received', t <= received',
           live[t].runtime \notin Acquiring,
           live[t].runtime \in Ready => new.session = command[t].session,
           new.at \in {"attach", "disposal"} =>
                new.session \in Sessions /\ new.connection \in Connections,
           new.at = "disposal" => live[t].runtime = "none",
           new.at = "attach" =>
                new.live \in Commands /\ live[new.live].runtime # "none",
           new.at \in {"detach", "operation"} =>
                new.live \in Commands /\ live[new.live].runtime \in Begun,
           live' \in [Commands -> LiveObject],
           OperationsCounted',
           \A l \in Commands :
                /\ Evolves(live'[l], live[l])
                /\ Unused(live'[l]) =>
                    /\ Unused(live[l])
                    /\ command[t].at = "attach" => command[t].live # l
    PROVE  OpenInv'
<1>1. /\ command' \in [Commands -> Command] /\ command'[t] = new
      /\ \A k \in Commands : k # t => command'[k] = command[k]
  BY DEF OpenInv, LiveTyped
<1>2. \A l \in Commands :
        /\ live[l].runtime = "none" <=> live'[l].runtime = "none"
        /\ live[l].runtime \in Begun => live'[l].runtime \in Begun
  BY DEF Evolves, Begun, Ready
<1>3. WaitersMatch'
  <2>1. ASSUME NEW k \in Commands
        PROVE  /\ k > received' => command'[k] = NewCommand
               /\ (k > received' \/ command'[k].at = "disposal") =>
                    live'[k].runtime = "none"
               /\ command'[k].at = "attach" =>
                    /\ command'[k].live \in Commands
                    /\ live'[command'[k].live].runtime # "none"
               /\ command'[k].at \in {"attach", "disposal"} =>
                    /\ command'[k].session \in Sessions
                    /\ command'[k].connection \in Connections
               /\ command'[k].at \in {"detach", "operation"} =>
                    /\ command'[k].live \in Commands
                    /\ live'[command'[k].live].runtime \in Begun
    <3>1. CASE k = t
      <4>1. ~(k > received')
        BY <3>1, LiveAssumption DEF Commands
      <4>. QED  BY <1>1, <1>2, <3>1, <4>1
    <3>2. CASE k # t
      <4>1. k > received' => k > received
        BY LiveAssumption DEF OpenInv, LiveTyped, Commands
      <4>. QED  BY <1>1, <1>2, <3>2, <4>1 DEF OpenInv, WaitersMatch
    <3>. QED  BY <3>1, <3>2
  <2>2. \A l \in Commands :
            terminator'[l].at \in {"close", "disconnect"} => live'[l].runtime \in Begun
    BY <1>2 DEF OpenInv, WaitersMatch
  <2>. QED  BY <2>1, <2>2 DEF WaitersMatch
<1>4. ASSUME NEW l \in Commands, Unused(live'[l]) PROVE SeenTo(l)'
  <2>1. SeenTo(l)
    BY <1>4 DEF OpenInv, LiveTyped, UnusedIsDisposed, Disposable, Unused, SeenTo
  <2>2. CASE terminator[l].at \in {"close", "disconnect"}
    BY <2>2 DEF SeenTo
  <2>3. CASE \E k \in Commands : command[k].at = "attach" /\ command[k].live = l
    BY <1>1, <1>4, <2>3 DEF SeenTo
  <2>. QED  BY <2>1, <2>2, <2>3 DEF SeenTo
<1>5. \A l \in Commands :
        /\ live[l].runtime \in Acquiring => command'[l] = command[l]
        /\ live[l].runtime \in Ready => command'[l].session = command[l].session
  BY <1>1
<1>. QED  BY <1>1, <1>3, <1>4, <1>5, MapsKept DEF OpenInv, LiveTyped

\* One iteration of acquire: the session is live, being opened, or opened
\* now; with neither map naming it no runtime of it is held (acquire).
LEMMA AcquireStep ==
    ASSUME OpenInv, NEW t \in Commands, NEW c \in Connections, NEW s \in Sessions,
           acquire(t, c, s),
           UNCHANGED <<stage, sessionIds, liveSessions, terminator, closing, closer>>,
           received' \in 0..MaxCommands, received <= received', t <= received',
           live[t].runtime = "none",
           command[t].at \in {"none", "disposal"}
    PROVE  OpenInv'
<1>1. /\ live \in [Commands -> LiveObject] /\ \A k \in Commands : Sound(live[k])
      /\ live[t].runtime \notin Acquiring /\ live[t].runtime \notin Ready
      /\ command[t].at # "operation" /\ command[t].at # "attach"
  BY DEF OpenInv, LiveTyped, FieldsMatch, Acquiring, Ready
<1>2. CASE UNCHANGED <<live, openingSessions>>
  <2>1. PICK k \in Commands, at \in {"attach", "done", "disposal"} :
            /\ command' = [command EXCEPT ![t] = At(c, s, k, at)]
            /\ at = "attach" => live[k].runtime # "none"
    <3>1. CASE liveSessions[s] # None
      <4>1. /\ liveSessions[s] \in Commands
            /\ live[liveSessions[s]].runtime # "none"
        BY <3>1 DEF OpenInv, LiveTyped, LiveMatch, Ready
      <4>. DEFINE at == CASE live[liveSessions[s]].terminal -> "done"
                          [] live[liveSessions[s]].disposing # "no" -> "disposal"
                          [] OTHER -> "attach"
      <4>2. command' = [command EXCEPT ![t] = At(c, s, liveSessions[s], at)]
        BY <3>1 DEF acquire, Goes
      <4>3. at \in {"attach", "done", "disposal"}
        BY Zenon
      <4>. HIDE DEF at
      <4>. QED  BY <4>1, <4>2, <4>3
    <3>2. CASE liveSessions[s] = None /\ openingSessions[s] # None
      <4>1. /\ openingSessions[s] \in Commands
            /\ live[openingSessions[s]].runtime # "none"
        BY <3>2 DEF OpenInv, LiveTyped, OpeningsMatch, Acquiring
      <4>2. command' = [command EXCEPT ![t] = At(c, s, openingSessions[s], "attach")]
        BY <3>2 DEF acquire, Goes
      <4>. QED  BY <4>1, <4>2
    <3>3. CASE liveSessions[s] = None /\ openingSessions[s] = None
      <4>1. openingSessions'[s] = t
        BY <3>3 DEF acquire, OpenInv, LiveTyped
      <4>. QED  BY <1>2, <3>3, <4>1, LiveAssumption DEF Commands
    <3>. QED  BY <3>1, <3>2, <3>3
  <2>. DEFINE new == At(c, s, k, at)
  <2>2. /\ new \in Command /\ new.at = at /\ new.live = k
        /\ new.session = s /\ new.connection = c
    BY DEF At, Command
  <2>. HIDE DEF new
  <2>3. command' = [command EXCEPT ![t] = new]
    BY <2>1 DEF new
  <2>4. OperationsCounted'
    BY <1>1, <1>2, <2>2, <2>3, OperationsKept
  <2>5. \A l \in Commands :
            /\ Evolves(live'[l], live[l])
            /\ Unused(live'[l]) =>
                /\ Unused(live[l])
                /\ command[t].at = "attach" => command[t].live # l
    BY <1>1, <1>2 DEF Evolves
  <2>6. UNCHANGED mapVars
    BY <1>2 DEF mapVars
  <2>. QED  BY <1>1, <1>2, <2>1, <2>2, <2>3, <2>4, <2>5, <2>6, CommandChanges
       DEF OpenInv, LiveTyped
<1>3. CASE ~UNCHANGED <<live, openingSessions>>
  <2>. DEFINE new == [live[t] EXCEPT !.runtime = "opening"]
              call == At(c, s, t, "attach")
  <2>1. /\ liveSessions[s] = None /\ openingSessions[s] = None
        /\ command' = [command EXCEPT ![t] = call]
        /\ live' = [live EXCEPT ![t] = new]
        /\ openingSessions' = [openingSessions EXCEPT ![s] = t]
    BY <1>3 DEF acquire, Goes, SetRuntime
  <2>2. /\ new \in LiveObject /\ new.runtime = "opening"
        /\ new.disposing = live[t].disposing /\ new.subscribed = live[t].subscribed
        /\ new.operationCount = live[t].operationCount
        /\ call \in Command /\ call.at = "attach" /\ call.live = t
        /\ call.session = s /\ call.connection = c
    BY <1>1 DEF LiveObject, Acquiring, At, Command
  <2>3. Sound(new)
    BY <1>1, <2>2 DEF Sound, Acquiring
  <2>. HIDE DEF new, call
  <2>4. /\ live' \in [Commands -> LiveObject] /\ live'[t] = new
        /\ \A k \in Commands : k # t => live'[k] = live[k]
        /\ command' \in [Commands -> Command] /\ command'[t] = call
        /\ \A k \in Commands : k # t => command'[k] = command[k]
        /\ openingSessions' \in [Sessions -> Commands \cup {None}]
        /\ openingSessions'[s] = t
        /\ \A x \in Sessions : x # s => openingSessions'[x] = openingSessions[x]
    BY <1>1, <2>1, <2>2 DEF OpenInv, LiveTyped
  <2>5. LiveTyped'
    BY <2>4 DEF OpenInv, LiveTyped
  <2>6. OpeningsMatch'
    <3>1. ASSUME NEW k \in Commands, live'[k].runtime \in Acquiring
          PROVE  /\ SessionOf(k)' \in Sessions
                 /\ openingSessions'[SessionOf(k)'] = k
                 /\ command'[k].at = "attach" /\ command'[k].live = k
      <4>1. CASE k = t
        BY <2>2, <2>4, <4>1 DEF SessionOf
      <4>2. CASE k # t
        <5>1. /\ SessionOf(k) \in Sessions /\ openingSessions[SessionOf(k)] = k
              /\ command[k].at = "attach" /\ command[k].live = k
          BY <2>4, <3>1, <4>2 DEF OpenInv, OpeningsMatch
        <5>2. SessionOf(k) # s
          BY <2>1, <5>1, LiveAssumption DEF Commands
        <5>. QED  BY <2>4, <4>2, <5>1, <5>2 DEF SessionOf
      <4>. QED  BY <4>1, <4>2
    <3>2. ASSUME NEW x \in Sessions, openingSessions'[x] # None
          PROVE  /\ live'[openingSessions'[x]].runtime \in Acquiring
                 /\ SessionOf(openingSessions[x])' = x
      <4>1. CASE x = s
        BY <2>2, <2>4, <4>1 DEF SessionOf, Acquiring
      <4>2. CASE x # s
        <5>1. /\ openingSessions'[x] = openingSessions[x]
              /\ openingSessions[x] \in Commands
              /\ live[openingSessions[x]].runtime \in Acquiring
              /\ SessionOf(openingSessions[x]) = x
          BY <2>4, <3>2, <4>2 DEF OpenInv, LiveTyped, OpeningsMatch
        <5>2. openingSessions[x] # t
          BY <1>1, <5>1
        <5>. QED  BY <2>4, <5>1, <5>2 DEF SessionOf
      <4>. QED  BY <4>1, <4>2
    <3>. QED  BY <3>1, <3>2 DEF OpeningsMatch
  <2>7. LiveMatch'
    <3>1. ASSUME NEW k \in Commands, live'[k].runtime \in Ready
          PROVE  SessionOf(k)' \in Sessions /\ liveSessions'[SessionOf(k)'] = k
      <4>1. k # t /\ live[k].runtime \in Ready
        BY <2>2, <2>4, <3>1 DEF Ready
      <4>. QED  BY <2>4, <4>1 DEF OpenInv, LiveMatch, SessionOf
    <3>2. ASSUME NEW x \in Sessions, liveSessions'[x] # None
          PROVE  /\ live'[liveSessions'[x]].runtime \in Ready
                 /\ SessionOf(liveSessions[x])' = x
      <4>1. /\ liveSessions[x] \in Commands /\ live[liveSessions[x]].runtime \in Ready
            /\ SessionOf(liveSessions[x]) = x
        BY <3>2 DEF OpenInv, LiveTyped, LiveMatch
      <4>2. liveSessions[x] # t
        BY <1>1, <4>1
      <4>. QED  BY <2>4, <4>1, <4>2 DEF SessionOf
    <3>. QED  BY <3>1, <3>2 DEF LiveMatch
  <2>8. OneOrTheOther'
    BY <2>1, <2>4 DEF OpenInv, OneOrTheOther
  <2>9. FieldsMatch'
    BY <1>1, <2>3, <2>4 DEF FieldsMatch
  <2>10. WaitersMatch'
    <3>1. \A k \in Commands :
            /\ live[k].runtime # "none" => live'[k].runtime # "none"
            /\ k # t => live'[k].runtime = live[k].runtime
            /\ live[k].runtime \in Begun => live'[k].runtime \in Begun
      BY <1>1, <2>2, <2>4 DEF Begun, Ready
    <3>2. ASSUME NEW k \in Commands
          PROVE  /\ k > received' => command'[k] = NewCommand
                 /\ (k > received' \/ command'[k].at = "disposal") =>
                    live'[k].runtime = "none"
                 /\ command'[k].at = "attach" =>
                    /\ command'[k].live \in Commands
                    /\ live'[command'[k].live].runtime # "none"
                 /\ command'[k].at \in {"attach", "disposal"} =>
                    /\ command'[k].session \in Sessions
                    /\ command'[k].connection \in Connections
                 /\ command'[k].at \in {"detach", "operation"} =>
                    /\ command'[k].live \in Commands
                    /\ live'[command'[k].live].runtime \in Begun
      <4>1. CASE k = t
        <5>1. ~(k > received')
          BY <4>1, LiveAssumption DEF Commands
        <5>. QED  BY <2>2, <2>4, <4>1, <5>1
      <4>2. CASE k # t
        <5>1. k > received' => k > received
          BY LiveAssumption DEF OpenInv, LiveTyped, Commands
        <5>. QED  BY <2>4, <3>1, <4>2, <5>1 DEF OpenInv, WaitersMatch
      <4>. QED  BY <4>1, <4>2
    <3>3. \A l \in Commands :
            terminator'[l].at \in {"close", "disconnect"} => live'[l].runtime \in Begun
      BY <3>1 DEF OpenInv, WaitersMatch
    <3>. QED  BY <3>2, <3>3 DEF WaitersMatch
  <2>11. OperationsCounted'
    <3>1. \A k \in Commands : live'[k].operationCount = live[k].operationCount
      BY <2>2, <2>4
    <3>. QED  BY <1>1, <2>1, <2>2, <3>1, OperationsKept
  <2>12. UnusedIsDisposed'
    <3>1. ASSUME NEW l \in Commands, live'[l].runtime = "open" /\ Disposable(live[l])'
          PROVE  SeenTo(l)'
      <4>1. l # t /\ live'[l] = live[l]
        BY <2>2, <2>4, <3>1
      <4>2. SeenTo(l)
        BY <3>1, <4>1 DEF OpenInv, UnusedIsDisposed, SeenTo, Disposable
      <4>. QED  BY <1>1, <2>4, <4>2 DEF SeenTo
    <3>. QED  BY <3>1 DEF UnusedIsDisposed, SeenTo
  <2>. QED  BY <2>5, <2>6, <2>7, <2>8, <2>9, <2>10, <2>11, <2>12 DEF OpenInv
<1>. QED  BY <1>2, <1>3

\* The commands that create or attach to a session, and those that waited for
\* its disposal (acquire).
LEMMA AcquireSteps ==
    ASSUME OpenInv,
           \/ \E c \in Connections, s \in Sessions : attachCommand(c, s)
           \/ \E t \in Commands : acquireAgain(t)
    PROVE  OpenInv'
<1>1. ASSUME NEW c \in Connections, NEW s \in Sessions, attachCommand(c, s)
      PROVE  OpenInv'
  <2>. DEFINE t == received + 1
  <2>1. /\ t \in Commands /\ received' = t /\ t > received
        /\ received' \in 0..MaxCommands /\ received <= received' /\ t <= received'
    BY <1>1, LiveAssumption DEF attachCommand, Receive, OpenInv, LiveTyped, Commands
  <2>2. live[t].runtime = "none" /\ command[t].at = "none"
    BY <2>1 DEF OpenInv, WaitersMatch, NewCommand
  <2>3. /\ acquire(t, c, s)
        /\ UNCHANGED <<stage, sessionIds, liveSessions, terminator, closing, closer>>
    BY <1>1 DEF attachCommand, connectionVars, endVars, closeVars
  <2>. HIDE DEF t
  <2>. QED  BY <2>1, <2>2, <2>3, AcquireStep
<1>2. ASSUME NEW t \in Commands, acquireAgain(t) PROVE OpenInv'
  <2>1. /\ command[t].at = "disposal" /\ live[t].runtime = "none"
        /\ command[t].session \in Sessions /\ command[t].connection \in Connections
        /\ received' = received /\ received \in 0..MaxCommands
        /\ UNCHANGED <<stage, sessionIds, liveSessions, terminator, closing, closer>>
    BY <1>2 DEF acquireAgain, connectionVars, endVars, closeVars, OpenInv, LiveTyped,
       WaitersMatch
  <2>2. t <= received /\ received <= received
    <3>1. ~(t > received)
      BY <2>1 DEF OpenInv, WaitersMatch, NewCommand
    <3>. QED  BY <2>1, <3>1, LiveAssumption DEF Commands
  <2>3. CASE acquire(t, command[t].connection, command[t].session)
    BY <2>1, <2>2, <2>3, AcquireStep
  <2>4. CASE /\ command' = [command EXCEPT ![t].at = "done"]
             /\ UNCHANGED <<live, openingSessions>>
    <3>. DEFINE new == [command[t] EXCEPT !.at = "done"]
    <3>1. /\ command[t] \in Command /\ live \in [Commands -> LiveObject]
          /\ live[t].runtime \notin Acquiring
      BY <2>1 DEF OpenInv, LiveTyped, Acquiring
    <3>2. /\ new \in Command /\ new.at = "done"
          /\ new.session = command[t].session
      BY <3>1 DEF Command
    <3>. HIDE DEF new
    <3>3. command' = [command EXCEPT ![t] = new]
      BY <2>4 DEF new
    <3>4. OperationsCounted'
      BY <2>1, <2>4, <3>2, <3>3, OperationsKept
    <3>5. \A l \in Commands :
            /\ Evolves(live'[l], live[l])
            /\ Unused(live'[l]) =>
                /\ Unused(live[l])
                /\ command[t].at = "attach" => command[t].live # l
      BY <2>1, <2>4, <3>1 DEF OpenInv, FieldsMatch, Evolves
    <3>. QED  BY <2>1, <2>2, <2>4, <3>1, <3>2, <3>3, <3>4, <3>5, CommandChanges
         DEF mapVars, OpenInv, LiveTyped
  <2>. QED  BY <1>2, <2>3, <2>4 DEF acquireAgain
<1>. QED  BY <1>1, <1>2

\* A command that goes on with the LiveSession it waited for, which may only
\* begin to be disposed of (attach, detach, runOperation after their awaits).
LEMMA ContinueStep ==
    ASSUME OpenInv, NEW t \in Commands, command[t].at # "none",
           live[t].runtime \notin Acquiring,
           UNCHANGED <<stage, received, mapVars, terminator, closing, closer>>,
           sessionIds' \in [Connections -> SUBSET Sessions],
           NEW at \in {"done", "release"},
           command' = [command EXCEPT ![t].at = at],
           NEW l \in Commands, NEW new \in LiveObject,
           live' = [live EXCEPT ![l] = new],
           Evolves(new, live[l]),
           Unused(new) => Unused(live[l]) /\ command[t].at # "attach",
           command[t].at = "attach" => command[t].live = l,
           OperationsCounted'
    PROVE  OpenInv'
<1>. DEFINE call == [command[t] EXCEPT !.at = at]
<1>1. /\ command[t] \in Command /\ live \in [Commands -> LiveObject]
      /\ received \in 0..MaxCommands /\ received <= received
  BY LiveAssumption DEF OpenInv, LiveTyped
<1>2. t <= received
  <2>1. ~(t > received)
    BY DEF OpenInv, WaitersMatch, NewCommand
  <2>. QED  BY <1>1, <2>1, LiveAssumption DEF Commands
<1>3. call \in Command /\ call.at = at /\ call.session = command[t].session
  BY <1>1 DEF Command
<1>. HIDE DEF call
<1>4. command' = [command EXCEPT ![t] = call]
  BY DEF call
<1>5. /\ live' \in [Commands -> LiveObject] /\ live'[l] = new
      /\ \A k \in Commands : k # l => live'[k] = live[k]
  BY <1>1
<1>6. \A k \in Commands :
        /\ Evolves(live'[k], live[k])
        /\ Unused(live'[k]) =>
            /\ Unused(live[k])
            /\ command[t].at = "attach" => command[t].live # k
  <2>1. \A k \in Commands : live[k] \in LiveObject /\ Sound(live[k])
    BY <1>1 DEF OpenInv, FieldsMatch
  <2>. QED  BY <1>5, <2>1 DEF Evolves
<1>. QED  BY <1>1, <1>2, <1>3, <1>4, <1>5, <1>6, CommandChanges

\* attach, once acquire returned: either the connection keeps the session in
\* use or maybeDispose sees to it (attach).
LEMMA AttachStep ==
    ASSUME OpenInv, NEW t \in Commands, attach(t)
    PROVE  OpenInv'
<1>. DEFINE l == command[t].live
            old == live[l]
            c == command[t].connection
<1>1. /\ command[t].at = "attach" /\ l \in Commands /\ old.runtime \notin Acquiring
      /\ old.runtime # "none" /\ old \in LiveObject /\ Sound(old) /\ ~closing
      /\ c \in Connections /\ command[t].session \in Sessions
      /\ live \in [Commands -> LiveObject]
      /\ UNCHANGED <<stage, received, mapVars, terminator, closing, closer>>
  BY DEF attach, OpenInv, LiveTyped, WaitersMatch, FieldsMatch, endVars, closeVars
<1>2. live[t].runtime \notin Acquiring
  BY <1>1 DEF OpenInv, OpeningsMatch
<1>3. CASE old.runtime = "failed"
  <2>1. /\ command' = [command EXCEPT ![t].at = "done"]
        /\ UNCHANGED <<live, sessionIds>>
    BY <1>3 DEF attach
  <2>2. live' = [live EXCEPT ![l] = old]
    BY <1>1, <2>1
  <2>3. OperationsCounted'
    <3>1. command' = [command EXCEPT ![t] = [command[t] EXCEPT !.at = "done"]]
      BY <2>1
    <3>2. [command[t] EXCEPT !.at = "done"].at # "operation"
      BY DEF OpenInv, LiveTyped, Command
    <3>. QED  BY <1>1, <2>1, <3>1, <3>2, OperationsKept
  <2>4. Evolves(old, old) /\ ~Unused(old)
    BY <1>1, <1>3 DEF Evolves, Unused
  <2>. QED  BY <1>1, <1>2, <2>1, <2>2, <2>3, <2>4, ContinueStep DEF OpenInv, LiveTyped
<1>4. CASE old.runtime # "failed"
  <2>1. old.runtime \in Begun
    BY <1>1, <1>4 DEF LiveObject
  <2>2. CASE stage[c] # "ready"
    <3>. DEFINE new == maybeDispose(old)
                at == AfterDispose(live'[l])
    <3>1. /\ command' = [command EXCEPT ![t].at = at]
          /\ live' = [live EXCEPT ![l] = new] /\ sessionIds' = sessionIds
      BY <1>4, <2>2 DEF attach
    <3>2. /\ Evolves(new, old) /\ ~Unused(new)
          /\ new.operationCount = old.operationCount /\ at \in {"done", "release"}
      BY <1>1, <2>1, MaybeDisposed DEF AfterDispose
    <3>. HIDE DEF new, at
    <3>3. new \in LiveObject
      BY <3>2 DEF Evolves
    <3>4. OperationsCounted'
      <4>1. command' = [command EXCEPT ![t] = [command[t] EXCEPT !.at = at]]
        BY <3>1
      <4>2. [command[t] EXCEPT !.at = at].at # "operation"
        BY <3>2 DEF OpenInv, LiveTyped, Command
      <4>3. \A k \in Commands : live'[k].operationCount = live[k].operationCount
        BY <1>1, <3>1, <3>2
      <4>. QED  BY <1>1, <4>1, <4>2, <4>3, OperationsKept
    <3>. QED  BY <1>1, <1>2, <3>1, <3>2, <3>3, <3>4, ContinueStep DEF OpenInv, LiveTyped
  <2>3. CASE stage[c] = "ready"
    <3>. DEFINE new == [old EXCEPT !.connections = @ \cup {c}]
    <3>1. /\ command' = [command EXCEPT ![t].at = "done"]
          /\ live' = [live EXCEPT ![l] = new]
          /\ sessionIds' = [sessionIds EXCEPT ![c] = @ \cup {command[t].session}]
      BY <1>4, <2>3 DEF attach
    <3>2. /\ new \in LiveObject /\ new.runtime = old.runtime
          /\ new.disposing = old.disposing /\ new.subscribed = old.subscribed
          /\ new.terminal = old.terminal /\ new.connections # {}
          /\ new.operationCount = old.operationCount
      BY <1>1 DEF LiveObject
    <3>. HIDE DEF new
    <3>3. Evolves(new, old) /\ ~Unused(new)
      BY <1>1, <3>2 DEF Evolves, Sound, Unused
    <3>4. OperationsCounted'
      <4>1. command' = [command EXCEPT ![t] = [command[t] EXCEPT !.at = "done"]]
        BY <3>1
      <4>2. [command[t] EXCEPT !.at = "done"].at # "operation"
        BY DEF OpenInv, LiveTyped, Command
      <4>3. \A k \in Commands : live'[k].operationCount = live[k].operationCount
        BY <1>1, <3>1, <3>2
      <4>. QED  BY <1>1, <4>1, <4>2, <4>3, OperationsKept
    <3>5. sessionIds' \in [Connections -> SUBSET Sessions]
      BY <1>1, <3>1 DEF OpenInv, LiveTyped
    <3>. QED  BY <1>1, <1>2, <3>1, <3>2, <3>3, <3>4, <3>5, ContinueStep
  <2>. QED  BY <2>2, <2>3
<1>. QED  BY <1>3, <1>4

\* Commands whose awaited snapshot, operation or disposal settled
\* (detach, runOperation).
LEMMA EndSteps ==
    ASSUME OpenInv, NEW t \in Commands,
           detachEnds(t) \/ operationEnds(t) \/ Released(t)
    PROVE  OpenInv'
<1>. DEFINE l == command[t].live
            old == live[l]
<1>1. /\ command[t].at \in {"detach", "operation", "release"} /\ ~closing
      /\ live \in [Commands -> LiveObject]
      /\ UNCHANGED <<stage, sessionIds, received, mapVars, terminator, closing, closer>>
  BY DEF detachEnds, operationEnds, Released, OpenInv, LiveTyped, connectionVars,
     endVars, closeVars
<1>2. live[t].runtime \notin Acquiring
  BY <1>1 DEF OpenInv, OpeningsMatch
<1>3. ASSUME command[t].at # "release"
      PROVE  l \in Commands /\ old \in LiveObject /\ Sound(old) /\ old.runtime \in Begun
  BY <1>1, <1>3 DEF OpenInv, LiveTyped, WaitersMatch, FieldsMatch
<1>4. ASSUME NEW at \in {"done", "release"}, command[t].at # "operation",
             command' = [command EXCEPT ![t].at = at],
             \A k \in Commands : live'[k].operationCount = live[k].operationCount
      PROVE  OperationsCounted'
  <2>1. command' = [command EXCEPT ![t] = [command[t] EXCEPT !.at = at]]
    BY <1>4
  <2>2. [command[t] EXCEPT !.at = at].at # "operation"
    BY DEF OpenInv, LiveTyped, Command
  <2>. QED  BY <1>4, <2>1, <2>2, OperationsKept
<1>5. CASE UNCHANGED live /\ command' = [command EXCEPT ![t].at = "done"]
           /\ command[t].at # "operation"
  <2>1. live[t] \in LiveObject /\ Sound(live[t])
    BY <1>1 DEF OpenInv, FieldsMatch
  <2>2. live' = [live EXCEPT ![t] = live[t]] /\ Evolves(live[t], live[t])
    BY <1>1, <1>5, <2>1 DEF Evolves
  <2>3. OperationsCounted'
    BY <1>4, <1>5
  <2>. QED  BY <1>1, <1>2, <1>5, <2>1, <2>2, <2>3, ContinueStep DEF OpenInv, LiveTyped
<1>6. CASE /\ command[t].at = "detach"
           /\ live' = [live EXCEPT ![l] = maybeDispose(@)]
           /\ command' = [command EXCEPT ![t].at = AfterDispose(live'[l])]
  <2>. DEFINE new == maybeDispose(old)
              at == AfterDispose(live'[l])
  <2>1. /\ Evolves(new, old) /\ ~Unused(new) /\ l \in Commands
        /\ new.operationCount = old.operationCount /\ at \in {"done", "release"}
    BY <1>1, <1>3, <1>6, MaybeDisposed DEF AfterDispose
  <2>2. /\ live' = [live EXCEPT ![l] = new]
        /\ command' = [command EXCEPT ![t].at = at]
    BY <1>6
  <2>. HIDE DEF new, at
  <2>3. new \in LiveObject
    BY <2>1 DEF Evolves
  <2>4. \A k \in Commands : live'[k].operationCount = live[k].operationCount
    BY <1>1, <2>1, <2>2
  <2>5. OperationsCounted'
    BY <1>4, <1>6, <2>1, <2>2, <2>4
  <2>. QED  BY <1>1, <1>2, <1>6, <2>1, <2>2, <2>3, <2>5, ContinueStep DEF OpenInv, LiveTyped
<1>7. CASE operationEnds(t)
  <2>. DEFINE fewer == [old EXCEPT !.operationCount = @ - 1]
              new == maybeDispose(fewer)
  <2>1. /\ command[t].at = "operation"
        /\ live' = [live EXCEPT ![l] = new]
        /\ command' = [command EXCEPT ![t].at = "done"]
    BY <1>7 DEF operationEnds
  <2>2. l \in Commands /\ old \in LiveObject /\ Sound(old) /\ old.runtime \in Begun
    BY <1>3, <2>1
  <2>3. /\ fewer \in LiveObject /\ fewer.operationCount = old.operationCount - 1
        /\ fewer.runtime = old.runtime /\ fewer.disposing = old.disposing
        /\ fewer.subscribed = old.subscribed /\ fewer.terminal = old.terminal
    BY <2>2 DEF LiveObject
  <2>. HIDE DEF fewer
  <2>4. Sound(fewer) /\ fewer.runtime \in Begun
    BY <2>2, <2>3 DEF Sound
  <2>5. /\ Evolves(new, fewer) /\ ~Unused(new)
        /\ new.operationCount = old.operationCount - 1
    BY <1>1, <2>3, <2>4, MaybeDisposed
  <2>. HIDE DEF new
  <2>6. new \in LiveObject /\ Evolves(new, old)
    BY <2>3, <2>5 DEF Evolves
  <2>7. OperationsCounted'
    <3>. DEFINE call == [command[t] EXCEPT !.at = "done"]
    <3>1. command' = [command EXCEPT ![t] = call]
      BY <2>1
    <3>2. call.at # "operation"
      BY DEF OpenInv, LiveTyped, Command
    <3>. HIDE DEF call
    <3>3. /\ live'[l].operationCount = old.operationCount - 1
          /\ \A k \in Commands : k # l => live'[k] = live[k]
      BY <1>1, <2>1, <2>2, <2>5
    <3>4. PICK k \in Commands : k = l
      BY <2>2
    <3>5. /\ command[t].at = "operation" /\ command[t].live = k
          /\ live'[k].operationCount = live[k].operationCount - 1
          /\ \A j \in Commands : j # k => live'[j] = live[j]
      BY <2>1, <3>3, <3>4
    <3>. QED  BY <3>1, <3>2, <3>5, OperationRemoved
  <2>. QED  BY <1>1, <1>2, <2>1, <2>2, <2>5, <2>6, <2>7, ContinueStep DEF OpenInv, LiveTyped
<1>8. Released(t) => UNCHANGED live /\ command' = [command EXCEPT ![t].at = "done"]
                     /\ command[t].at # "operation"
  BY DEF Released
<1>. QED  BY <1>5, <1>6, <1>7, <1>8 DEF detachEnds

\* A connection detaches: whoever stays keeps the session in use, and without
\* anyone maybeDispose sees to it (detach).
LEMMA DetachStep ==
    ASSUME OpenInv, NEW c \in Connections, NEW s \in Sessions, detach(c, s)
    PROVE  OpenInv'
<1>. DEFINE t == received + 1
            l == liveSessions[s]
            old == live[l]
            left == [old EXCEPT !.connections = @ \ {c}]
            told == left.connections # {} /\ ~left.terminal /\ left.disposing = "no"
<1>1. /\ t \in Commands /\ received' = t /\ t > received
      /\ received' \in 0..MaxCommands /\ received <= received' /\ t <= received'
  BY LiveAssumption DEF detach, Receive, OpenInv, LiveTyped, Commands
<1>2. /\ live[t].runtime = "none" /\ command[t].at = "none"
      /\ live[t].runtime \notin Acquiring /\ live[t].runtime \notin Ready
  BY <1>1 DEF OpenInv, WaitersMatch, NewCommand, Acquiring, Ready
<1>3. /\ live \in [Commands -> LiveObject] /\ ~closing
      /\ sessionIds' \in [Connections -> SUBSET Sessions]
      /\ UNCHANGED <<stage, mapVars, terminator, closing, closer>>
  BY DEF detach, OpenInv, LiveTyped, endVars, closeVars
<1>. HIDE DEF t
<1>4. CASE l = None
  <2>. DEFINE call == At(c, s, None, "done")
  <2>1. command' = [command EXCEPT ![t] = call] /\ live' = live
    BY <1>4 DEF detach, Goes, t
  <2>2. call \in Command /\ call.at = "done" /\ call.session = s
    BY DEF At, Command
  <2>. HIDE DEF call
  <2>3. OperationsCounted'
    BY <1>1, <1>2, <2>1, <2>2, OperationsKept
  <2>4. \A k \in Commands :
            /\ Evolves(live'[k], live[k])
            /\ Unused(live'[k]) =>
                /\ Unused(live[k])
                /\ command[t].at = "attach" => command[t].live # k
    BY <1>2, <1>3, <2>1 DEF OpenInv, FieldsMatch, Evolves
  <2>. QED  BY <1>1, <1>2, <1>3, <2>1, <2>2, <2>3, <2>4, CommandChanges
<1>5. CASE l # None
  <2>1. l \in Commands /\ old \in LiveObject /\ Sound(old) /\ old.runtime \in Begun
    BY <1>3, <1>5 DEF OpenInv, LiveTyped, LiveMatch, FieldsMatch, Begun
  <2>2. /\ left \in LiveObject /\ left.runtime = old.runtime
        /\ left.disposing = old.disposing /\ left.subscribed = old.subscribed
        /\ left.terminal = old.terminal /\ left.operationCount = old.operationCount
    BY <2>1 DEF LiveObject
  <2>. DEFINE new == IF told THEN left ELSE maybeDispose(left)
              at == IF told THEN "detach" ELSE AfterDispose(live'[l])
              call == At(c, s, l, at)
  <2>3. live' = [live EXCEPT ![l] = new] /\ command' = [command EXCEPT ![t] = call]
    BY <1>5 DEF detach, Goes, t
  <2>4. /\ Evolves(new, old) /\ ~Unused(new)
        /\ new.operationCount = old.operationCount
    <3>. HIDE DEF left
    <3>1. Sound(left) /\ left.runtime \in Begun
      BY <2>1, <2>2 DEF Sound
    <3>2. CASE told
      BY <2>2, <3>1, <3>2 DEF Evolves, Unused
    <3>3. CASE ~told
      <4>1. /\ Evolves(maybeDispose(left), left) /\ ~Unused(maybeDispose(left))
            /\ maybeDispose(left).operationCount = left.operationCount
        BY <1>3, <2>2, <3>1, MaybeDisposed
      <4>. HIDE DEF told
      <4>. QED  BY <2>2, <3>3, <4>1 DEF Evolves
    <3>. QED  BY <3>2, <3>3
  <2>5. at \in {"detach", "done", "release"}
    BY DEF AfterDispose
  <2>. HIDE DEF new, at
  <2>6. /\ call \in Command /\ call.at = at /\ call.live = l /\ call.session = s
    BY <2>1, <2>5 DEF At, Command
  <2>. HIDE DEF call
  <2>7. new \in LiveObject
    BY <2>4 DEF Evolves
  <2>8. /\ live' \in [Commands -> LiveObject] /\ live'[l] = new
        /\ \A k \in Commands : k # l => live'[k] = live[k]
    BY <1>3, <2>1, <2>3, <2>7
  <2>9. OperationsCounted'
    <3>1. \A k \in Commands : live'[k].operationCount = live[k].operationCount
      BY <2>4, <2>8
    <3>. QED  BY <1>1, <1>2, <2>3, <2>5, <2>6, <3>1, OperationsKept
  <2>10. \A k \in Commands :
            /\ Evolves(live'[k], live[k])
            /\ Unused(live'[k]) =>
                /\ Unused(live[k])
                /\ command[t].at = "attach" => command[t].live # k
    <3>1. \A k \in Commands : live[k] \in LiveObject /\ Sound(live[k])
      BY <1>3 DEF OpenInv, FieldsMatch
    <3>. QED  BY <1>2, <2>4, <2>8, <3>1 DEF Evolves
  <2>. QED  BY <1>1, <1>2, <1>3, <2>1, <2>3, <2>5, <2>6, <2>8, <2>9, <2>10, CommandChanges
<1>. QED  BY <1>4, <1>5

\* An operation begins: it is counted and keeps the session in use
\* (runOperation).
LEMMA OperationStep ==
    ASSUME OpenInv, NEW c \in Connections, NEW s \in Sessions, runOperation(c, s)
    PROVE  OpenInv'
<1>. DEFINE t == received + 1
            l == liveSessions[s]
            old == live[l]
            new == [old EXCEPT !.operationCount = @ + 1]
            call == At(c, s, l, "operation")
<1>1. /\ t \in Commands /\ received' = t /\ t > received
      /\ received' \in 0..MaxCommands /\ received <= received' /\ t <= received'
  BY LiveAssumption DEF runOperation, Receive, OpenInv, LiveTyped, Commands
<1>2. /\ live[t].runtime = "none" /\ command[t].at = "none"
      /\ live[t].runtime \notin Acquiring /\ live[t].runtime \notin Ready
  BY <1>1 DEF OpenInv, WaitersMatch, NewCommand, Acquiring, Ready
<1>3. /\ live \in [Commands -> LiveObject]
      /\ UNCHANGED <<stage, sessionIds, mapVars, terminator, closing, closer>>
      /\ command' = [command EXCEPT ![t] = call]
      /\ live' = [live EXCEPT ![l] = new]
      /\ l # None
  BY DEF runOperation, requireAttached, Goes, OpenInv, LiveTyped, connectionVars,
     endVars, closeVars
<1>. HIDE DEF t
<1>4. l \in Commands /\ old \in LiveObject /\ Sound(old) /\ old.runtime \in Begun
  BY <1>3 DEF OpenInv, LiveTyped, LiveMatch, FieldsMatch, Begun
<1>5. /\ new \in LiveObject /\ new.runtime = old.runtime
      /\ new.disposing = old.disposing /\ new.subscribed = old.subscribed
      /\ new.terminal = old.terminal /\ new.operationCount = old.operationCount + 1
  BY <1>4 DEF LiveObject
<1>6. /\ call \in Command /\ call.at = "operation" /\ call.live = l
      /\ call.session = s
  BY <1>4 DEF At, Command
<1>. HIDE DEF new, call
<1>7. /\ live' \in [Commands -> LiveObject] /\ live'[l] = new
      /\ \A k \in Commands : k # l => live'[k] = live[k]
  BY <1>3, <1>4, <1>5
<1>8. old.operationCount = Cardinality(Operations(l)) /\ old.operationCount \in Nat
  BY <1>4, OperationsFinite, FS_CardinalityType DEF OpenInv, OperationsCounted
<1>9. OperationsCounted'
  BY <1>1, <1>2, <1>3, <1>4, <1>5, <1>6, <1>7, OperationAdded
<1>10. Evolves(new, old) /\ ~Unused(new)
  BY <1>4, <1>5, <1>8 DEF Evolves, Sound, Unused
<1>11. \A k \in Commands :
        /\ Evolves(live'[k], live[k])
        /\ Unused(live'[k]) =>
            /\ Unused(live[k])
            /\ command[t].at = "attach" => command[t].live # k
  <2>1. \A k \in Commands : live[k] \in LiveObject /\ Sound(live[k])
    BY <1>3 DEF OpenInv, FieldsMatch
  <2>. QED  BY <1>2, <1>7, <1>10, <2>1 DEF Evolves
<1>. QED  BY <1>1, <1>2, <1>3, <1>4, <1>6, <1>7, <1>9, <1>11, CommandChanges
     DEF OpenInv, LiveTyped

-----------------------------------------------------------------------------
(* The theorems.                                                           *)

\* Every step of an open server preserves the invariant; a step that closes
\* the server ends what is claimed.
LEMMA IndInvStep == IndInv /\ [Next]_vars => IndInv'
<1>. SUFFICES ASSUME IndInv, [Next]_vars, ~closing' PROVE OpenInv'
  BY DEF IndInv
<1>1. ~closing /\ OpenInv
  <2>1. closing => closing'
    BY DEF Next, vars, closeVars, endVars, liveRest, attachCommand, detach,
       runOperation, CommandStep, acquireAgain, attach, detachEnds, operationEnds,
       Released, RuntimeStep, RuntimeAcquired, OpeningFails, RuntimeStarted,
       StartFails, RuntimeIdle, RuntimeDisposed, terminateDisconnects,
       terminateEnds, RuntimeBusy, handleRuntimeEvent, terminate,
       ConnectionCloses, Disconnect, close, CloseStep, closeConnections,
       closeDisconnects, closeSessions, closeDisposes, closeEnds
  <2>. QED  BY <2>1 DEF IndInv
<1>2. CASE \E c \in Connections, s \in Sessions :
            attachCommand(c, s) \/ detach(c, s) \/ runOperation(c, s)
  BY <1>1, <1>2, AcquireSteps, DetachStep, OperationStep
<1>3. CASE \E t \in Commands : CommandStep(t)
  BY <1>1, <1>3, AcquireSteps, AttachStep, EndSteps DEF CommandStep
<1>4. ASSUME NEW l \in Commands,
             RuntimeStep(l) \/ RuntimeBusy(l) \/ handleRuntimeEvent(l) \/ terminate(l)
      PROVE  OpenInv'
  <2>1. CASE RuntimeStep(l)
    BY <1>1, <2>1, AcquiringStep, OpeningFailsStep, StartedStep, DisposedStep,
       EventStep, TerminateEndsStep, ConnectionSteps DEF RuntimeStep
  <2>2. CASE RuntimeBusy(l) \/ handleRuntimeEvent(l) \/ terminate(l)
    BY <1>1, <2>2, EventStep, TerminateStep
  <2>. QED  BY <1>4, <2>1, <2>2
<1>5. CASE \E c \in Connections : ConnectionCloses(c) \/ Disconnect(c)
  BY <1>1, <1>5, ConnectionSteps
<1>6. ~close /\ ~CloseStep
  BY <1>1 DEF close, CloseStep, closeConnections, closeDisconnects, closeSessions,
     closeDisposes, closeEnds, OpenInv, LiveTyped
<1>7. CASE UNCHANGED vars
  BY <1>1, <1>7 DEF vars, connectionVars, commandVars, mapVars, endVars, closeVars,
     OpenInv, LiveTyped, OpeningsMatch, LiveMatch, OneOrTheOther, FieldsMatch,
     WaitersMatch, OperationsCounted, Operations, UnusedIsDisposed, Disposable,
     SessionOf
<1>. QED  BY <1>2, <1>3, <1>4, <1>5, <1>6, <1>7 DEF Next

\* The invariant holds until the server is closed.
LEMMA IndInvAlways == Spec => []IndInv
<1>1. Init => IndInv
  BY OpenInvInit DEF IndInv
<1>. QED  BY <1>1, IndInvStep, PTL DEF Spec

\* Until the server is closed, a session has at most one runtime that is
\* being acquired, open or being disposed of, for any number of connections
\* and commands and whatever fails or overlaps (acquire, create,
\* maybeDispose).
THEOREM OneRuntimePerSession == Spec => [](~closing => RuntimesAreExclusive)
<1>1. IndInv => (~closing => RuntimesAreExclusive)
  <2>. SUFFICES ASSUME OpenInv, NEW l \in Commands, NEW k \in Commands,
                       live[l].runtime \in Held, live[k].runtime \in Held,
                       SessionOf(l) = SessionOf(k)
                PROVE  l = k
    BY DEF IndInv, RuntimesAreExclusive
  <2>1. \A x \in Commands : live[x].runtime \in Held =>
            /\ SessionOf(x) \in Sessions
            /\ \/ openingSessions[SessionOf(x)] = x
               \/ liveSessions[SessionOf(x)] = x
    BY DEF OpenInv, OpeningsMatch, LiveMatch, Held, Ready
  <2>. QED  BY <2>1, LiveAssumption DEF OpenInv, OneOrTheOther, Commands
<1>. QED  BY <1>1, IndInvAlways, PTL

\* An open session that nobody uses has somebody who will dispose of it:
\* every path that gives up a session leads to maybeDispose.
THEOREM NothingLeftUnused == Spec => []UnusedIsDisposed
<1>1. IndInv => UnusedIsDisposed
  BY DEF IndInv, OpenInv, UnusedIsDisposed, Disposable
<1>. QED  BY <1>1, IndInvAlways, PTL

\* operationCount never drifts from the operations that run, so that it never
\* goes below zero and a session is not kept, or given up, by a wrong count
\* (runOperation).
THEOREM CountsNeverDrift == Spec => [](~closing => OperationsCounted)
<1>1. IndInv => (~closing => OperationsCounted)
  BY DEF IndInv, OpenInv
<1>. QED  BY <1>1, IndInvAlways, PTL
=============================================================================
