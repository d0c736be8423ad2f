---------------------------- MODULE LiveSessions ----------------------------
(***************************************************************************)
(* The server's live sessions (packages/server/src/sessions.ts) and the    *)
(* connections that use them (server.ts).  A session is opened for the     *)
(* first connection that attaches to it, shared by all of them, and        *)
(* disposed of when nobody uses it.  Commands of all connections run       *)
(* concurrently; an action is the code between two awaits.                 *)
(*                                                                         *)
(* Connections have completed their handshake.  Snapshots, progress and    *)
(* responses carry data only; whether a snapshot can be taken is kept.     *)
(***************************************************************************)
EXTENDS Naturals

CONSTANTS
    Sessions,    \* durable session ids
    Connections,
    None,
    MaxCommands, \* bound on the commands that are ever received
    Events       \* what may happen besides commands and disconnections

(* "open":     createSession or openSession rejects.                       *)
(* "snapshot": a runtime's snapshot() rejects.                             *)
(* "dispose":  a runtime's dispose() rejects.                              *)
(* "progress": a runtime emits events, not only when it becomes idle.      *)
(* "error":    a runtime reports a terminal error.                         *)
(* "close":    the server is closed.                                       *)
ASSUME LiveAssumption ==
    /\ None \notin Sessions /\ None \notin Connections
    /\ MaxCommands \in Nat /\ None \notin 1..MaxCommands
    /\ Events \subseteq {"open", "snapshot", "dispose", "progress",
                           "error", "close"}

\* A command makes at most one LiveSession: it is named after the command.
Commands == 1..MaxCommands

VARIABLES
    stage,           \* ConnectionState.stage: "ready", "closing", "closed"
    sessionIds,      \* ConnectionState.sessionIds
    command,         \* the commands and where each of them waits
    received,        \* how many were received
    live,            \* the LiveSession objects and their runtimes
    liveSessions,    \* the maps of LiveSessionManager
    openingSessions,
    terminator,      \* where each LiveSession's terminate waits
    closing,         \* PiServer.closing
    closer,          \* where PiServer.close waits
    closeWaits       \* the LiveSessions it waits for

connectionVars == <<stage, sessionIds>>
commandVars    == <<command, received>>
mapVars        == <<liveSessions, openingSessions>>
closeVars      == <<closing, closer, closeWaits>>
endVars        == <<terminator, closeVars>>
vars == <<connectionVars, commandVars, live, mapVars, endVars>>

\* A runtime being acquired, then asked for its first snapshot, then open;
\* "aborting" is the dispose() of a failed create.
Acquiring == {"opening", "starting", "aborting"}
Held == Acquiring \cup {"open", "disposing"}

NewLive ==
    [connections |-> {}, operationCount |-> 0, terminal |-> FALSE,
     disposing |-> "no", phase |-> "idle", subscribed |-> FALSE,
     runtime |-> "none"]
NewCommand == [at |-> "none", connection |-> None, session |-> None,
               live |-> None]

Init ==
    /\ stage = [c \in Connections |-> "ready"]
    /\ sessionIds = [c \in Connections |-> {}]
    /\ command = [t \in Commands |-> NewCommand] /\ received = 0
    /\ live = [l \in Commands |-> NewLive]
    /\ liveSessions = [s \in Sessions |-> None]
    /\ openingSessions = [s \in Sessions |-> None]
    /\ terminator = [l \in Commands |-> [at |-> "none", targets |-> {}]]
    /\ closing = FALSE /\ closer = "none" /\ closeWaits = {}

SessionOf(l) == command[l].session

-----------------------------------------------------------------------------
(* maybeDispose, on a LiveSession that is ready.                           *)

Disposable(r) ==
    /\ ~closing
    /\ r.disposing = "no"
    /\ r.connections = {}
    /\ r.operationCount = 0
    /\ r.terminal \/ r.phase = "idle"

maybeDispose(r) ==
    IF Disposable(r)
    THEN [r EXCEPT !.subscribed = FALSE, !.disposing = "pending",
                   !.runtime = "disposing"]
    ELSE r
\* Its caller waits for the disposal it finds or starts.
AfterDispose(r) == IF r.disposing = "pending" THEN "release" ELSE "done"

\* Mutant: the map keeps a session that is gone.
SettleKept(l, outcome) ==
    /\ live' = [live EXCEPT ![l].runtime = "disposed",
            ![l].disposing = IF @ = "pending" THEN outcome ELSE @]
    /\ UNCHANGED liveSessions

\* dispose() settles, whoever called it, and the map lets go of the session.
Settle(l, outcome) ==
    /\ live' = [live EXCEPT ![l].runtime = "disposed",
            ![l].disposing = IF @ = "pending" THEN outcome ELSE @]
    /\ liveSessions' = [s \in Sessions |->
            IF liveSessions[s] = l THEN None ELSE liveSessions[s]]

RuntimeDisposed(l) ==
    /\ live[l].runtime = "disposing"
    /\ \/ Settle(l, "settled")
       \/ "dispose" \in Events /\ Settle(l, "rejected")
    /\ UNCHANGED <<connectionVars, commandVars, openingSessions, endVars>>

-----------------------------------------------------------------------------
(* create: acquiring a runtime.                                            *)

SetRuntime(l, r) == live' = [live EXCEPT ![l].runtime = r]
liveRest == <<connectionVars, commandVars, endVars>>

RuntimeAcquired(l) ==
    /\ live[l].runtime = "opening"
    /\ SetRuntime(l, IF closing THEN "aborting" ELSE "starting")
    /\ UNCHANGED <<liveRest, mapVars>>

\* The promise in openingSessions rejects and is removed.
OpeningFails(l) ==
    /\ \/ live[l].runtime = "opening" /\ "open" \in Events
       \/ live[l].runtime = "aborting"
    /\ SetRuntime(l, "failed")
    /\ openingSessions' = [openingSessions EXCEPT ![SessionOf(l)] = None]
    /\ UNCHANGED <<liveRest, liveSessions>>

RuntimeStarted(l) ==
    /\ live[l].runtime = "starting"
    /\ live' = [live EXCEPT ![l].runtime = "open", ![l].subscribed = TRUE]
    /\ liveSessions' = [liveSessions EXCEPT ![SessionOf(l)] = l]
    /\ openingSessions' = [openingSessions EXCEPT ![SessionOf(l)] = None]
    /\ UNCHANGED liveRest

StartFails(l) ==
    /\ live[l].runtime = "starting" /\ "snapshot" \in Events
    /\ SetRuntime(l, "aborting")
    /\ UNCHANGED <<liveRest, mapVars>>

-----------------------------------------------------------------------------
(* acquire and attach.                                                     *)

At(c, s, l, at) ==
    [at |-> at, connection |-> c, session |-> s, live |-> l]
Goes(t, c, s, l, at) == command' = [command EXCEPT ![t] = At(c, s, l, at)]

\* Mutant: a runtime that is being disposed of is not waited for.
acquireAnew(t, c, s) ==
    LET l == liveSessions[s]
        opening == openingSessions[s]
    IN  IF l # None /\ live[l].disposing = "no"
        THEN Goes(t, c, s, l, "attach") /\ UNCHANGED <<live, openingSessions>>
        ELSE IF opening # None
        THEN Goes(t, c, s, opening, "attach") /\ UNCHANGED <<live, openingSessions>>
        ELSE /\ Goes(t, c, s, t, "attach")
             /\ SetRuntime(t, "opening")
             /\ openingSessions' = [openingSessions EXCEPT ![s] = t]

\* One iteration of acquire's loop, up to its await.
acquire(t, c, s) ==
    LET l == liveSessions[s]
        opening == openingSessions[s]
    IN  \/ /\ l # None
           /\ Goes(t, c, s, l, CASE live[l].terminal -> "done"
                                 [] live[l].disposing # "no" -> "disposal"
                                 [] OTHER -> "attach")
           /\ UNCHANGED <<live, openingSessions>>
        \/ /\ l = None /\ opening # None
           /\ Goes(t, c, s, opening, "attach")
           /\ UNCHANGED <<live, openingSessions>>
        \/ /\ l = None /\ opening = None
           /\ Goes(t, c, s, t, "attach")
           /\ SetRuntime(t, "opening")
           /\ openingSessions' = [openingSessions EXCEPT ![s] = t]

Receive(c) == /\ stage[c] = "ready"
              /\ received < MaxCommands
              /\ received' = received + 1

\* The commands "create" and "attach"; create's id is one nobody knows yet.
attachCommand(c, s) ==
    /\ Receive(c)
    /\ acquire(received + 1, c, s)
    /\ UNCHANGED <<connectionVars, liveSessions, endVars>>

\* The disposal that acquire awaited settles.
acquireAgain(t) ==
    LET x == command[t]
    IN  /\ x.at = "disposal"
        /\ \/ /\ live[x.live].disposing = "settled"
              /\ acquire(t, x.connection, x.session)
           \/ /\ live[x.live].disposing = "rejected"
              /\ command' = [command EXCEPT ![t].at = "done"]
              /\ UNCHANGED <<live, openingSessions>>
        /\ UNCHANGED <<received, connectionVars, liveSessions, endVars>>

\* acquire returned: the connection is looked at again, the session is not.
attach(t) ==
    LET x == command[t]
        l == x.live
    IN  /\ x.at = "attach" /\ live[l].runtime \notin Acquiring
        /\ IF live[l].runtime = "failed"
           THEN /\ command' = [command EXCEPT ![t].at = "done"]
                /\ UNCHANGED <<live, sessionIds>>
           ELSE IF stage[x.connection] # "ready"
           THEN /\ live' = [live EXCEPT ![l] = maybeDispose(@)]
                /\ command' = [command EXCEPT ![t].at = AfterDispose(live'[l])]
                /\ UNCHANGED sessionIds
           ELSE /\ sessionIds' = [sessionIds EXCEPT ![x.connection] =
                                    @ \cup {x.session}]
                /\ live' = [live EXCEPT ![l].connections =
                                    @ \cup {x.connection}]
                /\ command' = [command EXCEPT ![t].at = "done"]
        /\ UNCHANGED <<received, stage, mapVars, endVars>>

\* The disposal that attach or detach awaited settles.
Released(t) ==
    /\ command[t].at = "release" /\ live[command[t].live].disposing # "pending"
    /\ command' = [command EXCEPT ![t].at = "done"]
    /\ UNCHANGED <<received, connectionVars, live, mapVars, endVars>>

-----------------------------------------------------------------------------
(* detach and the operations (prompt, steer, abort, set_model,             *)
(* set_thinking) of an attached connection.                                *)

\* While others stay, they are sent a snapshot before maybeDispose.
detach(c, s) ==
    LET l == liveSessions[s]
        left == [live[l] EXCEPT !.connections = @ \ {c}]
        told == left.connections # {} /\ ~left.terminal /\ left.disposing = "no"
    IN  /\ Receive(c)
        /\ s \in sessionIds[c]
        /\ sessionIds' = [sessionIds EXCEPT ![c] = @ \ {s}]
        /\ IF l = None
           THEN Goes(received + 1, c, s, None, "done") /\ UNCHANGED live
           ELSE /\ live' = [live EXCEPT ![l] = IF told THEN left
                                               ELSE maybeDispose(left)]
                /\ Goes(received + 1, c, s, l, IF told THEN "detach"
                                               ELSE AfterDispose(live'[l]))
        /\ UNCHANGED <<stage, mapVars, endVars>>

\* The snapshot was sent, or could not be taken.
detachEnds(t) ==
    /\ command[t].at = "detach"
    /\ \/ /\ live' = [live EXCEPT ![command[t].live] = maybeDispose(@)]
          /\ command' = [command EXCEPT ![t].at =
                            AfterDispose(live'[command[t].live])]
       \/ /\ "snapshot" \in Events /\ UNCHANGED live
          /\ command' = [command EXCEPT ![t].at = "done"]
    /\ UNCHANGED <<received, connectionVars, mapVars, endVars>>

requireAttached(c, s) ==
    /\ s \in sessionIds[c]
    /\ liveSessions[s] # None
    /\ ~live[liveSessions[s]].terminal
    /\ live[liveSessions[s]].disposing = "no"

runOperation(c, s) ==
    /\ Receive(c)
    /\ requireAttached(c, s)
    /\ Goes(received + 1, c, s, liveSessions[s], "operation")
    /\ live' = [live EXCEPT ![liveSessions[s]].operationCount = @ + 1]
    /\ UNCHANGED <<connectionVars, mapVars, endVars>>

\* The operation, and the snapshot after it, succeeded or failed.
operationEnds(t) ==
    LET l == command[t].live
    IN  /\ command[t].at = "operation"
        /\ command' = [command EXCEPT ![t].at = "done"]
        /\ live' = [live EXCEPT ![l] = maybeDispose(
                        [live[l] EXCEPT !.operationCount = @ - 1])]
        /\ UNCHANGED <<received, connectionVars, mapVars, endVars>>

-----------------------------------------------------------------------------
(* The runtime and its events.                                             *)

\* Work begins during an operation and may go on after it.
RuntimeBusy(l) ==
    /\ live[l].runtime = "open" /\ live[l].operationCount > 0
    /\ live[l].phase = "idle"
    /\ live' = [live EXCEPT ![l].phase = "busy"]
    /\ UNCHANGED <<liveRest, mapVars>>

\* Mutant: a snapshot event does not lead to maybeDispose.
RuntimeIdleKept(l) ==
    /\ live[l].runtime = "open" /\ live[l].phase = "busy"
    /\ live' = [live EXCEPT ![l].phase = "idle"]
    /\ UNCHANGED <<liveRest, mapVars>>
\* A runtime that becomes idle says so with a snapshot event.
RuntimeIdle(l) ==
    LET idle == [live[l] EXCEPT !.phase = "idle"]
    IN  /\ live[l].runtime = "open" /\ live[l].phase = "busy"
        /\ live' = [live EXCEPT ![l] =
                        IF idle.subscribed THEN maybeDispose(idle) ELSE idle]
        /\ UNCHANGED <<liveRest, mapVars>>

\* Any other snapshot or progress event.
handleRuntimeEvent(l) ==
    /\ "progress" \in Events
    /\ live[l].subscribed /\ Disposable(live[l])
    /\ live' = [live EXCEPT ![l] = maybeDispose(@)]
    /\ UNCHANGED <<liveRest, mapVars>>

\* terminate: the connections attached now are asked to close ...
terminate(l) ==
    /\ "error" \in Events
    /\ live[l].subscribed /\ ~live[l].terminal
    /\ live' = [live EXCEPT ![l].terminal = TRUE, ![l].subscribed = FALSE]
    /\ terminator' = [terminator EXCEPT ![l] =
                        [at |-> "close", targets |-> live[l].connections]]
    /\ UNCHANGED <<connectionVars, commandVars, mapVars, closeVars>>

\* PiServer.disconnect of connections, with LiveSessionManager.disconnect.
disconnect(C) ==
    LET gone == {c \in C : stage[c] # "closed"}
        leavers(l) == {c \in gone : \E s \in sessionIds[c] : liveSessions[s] = l}
    IN  /\ stage' = [c \in Connections |->
                        IF c \in gone THEN "closed" ELSE stage[c]]
        /\ sessionIds' = [c \in Connections |->
                        IF c \in gone THEN {} ELSE sessionIds[c]]
        /\ live' = [l \in Commands |->
                        IF leavers(l) = {} THEN live[l]
                        ELSE maybeDispose([live[l] EXCEPT !.connections =
                                                            @ \ leavers(l)])]

\* ... then disconnected ...
terminateDisconnects(l) ==
    /\ terminator[l].at = "close"
    /\ disconnect(terminator[l].targets)
    /\ terminator' = [terminator EXCEPT ![l].at = "disconnect"]
    /\ UNCHANGED <<commandVars, mapVars, closeVars>>

\* ... and then the session, if it was not in use any more.
terminateEnds(l) ==
    /\ terminator[l].at = "disconnect"
    /\ live' = [live EXCEPT ![l] = maybeDispose(@)]
    /\ terminator' = [terminator EXCEPT ![l].at = "done"]
    /\ UNCHANGED <<connectionVars, commandVars, mapVars, closeVars>>

-----------------------------------------------------------------------------
(* Connections that end, and the end of the server.                        *)

\* The transport is closed, or failProtocol is closing it.
ConnectionCloses(c) ==
    /\ stage[c] = "ready"
    /\ stage' = [stage EXCEPT ![c] = "closing"]
    /\ UNCHANGED <<sessionIds, commandVars, live, mapVars, endVars>>

Disconnect(c) ==
    /\ stage[c] = "closing"
    /\ disconnect({c})
    /\ UNCHANGED <<commandVars, mapVars, endVars>>

\* PiServer.close, and while it waits for the listeners to close.
close ==
    /\ "close" \in Events /\ ~closing
    /\ closing' = TRUE /\ closer' = "listeners"
    /\ UNCHANGED <<connectionVars, commandVars, live, mapVars, terminator,
                   closeWaits>>

closeConnections ==
    /\ closer = "listeners"
    /\ stage' = [c \in Connections |->
                    IF stage[c] = "ready" THEN "closing" ELSE stage[c]]
    /\ closer' = "connections"
    /\ UNCHANGED <<sessionIds, commandVars, live, mapVars, terminator, closing,
                   closeWaits>>

closeDisconnects ==
    /\ closer = "connections"
    /\ disconnect(Connections)
    /\ closer' = "sessions"
    /\ UNCHANGED <<commandVars, mapVars, terminator, closing, closeWaits>>

\* LiveSessionManager.close waits for the sessions that are being opened ...
closeSessions ==
    /\ closer = "sessions"
    /\ closeWaits' = {openingSessions[s] : s \in Sessions} \ {None}
    /\ closer' = "opening"
    /\ UNCHANGED <<connectionVars, commandVars, live, mapVars, terminator,
                   closing>>

\* Mutant: sessions in use are left alone.
ClosedByServerUnused(r) ==
    IF r.disposing = "no" /\ r.connections = {} /\ r.operationCount = 0
    THEN [r EXCEPT !.subscribed = FALSE, !.runtime = "disposing"] ELSE r
\* ... and then disposes of every session, in use or not.
ClosedByServer(r) ==
    IF r.disposing = "no"
    THEN [r EXCEPT !.subscribed = FALSE, !.runtime = "disposing"] ELSE r

closeDisposes ==
    LET sessions == {liveSessions[s] : s \in Sessions} \ {None}
    IN  /\ closer = "opening"
        /\ \A l \in closeWaits : live[l].runtime \notin Acquiring
        /\ live' = [l \in Commands |-> IF l \in sessions
                                       THEN ClosedByServer(live[l]) ELSE live[l]]
        /\ liveSessions' = [s \in Sessions |-> None]
        /\ closeWaits' = sessions
        /\ closer' = "disposal"
        /\ UNCHANGED <<connectionVars, commandVars, openingSessions, terminator,
                       closing>>

closeEnds ==
    /\ closer = "disposal"
    /\ \A l \in closeWaits : live[l].runtime = "disposed"
    /\ closer' = "closed"
    /\ UNCHANGED <<connectionVars, commandVars, live, mapVars, terminator,
                   closing, closeWaits>>

-----------------------------------------------------------------------------
CommandStep(t) ==
    \/ acquireAgain(t) \/ attach(t) \/ detachEnds(t) \/ operationEnds(t)
    \/ Released(t)
RuntimeStep(l) ==
    \/ RuntimeAcquired(l) \/ OpeningFails(l) \/ RuntimeStarted(l) \/ StartFails(l)
    \/ RuntimeIdle(l) \/ RuntimeDisposed(l)
    \/ terminateDisconnects(l) \/ terminateEnds(l)
CloseStep ==
    \/ closeConnections \/ closeDisconnects \/ closeSessions \/ closeDisposes
    \/ closeEnds

Next ==
    \/ \E c \in Connections, s \in Sessions :
            attachCommand(c, s) \/ detach(c, s) \/ runOperation(c, s)
    \/ \E t \in Commands : CommandStep(t)
    \/ \E l \in Commands : \/ RuntimeStep(l) \/ RuntimeBusy(l)
                           \/ handleRuntimeEvent(l) \/ terminate(l)
    \/ \E c \in Connections : ConnectionCloses(c) \/ Disconnect(c)
    \/ close \/ CloseStep

Spec == Init /\ [][Next]_vars

\* The event loop resumes what can go on, runtimes answer and finish their
\* work, and a closed transport is noticed; users, errors and the owner of
\* the server are not obliged to do anything.
Fairness ==
    /\ \A t \in Commands : WF_vars(CommandStep(t)) /\ WF_vars(RuntimeStep(t))
    /\ \A c \in Connections : WF_vars(Disconnect(c))
    /\ WF_vars(CloseStep)
FairSpec == Spec /\ Fairness

-----------------------------------------------------------------------------
(* Properties.                                                             *)

\* Runtimes are "exclusively acquired" (types.ts): whatever attachments,
\* disposals and failures overlap, the service is never asked for a session
\* whose last runtime it has not got back yet.
RuntimesAreExclusive ==
    \A l, k \in Commands :
        /\ live[l].runtime \in Held /\ live[k].runtime \in Held
        /\ SessionOf(l) = SessionOf(k)
        => l = k

\* No runtime leaks: an idle session without connections and operations is
\* being disposed of, or a command that is about to attach to it will see to
\* it, or terminate will.
UnusedIsDisposed ==
    \A l \in Commands :
        live[l].runtime = "open" /\ Disposable(live[l]) =>
            \/ \E t \in Commands : command[t].at = "attach" /\ command[t].live = l
            \/ terminator[l].at \in {"close", "disconnect"}

\* Every command is answered (handleRequest): no chain of openings and
\* disposals that commands await, across connections, ends in a cycle or in
\* a promise that nobody settles, also while the server closes.
CommandsSettle ==
    \A t \in Commands :
        command[t].at # "none" ~> command[t].at = "done"

\* LiveSessionManager.close gives every runtime back for good, also those
\* that were being opened or disposed of when it began.
CloseReleasesAll ==
    closing ~> [](\A l \in Commands : live[l].runtime \notin Held)

\* "rejects control from unattached clients" (sessions.test.ts): an operation
\* starts only for a connection that the live session knows.
ControlIsAttached ==
    [][\A t \in Commands :
        command[t].at = "none" /\ command'[t].at = "operation" =>
            command'[t].connection \in live[command'[t].live].connections]_vars
=============================================================================
