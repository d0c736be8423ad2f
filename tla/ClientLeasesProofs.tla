--------------------------- MODULE ClientLeasesProofs ---------------------------
(***************************************************************************)
(* Proofs about ClientLeases, for any number of handles, requests and      *)
(* connections and every failure of the server, as long as user code does  *)
(* not call in between two reactions of the client.                        *)
(*                                                                         *)
(* The argument: at most the last request is unsettled, and what is        *)
(* registered on it and what is queued as a job is, between them, exactly  *)
(* one reaction for every call of acquireSession that is under way.  The   *)
(* queue never mixes reactions of different kinds but in a fixed order.    *)
(*                                                                         *)
(* For the attachment itself: an answer on its way separates what the      *)
(* server said before it took effect from what it says after (HeldInv),    *)
(* and what the client believes is what the server will keep saying unless *)
(* a detach is under way or failed (ViewInv).                              *)
(***************************************************************************)
EXTENDS ClientLeases, FiniteSetTheorems, TLAPS

--------------------------------------------------------------------------------
(* Shapes.                                                                       *)

Kinds == {"attach", "detach", "reconcile"}
AcquireSteps == {"afterAttach", "afterReconciliation", "caught", "afterDetachment"}
ReleaseSteps == {"afterDetach", "releaseFailed"}
ResultSteps == {"settle", "afterAttach", "afterReconciliation", "afterDetach"}

Reaction == [step : AcquireSteps \cup ReleaseSteps \cup {"settle"}, handle : Handles \cup {None},
             ok : BOOLEAN, request : Nat \cup {None}]
Revisions == 0 .. MaxRevision \cup {None}
RequestRecord == [kind : Kinds, state : {"pending", "done"}, settled : BOOLEAN, ok : BOOLEAN,
                  waiters : Seq(Reaction), previous : Revisions]
Command == [kind : Kinds \cup {"prompt"}, request : Nat \cup {None}]
Answer == [request : Nat \cup {None}, ok : BOOLEAN, detached : BOOLEAN, attached : BOOLEAN,
           revision : 0 .. MaxRevision]
Lease == [state : {"unused", "acquiring", "active", "releasing", "released", "failed"},
          mode : {"shared", "exclusive"}, generation : Nat, relinquish : BOOLEAN]

HandleShape == handles \in [Handles -> Lease]
CountShape == count \in Nat /\ exclusive \in Handles \cup {None} /\ generation \in Nat
FlagShape == cleanupRequired \in BOOLEAN /\ attached \in BOOLEAN /\ revision \in Revisions
ConnectionShape == /\ connection \in {"disconnected", "connecting", "connected", "disposed"}
                   /\ connects \in 0 .. MaxConnects
QueueShape == requests \in Seq(RequestRecord) /\ jobs \in Seq(Reaction)
WireShape == toServer \in Seq(Command) /\ toClient \in Seq(Answer)
ServerShape == server \in [attached : BOOLEAN, live : BOOLEAN, revision : 0 .. MaxRevision,
                           serving : Nat \cup {None}, prompts : Nat]

Shape == /\ HandleShape /\ CountShape /\ FlagShape /\ ConnectionShape /\ QueueShape /\ WireShape
         /\ ServerShape

\* Prompts at the server and on their way to it.
PromptsSent == {i \in 1 .. Len(toServer) : toServer[i].kind = "prompt"}
PromptsBounded == server.prompts + Cardinality(PromptsSent) <= MaxPrompts

--------------------------------------------------------------------------------
(* The one request that may be unsettled, and the reactions.                     *)

Newest == Len(requests)
Unsettled == Newest > 0 /\ ~ requests[Newest].settled
Kind == requests[Newest].kind
Waiters == IF Unsettled THEN requests[Newest].waiters ELSE <<>>

\* Every request but the last is settled, and what is settled is not pending.
OneUnsettled ==
    /\ \A i \in 1 .. Newest : requests[i].settled => requests[i].state = "done"
    /\ \A i \in 1 .. Newest : i < Newest => requests[i].settled

\* The reaction that settles a request is queued when its answer has come, behind the others.
Settles ==
    /\ \A k \in DOMAIN jobs : jobs[k].step = "settle" =>
           k = Len(jobs) /\ jobs[k].request = Newest /\ Unsettled /\ requests[Newest].state = "done"
    /\ Unsettled /\ requests[Newest].state = "done" => jobs # <<>> /\ jobs[Len(jobs)].step = "settle"

\* What awaits the unsettled request.
WaitersFit ==
    Unsettled => /\ Waiters # <<>>
                 /\ \A k \in DOMAIN Waiters :
                        /\ Waiters[k].request = Newest
                        /\ Kind = "attach" => Waiters[k].step = "afterAttach"
                        /\ Kind = "reconcile" => Waiters[k].step = "afterReconciliation"
                        /\ Kind = "detach" => Waiters[k].step = IF k = 1 THEN "afterDetach" ELSE "caught"

\* Which reaction may stand before which.
Before(a, b) ==
    \/ a.step = "afterAttach" /\ b.step = "afterAttach"
    \/ a.step = "afterReconciliation" /\ b.step = "afterReconciliation" /\ a.ok = b.ok
    \/ a.step = "afterDetach" /\ b.step = "caught"
    \/ a.step = "caught" /\ b.step \in {"caught", "releaseFailed", "afterDetachment"}
    \/ a.step = "releaseFailed" /\ b.step = "afterDetachment"
    \/ a.step = "afterDetachment" /\ b.step \in {"afterDetachment", "settle"}

JobsOrdered == \A k, l \in DOMAIN jobs : k < l => Before(jobs[k], jobs[l])

\* When a reaction runs, the client is where the code that registered it expects it.
JobFits(j) ==
    /\ j.step \in {"afterAttach", "afterDetach", "caught", "releaseFailed"} =>
           ~ Unsettled /\ ~ cleanupRequired
    /\ j.step = "afterAttach" => Newest > 0 /\ Kind = "attach" /\ j.request = Newest
    /\ j.step = "afterDetach" => Newest > 0 /\ Kind = "detach" /\ j.request = Newest
    /\ j.step = "afterReconciliation" => IF j.ok THEN ~ cleanupRequired ELSE ~ Unsettled
    /\ j.step \in ResultSteps /\ j.ok => connection = "connected"

JobsFit == \A k \in DOMAIN jobs : JobFits(jobs[k])

\* The stored promises are those of the unsettled request, or about to be cleared.
Ahead(step) == jobs # <<>> /\ Head(jobs).step = step
PointersFit ==
    /\ attachment # None => /\ Newest > 0 /\ attachment = Newest /\ Kind = "attach"
                            /\ Unsettled \/ Ahead("afterAttach")
    /\ detachment # None => /\ Newest > 0 /\ detachment = Newest /\ Kind = "detach"
                            /\ Unsettled \/ Ahead("afterDetach")
    /\ reconciliation # None => Unsettled /\ reconciliation = Newest /\ Kind = "reconcile"
    /\ Unsettled => /\ Kind = "attach" => attachment = Newest
                    /\ Kind = "detach" => detachment = Newest
                    /\ Kind = "reconcile" => reconciliation = Newest

\* A cleanup is waited for by the reconciliation and by nothing else.
CleanupFits ==
    /\ cleanupRequired => /\ Unsettled => Kind = "reconcile"
                          /\ \A h \in Handles : ~ Live(h)
    /\ Unsettled /\ Kind = "reconcile" /\ ~ cleanupRequired =>
           Len(jobs) = 1 /\ jobs[1].step = "settle"
    /\ Unsettled /\ Kind = "detach" => \A k \in DOMAIN jobs : jobs[k].step = "settle"

--------------------------------------------------------------------------------
(* The handles behind the reactions.                                             *)

\* A reaction belongs to a call that waits for it; its lease is of this generation
\* unless the connection is gone.
Backed(j) ==
    /\ j.step \in AcquireSteps => j.handle \in Handles /\ Acquiring(j.handle)
    /\ j.step \in ReleaseSteps => j.handle \in Handles /\ handles[j.handle].state = "releasing"
    /\ j.step # "settle" /\ ~ Valid(j.handle) => connection # "connected" /\ count = 0

HandlesBacked == /\ \A k \in DOMAIN jobs : Backed(jobs[k])
                 /\ \A k \in DOMAIN Waiters : Backed(Waiters[k])

\* No call waits for two reactions.
OneReactionEach ==
    /\ \A k, l \in DOMAIN jobs : jobs[k].step # "settle" /\ jobs[l].step # "settle"
            /\ jobs[k].handle = jobs[l].handle => k = l
    /\ \A k, l \in DOMAIN Waiters : Waiters[k].handle = Waiters[l].handle => k = l
    /\ \A k \in DOMAIN jobs, l \in DOMAIN Waiters :
            jobs[k].step # "settle" => jobs[k].handle # Waiters[l].handle

\* Every acquisition under way waits for one.
NobodyForgotten ==
    \A h \in Handles : Acquiring(h) =>
        \/ \E k \in DOMAIN jobs : jobs[k].step # "settle" /\ jobs[k].handle = h
        \/ \E k \in DOMAIN Waiters : Waiters[k].handle = h

\* While a release is under way, no other lease is live.
ReleaserAlone ==
    /\ \A k \in DOMAIN jobs : jobs[k].step \in ReleaseSteps =>
           \A h \in Handles : Live(h) => h = jobs[k].handle
    /\ Unsettled /\ Kind = "detach" => \A h \in Handles : Live(h) => h = Waiters[1].handle

\* The leases of generation g that are held or asked for.
InUse(hs, g) == {h \in Handles : /\ hs[h].state \in {"active", "releasing", "acquiring"}
                                 /\ hs[h].generation = g}
CountIs(hs, g, c, e) ==
    /\ IsFiniteSet(InUse(hs, g)) /\ c = Cardinality(InUse(hs, g))
    /\ \A h \in InUse(hs, g) : hs[h].mode = "exclusive" => e = h /\ c = 1

CountFits ==
    /\ CountIs(handles, generation, count, exclusive)
    /\ \A h \in Handles : handles[h].generation <= generation

--------------------------------------------------------------------------------
(* The wire: a pending request has at most one command or answer on its way.     *)

Commands == {k \in DOMAIN toServer : toServer[k].kind # "prompt"}
Answers == {k \in DOMAIN toClient : toClient[k].request # None}
PendingNow == Newest > 0 /\ requests[Newest].state = "pending"

WireFits ==
    /\ \A k \in Commands : PendingNow /\ toServer[k].request = Newest /\ toServer[k].kind = Kind
    /\ server.serving # None => PendingNow /\ server.serving = Newest
    /\ \A k \in Answers : PendingNow /\ toClient[k].request = Newest
    /\ \A k, l \in Commands : k = l
    /\ \A k, l \in Answers : k = l
    /\ Commands # {} => Answers = {} /\ server.serving = None
    /\ Answers # {} => server.serving = None

\* Without a connection nothing is on its way.
Disconnected ==
    connection # "connected" => /\ ~ attached /\ ~ PendingNow
                                /\ toServer = <<>> /\ toClient = <<>> /\ server.serving = None
                                /\ ~ server.attached /\ server.prompts = 0

IndInv ==
    /\ Shape /\ PromptsBounded
    /\ OneUnsettled /\ Settles /\ WaitersFit /\ JobsOrdered /\ JobsFit /\ PointersFit /\ CleanupFits
    /\ HandlesBacked /\ OneReactionEach /\ NobodyForgotten /\ ReleaserAlone /\ CountFits
    /\ WireFits /\ Disconnected

--------------------------------------------------------------------------------
(* Sequences and counts.                                                         *)

\* What is left of a sequence without its head.
LEMMA TailIs ==
    ASSUME NEW S, NEW s \in Seq(S), s # <<>>
    PROVE  /\ Tail(s) \in Seq(S) /\ Len(s) \in Nat /\ Len(s) >= 1 /\ Len(Tail(s)) = Len(s) - 1
           /\ DOMAIN s = 1 .. Len(s) /\ DOMAIN Tail(s) = 1 .. Len(s) - 1
           /\ Head(s) = s[1] /\ Head(s) \in S /\ 1 \in DOMAIN s
           /\ \A k \in DOMAIN Tail(s) : k + 1 \in DOMAIN s /\ Tail(s)[k] = s[k + 1]
OBVIOUS

\* One element more.
LEMMA AppendIs ==
    ASSUME NEW S, NEW s \in Seq(S), NEW x \in S
    PROVE  /\ Append(s, x) \in Seq(S) /\ Append(s, x) # <<>> /\ Len(s) \in Nat
           /\ Len(Append(s, x)) = Len(s) + 1
           /\ DOMAIN s = 1 .. Len(s) /\ DOMAIN Append(s, x) = 1 .. Len(s) + 1
           /\ \A k \in DOMAIN s : k \in DOMAIN Append(s, x) /\ k # Len(s) + 1 /\ Append(s, x)[k] = s[k]
           /\ \A k \in DOMAIN Append(s, x) : k \in DOMAIN s \/ k = Len(s) + 1
           /\ Append(s, x)[Len(s) + 1] = x
OBVIOUS

\* A sequence behind an empty one.
LEMMA ConcatIs ==
    ASSUME NEW S, NEW s \in Seq(S), NEW t \in Seq(S), Len(s) = 0
    PROVE  s \o t \in Seq(S) /\ Len(s \o t) = Len(t) /\ \A k \in 1 .. Len(t) : (s \o t)[k] = t[k]
OBVIOUS

\* One element replaced.
LEMMA UpdateIs ==
    ASSUME NEW S, NEW s \in Seq(S), NEW i \in DOMAIN s, NEW x \in S
    PROVE  /\ [s EXCEPT ![i] = x] \in Seq(S) /\ Len([s EXCEPT ![i] = x]) = Len(s)
           /\ [s EXCEPT ![i] = x][i] = x
           /\ \A k \in DOMAIN s : k # i => [s EXCEPT ![i] = x][k] = s[k]
OBVIOUS

\* The count does not change with the states of leases that stay in use.
LEMMA CountSame ==
    ASSUME NEW hs, NEW new, NEW g, NEW c, NEW e, CountIs(hs, g, c, e),
           InUse(new, g) = InUse(hs, g),
           \A h \in Handles : new[h].mode = hs[h].mode
    PROVE  CountIs(new, g, c, e)
BY DEF CountIs, InUse

\* A lease less.
LEMMA CountDrop ==
    ASSUME NEW hs, NEW new, NEW g, NEW c, NEW e, NEW f, NEW h \in InUse(hs, g), CountIs(hs, g, c, e),
           InUse(new, g) = InUse(hs, g) \ {h},
           \A q \in Handles : new[q].mode = hs[q].mode
    PROVE  /\ c \in Nat /\ c >= 1 /\ CountIs(new, g, c - 1, f)
<1>1. IsFiniteSet(InUse(hs, g)) /\ c = Cardinality(InUse(hs, g))
  BY DEF CountIs
<1>2. IsFiniteSet(InUse(new, g)) /\ Cardinality(InUse(new, g)) = c - 1
  BY <1>1, FS_RemoveElement
<1>3. c \in Nat /\ c # 0
  BY <1>1, FS_CardinalityType, FS_EmptySet
<1>4. ASSUME NEW q \in InUse(new, g), new[q].mode = "exclusive" PROVE FALSE
  <2>1. q \in InUse(hs, g) /\ q # h /\ q \in Handles
    BY <1>4 DEF InUse
  <2>2. c = 1
    BY <2>1, <1>4 DEF CountIs
  <2>3. Cardinality(InUse(new, g)) = 0
    BY <1>2, <2>2
  <2>4. InUse(new, g) = {}
    BY <1>2, <2>3, FS_EmptySet
  <2>. QED  BY <1>4, <2>4
<1>. QED  BY <1>2, <1>3, <1>4 DEF CountIs

\* A lease more: an exclusive one is the first, and nobody joins one.
LEMMA CountAdd ==
    ASSUME NEW hs, NEW new, NEW g, NEW c, NEW e, NEW f, NEW h \in Handles, CountIs(hs, g, c, e),
           h \notin InUse(hs, g), InUse(new, g) = InUse(hs, g) \cup {h},
           \A q \in Handles \ {h} : new[q].mode = hs[q].mode,
           new[h].mode = "exclusive" => c = 0 /\ f = h,
           new[h].mode # "exclusive" => e = None
    PROVE  c \in Nat /\ CountIs(new, g, c + 1, f)
<1>1. IsFiniteSet(InUse(hs, g)) /\ c = Cardinality(InUse(hs, g)) /\ c \in Nat
  BY FS_CardinalityType DEF CountIs
<1>2. IsFiniteSet(InUse(new, g)) /\ Cardinality(InUse(new, g)) = c + 1
  BY <1>1, FS_AddElement
<1>3. ASSUME NEW q \in InUse(new, g), new[q].mode = "exclusive" PROVE f = q /\ c + 1 = 1
  <2>1. CASE q = h
    BY <1>3, <2>1, <1>1
  <2>2. CASE q # h
    <3>1. q \in InUse(hs, g) /\ q \in Handles /\ hs[q].mode = "exclusive"
      BY <1>3, <2>2 DEF InUse
    <3>2. e = q /\ c = 1
      BY <3>1 DEF CountIs
    <3>3. None \notin Handles
      BY BoundsAssumption
    <3>. QED  BY <3>1, <3>2, <3>3
  <2>. QED  BY <2>1, <2>2
<1>. QED  BY <1>1, <1>2, <1>3 DEF CountIs

\* No lease at all.
LEMMA CountNone ==
    ASSUME NEW hs, NEW g, NEW e, InUse(hs, g) = {}
    PROVE  CountIs(hs, g, 0, e)
BY FS_EmptySet DEF CountIs

--------------------------------------------------------------------------------
(* Steps of the queue.                                                           *)

\* js is what is left of the queue when its head runs, or the empty queue.
Rest(js) ==
    /\ js \in Seq(Reaction)
    /\ \/ jobs = <<>> /\ js = <<>>
       \/ jobs # <<>> /\ Len(js) = Len(jobs) - 1
    /\ \A k \in DOMAIN js : k + 1 \in DOMAIN jobs /\ js[k] = jobs[k + 1]

\* Taking the head off leaves the rest.
LEMMA TailIsRest ==
    ASSUME IndInv, jobs # <<>>
    PROVE  /\ Rest(Tail(jobs)) /\ Head(jobs) = jobs[1] /\ jobs[1] \in Reaction /\ 1 \in DOMAIN jobs
           /\ DOMAIN jobs = 1 .. Len(jobs) /\ Len(jobs) \in Nat
BY TailIs DEF IndInv, Shape, QueueShape, Rest

\* The requests as they are.
SameRequests ==
    /\ Newest' = Newest /\ (Unsettled' <=> Unsettled) /\ Kind' = Kind /\ Waiters' = Waiters
    /\ (PendingNow' <=> PendingNow)

\* A step that does not touch them.
LEMMA RequestsKept ==
    ASSUME requests' = requests
    PROVE  SameRequests
BY DEF SameRequests, Newest, Unsettled, Kind, Waiters, PendingNow

\* What holds of the requests and the queue still does when the head of the queue ran
\* without touching the requests and queued nothing.
LEMMA PopKeeps ==
    ASSUME IndInv, jobs # <<>>, Rest(jobs'), Head(jobs).step # "settle",
           requests' = requests, connection' = connection,
           cleanupRequired' = cleanupRequired \/ Head(jobs).step = "releaseFailed"
    PROVE  /\ OneUnsettled' /\ Settles' /\ WaitersFit' /\ JobsOrdered' /\ JobsFit' /\ OneReactionEach'
           /\ ~ (Unsettled /\ Kind = "detach")
           /\ ~ (Unsettled /\ Kind = "reconcile" /\ ~ cleanupRequired)
<1>1. SameRequests
  BY RequestsKept
<1>2. /\ DOMAIN jobs = 1 .. Len(jobs) /\ Len(jobs) \in Nat /\ 1 \in DOMAIN jobs /\ Head(jobs) = jobs[1]
      /\ DOMAIN jobs' = 1 .. Len(jobs) - 1 /\ Len(jobs') = Len(jobs) - 1
      /\ \A k \in DOMAIN jobs' : k + 1 \in DOMAIN jobs /\ jobs'[k] = jobs[k + 1]
  <2>1. /\ DOMAIN jobs = 1 .. Len(jobs) /\ Len(jobs) \in Nat /\ 1 \in DOMAIN jobs /\ Head(jobs) = jobs[1]
    BY TailIsRest
  <2>2. /\ jobs' \in Seq(Reaction) /\ Len(jobs') = Len(jobs) - 1
        /\ \A k \in DOMAIN jobs' : k + 1 \in DOMAIN jobs /\ jobs'[k] = jobs[k + 1]
    BY DEF Rest
  <2>3. DOMAIN jobs' = 1 .. Len(jobs')
    BY <2>2
  <2>. QED  BY <2>1, <2>2, <2>3
<1>3. OneUnsettled'
  BY <1>1 DEF IndInv, OneUnsettled, SameRequests
<1>4. Settles'
  <2>1. \A k \in DOMAIN jobs' : jobs'[k].step = "settle" =>
           k = Len(jobs') /\ jobs'[k].request = Newest /\ Unsettled /\ requests[Newest].state = "done"
    BY <1>2 DEF IndInv, Settles
  <2>2. Unsettled /\ requests[Newest].state = "done" => jobs' # <<>> /\ jobs'[Len(jobs')].step = "settle"
    <3>. HAVE Unsettled /\ requests[Newest].state = "done"
    <3>1. jobs[Len(jobs)].step = "settle"
      BY DEF IndInv, Settles
    <3>2. Len(jobs) # 1
      BY <3>1, <1>2
    <3>3. Len(jobs') \in DOMAIN jobs' /\ jobs'[Len(jobs')] = jobs[Len(jobs)]
      BY <1>2, <3>2
    <3>. QED  BY <3>1, <3>3
  <2>. QED  BY <1>1, <2>1, <2>2 DEF Settles, SameRequests
<1>5. WaitersFit'
  BY <1>1 DEF IndInv, WaitersFit, SameRequests
<1>6. JobsOrdered'
  BY <1>2 DEF IndInv, JobsOrdered, Before
<1>7. JobsFit'
  <2>1. ASSUME NEW k \in DOMAIN jobs' PROVE JobFits(jobs[k])'
    <3>1. k + 1 \in DOMAIN jobs /\ jobs'[k] = jobs[k + 1]
      BY <1>2, <2>1
    <3>2. JobFits(jobs[k + 1])
      BY <3>1 DEF IndInv, JobsFit
    <3>3. CASE cleanupRequired' = cleanupRequired
      BY <1>1, <3>1, <3>2, <3>3 DEF JobFits, SameRequests
    <3>4. CASE jobs[1].step = "releaseFailed"
      <4>1. Before(jobs[1], jobs[k + 1])
        BY <1>2, <3>1, <2>1 DEF IndInv, JobsOrdered
      <4>2. jobs[k + 1].step = "afterDetachment"
        BY <4>1, <3>4 DEF Before
      <4>. QED  BY <3>1, <4>2 DEF JobFits, ResultSteps
    <3>. QED  BY <1>2, <3>3, <3>4
  <2>. QED  BY <2>1 DEF JobsFit
<1>8. OneReactionEach'
  <2>1. \A k, l \in DOMAIN jobs' : jobs'[k].step # "settle" /\ jobs'[l].step # "settle"
            /\ jobs'[k].handle = jobs'[l].handle => k = l
    BY <1>2 DEF IndInv, OneReactionEach
  <2>2. \A k \in DOMAIN jobs', l \in DOMAIN Waiters :
            jobs'[k].step # "settle" => jobs'[k].handle # Waiters[l].handle
    BY <1>2 DEF IndInv, OneReactionEach
  <2>3. \A k, l \in DOMAIN Waiters : Waiters[k].handle = Waiters[l].handle => k = l
    BY DEF IndInv, OneReactionEach
  <2>. QED  BY <1>1, <2>1, <2>2, <2>3 DEF OneReactionEach, SameRequests
<1>9. ~ (Unsettled /\ Kind = "detach")
  BY <1>2 DEF IndInv, CleanupFits
<1>10. ~ (Unsettled /\ Kind = "reconcile" /\ ~ cleanupRequired)
  BY <1>2 DEF IndInv, CleanupFits
<1>. QED  BY <1>3, <1>4, <1>5, <1>6, <1>7, <1>8, <1>9, <1>10

\* The requests and the reactions are what their shapes say.
LEMMA QueueFacts ==
    ASSUME IndInv
    PROVE  /\ jobs \in Seq(Reaction) /\ requests \in Seq(RequestRecord) /\ Waiters \in Seq(Reaction)
           /\ Newest \in Nat /\ Newest = Len(requests) /\ DOMAIN requests = 1 .. Newest
           /\ Len(jobs) \in Nat /\ DOMAIN jobs = 1 .. Len(jobs)
           /\ Len(Waiters) \in Nat /\ DOMAIN Waiters = 1 .. Len(Waiters)
           /\ Newest > 0 => Newest \in DOMAIN requests /\ requests[Newest] \in RequestRecord /\ Kind \in Kinds
           /\ Unsettled => Newest > 0 /\ Waiters = requests[Newest].waiters
           /\ Unsettled \in BOOLEAN /\ PendingNow \in BOOLEAN
<1>1. jobs \in Seq(Reaction) /\ requests \in Seq(RequestRecord)
  BY DEF IndInv, Shape, QueueShape
<1>2. Newest \in Nat /\ Newest = Len(requests) /\ DOMAIN requests = 1 .. Newest
  BY <1>1 DEF Newest
<1>3. Newest > 0 => Newest \in DOMAIN requests /\ requests[Newest] \in RequestRecord
  BY <1>1, <1>2
<1>4. Newest > 0 => Kind \in Kinds /\ requests[Newest].waiters \in Seq(Reaction)
  BY <1>3 DEF Kind, RequestRecord
<1>5. Unsettled => Newest > 0 /\ Waiters = requests[Newest].waiters
  BY DEF Unsettled, Waiters
<1>6. Waiters \in Seq(Reaction)
  <2>1. CASE Unsettled
    BY <1>4, <1>5, <2>1
  <2>2. CASE ~ Unsettled
    BY <2>2 DEF Waiters
  <2>. QED  BY <2>1, <2>2
<1>. QED  BY <1>1, <1>2, <1>3, <1>4, <1>5, <1>6 DEF Unsettled, PendingNow

\* A reaction has one of the steps, and a handle unless it settles a request.
LEMMA StepFacts ==
    ASSUME IndInv
    PROVE  /\ \A k \in DOMAIN jobs : /\ jobs[k] \in Reaction
                                     /\ jobs[k].step \in AcquireSteps \cup ReleaseSteps \cup {"settle"}
                                     /\ jobs[k].step # "settle" => jobs[k].handle \in Handles
           /\ \A k \in DOMAIN Waiters : /\ Waiters[k] \in Reaction
                                        /\ Waiters[k].step \in AcquireSteps \cup ReleaseSteps
                                        /\ Waiters[k].step # "settle" /\ Waiters[k].handle \in Handles
<1>1. ASSUME NEW k \in DOMAIN jobs
      PROVE  /\ jobs[k] \in Reaction
             /\ jobs[k].step \in AcquireSteps \cup ReleaseSteps \cup {"settle"}
             /\ jobs[k].step # "settle" => jobs[k].handle \in Handles
  <2>1. jobs[k] \in Reaction
    BY <1>1, QueueFacts
  <2>2. jobs[k].step \in AcquireSteps \cup ReleaseSteps \cup {"settle"}
    BY <2>1 DEF Reaction
  <2>3. Backed(jobs[k])
    BY <1>1 DEF IndInv, HandlesBacked
  <2>. QED  BY <2>1, <2>2, <2>3 DEF Backed
<1>2. ASSUME NEW k \in DOMAIN Waiters
      PROVE  /\ Waiters[k] \in Reaction
             /\ Waiters[k].step \in AcquireSteps \cup ReleaseSteps
             /\ Waiters[k].step # "settle" /\ Waiters[k].handle \in Handles
  <2>1. Waiters[k] \in Reaction
    BY <1>2, QueueFacts
  <2>2. Unsettled
    BY <1>2 DEF Waiters
  <2>3. Kind \in Kinds
    BY <2>2, QueueFacts
  <2>4. Waiters[k].step \in {"afterAttach", "afterReconciliation", "afterDetach", "caught"}
    BY <1>2, <2>2, <2>3 DEF IndInv, WaitersFit, Kinds
  <2>5. Backed(Waiters[k])
    BY <1>2 DEF IndInv, HandlesBacked
  <2>. QED  BY <2>1, <2>4, <2>5 DEF Backed, AcquireSteps, ReleaseSteps
<1>. QED  BY <1>1, <1>2

\* The wire does not notice a step that sends nothing and leaves the newest request as it is.
LEMMA WireKept ==
    ASSUME IndInv, Newest' = Newest, Kind' = Kind, PendingNow' <=> PendingNow,
           UNCHANGED <<connection, attached, toServer, toClient, server>>
    PROVE  PromptsBounded' /\ WireFits' /\ Disconnected'
<1>1. PromptsBounded'
  BY DEF IndInv, PromptsBounded, PromptsSent
<1>2. Commands' = Commands /\ Answers' = Answers
  BY DEF Commands, Answers
<1>3. WireFits'
  BY <1>2 DEF IndInv, WireFits
<1>4. Disconnected'
  BY DEF IndInv, Disconnected
<1>. QED  BY <1>1, <1>3, <1>4

\* The handle h of the head of the queue goes on; the other calls keep their reactions.
LEMMA PopBacked ==
    ASSUME IndInv, jobs # <<>>, Rest(jobs'), Head(jobs).step \notin {"settle", "caught"},
           requests' = requests, connection' = connection, generation' = generation,
           cleanupRequired' = cleanupRequired \/ Head(jobs).step = "releaseFailed",
           NEW h \in Handles, h = Head(jobs).handle,
           \A q \in Handles \ {h} : handles'[q] = handles[q],
           handles'[h].state # "acquiring",
           count = 0 => count' = 0
    PROVE  HandlesBacked' /\ NobodyForgotten' /\ ReleaserAlone'
<1>1. SameRequests
  BY RequestsKept
<1>2. /\ DOMAIN jobs = 1 .. Len(jobs) /\ Len(jobs) \in Nat /\ 1 \in DOMAIN jobs /\ Head(jobs) = jobs[1]
      /\ \A k \in DOMAIN jobs' : k + 1 \in DOMAIN jobs /\ jobs'[k] = jobs[k + 1] /\ 1 < k + 1
      /\ \A k \in DOMAIN jobs : k # 1 => k - 1 \in DOMAIN jobs' /\ jobs'[k - 1] = jobs[k]
  <2>1. /\ DOMAIN jobs = 1 .. Len(jobs) /\ Len(jobs) \in Nat /\ 1 \in DOMAIN jobs /\ Head(jobs) = jobs[1]
    BY TailIsRest
  <2>2. /\ jobs' \in Seq(Reaction) /\ Len(jobs') = Len(jobs) - 1
        /\ \A k \in DOMAIN jobs' : k + 1 \in DOMAIN jobs /\ jobs'[k] = jobs[k + 1]
    BY DEF Rest
  <2>3. DOMAIN jobs' = 1 .. Len(jobs')
    BY <2>2
  <2>. QED  BY <2>1, <2>2, <2>3
<1>3. ASSUME NEW k \in DOMAIN jobs' PROVE Backed(jobs[k])'
  <2>1. k + 1 \in DOMAIN jobs /\ jobs'[k] = jobs[k + 1] /\ k + 1 # 1
    BY <1>2, <1>3
  <2>2. Backed(jobs[k + 1]) /\ (jobs[k + 1].step # "settle" => jobs[k + 1].handle # h)
    BY <1>2, <2>1 DEF IndInv, HandlesBacked, OneReactionEach
  <2>3. jobs[k + 1].step \in AcquireSteps \cup ReleaseSteps \cup {"settle"}
    BY <2>1, StepFacts
  <2>. QED  BY <2>1, <2>2, <2>3 DEF Backed, Acquiring, Valid, AcquireSteps, ReleaseSteps
<1>4. ASSUME NEW k \in DOMAIN Waiters PROVE Backed(Waiters[k])'
  <2>1. Backed(Waiters[k]) /\ Waiters[k].handle # h
    BY <1>2, <1>4 DEF IndInv, HandlesBacked, OneReactionEach
  <2>2. Waiters[k].step \in AcquireSteps \cup ReleaseSteps
    BY <1>4, StepFacts
  <2>. QED  BY <1>1, <2>1, <2>2 DEF Backed, Acquiring, Valid, AcquireSteps, ReleaseSteps, SameRequests
<1>5. HandlesBacked'
  BY <1>1, <1>3, <1>4 DEF HandlesBacked, SameRequests
<1>6. NobodyForgotten'
  <2>1. ASSUME NEW q \in Handles, Acquiring(q)'
        PROVE  \/ \E k \in DOMAIN jobs' : jobs'[k].step # "settle" /\ jobs'[k].handle = q
               \/ \E k \in DOMAIN Waiters : Waiters[k].handle = q
    <3>1. q # h /\ Acquiring(q)
      BY <2>1 DEF Acquiring
    <3>2. CASE \E k \in DOMAIN jobs : jobs[k].step # "settle" /\ jobs[k].handle = q
      BY <1>2, <3>1, <3>2
    <3>. QED  BY <3>1, <3>2 DEF IndInv, NobodyForgotten
  <2>. QED  BY <1>1, <2>1 DEF NobodyForgotten, SameRequests
<1>7. ReleaserAlone'
  <2>1. ASSUME NEW k \in DOMAIN jobs' PROVE jobs'[k].step \notin ReleaseSteps
    <3>1. Before(jobs[1], jobs[k + 1]) /\ jobs'[k] = jobs[k + 1]
      BY <1>2, <2>1 DEF IndInv, JobsOrdered
    <3>. QED  BY <1>2, <3>1 DEF Before, ReleaseSteps
  <2>2. ~ (Unsettled' /\ Kind' = "detach")
    BY <1>1, PopKeeps DEF SameRequests
  <2>. QED  BY <2>1, <2>2 DEF ReleaserAlone
<1>. QED  BY <1>5, <1>6, <1>7

\* The head of the queue ran to its end: what is left to show is what it did to its lease.
LEMMA Popped ==
    ASSUME IndInv, jobs # <<>>, jobs' = Tail(jobs), Head(jobs).step \notin {"settle", "caught"},
           requests' = requests,
           UNCHANGED <<connection, connects, generation, attached, toServer, toClient, server,
                       revision, reconciliation>>,
           cleanupRequired' \in BOOLEAN,
           cleanupRequired' = cleanupRequired \/ Head(jobs).step = "releaseFailed",
           attachment' = IF Head(jobs).step = "afterAttach" THEN None ELSE attachment,
           detachment' = IF Head(jobs).step = "afterDetach" THEN None ELSE detachment,
           NEW h \in Handles, h = Head(jobs).handle,
           NEW lease \in Lease, handles' = [handles EXCEPT ![h] = lease],
           lease.state # "acquiring", lease.generation <= generation,
           count' \in Nat, exclusive' \in Handles \cup {None},
           CountIs(handles', generation, count', exclusive'),
           count = 0 => count' = 0,
           cleanupRequired' => \A q \in Handles : ~ Live(q)'
    PROVE  IndInv'
<1>1. SameRequests
  BY RequestsKept
<1>2. Rest(jobs') /\ Head(jobs) = jobs[1] /\ 1 \in DOMAIN jobs
  BY TailIsRest
<1>3. handles \in [Handles -> Lease]
  BY DEF IndInv, Shape, HandleShape
<1>4. /\ handles' \in [Handles -> Lease] /\ handles'[h] = lease
      /\ \A q \in Handles \ {h} : handles'[q] = handles[q]
  BY <1>3
<1>5. /\ OneUnsettled' /\ Settles' /\ WaitersFit' /\ JobsOrdered' /\ JobsFit' /\ OneReactionEach'
      /\ ~ (Unsettled /\ Kind = "detach")
      /\ ~ (Unsettled /\ Kind = "reconcile" /\ ~ cleanupRequired)
  BY <1>2, PopKeeps
<1>6. HandlesBacked' /\ NobodyForgotten' /\ ReleaserAlone'
  <2>1. handles'[h].state # "acquiring"
    BY <1>4
  <2>. QED  BY <1>2, <1>4, <2>1, PopBacked
<1>7. PromptsBounded' /\ WireFits' /\ Disconnected'
  BY <1>1, WireKept DEF SameRequests
<1>8. JobFits(jobs[1])
  BY <1>2 DEF IndInv, JobsFit
<1>9. PointersFit'
  <2>1. attachment' # None => /\ Newest > 0 /\ attachment' = Newest /\ Kind = "attach" /\ Unsettled
    BY <1>2 DEF IndInv, PointersFit, Ahead
  <2>2. detachment' # None => /\ Newest > 0 /\ detachment' = Newest /\ Kind = "detach" /\ Unsettled
    BY <1>2 DEF IndInv, PointersFit, Ahead
  <2>3. reconciliation' # None => Unsettled /\ reconciliation' = Newest /\ Kind = "reconcile"
    BY DEF IndInv, PointersFit
  <2>4. Unsettled => /\ Kind = "attach" => attachment' = Newest
                     /\ Kind = "detach" => detachment' = Newest
                     /\ Kind = "reconcile" => reconciliation' = Newest
    BY <1>2, <1>8 DEF IndInv, PointersFit, JobFits
  <2>. QED  BY <1>1, <2>1, <2>2, <2>3, <2>4 DEF PointersFit, SameRequests
<1>10. CleanupFits'
  <2>1. cleanupRequired' => (Unsettled => Kind = "reconcile")
    BY <1>2, <1>8 DEF IndInv, CleanupFits, JobFits
  <2>2. ~ (Unsettled /\ Kind = "reconcile" /\ ~ cleanupRequired')
    BY <1>2, <1>5, <1>8 DEF JobFits
  <2>. QED  BY <1>1, <1>5, <2>1, <2>2 DEF CleanupFits, SameRequests
<1>11. CountFits'
  <2>1. \A q \in Handles : handles'[q].generation <= generation
    BY <1>4 DEF IndInv, CountFits
  <2>. QED  BY <2>1 DEF CountFits
<1>12. Shape'
  <2>1. HandleShape' /\ CountShape'
    BY <1>4 DEF IndInv, Shape, HandleShape, CountShape
  <2>2. FlagShape' /\ ConnectionShape'
    BY DEF IndInv, Shape, FlagShape, ConnectionShape
  <2>3. QueueShape'
    BY <1>2 DEF IndInv, Shape, QueueShape, Rest
  <2>4. WireShape' /\ ServerShape'
    BY DEF IndInv, Shape, WireShape, ServerShape
  <2>. QED  BY <2>1, <2>2, <2>3, <2>4 DEF Shape
<1>. QED  BY <1>5, <1>6, <1>7, <1>9, <1>10, <1>11, <1>12 DEF IndInv

\* What is known of the lease behind the head of the queue.
LEMMA HeadFacts ==
    ASSUME IndInv, jobs # <<>>, Head(jobs).step # "settle"
    PROVE  /\ Head(jobs) = jobs[1] /\ 1 \in DOMAIN jobs /\ Head(jobs).handle \in Handles
           /\ handles \in [Handles -> Lease] /\ handles[Head(jobs).handle] \in Lease
           /\ generation \in Nat /\ count \in Nat /\ exclusive \in Handles \cup {None}
           /\ Head(jobs).ok \in BOOLEAN /\ Head(jobs).request \in Nat \cup {None}
           /\ Head(jobs).step \in AcquireSteps => handles[Head(jobs).handle].state = "acquiring"
           /\ Head(jobs).step \in ReleaseSteps => handles[Head(jobs).handle].state = "releasing"
           /\ ~ Valid(Head(jobs).handle) => connection # "connected" /\ count = 0
           /\ JobFits(Head(jobs))
           /\ CountIs(handles, generation, count, exclusive)
           /\ handles[Head(jobs).handle].generation <= generation
<1>1. Head(jobs) = jobs[1] /\ 1 \in DOMAIN jobs
  BY TailIsRest
<1>2. jobs[1] \in Reaction /\ jobs[1].handle \in Handles
  BY <1>1, StepFacts
<1>3. Backed(jobs[1]) /\ JobFits(jobs[1])
  BY <1>1 DEF IndInv, HandlesBacked, JobsFit
<1>4. handles \in [Handles -> Lease] /\ generation \in Nat /\ count \in Nat /\ exclusive \in Handles \cup {None}
  BY DEF IndInv, Shape, HandleShape, CountShape
<1>5. jobs[1].ok \in BOOLEAN /\ jobs[1].request \in Nat \cup {None}
  BY <1>2 DEF Reaction
<1>. QED  BY <1>1, <1>2, <1>3, <1>4, <1>5 DEF Backed, Acquiring, IndInv, CountFits

\* releaseSessionLease takes a lease off the count, and none that was invalidated.
LEMMA Released ==
    ASSUME IndInv, NEW h \in Handles, NEW s \in {"failed", "released"},
           handles[h].state \in {"acquiring", "releasing", "active"}, ~ Valid(h) => count = 0,
           ReleaseLease(h), handles' = [handles EXCEPT ![h].state = s]
    PROVE  /\ count' \in Nat /\ exclusive' \in Handles \cup {None} /\ (count = 0 => count' = 0)
           /\ CountIs(handles', generation, count', exclusive')
           /\ [handles[h] EXCEPT !.state = s] \in Lease
           /\ handles' = [handles EXCEPT ![h] = [handles[h] EXCEPT !.state = s]]
           /\ [handles[h] EXCEPT !.state = s].state = s
           /\ [handles[h] EXCEPT !.state = s].generation = handles[h].generation
<1>1. /\ handles \in [Handles -> Lease] /\ generation \in Nat /\ count \in Nat
      /\ exclusive \in Handles \cup {None} /\ CountIs(handles, generation, count, exclusive)
  BY DEF IndInv, Shape, HandleShape, CountShape, CountFits
<1>2. /\ [handles[h] EXCEPT !.state = s] \in Lease
      /\ [handles[h] EXCEPT !.state = s].state = s
      /\ [handles[h] EXCEPT !.state = s].generation = handles[h].generation
      /\ [handles[h] EXCEPT !.state = s].mode = handles[h].mode
  BY <1>1 DEF Lease
<1>3. handles' = [handles EXCEPT ![h] = [handles[h] EXCEPT !.state = s]]
  BY <1>1
<1>4. /\ handles'[h].state = s /\ handles'[h].mode = handles[h].mode
      /\ \A q \in Handles \ {h} : handles'[q] = handles[q]
  BY <1>1, <1>2, <1>3
<1>5. /\ count' = IF count <= 1 THEN 0 ELSE count - 1
      /\ exclusive' = IF exclusive = h THEN None ELSE exclusive
  BY DEF ReleaseLease
<1>6. InUse(handles', generation) = InUse(handles, generation) \ {h}
  BY <1>4 DEF InUse
<1>7. CASE Valid(h)
  <2>1. h \in InUse(handles, generation)
    BY <1>7 DEF InUse, Valid
  <2>2. count >= 1 /\ CountIs(handles', generation, count - 1, exclusive')
    BY <1>1, <1>4, <1>6, <2>1, CountDrop
  <2>3. count' = count - 1
    BY <1>1, <1>5, <2>2
  <2>. QED  BY <1>1, <1>2, <1>3, <1>5, <2>2, <2>3
<1>8. CASE ~ Valid(h)
  <2>1. h \notin InUse(handles, generation)
    BY <1>8 DEF InUse, Valid
  <2>2. count = 0 /\ count' = 0
    BY <1>8, <1>5
  <2>3. InUse(handles, generation) = {}
    BY <1>1, <2>2, FS_EmptySet DEF CountIs
  <2>4. InUse(handles', generation) = {}
    BY <1>6, <2>3
  <2>5. CountIs(handles', generation, 0, exclusive')
    BY <2>4, CountNone
  <2>. QED  BY <1>1, <1>2, <1>3, <1>5, <2>2, <2>5
<1>. QED  BY <1>7, <1>8

\* createSessionLease makes a reservation of this generation a lease.
LEMMA Created ==
    ASSUME IndInv, NEW h \in Handles, handles[h].state \in {"acquiring", "releasing"}, Valid(h),
           NEW lease \in Lease, lease.state = "active", lease.mode = handles[h].mode,
           lease.generation = generation, handles' = [handles EXCEPT ![h] = lease]
    PROVE  CountIs(handles', generation, count, exclusive)
<1>1. handles \in [Handles -> Lease] /\ CountIs(handles, generation, count, exclusive)
  BY DEF IndInv, Shape, HandleShape, CountFits
<1>2. handles'[h] = lease /\ \A q \in Handles \ {h} : handles'[q] = handles[q]
  BY <1>1
<1>3. InUse(handles', generation) = InUse(handles, generation)
  BY <1>2 DEF InUse, Valid
<1>. QED  BY <1>1, <1>2, <1>3, CountSame

\* acquireSession after the attachment, or its failure.
LEMMA AttachStep ==
    ASSUME IndInv, jobs # <<>>, Head(jobs).step = "afterAttach", AfterAttach(Head(jobs)),
           UNCHANGED <<connection, connects, generation, attached, toClient, server>>
    PROVE  IndInv'
<1>. DEFINE h == Head(jobs).handle
<1>1. /\ h \in Handles /\ handles \in [Handles -> Lease] /\ generation \in Nat /\ count \in Nat
      /\ exclusive \in Handles \cup {None} /\ handles[h].state = "acquiring"
      /\ ~ Valid(h) => connection # "connected" /\ count = 0
      /\ JobFits(Head(jobs)) /\ handles[h].generation <= generation
      /\ CountIs(handles, generation, count, exclusive)
  BY HeadFacts DEF AcquireSteps
<1>2. ~ cleanupRequired /\ Head(jobs).request = Newest
  BY <1>1 DEF JobFits
<1>3. attachment' = None
  BY <1>2 DEF AfterAttach, IndInv, PointersFit
<1>4. /\ UNCHANGED <<detachment, reconciliation, cleanupRequired, revision, requests, toServer>>
      /\ jobs' = Tail(jobs)
  BY DEF AfterAttach
<1>5. cleanupRequired \in BOOLEAN
  BY DEF IndInv, Shape, FlagShape
<1>6. CASE Head(jobs).ok
  <2>1. Valid(h)
    BY <1>1, <1>6 DEF JobFits, ResultSteps
  <2>2. handles' = [handles EXCEPT ![h].state = "active", ![h].generation = generation]
        /\ count' = count /\ exclusive' = exclusive
    BY <1>6 DEF AfterAttach, CreateLease
  <2>. DEFINE lease == [handles[h] EXCEPT !.state = "active", !.generation = generation]
  <2>3. /\ lease \in Lease /\ lease.state = "active" /\ lease.mode = handles[h].mode
        /\ lease.generation = generation
    BY <1>1 DEF Lease
  <2>4. handles' = [handles EXCEPT ![h] = lease]
    BY <1>1, <2>2
  <2>. HIDE DEF lease, h
  <2>5. CountIs(handles', generation, count', exclusive')
    BY <1>1, <2>1, <2>2, <2>3, <2>4, Created
  <2>6. lease.state # "acquiring" /\ lease.generation <= generation /\ (count = 0 => count' = 0)
    BY <1>1, <2>2, <2>3
  <2>. QED  BY <1>1, <1>2, <1>3, <1>4, <1>5, <2>2, <2>3, <2>4, <2>5, <2>6, Popped DEF h
<1>7. CASE ~ Head(jobs).ok
  <2>1. handles' = [handles EXCEPT ![h].state = "failed"] /\ ReleaseLease(h)
    BY <1>7 DEF AfterAttach, FailAcquire
  <2>. DEFINE lease == [handles[h] EXCEPT !.state = "failed"]
  <2>2. /\ count' \in Nat /\ exclusive' \in Handles \cup {None} /\ (count = 0 => count' = 0)
        /\ CountIs(handles', generation, count', exclusive')
        /\ lease \in Lease /\ handles' = [handles EXCEPT ![h] = lease] /\ lease.state = "failed"
        /\ lease.generation = handles[h].generation
    BY <1>1, <2>1, Released
  <2>. HIDE DEF lease, h
  <2>. QED  BY <1>1, <1>2, <1>3, <1>4, <1>5, <2>2, Popped DEF h
<1>. QED  BY <1>6, <1>7

\* A release after its detachment.
LEMMA DetachStep ==
    ASSUME IndInv, jobs # <<>>, Head(jobs).step = "afterDetach", AfterDetach(Head(jobs)), Head(jobs).ok,
           UNCHANGED <<connection, connects, generation, attached, toClient, server>>
    PROVE  IndInv'
<1>. DEFINE h == Head(jobs).handle
<1>1. /\ h \in Handles /\ handles \in [Handles -> Lease] /\ generation \in Nat /\ count \in Nat
      /\ exclusive \in Handles \cup {None} /\ handles[h].state = "releasing"
      /\ ~ Valid(h) => connection # "connected" /\ count = 0
      /\ JobFits(Head(jobs)) /\ handles[h].generation <= generation
  BY HeadFacts DEF ReleaseSteps
<1>2. ~ cleanupRequired /\ Head(jobs).request = Newest
  BY <1>1 DEF JobFits
<1>3. detachment' = None
  BY <1>2 DEF AfterDetach, IndInv, PointersFit
<1>4. /\ UNCHANGED <<attachment, reconciliation, cleanupRequired, revision, requests, toServer>>
      /\ jobs' = Tail(jobs)
  BY DEF AfterDetach
<1>5. cleanupRequired \in BOOLEAN
  BY DEF IndInv, Shape, FlagShape
<1>6. handles' = [handles EXCEPT ![h].state = "released"] /\ ReleaseLease(h)
  BY DEF AfterDetach
<1>. DEFINE lease == [handles[h] EXCEPT !.state = "released"]
<1>7. /\ count' \in Nat /\ exclusive' \in Handles \cup {None} /\ (count = 0 => count' = 0)
      /\ CountIs(handles', generation, count', exclusive')
      /\ lease \in Lease /\ handles' = [handles EXCEPT ![h] = lease] /\ lease.state = "released"
      /\ lease.generation = handles[h].generation
  BY <1>1, <1>6, Released
<1>. HIDE DEF lease, h
<1>. QED  BY <1>1, <1>2, <1>3, <1>4, <1>5, <1>7, Popped DEF h

\* acquireSession after a reconciliation that failed.
LEMMA ReconciliationFails ==
    ASSUME IndInv, jobs # <<>>, Head(jobs).step = "afterReconciliation", ~ Head(jobs).ok,
           AfterReconciliation(Head(jobs)),
           UNCHANGED <<connection, connects, generation, attached, toClient, server>>
    PROVE  IndInv'
<1>. DEFINE h == Head(jobs).handle
<1>1. /\ h \in Handles /\ handles \in [Handles -> Lease] /\ generation \in Nat /\ count \in Nat
      /\ exclusive \in Handles \cup {None} /\ handles[h].state = "acquiring"
      /\ ~ Valid(h) => connection # "connected" /\ count = 0
      /\ handles[h].generation <= generation
  BY HeadFacts DEF AcquireSteps
<1>2. /\ UNCHANGED <<attachment, detachment, reconciliation, cleanupRequired, revision, requests, toServer>>
      /\ jobs' = Tail(jobs) /\ handles' = [handles EXCEPT ![h].state = "failed"] /\ ReleaseLease(h)
  BY DEF AfterReconciliation, FailAcquire
<1>3. cleanupRequired \in BOOLEAN
  BY DEF IndInv, Shape, FlagShape
<1>. DEFINE lease == [handles[h] EXCEPT !.state = "failed"]
<1>4. /\ count' \in Nat /\ exclusive' \in Handles \cup {None} /\ (count = 0 => count' = 0)
      /\ CountIs(handles', generation, count', exclusive')
      /\ lease \in Lease /\ handles' = [handles EXCEPT ![h] = lease] /\ lease.state = "failed"
      /\ lease.generation = handles[h].generation
  BY <1>1, <1>2, Released
<1>. HIDE DEF lease, h
<1>5. ASSUME cleanupRequired', NEW q \in Handles PROVE ~ Live(q)'
  <2>1. ~ Live(q)
    BY <1>2, <1>5 DEF IndInv, CleanupFits
  <2>. QED  BY <1>1, <1>2, <1>4, <2>1 DEF Live, Valid
<1>. QED  BY <1>1, <1>2, <1>3, <1>4, <1>5, Popped DEF h

\* The catch of a release: the lease is given up, is active again, or was invalidated.
LEMMA ReleaseFailedStep ==
    ASSUME IndInv, jobs # <<>>, Head(jobs).step = "releaseFailed", ReleaseFailed(Head(jobs)),
           UNCHANGED <<connection, connects, generation, attached, toClient, server>>
    PROVE  IndInv'
<1>. DEFINE h == Head(jobs).handle
<1>1. /\ h \in Handles /\ handles \in [Handles -> Lease] /\ generation \in Nat /\ count \in Nat
      /\ exclusive \in Handles \cup {None} /\ handles[h].state = "releasing"
      /\ ~ Valid(h) => connection # "connected" /\ count = 0
      /\ JobFits(Head(jobs)) /\ handles[h].generation <= generation
      /\ CountIs(handles, generation, count, exclusive) /\ Head(jobs) = jobs[1] /\ 1 \in DOMAIN jobs
  BY HeadFacts DEF ReleaseSteps
<1>2. ~ cleanupRequired /\ cleanupRequired \in BOOLEAN
  BY <1>1 DEF JobFits, IndInv, Shape, FlagShape
<1>3. /\ UNCHANGED <<attachment, detachment, reconciliation, revision, requests, toServer>>
      /\ jobs' = Tail(jobs)
  BY DEF ReleaseFailed
<1>4. \A q \in Handles : Live(q) => q = h
  BY <1>1 DEF IndInv, ReleaserAlone, ReleaseSteps
<1>5. CASE ~ Valid(h)
  <2>1. handles' = handles /\ count' = count /\ exclusive' = exclusive /\ cleanupRequired' = cleanupRequired
    BY <1>5 DEF ReleaseFailed
  <2>2. handles' = [handles EXCEPT ![h] = handles[h]] /\ handles[h] \in Lease
    BY <1>1, <2>1
  <2>3. CountIs(handles', generation, count', exclusive')
    BY <1>1, <2>1
  <2>. HIDE DEF h
  <2>. QED  BY <1>1, <1>2, <1>3, <2>1, <2>2, <2>3, Popped DEF h
<1>6. CASE Valid(h) /\ handles[h].relinquish
  <2>1. /\ handles' = [handles EXCEPT ![h].state = "released"] /\ ReleaseLease(h)
        /\ cleanupRequired' = TRUE
    BY <1>6 DEF ReleaseFailed
  <2>. DEFINE lease == [handles[h] EXCEPT !.state = "released"]
  <2>2. /\ count' \in Nat /\ exclusive' \in Handles \cup {None} /\ (count = 0 => count' = 0)
        /\ CountIs(handles', generation, count', exclusive')
        /\ lease \in Lease /\ handles' = [handles EXCEPT ![h] = lease] /\ lease.state = "released"
        /\ lease.generation = handles[h].generation
    BY <1>1, <2>1, Released
  <2>. HIDE DEF lease, h
  <2>3. ASSUME NEW q \in Handles PROVE ~ Live(q)'
    BY <1>1, <1>4, <2>2 DEF Live, Valid
  <2>. QED  BY <1>1, <1>2, <1>3, <2>1, <2>2, <2>3, Popped DEF h
<1>7. CASE Valid(h) /\ ~ handles[h].relinquish
  <2>1. /\ handles' = [handles EXCEPT ![h].state = "active"] /\ count' = count
        /\ exclusive' = exclusive /\ cleanupRequired' = cleanupRequired
    BY <1>7 DEF ReleaseFailed
  <2>. DEFINE lease == [handles[h] EXCEPT !.state = "active"]
  <2>2. /\ lease \in Lease /\ lease.state = "active" /\ lease.mode = handles[h].mode
        /\ lease.generation = generation /\ handles' = [handles EXCEPT ![h] = lease]
    BY <1>1, <1>7, <2>1 DEF Lease, Valid
  <2>. HIDE DEF lease, h
  <2>3. CountIs(handles', generation, count', exclusive')
    BY <1>1, <1>7, <2>1, <2>2, Created
  <2>4. lease.state # "acquiring" /\ lease.generation <= generation
    BY <1>1, <2>2
  <2>. QED  BY <1>1, <1>2, <1>3, <2>1, <2>2, <2>3, <2>4, Popped DEF h
<1>. QED  BY <1>5, <1>6, <1>7

\* The head of the queue ran and its call waits for one more reaction j: the catch around
\* a detachment, and the catch of a release.
LEMMA Requeued ==
    ASSUME IndInv, jobs # <<>>, NEW j \in Reaction, jobs' = Append(Tail(jobs), j),
           j.handle = Head(jobs).handle,
           \/ Head(jobs).step = "caught" /\ j.step = "afterDetachment"
           \/ Head(jobs).step = "afterDetach" /\ j.step = "releaseFailed",
           detachment' = IF Head(jobs).step = "afterDetach" THEN None ELSE detachment,
           UNCHANGED <<connection, connects, handles, count, exclusive, generation, attachment,
                       reconciliation, cleanupRequired, attached, revision, requests, toServer,
                       toClient, server>>
    PROVE  IndInv'
<1>1. SameRequests
  BY RequestsKept
<1>2. /\ Head(jobs) = jobs[1] /\ 1 \in DOMAIN jobs /\ DOMAIN jobs = 1 .. Len(jobs) /\ Len(jobs) \in Nat
      /\ DOMAIN jobs' = 1 .. Len(jobs) /\ jobs' # <<>> /\ jobs' \in Seq(Reaction)
      /\ \A k \in DOMAIN jobs : k < Len(jobs) => k + 1 \in DOMAIN jobs /\ jobs'[k] = jobs[k + 1]
      /\ jobs'[Len(jobs)] = j /\ Len(jobs) \in DOMAIN jobs
  <2>1. /\ jobs \in Seq(Reaction) /\ Tail(jobs) \in Seq(Reaction) /\ Len(Tail(jobs)) = Len(jobs) - 1
        /\ Len(jobs) \in Nat /\ Len(jobs) >= 1 /\ DOMAIN jobs = 1 .. Len(jobs) /\ Head(jobs) = jobs[1]
        /\ DOMAIN Tail(jobs) = 1 .. Len(jobs) - 1
        /\ \A k \in DOMAIN Tail(jobs) : k + 1 \in DOMAIN jobs /\ Tail(jobs)[k] = jobs[k + 1]
    BY QueueFacts, TailIs
  <2>2. /\ jobs' \in Seq(Reaction) /\ jobs' # <<>> /\ DOMAIN jobs' = 1 .. Len(Tail(jobs)) + 1
        /\ \A k \in DOMAIN Tail(jobs) : jobs'[k] = Tail(jobs)[k]
        /\ jobs'[Len(Tail(jobs)) + 1] = j
    BY <2>1, AppendIs
  <2>. QED  BY <2>1, <2>2
<1>3. JobFits(jobs[1]) /\ Backed(jobs[1]) /\ jobs[1].handle \in Handles
  BY <1>2, StepFacts DEF IndInv, JobsFit, HandlesBacked
<1>4. ~ Unsettled /\ ~ cleanupRequired /\ Waiters = <<>>
  BY <1>2, <1>3 DEF JobFits, Waiters
<1>5. \A k \in DOMAIN jobs : k < Len(jobs) => /\ jobs'[k] = jobs[k + 1] /\ k + 1 \in DOMAIN jobs
                                             /\ Before(jobs[1], jobs[k + 1])
                                             /\ jobs[k + 1].step # "settle"
                                             /\ jobs[k + 1].handle # jobs[1].handle
  <2>1. ASSUME NEW k \in DOMAIN jobs, k < Len(jobs)
        PROVE  /\ Before(jobs[1], jobs[k + 1]) /\ jobs[k + 1].step # "settle"
               /\ jobs[k + 1].handle # jobs[1].handle
    <3>1. k + 1 \in DOMAIN jobs /\ 1 < k + 1
      BY <1>2, <2>1
    <3>2. Before(jobs[1], jobs[k + 1])
      BY <1>2, <3>1 DEF IndInv, JobsOrdered
    <3>3. jobs[1].step # "settle" /\ jobs[k + 1].step # "settle"
      BY <1>2, <3>2 DEF Before
    <3>. QED  BY <1>2, <3>1, <3>2, <3>3 DEF IndInv, OneReactionEach
  <2>. QED  BY <1>2, <2>1
<1>6. \A k \in DOMAIN jobs' : k \in DOMAIN jobs /\ (k < Len(jobs) \/ k = Len(jobs))
  BY <1>2
<1>7. OneUnsettled' /\ WaitersFit'
  BY <1>1, <1>4 DEF IndInv, OneUnsettled, WaitersFit, SameRequests
<1>8. Settles'
  <2>1. \A k \in DOMAIN jobs' : jobs'[k].step # "settle"
    BY <1>2, <1>5, <1>6
  <2>. QED  BY <1>1, <1>4, <2>1 DEF Settles, SameRequests
<1>9. JobsOrdered'
  <2>1. ASSUME NEW k \in DOMAIN jobs', NEW l \in DOMAIN jobs', k < l PROVE Before(jobs'[k], jobs'[l])
    <3>1. k < Len(jobs) /\ k \in DOMAIN jobs /\ l \in DOMAIN jobs
      BY <1>2, <2>1
    <3>2. CASE l < Len(jobs)
      <4>1. k + 1 \in DOMAIN jobs /\ l + 1 \in DOMAIN jobs /\ k + 1 < l + 1
        BY <1>2, <2>1, <3>1, <3>2
      <4>2. Before(jobs[k + 1], jobs[l + 1])
        BY <4>1 DEF IndInv, JobsOrdered
      <4>. QED  BY <1>5, <3>1, <3>2, <4>2
    <3>3. CASE l = Len(jobs)
      <4>1. Before(jobs[1], jobs'[k]) /\ jobs'[l] = j
        BY <1>2, <1>5, <3>1, <3>3
      <4>. QED  BY <1>2, <4>1 DEF Before
    <3>. QED  BY <1>6, <2>1, <3>2, <3>3
  <2>. QED  BY <2>1 DEF JobsOrdered
<1>10. JobsFit'
  <2>1. ASSUME NEW k \in DOMAIN jobs' PROVE JobFits(jobs[k])'
    <3>1. CASE k < Len(jobs)
      <4>1. JobFits(jobs[k + 1]) /\ jobs'[k] = jobs[k + 1]
        BY <1>5, <1>6, <2>1, <3>1 DEF IndInv, JobsFit
      <4>. QED  BY <1>1, <4>1 DEF JobFits, SameRequests
    <3>2. CASE k = Len(jobs)
      BY <1>1, <1>2, <1>4, <3>2 DEF JobFits, SameRequests, ResultSteps
    <3>. QED  BY <1>6, <2>1, <3>1, <3>2
  <2>. QED  BY <2>1 DEF JobsFit
<1>11. PointersFit'
  <2>1. attachment = None /\ reconciliation = None /\ detachment' = None
    BY <1>2, <1>4 DEF IndInv, PointersFit, Ahead
  <2>. QED  BY <1>1, <1>4, <2>1 DEF PointersFit, SameRequests
<1>12. CleanupFits'
  BY <1>1, <1>4 DEF CleanupFits, SameRequests
<1>13. HandlesBacked'
  <2>1. ASSUME NEW k \in DOMAIN jobs' PROVE Backed(jobs[k])'
    <3>1. CASE k < Len(jobs)
      <4>1. Backed(jobs[k + 1]) /\ jobs'[k] = jobs[k + 1]
        BY <1>5, <1>6, <2>1, <3>1 DEF IndInv, HandlesBacked
      <4>. QED  BY <4>1 DEF Backed, Acquiring, Valid
    <3>2. CASE k = Len(jobs)
      BY <1>2, <1>3, <3>2 DEF Backed, Acquiring, Valid, AcquireSteps, ReleaseSteps
    <3>. QED  BY <1>6, <2>1, <3>1, <3>2
  <2>. QED  BY <1>1, <1>4, <2>1 DEF HandlesBacked, SameRequests
<1>14. OneReactionEach'
  <2>1. ASSUME NEW k \in DOMAIN jobs', NEW l \in DOMAIN jobs', jobs'[k].handle = jobs'[l].handle,
               k < l
        PROVE  FALSE
    <3>1. k < Len(jobs) /\ k \in DOMAIN jobs /\ l \in DOMAIN jobs
      BY <1>2, <2>1
    <3>2. CASE l < Len(jobs)
      <4>1. k + 1 \in DOMAIN jobs /\ l + 1 \in DOMAIN jobs /\ k + 1 # l + 1
        BY <1>2, <2>1, <3>1, <3>2
      <4>. QED  BY <1>5, <2>1, <3>1, <3>2, <4>1 DEF IndInv, OneReactionEach
    <3>3. CASE l = Len(jobs)
      BY <1>2, <1>5, <2>1, <3>1, <3>3
    <3>. QED  BY <1>6, <2>1, <3>2, <3>3
  <2>2. \A k, l \in DOMAIN jobs' : k < l \/ l < k \/ k = l
    BY <1>2
  <2>3. \A k, l \in DOMAIN jobs' : jobs'[k].handle = jobs'[l].handle => k = l
    BY <2>1, <2>2
  <2>. QED  BY <1>1, <1>4, <2>3 DEF OneReactionEach, SameRequests
<1>15. NobodyForgotten'
  <2>1. ASSUME NEW q \in Handles, Acquiring(q)
        PROVE  \E k \in DOMAIN jobs' : jobs'[k].step # "settle" /\ jobs'[k].handle = q
    <3>1. PICK k \in DOMAIN jobs : jobs[k].step # "settle" /\ jobs[k].handle = q
      BY <1>4, <2>1 DEF IndInv, NobodyForgotten
    <3>2. CASE k = 1
      BY <1>2, <3>1, <3>2
    <3>3. CASE k # 1
      <4>1. k - 1 \in DOMAIN jobs' /\ k - 1 \in DOMAIN jobs /\ k - 1 < Len(jobs) /\ (k - 1) + 1 = k
        BY <1>2, <3>3
      <4>2. jobs'[k - 1] = jobs[k]
        BY <1>5, <4>1
      <4>. QED  BY <3>1, <4>1, <4>2
    <3>. QED  BY <3>2, <3>3
  <2>. QED  BY <2>1 DEF NobodyForgotten, Acquiring
<1>16. ReleaserAlone'
  <2>1. ASSUME NEW k \in DOMAIN jobs', jobs'[k].step \in ReleaseSteps, NEW q \in Handles, Live(q)
        PROVE  q = jobs'[k].handle
    <3>1. CASE k < Len(jobs)
      BY <1>5, <1>6, <2>1, <3>1 DEF IndInv, ReleaserAlone
    <3>2. CASE k = Len(jobs)
      BY <1>2, <2>1, <3>2 DEF IndInv, ReleaserAlone, ReleaseSteps
    <3>. QED  BY <1>6, <2>1, <3>1, <3>2
  <2>. QED  BY <1>1, <1>4, <2>1 DEF ReleaserAlone, Live, Valid, SameRequests
<1>17. CountFits'
  BY DEF IndInv, CountFits
<1>18. PromptsBounded' /\ WireFits' /\ Disconnected'
  BY <1>1, WireKept DEF SameRequests
<1>19. Shape'
  BY <1>2 DEF IndInv, Shape, HandleShape, CountShape, FlagShape, ConnectionShape, QueueShape,
     WireShape, ServerShape
<1>. QED  BY <1>7, <1>8, <1>9, <1>10, <1>11, <1>12, <1>13, <1>14, <1>15, <1>16, <1>17, <1>18, <1>19
          DEF IndInv

\* The two steps that queue another reaction.
LEMMA RequeueSteps ==
    ASSUME IndInv, jobs # <<>>,
           \/ Head(jobs).step = "caught" /\ CatchDetachment(Head(jobs))
           \/ Head(jobs).step = "afterDetach" /\ ~ Head(jobs).ok /\ AfterDetach(Head(jobs)),
           UNCHANGED <<connection, connects, generation, attached, toClient, server>>
    PROVE  IndInv'
<1>1. Head(jobs).handle \in Handles /\ JobFits(Head(jobs))
  BY HeadFacts
<1>2. /\ \A step \in {"afterDetachment", "releaseFailed"} :
             /\ Job(step, Head(jobs).handle) \in Reaction
             /\ Job(step, Head(jobs).handle).step = step
             /\ Job(step, Head(jobs).handle).handle = Head(jobs).handle
  BY <1>1 DEF Job, Reaction, AcquireSteps, ReleaseSteps
<1>3. CASE Head(jobs).step = "caught" /\ CatchDetachment(Head(jobs))
  BY <1>2, <1>3, Requeued DEF CatchDetachment
<1>4. CASE Head(jobs).step = "afterDetach" /\ ~ Head(jobs).ok /\ AfterDetach(Head(jobs))
  <2>1. detachment' = None
    BY <1>1, <1>4 DEF AfterDetach, JobFits, IndInv, PointersFit
  <2>. QED  BY <1>2, <1>4, <2>1, Requeued DEF AfterDetach
<1>. QED  BY <1>3, <1>4

\* A request that settles, and a reaction that is given its outcome.
LEMMA SettledRecord ==
    ASSUME NEW r \in RequestRecord, NEW ok \in BOOLEAN
    PROVE  /\ [r EXCEPT !.settled = TRUE, !.ok = ok, !.waiters = <<>>] \in RequestRecord
           /\ [r EXCEPT !.settled = TRUE, !.ok = ok, !.waiters = <<>>].settled = TRUE
           /\ [r EXCEPT !.settled = TRUE, !.ok = ok, !.waiters = <<>>].state = r.state
           /\ [r EXCEPT !.settled = TRUE, !.ok = ok, !.waiters = <<>>].kind = r.kind
<1>. DEFINE t == TRUE
            w == <<>>
<1>1. t \in BOOLEAN /\ w \in Seq(Reaction)
  OBVIOUS
<1>. HIDE DEF t, w
<1>2. [r EXCEPT !.settled = t, !.ok = ok, !.waiters = w] \in RequestRecord
  BY <1>1 DEF RequestRecord
<1>3. /\ [r EXCEPT !.settled = t, !.ok = ok, !.waiters = w].settled = t
      /\ [r EXCEPT !.settled = t, !.ok = ok, !.waiters = w].state = r.state
      /\ [r EXCEPT !.settled = t, !.ok = ok, !.waiters = w].kind = r.kind
  BY <1>1, <1>2 DEF RequestRecord
<1>. QED  BY <1>2, <1>3, Zenon DEF t, w

\* Settling a request replaces its record.
LEMMA SettledAt ==
    ASSUME NEW s \in Seq(RequestRecord), NEW i \in DOMAIN s, NEW ok
    PROVE  [s EXCEPT ![i].settled = TRUE, ![i].ok = ok, ![i].waiters = <<>>]
           = [s EXCEPT ![i] = [s[i] EXCEPT !.settled = TRUE, !.ok = ok, !.waiters = <<>>]]
OBVIOUS

\* A reaction that is told the outcome.
LEMMA WokenReaction ==
    ASSUME NEW w \in Reaction, NEW ok \in BOOLEAN
    PROVE  /\ [w EXCEPT !.ok = ok] \in Reaction
           /\ [w EXCEPT !.ok = ok].step = w.step /\ [w EXCEPT !.ok = ok].handle = w.handle
           /\ [w EXCEPT !.ok = ok].request = w.request /\ [w EXCEPT !.ok = ok].ok = ok
BY DEF Reaction

\* The promise derived from a request settles: whoever waited is queued with its outcome.
LEMMA SettleStep ==
    ASSUME IndInv, jobs # <<>>, Head(jobs).step = "settle", SettlePromise(Head(jobs)),
           UNCHANGED <<connection, connects, generation, attached, toClient, server>>
    PROVE  IndInv'
<1>. DEFINE ok == Head(jobs).ok
<1>1. /\ Head(jobs) = jobs[1] /\ 1 \in DOMAIN jobs /\ jobs[1] \in Reaction /\ ok \in BOOLEAN
      /\ Len(jobs) = 1 /\ jobs[1].request = Newest /\ Unsettled /\ requests[Newest].state = "done"
      /\ jobs \in Seq(Reaction)
  <2>1. Head(jobs) = jobs[1] /\ 1 \in DOMAIN jobs /\ jobs[1] \in Reaction /\ jobs \in Seq(Reaction)
    BY TailIsRest, QueueFacts
  <2>2. Len(jobs) = 1 /\ jobs[1].request = Newest /\ Unsettled /\ requests[Newest].state = "done"
    BY <2>1 DEF IndInv, Settles
  <2>. QED  BY <2>1, <2>2 DEF Reaction
<1>2. /\ requests \in Seq(RequestRecord) /\ Newest \in DOMAIN requests /\ DOMAIN requests = 1 .. Newest
      /\ Newest \in Nat /\ Newest = Len(requests) /\ Newest > 0 /\ requests[Newest] \in RequestRecord
      /\ Waiters = requests[Newest].waiters /\ Waiters \in Seq(Reaction) /\ Kind \in Kinds
      /\ Len(Waiters) \in Nat /\ DOMAIN Waiters = 1 .. Len(Waiters)
  BY <1>1, QueueFacts
<1>. DEFINE i == Head(jobs).request
            settled == [requests[i] EXCEPT !.settled = TRUE, !.ok = ok, !.waiters = <<>>]
            woken == [k \in 1 .. Len(requests[i].waiters) |-> [requests[i].waiters[k] EXCEPT !.ok = ok]]
<1>3. i = Newest /\ ok \in BOOLEAN
  BY <1>1
<1>4. /\ requests' = [requests EXCEPT ![i] = settled]
      /\ jobs' = Tail(jobs) \o woken
      /\ cleanupRequired' = (cleanupRequired /\ ~ (requests[i].kind = "reconcile" /\ ok))
      /\ reconciliation' = IF requests[i].kind = "reconcile" THEN None ELSE reconciliation
      /\ revision' \in {revision, requests[i].previous}
      /\ UNCHANGED <<handles, count, exclusive, attachment, detachment, toServer>>
  <2>1. requests' = [requests EXCEPT ![i].settled = TRUE, ![i].ok = ok, ![i].waiters = <<>>]
    BY Zenon DEF SettlePromise
  <2>2. requests \in Seq(RequestRecord) /\ i \in DOMAIN requests
    BY <1>2, <1>3
  <2>3. requests' = [requests EXCEPT ![i] = settled]
    <3>. HIDE DEF ok, i
    <3>. QED  BY <2>1, <2>2, SettledAt, Zenon
  <2>4. /\ jobs' = Tail(jobs) \o woken
        /\ cleanupRequired' = (cleanupRequired /\ ~ (requests[i].kind = "reconcile" /\ ok))
        /\ reconciliation' = IF requests[i].kind = "reconcile" THEN None ELSE reconciliation
        /\ UNCHANGED <<handles, count, exclusive, attachment, detachment, toServer>>
    BY Zenon DEF SettlePromise
  <2>5. revision' \in {revision, requests[i].previous}
    <3>1. revision' = IF requests[i].kind = "attach" /\ ~ ok /\ revision = None
                         THEN requests[i].previous ELSE revision
      BY Zenon DEF SettlePromise
    <3>. HIDE DEF ok, i
    <3>. QED  BY <3>1
  <2>. QED  BY <2>3, <2>4, <2>5
<1>5. /\ settled \in RequestRecord /\ settled.settled = TRUE /\ settled.state = "done"
      /\ settled.kind = Kind
  <2>1. requests[i] \in RequestRecord /\ requests[i].state = "done" /\ requests[i].kind = Kind
    BY <1>1, <1>2, <1>3 DEF Kind
  <2>. HIDE DEF ok, i
  <2>. QED  BY <1>3, <2>1, SettledRecord, Zenon
<1>6. /\ jobs' \in Seq(Reaction) /\ DOMAIN jobs' = DOMAIN Waiters
      /\ \A k \in DOMAIN Waiters : /\ jobs'[k].step = Waiters[k].step /\ jobs'[k].handle = Waiters[k].handle
                                   /\ jobs'[k].request = Waiters[k].request /\ jobs'[k].ok = ok
  <2>1. Waiters = requests[i].waiters
    BY <1>2, <1>3
  <2>2. ASSUME NEW k \in DOMAIN Waiters
        PROVE  /\ woken[k] \in Reaction
               /\ woken[k].step = Waiters[k].step /\ woken[k].handle = Waiters[k].handle
               /\ woken[k].request = Waiters[k].request /\ woken[k].ok = ok
    <3>1. Waiters[k] \in Reaction /\ k \in 1 .. Len(Waiters)
      BY <1>2, <2>2
    <3>2. woken[k] = [Waiters[k] EXCEPT !.ok = ok]
      BY <2>1, <3>1
    <3>. HIDE DEF ok, woken
    <3>. QED  BY <1>3, <3>1, <3>2, WokenReaction
  <2>3. woken \in Seq(Reaction) /\ Len(woken) = Len(Waiters)
    <3>1. DOMAIN woken = 1 .. Len(Waiters) /\ woken = [k \in 1 .. Len(Waiters) |-> woken[k]]
      BY <2>1
    <3>2. Len(Waiters) \in Nat /\ \A k \in 1 .. Len(Waiters) : woken[k] \in Reaction
      BY <1>2, <2>2
    <3>. HIDE DEF woken
    <3>. QED  BY <3>1, <3>2
  <2>4. Tail(jobs) \in Seq(Reaction) /\ Len(Tail(jobs)) = 0
    BY <1>1, TailIs
  <2>. HIDE DEF ok, woken
  <2>5. /\ jobs' \in Seq(Reaction) /\ Len(jobs') = Len(woken)
        /\ \A k \in 1 .. Len(woken) : jobs'[k] = woken[k]
    <3>1. jobs' = Tail(jobs) \o woken
      BY <1>4
    <3>2. Tail(jobs) \o woken \in Seq(Reaction) /\ Len(Tail(jobs) \o woken) = Len(woken)
          /\ \A k \in 1 .. Len(woken) : (Tail(jobs) \o woken)[k] = woken[k]
      BY <2>3, <2>4, ConcatIs, ZenonT(30)
    <3>. QED  BY <3>1, <3>2, Zenon
  <2>6. DOMAIN jobs' = 1 .. Len(jobs') /\ DOMAIN Waiters = 1 .. Len(Waiters)
    BY <1>2, <2>5
  <2>. QED  BY <2>2, <2>3, <2>5, <2>6
<1>7. /\ requests' \in Seq(RequestRecord) /\ Newest' = Newest /\ requests'[Newest] = settled
      /\ \A k \in 1 .. Newest : k # Newest => requests'[k] = requests[k]
  <2>1. requests \in Seq(RequestRecord) /\ i \in DOMAIN requests
    BY <1>2, <1>3
  <2>2. requests' = [requests EXCEPT ![i] = settled] /\ settled \in RequestRecord
    BY <1>4, <1>5
  <2>. HIDE DEF settled, i
  <2>3. /\ requests' \in Seq(RequestRecord) /\ Len(requests') = Len(requests) /\ requests'[i] = settled
        /\ \A k \in DOMAIN requests : k # i => requests'[k] = requests[k]
    BY <2>1, <2>2, UpdateIs
  <2>. QED  BY <1>2, <1>3, <2>3 DEF Newest
<1>. HIDE DEF settled, woken, ok
<1>8. /\ ~ Unsettled' /\ Waiters' = <<>> /\ Kind' = Kind /\ ~ PendingNow /\ ~ PendingNow'
  <2>1. ~ Unsettled' /\ ~ PendingNow'
    BY <1>5, <1>7 DEF Unsettled, PendingNow
  <2>2. Kind' = Kind /\ ~ PendingNow
    BY <1>1, <1>5, <1>7 DEF Kind, PendingNow
  <2>. QED  BY <2>1, <2>2 DEF Waiters
<1>26. /\ cleanupRequired' = (cleanupRequired /\ ~ (Kind = "reconcile" /\ ok))
       /\ reconciliation' = IF Kind = "reconcile" THEN None ELSE reconciliation
       /\ revision' \in {revision, requests[Newest].previous}
       /\ UNCHANGED <<handles, count, exclusive, attachment, detachment, toServer>>
  BY <1>3, <1>4 DEF Kind
<1>9. /\ JobFits(jobs[1]) /\ ok \in BOOLEAN /\ (ok => connection = "connected")
  <2>1. JobFits(jobs[1])
    BY <1>1 DEF IndInv, JobsFit
  <2>2. jobs[1].step = "settle" /\ jobs[1].ok = ok /\ ok \in BOOLEAN
    BY <1>1 DEF ok
  <2>. QED  BY <2>1, <2>2 DEF JobFits, ResultSteps
<1>10. cleanupRequired => Kind = "reconcile"
  BY <1>1 DEF IndInv, CleanupFits
<1>. HIDE DEF ok
<1>11. /\ Waiters # <<>>
       /\ \A k \in DOMAIN Waiters :
              /\ jobs'[k].request = Newest /\ jobs'[k].ok = ok
              /\ Kind = "attach" => jobs'[k].step = "afterAttach"
              /\ Kind = "reconcile" => jobs'[k].step = "afterReconciliation"
              /\ Kind = "detach" => jobs'[k].step = IF k = 1 THEN "afterDetach" ELSE "caught"
  BY <1>1, <1>6 DEF IndInv, WaitersFit
<1>12. \A k \in DOMAIN jobs' : jobs'[k].step # "settle"
  BY <1>2, <1>6, <1>11 DEF Kinds
<1>13. OneUnsettled'
  <2>. USE DEF OneUnsettled
  <2>0. OneUnsettled
    BY DEF IndInv
  <2>1. ASSUME NEW k \in 1 .. Newest, requests'[k].settled PROVE requests'[k].state = "done"
    <3>1. CASE k = Newest
      BY <1>5, <1>7, <3>1
    <3>2. CASE k # Newest
      BY <1>7, <2>0, <2>1, <3>2
    <3>. QED  BY <3>1, <3>2
  <2>2. ASSUME NEW k \in 1 .. Newest, k < Newest PROVE requests'[k].settled
    <3>1. Newest \in Nat
      BY <1>2
    <3>2. k # Newest
      BY <2>2, <3>1
    <3>3. requests'[k] = requests[k]
      BY <1>7, <3>2
    <3>. QED  BY <2>0, <2>2, <3>3
  <2>. QED  BY <1>7, <2>1, <2>2 DEF OneUnsettled
<1>14. Settles' /\ WaitersFit'
  BY <1>8, <1>12 DEF Settles, WaitersFit
<1>15. JobsOrdered'
  <2>1. ASSUME NEW k \in DOMAIN jobs', NEW l \in DOMAIN jobs', k < l PROVE Before(jobs'[k], jobs'[l])
    <3>1. l # 1
      BY <1>2, <1>6, <2>1
    <3>. QED  BY <1>2, <1>6, <1>11, <2>1, <3>1 DEF Before, Kinds
  <2>. QED  BY <2>1 DEF JobsOrdered
<1>16. JobsFit'
  <2>1. ASSUME NEW k \in DOMAIN jobs' PROVE JobFits(jobs[k])'
    <3>1. k \in DOMAIN Waiters
      BY <1>6, <2>1
    <3>5. jobs'[k].ok = ok /\ (ok => connection = "connected") /\ jobs'[k].request = Newest
      BY <1>9, <1>11, <3>1
    <3>6. Kind # "reconcile" => ~ cleanupRequired'
      BY <1>26, <1>10
    <3>7. Newest > 0 /\ Newest' = Newest
      BY <1>2, <1>7
    <3>2. CASE Kind = "attach"
      <4>1. jobs'[k].step = "afterAttach"
        BY <1>11, <3>1, <3>2
      <4>. QED  BY <1>8, <3>5, <3>6, <3>7, <3>2, <4>1 DEF JobFits
    <3>3. CASE Kind = "detach"
      <4>1. jobs'[k].step \in {"afterDetach", "caught"}
        BY <1>11, <3>1, <3>3
      <4>. QED  BY <1>8, <3>5, <3>6, <3>7, <3>3, <4>1 DEF JobFits
    <3>4. CASE Kind = "reconcile"
      <4>1. jobs'[k].step = "afterReconciliation" /\ (ok => ~ cleanupRequired')
        BY <1>11, <1>26, <3>1, <3>4
      <4>. QED  BY <1>8, <3>5, <4>1 DEF JobFits
    <3>. QED  BY <1>2, <3>2, <3>3, <3>4 DEF Kinds
  <2>. QED  BY <2>1 DEF JobsFit
<1>17. PointersFit'
  <2>1. 1 \in DOMAIN Waiters /\ jobs' # <<>> /\ Head(jobs') = jobs'[1]
    BY <1>2, <1>6, <1>11
  <2>2. attachment' # None => attachment' = Newest /\ Kind = "attach" /\ Ahead("afterAttach")'
    BY <1>26, <1>11, <2>1 DEF IndInv, PointersFit, Ahead
  <2>3. detachment' # None => detachment' = Newest /\ Kind = "detach" /\ Ahead("afterDetach")'
    BY <1>26, <1>11, <2>1 DEF IndInv, PointersFit, Ahead
  <2>4. reconciliation' = None
    <3>1. reconciliation # None => Kind = "reconcile"
      BY DEF IndInv, PointersFit
    <3>2. reconciliation' = IF Kind = "reconcile" THEN None ELSE reconciliation
      BY <1>26
    <3>. QED  BY <3>1, <3>2
  <2>. QED  BY <1>2, <1>7, <1>8, <2>2, <2>3, <2>4 DEF PointersFit
<1>18. CleanupFits'
  BY <1>26, <1>8 DEF IndInv, CleanupFits, Live, Valid
<1>19. HandlesBacked'
  <2>1. ASSUME NEW k \in DOMAIN jobs' PROVE Backed(jobs[k])'
    <3>1. k \in DOMAIN Waiters /\ Backed(Waiters[k])
      BY <1>6, <2>1 DEF IndInv, HandlesBacked
    <3>2. jobs'[k].step = Waiters[k].step /\ jobs'[k].handle = Waiters[k].handle
      BY <1>6, <3>1
    <3>. QED  BY <1>26, <3>1, <3>2 DEF Backed, Acquiring, Valid
  <2>. QED  BY <1>8, <2>1 DEF HandlesBacked
<1>20. OneReactionEach'
  <2>1. \A k, l \in DOMAIN jobs' : jobs'[k].handle = jobs'[l].handle => k = l
    BY <1>6, <1>11 DEF IndInv, OneReactionEach
  <2>. QED  BY <1>8, <2>1 DEF OneReactionEach
<1>21. NobodyForgotten'
  <2>1. ASSUME NEW q \in Handles, Acquiring(q)
        PROVE  \E k \in DOMAIN jobs' : jobs'[k].step # "settle" /\ jobs'[k].handle = q
    <3>1. \A k \in DOMAIN jobs : jobs[k].step = "settle"
      BY <1>1
    <3>2. PICK k \in DOMAIN Waiters : Waiters[k].handle = q
      BY <2>1, <3>1 DEF IndInv, NobodyForgotten
    <3>. QED  BY <1>6, <1>11, <1>12, <3>2
  <2>. QED  BY <1>26, <2>1 DEF NobodyForgotten, Acquiring
<1>22. ReleaserAlone'
  <2>1. ASSUME NEW k \in DOMAIN jobs', jobs'[k].step \in ReleaseSteps, NEW q \in Handles, Live(q)
        PROVE  q = jobs'[k].handle
    <3>1. k \in DOMAIN Waiters
      BY <1>6, <2>1
    <3>2. Kind = "detach" /\ k = 1
      BY <1>2, <1>11, <2>1, <3>1 DEF Kinds, ReleaseSteps
    <3>3. q = Waiters[1].handle
      <4>1. Unsettled
        BY <1>1
      <4>. QED  BY <2>1, <3>2, <4>1 DEF IndInv, ReleaserAlone
    <3>. QED  BY <1>6, <3>1, <3>2, <3>3
  <2>. QED  BY <1>26, <1>8, <2>1 DEF ReleaserAlone, Live, Valid
<1>23. CountFits'
  BY <1>26 DEF IndInv, CountFits
<1>24. PromptsBounded' /\ WireFits' /\ Disconnected'
  BY <1>26, <1>7, <1>8, WireKept
<1>25. Shape'
  <2>1. revision' \in Revisions
    BY <1>2, <1>26 DEF IndInv, Shape, FlagShape, RequestRecord
  <2>2. cleanupRequired' \in BOOLEAN
    BY <1>26 DEF IndInv, Shape, FlagShape
  <2>3. HandleShape' /\ CountShape'
    BY <1>26 DEF IndInv, Shape, HandleShape, CountShape
  <2>4. FlagShape' /\ ConnectionShape'
    BY <2>1, <2>2 DEF IndInv, Shape, FlagShape, ConnectionShape
  <2>5. QueueShape' /\ WireShape' /\ ServerShape'
    BY <1>26, <1>6, <1>7 DEF IndInv, Shape, QueueShape, WireShape, ServerShape
  <2>. QED  BY <2>3, <2>4, <2>5 DEF Shape
<1>. QED  BY <1>13, <1>14, <1>15, <1>16, <1>17, <1>18, <1>19, <1>20, <1>21, <1>22, <1>23, <1>24, <1>25
          DEF IndInv

--------------------------------------------------------------------------------
(* acquireSession goes on.  Handle h has no reaction for the moment; hs, js, c    *)
(* and e are the leases, the queue, the count and the exclusive lease as they     *)
(* will be without what it is about to do.                                        *)

BackedIn(hs, c, j) ==
    /\ j.step \in AcquireSteps => j.handle \in Handles /\ hs[j.handle].state = "acquiring"
    /\ j.step \in ReleaseSteps => j.handle \in Handles /\ hs[j.handle].state = "releasing"
    /\ j.step # "settle" /\ hs[j.handle].generation # generation => connection # "connected" /\ c = 0

HandLease(h, hs, c, e) ==
    /\ h \in Handles /\ hs \in [Handles -> Lease] /\ hs[h].state = "acquiring"
    /\ hs[h].generation # generation => connection # "connected" /\ c = 0
    /\ c \in Nat /\ e \in Handles \cup {None} /\ CountIs(hs, generation, c, e)
    /\ \A q \in Handles : hs[q].generation <= generation

HandJobs(js) ==
    /\ js \in Seq(Reaction)
    /\ \A k \in DOMAIN js : /\ js[k].step \in {"afterDetachment", "afterReconciliation", "settle"}
                            /\ js[k].step = "afterReconciliation" => js[k].ok
                            /\ JobFits(js[k])
    /\ \A k, l \in DOMAIN js : k < l => Before(js[k], js[l])
    /\ \A k \in DOMAIN js : js[k].step = "settle" =>
           k = Len(js) /\ js[k].request = Newest /\ Unsettled /\ requests[Newest].state = "done"
    /\ Unsettled /\ requests[Newest].state = "done" => js # <<>> /\ js[Len(js)].step = "settle"

HandBacked(h, hs, js, c) ==
    /\ \A k \in DOMAIN js : js[k].step # "settle" => BackedIn(hs, c, js[k]) /\ js[k].handle # h
    /\ \A k \in DOMAIN Waiters : BackedIn(hs, c, Waiters[k]) /\ Waiters[k].handle # h

HandEach(js) ==
    /\ \A k, l \in DOMAIN js : js[k].step # "settle" /\ js[l].step # "settle"
            /\ js[k].handle = js[l].handle => k = l
    /\ \A k \in DOMAIN js, l \in DOMAIN Waiters :
            js[k].step # "settle" => js[k].handle # Waiters[l].handle

HandKnown(h, hs, js) ==
    \A q \in Handles \ {h} : hs[q].state = "acquiring" =>
        \/ \E k \in DOMAIN js : js[k].step # "settle" /\ js[k].handle = q
        \/ \E k \in DOMAIN Waiters : Waiters[k].handle = q

InHand(h, hs, js, c, e) ==
    /\ HandLease(h, hs, c, e) /\ HandJobs(js) /\ HandBacked(h, hs, js, c) /\ HandEach(js)
    /\ HandKnown(h, hs, js)

\* What acquireSession finds when no detachment is under way.
HandClear(hs) ==
    /\ cleanupRequired => \A q \in Handles : ~ (hs[q].state \in {"active", "releasing"} /\ hs[q].generation = generation)
    /\ Unsettled => Kind # "detach" /\ (Kind = "reconcile" => cleanupRequired)
    /\ detachment = None /\ (attachment # None => Unsettled)

\* jobs' is js, perhaps with a settling reaction behind it; Waiters' is Waiters, perhaps with
\* one for h behind it.
JobsGrow(js) ==
    /\ \A k \in DOMAIN js : k \in DOMAIN jobs' /\ jobs'[k] = js[k]
    /\ \A k \in DOMAIN jobs' : k \in DOMAIN js \/ jobs'[k].step = "settle"
WaitersGrow(h) ==
    /\ \A k \in DOMAIN Waiters : k \in DOMAIN Waiters' /\ Waiters'[k] = Waiters[k]
    /\ \A k, l \in DOMAIN Waiters' : k \notin DOMAIN Waiters /\ l \notin DOMAIN Waiters => k = l
    /\ \A k \in DOMAIN Waiters' : \/ k \in DOMAIN Waiters
                                  \/ Waiters'[k].handle = h /\ Waiters'[k].step \in AcquireSteps

\* Whatever h goes on to do, every other call keeps its reaction.
LEMMA Handed ==
    ASSUME IndInv, NEW h, NEW hs, NEW js, NEW c, NEW e, InHand(h, hs, js, c, e),
           JobsGrow(js), WaitersGrow(h), count' = c, generation' = generation, connection' = connection,
           \A q \in Handles \ {h} : handles'[q] = hs[q],
           \/ handles'[h] = hs[h] /\ \E k \in DOMAIN Waiters' : Waiters'[k].handle = h
           \/ handles'[h].state # "acquiring" /\ \A k \in DOMAIN Waiters' : k \in DOMAIN Waiters
    PROVE  /\ HandlesBacked' /\ OneReactionEach' /\ NobodyForgotten'
           /\ (Unsettled' => Kind' # "detach") => ReleaserAlone'
<1>1. /\ h \in Handles /\ hs[h].state = "acquiring"
      /\ hs[h].generation # generation => connection # "connected" /\ c = 0
  BY DEF InHand, HandLease
<1>2. \A k \in DOMAIN js : /\ js[k].step \in {"afterDetachment", "afterReconciliation", "settle"}
                           /\ k \in DOMAIN jobs' /\ jobs'[k] = js[k]
  BY DEF InHand, HandJobs, JobsGrow
<1>3. \A k \in DOMAIN Waiters : /\ Waiters[k].step \in AcquireSteps \cup ReleaseSteps
                                /\ Waiters[k].handle \in Handles
                                /\ k \in DOMAIN Waiters' /\ Waiters'[k] = Waiters[k]
  BY StepFacts DEF WaitersGrow
<1>4. HandlesBacked'
  <2>1. ASSUME NEW k \in DOMAIN jobs' PROVE Backed(jobs[k])'
    <3>1. CASE jobs'[k].step = "settle"
      BY <3>1 DEF Backed, AcquireSteps, ReleaseSteps
    <3>2. CASE jobs'[k].step # "settle"
      <4>1. k \in DOMAIN js /\ jobs'[k] = js[k]
        BY <2>1, <3>2 DEF JobsGrow
      <4>2. js[k].step \in AcquireSteps
        BY <1>2, <3>2, <4>1 DEF AcquireSteps
      <4>3. BackedIn(hs, c, js[k]) /\ js[k].handle # h
        BY <3>2, <4>1 DEF InHand, HandBacked
      <4>. QED  BY <4>1, <4>2, <4>3 DEF Backed, BackedIn, Acquiring, Valid, AcquireSteps, ReleaseSteps
    <3>. QED  BY <3>1, <3>2
  <2>2. ASSUME NEW k \in DOMAIN Waiters' PROVE Backed(Waiters[k])'
    <3>1. CASE k \in DOMAIN Waiters
      <4>1. BackedIn(hs, c, Waiters[k]) /\ Waiters[k].handle # h
        BY <3>1 DEF InHand, HandBacked
      <4>. QED  BY <1>3, <3>1, <4>1 DEF Backed, BackedIn, Acquiring, Valid
    <3>2. CASE k \notin DOMAIN Waiters
      <4>1. Waiters'[k].handle = h /\ Waiters'[k].step \in AcquireSteps /\ handles'[h] = hs[h]
        BY <2>2, <3>2 DEF WaitersGrow
      <4>. QED  BY <1>1, <4>1 DEF Backed, Acquiring, Valid, AcquireSteps, ReleaseSteps
    <3>. QED  BY <3>1, <3>2
  <2>. QED  BY <2>1, <2>2 DEF HandlesBacked
<1>5. OneReactionEach'
  <2>1. \A k, l \in DOMAIN jobs' : jobs'[k].step # "settle" /\ jobs'[l].step # "settle"
            /\ jobs'[k].handle = jobs'[l].handle => k = l
    BY <1>2 DEF JobsGrow, InHand, HandEach
  <2>2. ASSUME NEW k \in DOMAIN Waiters', NEW l \in DOMAIN Waiters', Waiters'[k].handle = Waiters'[l].handle
        PROVE  k = l
    <3>1. CASE k \in DOMAIN Waiters /\ l \in DOMAIN Waiters
      BY <1>3, <2>2, <3>1 DEF IndInv, OneReactionEach
    <3>2. CASE k \notin DOMAIN Waiters /\ l \notin DOMAIN Waiters
      BY <3>2 DEF WaitersGrow
    <3>3. CASE k \in DOMAIN Waiters /\ l \notin DOMAIN Waiters
      BY <2>2, <3>3 DEF WaitersGrow, InHand, HandBacked
    <3>4. CASE k \notin DOMAIN Waiters /\ l \in DOMAIN Waiters
      BY <2>2, <3>4 DEF WaitersGrow, InHand, HandBacked
    <3>. QED  BY <3>1, <3>2, <3>3, <3>4
  <2>3. ASSUME NEW k \in DOMAIN jobs', NEW l \in DOMAIN Waiters', jobs'[k].step # "settle"
        PROVE  jobs'[k].handle # Waiters'[l].handle
    <3>1. k \in DOMAIN js /\ jobs'[k] = js[k]
      BY <2>3 DEF JobsGrow
    <3>2. CASE l \in DOMAIN Waiters
      BY <1>3, <2>3, <3>1, <3>2 DEF InHand, HandEach
    <3>3. CASE l \notin DOMAIN Waiters
      <4>1. Waiters'[l].handle = h
        BY <3>3 DEF WaitersGrow
      <4>2. js[k].handle # h
        BY <2>3, <3>1 DEF InHand, HandBacked
      <4>. QED  BY <3>1, <4>1, <4>2
    <3>. QED  BY <3>2, <3>3
  <2>. QED  BY <2>1, <2>2, <2>3 DEF OneReactionEach
<1>6. NobodyForgotten'
  <2>1. ASSUME NEW q \in Handles, Acquiring(q)'
        PROVE  \/ \E k \in DOMAIN jobs' : jobs'[k].step # "settle" /\ jobs'[k].handle = q
               \/ \E k \in DOMAIN Waiters' : Waiters'[k].handle = q
    <3>1. CASE q = h
      BY <2>1, <3>1 DEF Acquiring
    <3>2. CASE q # h
      <4>1. hs[q].state = "acquiring" /\ q \in Handles \ {h}
        BY <2>1, <3>2 DEF Acquiring
      <4>2. \/ \E k \in DOMAIN js : js[k].step # "settle" /\ js[k].handle = q
            \/ \E k \in DOMAIN Waiters : Waiters[k].handle = q
        BY <4>1 DEF InHand, HandKnown
      <4>. QED  BY <1>2, <1>3, <4>2
    <3>. QED  BY <3>1, <3>2
  <2>. QED  BY <2>1 DEF NobodyForgotten
<1>7. (Unsettled' => Kind' # "detach") => ReleaserAlone'
  <2>1. \A k \in DOMAIN jobs' : jobs'[k].step \notin ReleaseSteps
    BY <1>2 DEF JobsGrow, ReleaseSteps
  <2>. QED  BY <2>1 DEF ReleaserAlone
<1>. QED  BY <1>4, <1>5, <1>6, <1>7

\* acquireSession resumes after a detachment or a reconciliation.
LEMMA HandPopped ==
    ASSUME IndInv, jobs # <<>>,
           \/ Head(jobs).step = "afterDetachment"
           \/ Head(jobs).step = "afterReconciliation" /\ Head(jobs).ok
    PROVE  InHand(Head(jobs).handle, handles, Tail(jobs), count, exclusive) /\ HandClear(handles)
<1>. DEFINE h == Head(jobs).handle
            js == Tail(jobs)
<1>1. /\ Head(jobs) = jobs[1] /\ 1 \in DOMAIN jobs /\ DOMAIN jobs = 1 .. Len(jobs) /\ Len(jobs) \in Nat
      /\ js \in Seq(Reaction) /\ DOMAIN js = 1 .. Len(jobs) - 1 /\ Len(js) = Len(jobs) - 1
      /\ \A k \in DOMAIN js : k + 1 \in DOMAIN jobs /\ js[k] = jobs[k + 1]
      /\ \A k \in DOMAIN jobs : k # 1 => k - 1 \in DOMAIN js /\ js[k - 1] = jobs[k]
  <2>1. jobs \in Seq(Reaction)
    BY QueueFacts
  <2>2. /\ js \in Seq(Reaction) /\ Len(jobs) \in Nat /\ Len(jobs) >= 1 /\ Len(js) = Len(jobs) - 1
        /\ DOMAIN jobs = 1 .. Len(jobs) /\ DOMAIN js = 1 .. Len(jobs) - 1
        /\ Head(jobs) = jobs[1] /\ 1 \in DOMAIN jobs
        /\ \A k \in DOMAIN js : k + 1 \in DOMAIN jobs /\ js[k] = jobs[k + 1]
    BY <2>1, TailIs
  <2>. HIDE DEF js
  <2>3. \A k \in DOMAIN jobs : k # 1 => k - 1 \in DOMAIN js /\ (k - 1) + 1 = k
    BY <2>2
  <2>4. \A k \in DOMAIN jobs : k # 1 => k - 1 \in DOMAIN js /\ js[k - 1] = jobs[k]
    BY <2>2, <2>3
  <2>. QED  BY <2>2, <2>4
<1>2. jobs[1].step # "settle" /\ jobs[1].step \in {"afterDetachment", "afterReconciliation"}
      /\ (jobs[1].step = "afterReconciliation" => jobs[1].ok)
  BY <1>1
<1>3. HandLease(h, handles, count, exclusive)
  BY HeadFacts, <1>1, <1>2 DEF HandLease, AcquireSteps, Valid, IndInv, CountFits
<1>. HIDE DEF js
<1>4. \A k \in DOMAIN js : /\ Before(jobs[1], js[k]) /\ JobFits(js[k])
                           /\ js[k].step \in {"afterDetachment", "afterReconciliation", "settle"}
                           /\ js[k].step = "afterReconciliation" => js[k].ok
  <2>1. ASSUME NEW k \in DOMAIN js
        PROVE  Before(jobs[1], js[k]) /\ JobFits(js[k])
    <3>1. k + 1 \in DOMAIN jobs /\ js[k] = jobs[k + 1] /\ 1 < k + 1
      BY <1>1, <2>1
    <3>. QED  BY <1>1, <3>1 DEF IndInv, JobsOrdered, JobsFit
  <2>. QED  BY <1>2, <2>1 DEF Before
<1>5. HandJobs(js)
  <2>1. ASSUME NEW k \in DOMAIN js, NEW l \in DOMAIN js, k < l PROVE Before(js[k], js[l])
    <3>1. k + 1 \in DOMAIN jobs /\ l + 1 \in DOMAIN jobs /\ k + 1 < l + 1 /\ js[k] = jobs[k + 1]
          /\ js[l] = jobs[l + 1]
      BY <1>1, <2>1
    <3>. QED  BY <3>1 DEF IndInv, JobsOrdered
  <2>2. ASSUME NEW k \in DOMAIN js, js[k].step = "settle"
        PROVE  k = Len(js) /\ js[k].request = Newest /\ Unsettled /\ requests[Newest].state = "done"
    <3>1. k + 1 \in DOMAIN jobs /\ js[k] = jobs[k + 1]
      BY <1>1, <2>2
    <3>2. k + 1 = Len(jobs) /\ js[k].request = Newest /\ Unsettled /\ requests[Newest].state = "done"
      BY <2>2, <3>1 DEF IndInv, Settles
    <3>. QED  BY <1>1, <2>2, <3>2
  <2>3. ASSUME Unsettled, requests[Newest].state = "done" PROVE js # <<>> /\ js[Len(js)].step = "settle"
    <3>1. jobs[Len(jobs)].step = "settle"
      BY <2>3 DEF IndInv, Settles
    <3>2. Len(jobs) # 1 /\ Len(jobs) \in DOMAIN jobs
      BY <1>1, <1>2, <3>1
    <3>3. Len(js) \in DOMAIN js /\ js[Len(js)] = jobs[Len(jobs)]
      BY <1>1, <3>2
    <3>. QED  BY <3>1, <3>3
  <2>. QED  BY <1>1, <1>4, <2>1, <2>2, <2>3 DEF HandJobs
<1>6. HandBacked(h, handles, js, count)
  <2>1. ASSUME NEW k \in DOMAIN js, js[k].step # "settle"
        PROVE  BackedIn(handles, count, js[k]) /\ js[k].handle # h
    <3>1. k + 1 \in DOMAIN jobs /\ js[k] = jobs[k + 1] /\ k + 1 # 1
      BY <1>1, <2>1
    <3>2. Backed(jobs[k + 1])
      BY <3>1 DEF IndInv, HandlesBacked
    <3>3. jobs[k + 1].handle # jobs[1].handle
      BY <1>1, <1>2, <2>1, <3>1 DEF IndInv, OneReactionEach
    <3>. QED  BY <1>1, <3>1, <3>2, <3>3 DEF Backed, BackedIn, Acquiring, Valid
  <2>2. ASSUME NEW k \in DOMAIN Waiters
        PROVE  BackedIn(handles, count, Waiters[k]) /\ Waiters[k].handle # h
    <3>1. Backed(Waiters[k]) /\ Waiters[k].handle # jobs[1].handle
      BY <1>1, <1>2, <2>2 DEF IndInv, HandlesBacked, OneReactionEach
    <3>. QED  BY <1>1, <3>1 DEF Backed, BackedIn, Acquiring, Valid
  <2>. QED  BY <2>1, <2>2 DEF HandBacked
<1>7. HandEach(js)
  <2>1. ASSUME NEW k \in DOMAIN js, NEW l \in DOMAIN js, js[k].step # "settle", js[l].step # "settle",
               js[k].handle = js[l].handle
        PROVE  k = l
    <3>1. k + 1 \in DOMAIN jobs /\ l + 1 \in DOMAIN jobs /\ js[k] = jobs[k + 1] /\ js[l] = jobs[l + 1]
      BY <1>1, <2>1
    <3>2. k + 1 = l + 1
      BY <2>1, <3>1 DEF IndInv, OneReactionEach
    <3>. QED  BY <1>1, <2>1, <3>2
  <2>2. ASSUME NEW k \in DOMAIN js, NEW l \in DOMAIN Waiters, js[k].step # "settle"
        PROVE  js[k].handle # Waiters[l].handle
    BY <1>1, <2>2 DEF IndInv, OneReactionEach
  <2>. QED  BY <2>1, <2>2 DEF HandEach
<1>8. HandKnown(h, handles, js)
  <2>1. ASSUME NEW q \in Handles \ {h}, handles[q].state = "acquiring"
        PROVE  \/ \E k \in DOMAIN js : js[k].step # "settle" /\ js[k].handle = q
               \/ \E k \in DOMAIN Waiters : Waiters[k].handle = q
    <3>1. CASE \E k \in DOMAIN jobs : jobs[k].step # "settle" /\ jobs[k].handle = q
      <4>1. PICK k \in DOMAIN jobs : jobs[k].step # "settle" /\ jobs[k].handle = q
        BY <3>1
      <4>2. k # 1
        BY <1>1, <2>1, <4>1
      <4>. QED  BY <1>1, <4>1, <4>2
    <3>. QED  BY <2>1, <3>1 DEF IndInv, NobodyForgotten, Acquiring
  <2>. QED  BY <2>1 DEF HandKnown
<1>9. HandClear(handles)
  <2>1. Unsettled => Kind # "detach" /\ (Kind = "reconcile" => cleanupRequired)
    BY <1>1, <1>2 DEF IndInv, CleanupFits
  <2>2. detachment = None /\ (attachment # None => Unsettled)
    <3>1. ~ Ahead("afterAttach") /\ ~ Ahead("afterDetach")
      BY <1>1, <1>2 DEF Ahead
    <3>. QED  BY <2>1, <3>1 DEF IndInv, PointersFit
  <2>. QED  BY <2>1, <2>2 DEF HandClear, IndInv, CleanupFits, Live, Valid
<1>. QED  BY <1>3, <1>5, <1>6, <1>7, <1>8, <1>9 DEF InHand, js

\* One lease replaced.
LEMMA LeaseReplaced ==
    ASSUME NEW f \in [Handles -> Lease], NEW h \in Handles, NEW x \in Lease
    PROVE  /\ [f EXCEPT ![h] = x] \in [Handles -> Lease] /\ [f EXCEPT ![h] = x][h] = x
           /\ \A q \in Handles \ {h} : [f EXCEPT ![h] = x][q] = f[q]
OBVIOUS

\* A call of acquireSession that may go on has reserved its lease.
LEMMA HandReserved ==
    ASSUME IndInv, jobs = <<>>, NEW h \in Handles, NEW mode \in {"shared", "exclusive"}, MayReserve(mode),
           handles[h].state = "unused",
           NEW hs, hs = [handles EXCEPT ![h].state = "acquiring", ![h].mode = mode,
                                        ![h].generation = generation],
           NEW e, e = IF mode = "exclusive" THEN h ELSE exclusive
    PROVE  InHand(h, hs, <<>>, count + 1, e) /\ (detachment = None => HandClear(hs))
<1>1. /\ handles \in [Handles -> Lease] /\ count \in Nat /\ exclusive \in Handles \cup {None}
      /\ generation \in Nat /\ CountIs(handles, generation, count, exclusive)
      /\ \A q \in Handles : handles[q].generation <= generation
  BY DEF IndInv, Shape, HandleShape, CountShape, CountFits
<1>. DEFINE lease == [handles[h] EXCEPT !.state = "acquiring", !.mode = mode, !.generation = generation]
<1>2. /\ lease \in Lease /\ lease.state = "acquiring" /\ lease.mode = mode
      /\ lease.generation = generation
  <2>1. handles[h] \in Lease
    BY <1>1
  <2>. QED  BY <1>1, <2>1 DEF Lease
<1>3. hs = [handles EXCEPT ![h] = lease]
  BY <1>1
<1>. HIDE DEF lease
<1>4. /\ hs \in [Handles -> Lease] /\ hs[h] = lease
      /\ \A q \in Handles \ {h} : hs[q] = handles[q]
  <2>1. handles \in [Handles -> Lease] /\ lease \in Lease
    BY <1>1, <1>2
  <2>. DEFINE new == [handles EXCEPT ![h] = lease]
  <2>2. new \in [Handles -> Lease] /\ new[h] = lease /\ \A q \in Handles \ {h} : new[q] = handles[q]
    BY <2>1, LeaseReplaced
  <2>3. hs = new
    BY <1>3
  <2>. HIDE DEF new
  <2>. QED  BY <2>2, <2>3, Zenon
<1>5. \A k \in DOMAIN Waiters : /\ Backed(Waiters[k]) /\ Waiters[k].handle \in Handles
                                /\ Waiters[k].step \in AcquireSteps \cup ReleaseSteps
                                /\ Waiters[k].handle # h
  <2>1. ASSUME NEW k \in DOMAIN Waiters PROVE Waiters[k].handle # h
    <3>1. Backed(Waiters[k]) /\ Waiters[k].step \in AcquireSteps \cup ReleaseSteps
      BY <2>1, StepFacts DEF IndInv, HandlesBacked
    <3>2. handles[Waiters[k].handle].state \in {"acquiring", "releasing"}
      BY <3>1 DEF Backed, Acquiring
    <3>. QED  BY <3>2
  <2>. QED  BY <2>1, StepFacts DEF IndInv, HandlesBacked
<1>6. \A q \in Handles \ {h} : handles[q].state = "acquiring" => \E k \in DOMAIN Waiters : Waiters[k].handle = q
  BY DEF IndInv, NobodyForgotten, Acquiring
<1>7. CountIs(hs, generation, count + 1, e)
  <2>1. h \notin InUse(handles, generation)
    BY DEF InUse
  <2>2. InUse(hs, generation) = InUse(handles, generation) \cup {h}
    BY <1>2, <1>4 DEF InUse
  <2>3. /\ hs[h].mode = "exclusive" => count = 0 /\ e = h
        /\ hs[h].mode # "exclusive" => exclusive = None
    BY <1>2, <1>4 DEF MayReserve
  <2>4. \A q \in Handles \ {h} : hs[q].mode = handles[q].mode
    BY <1>4
  <2>. QED  BY <1>1, <2>1, <2>2, <2>3, <2>4, CountAdd
<1>8. HandLease(h, hs, count + 1, e)
  <2>1. e \in Handles \cup {None} /\ count + 1 \in Nat
    BY <1>1
  <2>2. hs[h].generation = generation /\ hs[h].state = "acquiring"
    BY <1>2, <1>4
  <2>3. \A q \in Handles : hs[q].generation <= generation
    BY <1>1, <1>4, <2>2
  <2>. QED  BY <1>4, <1>7, <2>1, <2>2, <2>3 DEF HandLease
<1>9. HandJobs(<<>>) /\ HandEach(<<>>)
  BY DEF HandJobs, HandEach, IndInv, Settles
<1>10. HandBacked(h, hs, <<>>, count + 1)
  <2>1. ASSUME NEW k \in DOMAIN Waiters PROVE BackedIn(hs, count + 1, Waiters[k])
    <3>1. /\ Backed(Waiters[k]) /\ Waiters[k].handle \in Handles \ {h}
          /\ Waiters[k].step \in AcquireSteps \cup ReleaseSteps
      BY <1>5
    <3>2. hs[Waiters[k].handle] = handles[Waiters[k].handle]
      BY <1>4, <3>1
    <3>3. Waiters[k].step # "settle"
      BY <3>1 DEF AcquireSteps, ReleaseSteps
    <3>4. Valid(Waiters[k].handle)
      <4>1. PendingNow
        BY <2>1, QueueFacts DEF IndInv, Settles, Waiters, PendingNow, Unsettled, RequestRecord
      <4>2. connection = "connected"
        BY <4>1 DEF IndInv, Disconnected
      <4>. QED  BY <3>1, <3>3, <4>2 DEF Backed
    <3>. QED  BY <3>1, <3>2, <3>4 DEF Backed, BackedIn, Acquiring, Valid
  <2>2. DOMAIN <<>> = {}
    OBVIOUS
  <2>3. \A k \in DOMAIN Waiters : BackedIn(hs, count + 1, Waiters[k]) /\ Waiters[k].handle # h
    BY <1>5, <2>1
  <2>. QED  BY <2>2, <2>3, Zenon DEF HandBacked
<1>11. HandKnown(h, hs, <<>>)
  BY <1>4, <1>6 DEF HandKnown
<1>12. detachment = None => HandClear(hs)
  <2>. HAVE detachment = None
  <2>1. Unsettled => Kind # "detach" /\ (Kind = "reconcile" => cleanupRequired)
    <3>1. Unsettled => Kind # "detach"
      BY QueueFacts, BoundsAssumption DEF IndInv, PointersFit
    <3>2. Unsettled /\ Kind = "reconcile" => cleanupRequired
      BY DEF IndInv, CleanupFits
    <3>. QED  BY <3>1, <3>2
  <2>2. attachment # None => Unsettled
    BY DEF IndInv, PointersFit, Ahead
  <2>3. ASSUME cleanupRequired, NEW q \in Handles
        PROVE  ~ (hs[q].state \in {"active", "releasing"} /\ hs[q].generation = generation)
    BY <1>2, <1>4, <2>3 DEF IndInv, CleanupFits, Live, Valid
  <2>. QED  BY <2>1, <2>2, <2>3 DEF HandClear
<1>. QED  BY <1>8, <1>9, <1>10, <1>11, <1>12 DEF InHand

\* The session is attached: the lease is there at once.
LEMMA Leased ==
    ASSUME IndInv, NEW h, NEW hs, NEW js, NEW c, NEW e, InHand(h, hs, js, c, e), HandClear(hs),
           attached, ~ cleanupRequired, CreateLease(h, hs), jobs' = js, count' = c, exclusive' = e,
           UNCHANGED <<connection, connects, generation, attachment, detachment, reconciliation,
                       cleanupRequired, attached, revision, requests, toServer, toClient, server>>
    PROVE  IndInv'
<1>1. SameRequests
  BY RequestsKept
<1>2. /\ h \in Handles /\ hs \in [Handles -> Lease] /\ hs[h].state = "acquiring"
      /\ c \in Nat /\ e \in Handles \cup {None} /\ CountIs(hs, generation, c, e)
      /\ \A q \in Handles : hs[q].generation <= generation
  BY DEF InHand, HandLease
<1>3. hs[h].generation = generation
  BY DEF InHand, HandLease, IndInv, Disconnected
<1>. DEFINE lease == [hs[h] EXCEPT !.state = "active", !.generation = generation]
<1>4. /\ lease \in Lease /\ lease.state = "active" /\ lease.generation = generation
      /\ lease.mode = hs[h].mode
  <2>1. hs[h] \in Lease /\ generation \in Nat
    BY <1>2 DEF IndInv, Shape, CountShape
  <2>. QED  BY <2>1 DEF Lease
<1>5. handles' = [hs EXCEPT ![h] = lease]
  BY <1>2 DEF CreateLease
<1>. HIDE DEF lease
<1>6. /\ handles' \in [Handles -> Lease] /\ handles'[h] = lease
      /\ \A q \in Handles \ {h} : handles'[q] = hs[q]
  BY <1>2, <1>4, <1>5
<1>7. CountFits'
  <2>1. InUse(handles', generation) = InUse(hs, generation)
    BY <1>2, <1>3, <1>4, <1>6 DEF InUse
  <2>2. \A q \in Handles : handles'[q].mode = hs[q].mode
    BY <1>4, <1>6
  <2>3. CountIs(handles', generation, c, e)
    BY <1>2, <2>1, <2>2, CountSame
  <2>4. \A q \in Handles : handles'[q].generation <= generation
    BY <1>2, <1>3, <1>4, <1>6
  <2>. QED  BY <2>3, <2>4 DEF CountFits
<1>8. Unsettled => Kind = "attach"
  BY QueueFacts DEF HandClear, Kinds
<1>9. HandlesBacked' /\ OneReactionEach' /\ NobodyForgotten' /\ ReleaserAlone'
  <2>1. JobsGrow(js) /\ WaitersGrow(h) /\ \A k \in DOMAIN Waiters' : k \in DOMAIN Waiters
    <3>1. Waiters' = Waiters
      BY <1>1 DEF SameRequests
    <3>2. JobsGrow(js)
      BY DEF JobsGrow
    <3>3. \A k \in DOMAIN Waiters' : k \in DOMAIN Waiters
      BY <3>1
    <3>4. \A k \in DOMAIN Waiters : k \in DOMAIN Waiters' /\ Waiters'[k] = Waiters[k]
      BY <3>1
    <3>. QED  BY <3>2, <3>3, <3>4 DEF WaitersGrow
  <2>2. handles'[h].state # "acquiring" /\ (Unsettled' => Kind' # "detach")
    BY <1>1, <1>4, <1>6, <1>8 DEF SameRequests
  <2>. QED  BY <1>6, <2>1, <2>2, Handed
<1>10. OneUnsettled' /\ WaitersFit'
  BY <1>1 DEF IndInv, OneUnsettled, WaitersFit, SameRequests
<1>11. Settles' /\ JobsOrdered'
  BY <1>1 DEF InHand, HandJobs, Settles, JobsOrdered, SameRequests
<1>12. JobsFit'
  BY <1>1 DEF InHand, HandJobs, JobsFit, JobFits, SameRequests
<1>13. PointersFit'
  BY <1>1, <1>8 DEF HandClear, IndInv, PointersFit, SameRequests
<1>14. CleanupFits'
  BY <1>1, <1>8 DEF CleanupFits, SameRequests
<1>15. PromptsBounded' /\ WireFits' /\ Disconnected'
  BY <1>1, WireKept DEF SameRequests
<1>16. Shape'
  BY <1>2, <1>6 DEF IndInv, Shape, HandleShape, CountShape, FlagShape, ConnectionShape, QueueShape,
     WireShape, ServerShape, InHand, HandJobs
<1>. QED  BY <1>7, <1>9, <1>10, <1>11, <1>12, <1>13, <1>14, <1>15, <1>16 DEF IndInv

\* A reaction is registered on the unsettled request.
Registered(w) == requests' = [requests EXCEPT ![Newest].waiters = Append(@, w)]

\* The other requests, and what is known of the newest one, stay.
LEMMA WaiterAdded ==
    ASSUME IndInv, Unsettled, NEW w \in Reaction, Registered(w)
    PROVE  /\ Newest' = Newest /\ Unsettled' /\ Kind' = Kind /\ (PendingNow' <=> PendingNow)
           /\ requests' \in Seq(RequestRecord) /\ requests'[Newest].state = requests[Newest].state
           /\ Waiters' = Append(Waiters, w) /\ OneUnsettled'
<1>1. /\ requests \in Seq(RequestRecord) /\ Newest \in DOMAIN requests /\ Newest > 0 /\ Newest \in Nat
      /\ requests[Newest] \in RequestRecord /\ Waiters = requests[Newest].waiters
      /\ Waiters \in Seq(Reaction) /\ Newest = Len(requests) /\ DOMAIN requests = 1 .. Newest
  BY QueueFacts
<1>. DEFINE ws == Append(Waiters, w)
            r == [requests[Newest] EXCEPT !.waiters = ws]
<1>2. ws \in Seq(Reaction)
  BY <1>1, AppendIs
<1>3. requests' = [requests EXCEPT ![Newest] = r]
  BY <1>1 DEF Registered
<1>. HIDE DEF ws
<1>4. /\ r \in RequestRecord /\ r.kind = requests[Newest].kind /\ r.state = requests[Newest].state
      /\ r.settled = requests[Newest].settled /\ r.waiters = ws
  BY <1>1, <1>2 DEF RequestRecord
<1>. HIDE DEF r
<1>5. /\ requests' \in Seq(RequestRecord) /\ Len(requests') = Len(requests) /\ requests'[Newest] = r
      /\ \A k \in DOMAIN requests : k # Newest => requests'[k] = requests[k]
  <2>. DEFINE i == Newest
  <2>1. requests \in Seq(RequestRecord) /\ i \in DOMAIN requests
    BY <1>1
  <2>2. requests' = [requests EXCEPT ![i] = r] /\ r \in RequestRecord
    BY <1>3, <1>4
  <2>. HIDE DEF i
  <2>3. /\ requests' \in Seq(RequestRecord) /\ Len(requests') = Len(requests) /\ requests'[i] = r
        /\ \A k \in DOMAIN requests : k # i => requests'[k] = requests[k]
    BY <2>1, <2>2, UpdateIs
  <2>. QED  BY <2>3 DEF i
<1>6. Newest' = Newest
  BY <1>5 DEF Newest
<1>7. Unsettled' /\ Kind' = Kind /\ (PendingNow' <=> PendingNow)
  BY <1>4, <1>5, <1>6 DEF Unsettled, Kind, PendingNow
<1>8. Waiters' = ws
  BY <1>4, <1>5, <1>6, <1>7 DEF Waiters
<1>9. OneUnsettled'
  <2>1. \A i \in DOMAIN requests : requests'[i].settled = requests[i].settled
                                   /\ requests'[i].state = requests[i].state
    BY <1>4, <1>5
  <2>. QED  BY <1>1, <1>6, <2>1 DEF IndInv, OneUnsettled
<1>. QED  BY <1>4, <1>5, <1>6, <1>7, <1>8, <1>9 DEF ws

\* An attachment or a reconciliation is under way: h waits for it with the others.
LEMMA Joined ==
    ASSUME IndInv, NEW h, NEW hs, NEW js, NEW c, NEW e, InHand(h, hs, js, c, e), HandClear(hs),
           Unsettled, NEW w \in Reaction, w.handle = h, w.request = Newest,
           w.step = IF Kind = "attach" THEN "afterAttach" ELSE "afterReconciliation",
           Registered(w), handles' = hs, jobs' = js, count' = c, exclusive' = e,
           UNCHANGED <<connection, connects, generation, attachment, detachment, reconciliation,
                       cleanupRequired, attached, revision, toServer, toClient, server>>
    PROVE  IndInv'
<1>1. /\ Newest' = Newest /\ Unsettled' /\ Kind' = Kind /\ (PendingNow' <=> PendingNow)
      /\ requests' \in Seq(RequestRecord) /\ requests'[Newest].state = requests[Newest].state
      /\ Waiters' = Append(Waiters, w) /\ OneUnsettled'
  BY WaiterAdded
<1>2. /\ h \in Handles /\ hs \in [Handles -> Lease] /\ hs[h].state = "acquiring"
      /\ c \in Nat /\ e \in Handles \cup {None} /\ CountIs(hs, generation, c, e)
      /\ \A q \in Handles : hs[q].generation <= generation
  BY DEF InHand, HandLease
<1>3. /\ DOMAIN Waiters' = 1 .. Len(Waiters) + 1 /\ DOMAIN Waiters = 1 .. Len(Waiters) /\ Len(Waiters) \in Nat
      /\ Waiters' # <<>>
      /\ \A k \in DOMAIN Waiters : k \in DOMAIN Waiters' /\ Waiters'[k] = Waiters[k]
      /\ \A k \in DOMAIN Waiters' : k \in DOMAIN Waiters \/ k = Len(Waiters) + 1
      /\ Waiters'[Len(Waiters) + 1] = w /\ Len(Waiters) + 1 \in DOMAIN Waiters'
  BY <1>1, QueueFacts, AppendIs
<1>4. Kind \in {"attach", "reconcile"} /\ w.step \in AcquireSteps /\ (Kind = "reconcile" => cleanupRequired)
  BY QueueFacts DEF HandClear, Kinds, AcquireSteps
<1>5. HandlesBacked' /\ OneReactionEach' /\ NobodyForgotten' /\ ReleaserAlone'
  <2>1. JobsGrow(js)
    BY DEF JobsGrow
  <2>2. WaitersGrow(h) /\ \E k \in DOMAIN Waiters' : Waiters'[k].handle = h
    <3>1. \E k \in DOMAIN Waiters' : Waiters'[k].handle = h
      BY <1>3
    <3>2. \A k \in DOMAIN Waiters' : k \notin DOMAIN Waiters => k = Len(Waiters) + 1
      BY <1>3
    <3>3. \A k \in DOMAIN Waiters' : \/ k \in DOMAIN Waiters
                                     \/ Waiters'[k].handle = h /\ Waiters'[k].step \in AcquireSteps
      <4>1. Waiters'[Len(Waiters) + 1].handle = h /\ Waiters'[Len(Waiters) + 1].step \in AcquireSteps
        BY <1>3, <1>4
      <4>. QED  BY <3>2, <4>1
    <3>4. \A k \in DOMAIN Waiters : k \in DOMAIN Waiters' /\ Waiters'[k] = Waiters[k]
      BY <1>3
    <3>. QED  BY <3>1, <3>2, <3>3, <3>4 DEF WaitersGrow
  <2>3. Unsettled' => Kind' # "detach"
    BY <1>1, <1>4
  <2>. QED  BY <1>2, <2>1, <2>2, <2>3, Handed
<1>6. WaitersFit'
  <2>1. ASSUME NEW k \in DOMAIN Waiters'
        PROVE  /\ Waiters'[k].request = Newest
               /\ Kind = "attach" => Waiters'[k].step = "afterAttach"
               /\ Kind = "reconcile" => Waiters'[k].step = "afterReconciliation"
    <3>1. CASE k \in DOMAIN Waiters
      BY <1>3, <3>1 DEF IndInv, WaitersFit
    <3>2. CASE k = Len(Waiters) + 1
      BY <1>3, <1>4, <3>2
    <3>. QED  BY <1>3, <3>1, <3>2
  <2>. QED  BY <1>1, <1>3, <1>4, <2>1 DEF WaitersFit
<1>7. Settles' /\ JobsOrdered'
  BY <1>1 DEF InHand, HandJobs, Settles, JobsOrdered
<1>8. JobsFit'
  BY <1>1 DEF InHand, HandJobs, JobsFit, JobFits
<1>9. PointersFit'
  BY <1>1, <1>4 DEF HandClear, IndInv, PointersFit
<1>10. CleanupFits'
  <2>1. cleanupRequired => \A q \in Handles : ~ Live(q)'
    BY DEF HandClear, Live, Valid
  <2>2. cleanupRequired => Kind = "reconcile"
    BY DEF IndInv, CleanupFits
  <2>. QED  BY <1>1, <1>4, <2>1, <2>2 DEF CleanupFits
<1>11. CountFits'
  BY <1>2 DEF CountFits
<1>12. PromptsBounded' /\ WireFits' /\ Disconnected'
  BY <1>1, WireKept
<1>13. Shape'
  BY <1>1, <1>2 DEF IndInv, Shape, HandleShape, CountShape, FlagShape, ConnectionShape, QueueShape,
     WireShape, ServerShape, InHand, HandJobs
<1>. QED  BY <1>1, <1>5, <1>6, <1>7, <1>8, <1>9, <1>10, <1>11, <1>12, <1>13 DEF IndInv

\* A request that was settled is not pending, and nothing of it is on its way.
LEMMA NothingPending ==
    ASSUME IndInv, ~ Unsettled
    PROVE  /\ ~ PendingNow /\ Commands = {} /\ Answers = {} /\ server.serving = None
           /\ \A i \in 1 .. Newest : requests[i].settled /\ requests[i].state = "done"
<1>1. Newest \in Nat /\ DOMAIN requests = 1 .. Newest
  BY QueueFacts
<1>2. \A i \in 1 .. Newest : requests[i].settled
  <2>1. Newest > 0 => requests[Newest].settled
    BY DEF Unsettled
  <2>2. ASSUME NEW i \in 1 .. Newest PROVE requests[i].settled
    <3>1. CASE i = Newest
      BY <1>1, <2>1, <2>2, <3>1
    <3>2. CASE i # Newest
      <4>1. i < Newest
        BY <1>1, <2>2, <3>2
      <4>. QED  BY <2>2, <4>1 DEF IndInv, OneUnsettled
    <3>. QED  BY <3>1, <3>2
  <2>. QED  BY <2>2
<1>3. \A i \in 1 .. Newest : requests[i].state = "done"
  BY <1>2 DEF IndInv, OneUnsettled
<1>4. ~ PendingNow
  <2>1. Newest > 0 => Newest \in 1 .. Newest
    BY <1>1
  <2>. QED  BY <1>3, <2>1 DEF PendingNow
<1>. QED  BY <1>2, <1>3, <1>4 DEF IndInv, WireFits

\* A command is put on an otherwise empty wire.
LEMMA CommandSent ==
    ASSUME IndInv, ~ Unsettled, connection = "connected", NEW m \in Command, m.kind \in Kinds,
           toServer' = Append(toServer, m), Newest' \in Nat, Newest' > 0, PendingNow', m.kind = Kind',
           m.request = Newest', UNCHANGED <<connection, attached, toClient, server>>
    PROVE  PromptsBounded' /\ WireFits' /\ Disconnected' /\ toServer' \in Seq(Command)
<1>1. Commands = {} /\ Answers = {} /\ server.serving = None
  BY NothingPending
<1>2. toServer \in Seq(Command)
  BY DEF IndInv, Shape, WireShape
<1>3. /\ toServer' \in Seq(Command) /\ DOMAIN toServer = 1 .. Len(toServer) /\ Len(toServer) \in Nat
      /\ DOMAIN toServer' = 1 .. Len(toServer) + 1 /\ Len(toServer') = Len(toServer) + 1
      /\ \A k \in DOMAIN toServer : toServer'[k] = toServer[k]
      /\ \A k \in DOMAIN toServer' : k \in DOMAIN toServer \/ k = Len(toServer) + 1
      /\ toServer'[Len(toServer) + 1] = m
  BY <1>2, AppendIs
<1>4. PromptsSent' = PromptsSent
  <2>1. ASSUME NEW k \in 1 .. Len(toServer) PROVE k \in 1 .. Len(toServer') /\ toServer'[k] = toServer[k]
    BY <1>3, <2>1
  <2>2. ASSUME NEW k \in 1 .. Len(toServer'), toServer'[k].kind = "prompt" PROVE k \in 1 .. Len(toServer)
    <3>1. k # Len(toServer) + 1
      BY <1>3, <2>2 DEF Kinds
    <3>. QED  BY <1>3, <2>2, <3>1
  <2>. QED  BY <2>1, <2>2 DEF PromptsSent
<1>5. PromptsBounded'
  BY <1>4 DEF IndInv, PromptsBounded
<1>6. Answers' = {}
  BY <1>1 DEF Answers
<1>7. \A k \in Commands' : k = Len(toServer) + 1
  BY <1>1, <1>3 DEF Commands
<1>8. WireFits'
  <2>1. \A k \in Commands' : PendingNow' /\ toServer'[k].request = Newest' /\ toServer'[k].kind = Kind'
    BY <1>3, <1>7
  <2>2. \A k, l \in Commands' : k = l
    BY <1>7
  <2>3. server'.serving = None
    BY <1>1
  <2>. QED  BY <1>6, <2>1, <2>2, <2>3 DEF WireFits
<1>9. Disconnected'
  BY DEF Disconnected
<1>. QED  BY <1>3, <1>5, <1>8, <1>9

\* What a request changes: it is the new unsettled one, with one reaction registered on it.
LEMMA SendFacts ==
    ASSUME IndInv, ~ Unsettled, NEW kind \in Kinds, NEW h \in Handles, NEW js \in Seq(Reaction),
           NEW step \in {"afterAttach", "afterReconciliation", "afterDetach"},
           Send(kind, Job(step, h), js), UNCHANGED <<connection, attached, toClient, server>>
    PROVE  /\ Newest' = Newest + 1 /\ Newest \in Nat /\ Newest = Len(requests) /\ Unsettled' /\ Kind' = kind
           /\ requests' \in Seq(RequestRecord) /\ OneUnsettled'
           /\ requests'[Newest'].state = IF connection = "connected" THEN "pending" ELSE "done"
           /\ DOMAIN Waiters' = {1} /\ Waiters' # <<>>
           /\ Waiters'[1].step = step /\ Waiters'[1].handle = h /\ Waiters'[1].request = Newest'
           /\ PromptsBounded' /\ WireFits' /\ Disconnected' /\ toServer' \in Seq(Command)
           /\ connection = "connected" => jobs' = js
           /\ connection # "connected" => jobs' = Append(js, Settle(Newest', FALSE))
<1>. DEFINE i == Len(requests) + 1
            w == [Job(step, h) EXCEPT !.request = i]
            state == IF connection = "connected" THEN "pending" ELSE "done"
            previous == IF kind = "attach" THEN revision ELSE None
            ws == <<w>>
            no == FALSE
            r == [kind |-> kind, state |-> state, settled |-> no, ok |-> no, waiters |-> ws,
                  previous |-> previous]
            m == [kind |-> kind, request |-> i]
<1>1. /\ requests' = Append(requests, r)
      /\ toServer' = IF connection = "connected" THEN Append(toServer, m) ELSE toServer
      /\ jobs' = IF connection = "connected" THEN js ELSE Append(js, Settle(i, FALSE))
  BY Zenon DEF Send
<1>2. /\ requests \in Seq(RequestRecord) /\ Newest \in Nat /\ Newest = Len(requests) /\ i \in Nat
      /\ DOMAIN requests = 1 .. Newest /\ i = Newest + 1
  BY QueueFacts
<1>3. w \in Reaction /\ w.step = step /\ w.handle = h /\ w.request = i
  BY <1>2 DEF Job, Reaction, AcquireSteps, ReleaseSteps
<1>4. state \in {"pending", "done"} /\ previous \in Revisions /\ no \in BOOLEAN
  BY DEF IndInv, Shape, FlagShape, Revisions
<1>. HIDE DEF w, i
<1>5. ws \in Seq(Reaction) /\ DOMAIN ws = {1} /\ ws[1] = w /\ ws # <<>>
  BY <1>3
<1>. HIDE DEF ws, state, previous
<1>6. /\ r \in RequestRecord /\ r.kind = kind /\ r.state = state /\ r.settled = no /\ r.waiters = ws
  <2>. HIDE DEF no
  <2>. QED  BY <1>4, <1>5 DEF RequestRecord
<1>. HIDE DEF r
<1>7. /\ requests' \in Seq(RequestRecord) /\ Len(requests') = Len(requests) + 1
      /\ \A k \in DOMAIN requests : requests'[k] = requests[k]
      /\ requests'[Len(requests) + 1] = r
  BY <1>1, <1>2, <1>6, AppendIs
<1>8. Newest' = Newest + 1 /\ requests'[Newest'] = r /\ Newest' > 0 /\ Newest' \in Nat /\ Newest' = i
  BY <1>2, <1>7 DEF Newest
<1>9. /\ Unsettled' /\ Kind' = kind /\ requests'[Newest'].state = state
      /\ (PendingNow' <=> connection = "connected")
  <2>1. requests'[Newest'].settled = FALSE /\ requests'[Newest'].kind = kind
        /\ requests'[Newest'].state = state
    BY <1>6, <1>8
  <2>. QED  BY <1>8, <2>1 DEF Unsettled, Kind, PendingNow, state
<1>10. Waiters' = ws
  BY <1>6, <1>8, <1>9 DEF Waiters
<1>11. OneUnsettled'
  <2>1. \A k \in 1 .. Newest : requests'[k].settled /\ requests'[k].state = "done"
    BY <1>2, <1>7, NothingPending
  <2>2. \A k \in 1 .. Newest' : k \in 1 .. Newest \/ k = Newest'
    BY <1>2, <1>8
  <2>3. \A k \in 1 .. Newest' : k < Newest' => k \in 1 .. Newest
    BY <1>2, <1>8
  <2>. QED  BY <1>9, <2>1, <2>2, <2>3 DEF OneUnsettled, Unsettled
<1>12. PromptsBounded' /\ WireFits' /\ Disconnected' /\ toServer' \in Seq(Command)
  <2>1. CASE connection = "connected"
    <3>1. m \in Command /\ m.kind = kind /\ m.request = i
      BY <1>2 DEF Command
    <3>2. toServer' = Append(toServer, m)
      BY <1>1, <2>1
    <3>. HIDE DEF m
    <3>3. m.kind \in Kinds /\ m.kind = Kind' /\ m.request = Newest' /\ PendingNow'
      BY <1>8, <1>9, <2>1, <3>1
    <3>4. Newest' \in Nat /\ Newest' > 0
      BY <1>8
    <3>. QED  BY <2>1, <3>1, <3>2, <3>3, <3>4, CommandSent
  <2>2. CASE connection # "connected"
    <3>1. toServer' = toServer /\ toServer \in Seq(Command)
      BY <1>1, <2>2 DEF IndInv, Shape, WireShape
    <3>2. PromptsBounded'
      BY <3>1 DEF IndInv, PromptsBounded, PromptsSent
    <3>3. /\ toServer = <<>> /\ toClient = <<>> /\ server.serving = None /\ ~ attached
          /\ ~ server.attached /\ server.prompts = 0
      BY <2>2 DEF IndInv, Disconnected
    <3>4. Commands' = {} /\ Answers' = {}
      <4>1. Commands = {} /\ Answers = {}
        BY NothingPending
      <4>. QED  BY <3>1, <4>1 DEF Commands, Answers
    <3>5. WireFits'
      BY <3>3, <3>4 DEF WireFits
    <3>6. Disconnected'
      BY <1>9, <2>2, <3>1, <3>3 DEF Disconnected
    <3>. QED  BY <3>1, <3>2, <3>5, <3>6
  <2>. QED  BY <2>1, <2>2
<1>13. DOMAIN Waiters' = {1} /\ Waiters' # <<>> /\ Waiters'[1].step = step /\ Waiters'[1].handle = h
       /\ Waiters'[1].request = Newest'
  BY <1>3, <1>5, <1>8, <1>10
<1>14. /\ connection = "connected" => jobs' = js
       /\ connection # "connected" => jobs' = Append(js, Settle(Newest', FALSE))
  BY <1>1, <1>8
<1>15. requests'[Newest'].state = IF connection = "connected" THEN "pending" ELSE "done"
  BY <1>9 DEF state
<1>. QED  BY <1>2, <1>7, <1>8, <1>9, <1>11, <1>12, <1>13, <1>14, <1>15

\* The reaction that settles a request which could not be sent.
LEMMA SettleIs ==
    ASSUME NEW i \in Nat
    PROVE  /\ Settle(i, FALSE) \in Reaction /\ Settle(i, FALSE).step = "settle"
           /\ Settle(i, FALSE).request = i /\ Settle(i, FALSE).ok = FALSE
BY DEF Settle, Reaction

\* Nothing is under way: h sends the request it needs.
LEMMA Sent ==
    ASSUME IndInv, NEW h, NEW hs, NEW js, NEW c, NEW e, InHand(h, hs, js, c, e), HandClear(hs),
           ~ Unsettled, NEW kind \in {"attach", "reconcile"},
           NEW step, step = IF kind = "attach" THEN "afterAttach" ELSE "afterReconciliation",
           Send(kind, Job(step, h), js), kind = "reconcile" <=> cleanupRequired,
           kind = "attach" => attachment' = Len(requests) + 1 /\ reconciliation' = reconciliation,
           kind = "reconcile" => reconciliation' = Len(requests) + 1 /\ attachment' = attachment,
           revision' \in Revisions, handles' = hs, count' = c, exclusive' = e,
           UNCHANGED <<connection, connects, generation, detachment, cleanupRequired, attached,
                       toClient, server>>
    PROVE  IndInv'
<1>1. /\ h \in Handles /\ hs \in [Handles -> Lease] /\ hs[h].state = "acquiring"
      /\ c \in Nat /\ e \in Handles \cup {None} /\ CountIs(hs, generation, c, e)
      /\ \A q \in Handles : hs[q].generation <= generation
  BY DEF InHand, HandLease
<1>2. js \in Seq(Reaction) /\ kind \in Kinds
      /\ step \in {"afterAttach", "afterReconciliation", "afterDetach"}
  BY DEF InHand, HandJobs, Kinds
<1>3. /\ Newest' = Newest + 1 /\ Newest \in Nat /\ Newest = Len(requests) /\ Unsettled' /\ Kind' = kind
      /\ requests' \in Seq(RequestRecord) /\ OneUnsettled'
      /\ requests'[Newest'].state = IF connection = "connected" THEN "pending" ELSE "done"
      /\ DOMAIN Waiters' = {1} /\ Waiters' # <<>>
      /\ Waiters'[1].step = step /\ Waiters'[1].handle = h /\ Waiters'[1].request = Newest'
      /\ PromptsBounded' /\ WireFits' /\ Disconnected' /\ toServer' \in Seq(Command)
      /\ connection = "connected" => jobs' = js
      /\ connection # "connected" => jobs' = Append(js, Settle(Newest', FALSE))
  BY <1>1, <1>2, SendFacts
<1>4. /\ Settle(Newest', FALSE) \in Reaction /\ Settle(Newest', FALSE).step = "settle"
      /\ Settle(Newest', FALSE).request = Newest' /\ Settle(Newest', FALSE).ok = FALSE
  <2>1. Newest' \in Nat
    BY <1>3
  <2>. QED  BY <2>1, SettleIs
<1>5. /\ jobs' \in Seq(Reaction) /\ DOMAIN js = 1 .. Len(js) /\ Len(js) \in Nat
      /\ \A k \in DOMAIN js : k \in DOMAIN jobs' /\ jobs'[k] = js[k]
      /\ connection = "connected" => jobs' = js
      /\ connection # "connected" => /\ jobs' # <<>> /\ Len(jobs') = Len(js) + 1
                                     /\ jobs'[Len(js) + 1] = Settle(Newest', FALSE)
                                     /\ \A k \in DOMAIN jobs' : k \in DOMAIN js \/ k = Len(js) + 1
  <2>1. CASE connection = "connected"
    BY <1>2, <1>3, <2>1
  <2>2. CASE connection # "connected"
    <3>. DEFINE last == Settle(Newest', FALSE)
    <3>1. jobs' = Append(js, last) /\ js \in Seq(Reaction) /\ last \in Reaction
      BY <1>2, <1>3, <1>4, <2>2
    <3>. HIDE DEF last
    <3>2. /\ jobs' \in Seq(Reaction) /\ jobs' # <<>> /\ Len(js) \in Nat /\ Len(jobs') = Len(js) + 1
          /\ DOMAIN js = 1 .. Len(js)
          /\ \A k \in DOMAIN js : k \in DOMAIN jobs' /\ jobs'[k] = js[k]
          /\ \A k \in DOMAIN jobs' : k \in DOMAIN js \/ k = Len(js) + 1
          /\ jobs'[Len(js) + 1] = last
      BY <3>1, AppendIs
    <3>. QED  BY <2>2, <3>2 DEF last
  <2>. QED  BY <2>1, <2>2
<1>6. /\ \A k \in DOMAIN js : js[k].step \in {"afterDetachment", "afterReconciliation"} /\ JobFits(js[k])
      /\ \A k \in DOMAIN js : js[k].step = "afterReconciliation" =>
             js[k].ok /\ ~ cleanupRequired /\ connection = "connected"
  BY DEF InHand, HandJobs, JobFits, ResultSteps
<1>7. \A k \in DOMAIN jobs' :
          \/ k \in DOMAIN js /\ jobs'[k] = js[k] /\ jobs'[k].step # "settle"
          \/ /\ k = Len(js) + 1 /\ k = Len(jobs') /\ jobs'[k] = Settle(Newest', FALSE)
             /\ connection # "connected"
  <2>1. CASE connection = "connected"
    BY <1>5, <1>6, <2>1
  <2>2. CASE connection # "connected"
    BY <1>5, <1>6, <2>2
  <2>. QED  BY <2>1, <2>2
<1>8. Waiters = <<>> /\ DOMAIN Waiters = {}
  BY DEF Waiters
<1>9. HandlesBacked' /\ OneReactionEach' /\ NobodyForgotten' /\ ReleaserAlone'
  <2>1. JobsGrow(js)
    BY <1>4, <1>5, <1>7 DEF JobsGrow
  <2>2. step \in AcquireSteps
    BY DEF AcquireSteps
  <2>3. WaitersGrow(h)
    BY <1>3, <1>8, <2>2 DEF WaitersGrow
  <2>4. (\E k \in DOMAIN Waiters' : Waiters'[k].handle = h) /\ (Unsettled' => Kind' # "detach")
    BY <1>3
  <2>. QED  BY <1>1, <2>1, <2>3, <2>4, Handed
<1>10. WaitersFit'
  BY <1>3 DEF WaitersFit
<1>11. Settles'
  <2>1. ASSUME NEW k \in DOMAIN jobs', jobs'[k].step = "settle"
        PROVE  k = Len(jobs') /\ jobs'[k].request = Newest' /\ requests'[Newest'].state = "done"
    BY <1>3, <1>4, <1>7, <2>1
  <2>2. requests'[Newest'].state = "done" => jobs' # <<>> /\ jobs'[Len(jobs')].step = "settle"
    BY <1>3, <1>4, <1>5
  <2>. QED  BY <1>3, <2>1, <2>2 DEF Settles
<1>12. JobsOrdered'
  <2>1. ASSUME NEW k \in DOMAIN jobs', NEW l \in DOMAIN jobs', k < l PROVE Before(jobs'[k], jobs'[l])
    <3>1. k \in DOMAIN js /\ jobs'[k] = js[k]
      <4>1. l \in DOMAIN js \/ l = Len(js) + 1
        BY <1>7
      <4>2. k # Len(js) + 1
        BY <1>5, <2>1, <4>1
      <4>. QED  BY <1>7, <4>2
    <3>2. CASE l \in DOMAIN js
      BY <1>5, <2>1, <3>1, <3>2 DEF InHand, HandJobs
    <3>3. CASE l \notin DOMAIN js
      <4>1. jobs'[l].step = "settle" /\ connection # "connected"
        BY <1>4, <1>7, <3>3
      <4>2. js[k].step = "afterDetachment"
        BY <1>6, <3>1, <4>1
      <4>. QED  BY <3>1, <4>1, <4>2 DEF Before
    <3>. QED  BY <3>2, <3>3
  <2>. QED  BY <2>1 DEF JobsOrdered
<1>13. JobsFit'
  <2>1. ASSUME NEW k \in DOMAIN jobs' PROVE JobFits(jobs[k])'
    <3>1. CASE k \in DOMAIN js /\ jobs'[k] = js[k]
      BY <1>6, <3>1 DEF JobFits, ResultSteps
    <3>2. CASE jobs'[k] = Settle(Newest', FALSE)
      BY <1>4, <3>2 DEF JobFits
    <3>. QED  BY <1>7, <2>1, <3>1, <3>2
  <2>. QED  BY <2>1 DEF JobsFit
<1>14. PointersFit'
  <2>1. attachment = None /\ reconciliation = None /\ detachment = None
    BY DEF HandClear, IndInv, PointersFit
  <2>2. Newest' > 0 /\ Newest' = Len(requests) + 1 /\ Newest' # None
    BY <1>3, BoundsAssumption
  <2>3. CASE kind = "attach"
    BY <1>3, <2>1, <2>2, <2>3 DEF PointersFit
  <2>4. CASE kind = "reconcile"
    BY <1>3, <2>1, <2>2, <2>4 DEF PointersFit
  <2>. QED  BY <2>3, <2>4
<1>15. CleanupFits'
  <2>1. cleanupRequired => \A q \in Handles : ~ Live(q)'
    BY DEF HandClear, Live, Valid
  <2>. QED  BY <1>3, <2>1 DEF CleanupFits
<1>16. CountFits'
  BY <1>1 DEF CountFits
<1>17. Shape'
  BY <1>1, <1>3, <1>5 DEF IndInv, Shape, HandleShape, CountShape, FlagShape, ConnectionShape, QueueShape,
     WireShape, ServerShape
<1>. QED  BY <1>3, <1>9, <1>10, <1>11, <1>12, <1>13, <1>14, <1>15, <1>16, <1>17 DEF IndInv

\* Registering a reaction on an unsettled request.
LEMMA JoinIs ==
    ASSUME IndInv, Unsettled, NEW h \in Handles, NEW step \in AcquireSteps, NEW js,
           Join(Newest, Job(step, h), js)
    PROVE  \E w \in Reaction : /\ w.handle = h /\ w.request = Newest /\ w.step = step
                               /\ Registered(w) /\ jobs' = js /\ toServer' = toServer
<1>. DEFINE w == [Job(step, h) EXCEPT !.request = Newest]
<1>1. ~ requests[Newest].settled
  BY DEF Unsettled
<1>2. requests' = [requests EXCEPT ![Newest].waiters = Append(@, w)] /\ jobs' = js /\ toServer' = toServer
  BY <1>1, Zenon DEF Join
<1>3. w \in Reaction /\ w.handle = h /\ w.request = Newest /\ w.step = step
  BY QueueFacts DEF Job, Reaction, AcquireSteps
<1>. HIDE DEF w
<1>4. Registered(w)
  BY <1>2, Zenon DEF Registered
<1>. QED  BY <1>2, <1>3, <1>4

\* acquireSession from the check of the attachment on.
LEMMA Attaches ==
    ASSUME IndInv, NEW h, NEW hs, NEW js, NEW c, NEW e, InHand(h, hs, js, c, e), HandClear(hs),
           NEW reconciled \in BOOLEAN, ~ cleanupRequired, JoinAttachment(h, reconciled, hs, js),
           count' = c, exclusive' = e,
           UNCHANGED <<connection, connects, generation, detachment, reconciliation, cleanupRequired,
                       attached, toClient, server>>
    PROVE  IndInv'
<1>1. h \in Handles
  BY DEF InHand, HandLease
<1>2. CASE ~ (reconciled \/ ~ attached)
  <2>1. /\ attached /\ CreateLease(h, hs) /\ jobs' = js
        /\ UNCHANGED <<attachment, revision, requests, toServer>>
    BY <1>2 DEF JoinAttachment
  <2>. QED  BY <2>1, Leased
<1>3. CASE (reconciled \/ ~ attached) /\ attachment # None
  <2>1. /\ handles' = hs /\ Join(attachment, Job("afterAttach", h), js)
        /\ UNCHANGED <<attachment, revision>>
    BY <1>3 DEF JoinAttachment
  <2>2. Unsettled /\ attachment = Newest /\ Kind = "attach"
    BY <1>3 DEF HandClear, IndInv, PointersFit
  <2>3. Join(Newest, Job("afterAttach", h), js) /\ "afterAttach" \in AcquireSteps
    BY <2>1, <2>2 DEF AcquireSteps
  <2>4. PICK w \in Reaction : /\ w.handle = h /\ w.request = Newest /\ w.step = "afterAttach"
                              /\ Registered(w) /\ jobs' = js /\ toServer' = toServer
    BY <1>1, <2>2, <2>3, JoinIs
  <2>. QED  BY <2>1, <2>2, <2>4, Joined
<1>4. CASE (reconciled \/ ~ attached) /\ attachment = None
  <2>1. /\ handles' = hs /\ Send("attach", Job("afterAttach", h), js)
        /\ attachment' = Len(requests) + 1 /\ revision' = None
    BY <1>4 DEF JoinAttachment
  <2>2. ~ Unsettled
    <3>1. Unsettled => Kind = "attach" /\ attachment = Newest /\ Newest # None
      BY QueueFacts, BoundsAssumption DEF HandClear, IndInv, PointersFit, Kinds
    <3>. QED  BY <1>4, <3>1
  <2>3. revision' \in Revisions
    BY <2>1 DEF Revisions
  <2>. QED  BY <2>1, <2>2, <2>3, Sent
<1>. QED  BY <1>2, <1>3, <1>4

\* acquireSession when no detachment is under way.
LEMMA Reconciles ==
    ASSUME IndInv, NEW h, NEW hs, NEW js, NEW c, NEW e, InHand(h, hs, js, c, e), HandClear(hs),
           JoinReconciliation(h, hs, js), count' = c, exclusive' = e,
           UNCHANGED <<connection, connects, generation, detachment, cleanupRequired, attached,
                       toClient, server>>
    PROVE  IndInv'
<1>1. h \in Handles /\ revision \in Revisions
  BY DEF InHand, HandLease, IndInv, Shape, FlagShape
<1>2. CASE ~ cleanupRequired
  <2>1. JoinAttachment(h, FALSE, hs, js) /\ UNCHANGED reconciliation /\ FALSE \in BOOLEAN
    BY <1>2 DEF JoinReconciliation
  <2>. QED  BY <1>2, <2>1, Attaches
<1>3. CASE cleanupRequired /\ reconciliation # None
  <2>1. /\ handles' = hs /\ Join(reconciliation, Job("afterReconciliation", h), js)
        /\ UNCHANGED <<attachment, revision, reconciliation>>
    BY <1>3 DEF JoinReconciliation
  <2>2. Unsettled /\ reconciliation = Newest /\ Kind = "reconcile"
    BY <1>3 DEF IndInv, PointersFit
  <2>3. Join(Newest, Job("afterReconciliation", h), js) /\ "afterReconciliation" \in AcquireSteps
    BY <2>1, <2>2 DEF AcquireSteps
  <2>4. PICK w \in Reaction : /\ w.handle = h /\ w.request = Newest /\ w.step = "afterReconciliation"
                              /\ Registered(w) /\ jobs' = js /\ toServer' = toServer
    BY <1>1, <2>2, <2>3, JoinIs
  <2>. QED  BY <2>1, <2>2, <2>4, Joined
<1>4. CASE cleanupRequired /\ reconciliation = None
  <2>1. /\ handles' = hs /\ Send("reconcile", Job("afterReconciliation", h), js)
        /\ reconciliation' = Len(requests) + 1 /\ UNCHANGED <<attachment, revision>>
    BY <1>4 DEF JoinReconciliation
  <2>2. ~ Unsettled
    <3>1. Unsettled => Kind = "reconcile" /\ reconciliation = Newest /\ Newest # None
      BY <1>4, QueueFacts, BoundsAssumption DEF IndInv, CleanupFits, PointersFit
    <3>. QED  BY <1>4, <3>1
  <2>. QED  BY <1>1, <1>4, <2>1, <2>2, Sent
<1>. QED  BY <1>2, <1>3, <1>4

\* acquireSession resumes after a detachment, or after a reconciliation that succeeded.
LEMMA ResumeSteps ==
    ASSUME IndInv, jobs # <<>>,
           \/ Head(jobs).step = "afterDetachment" /\ AfterDetachment(Head(jobs))
           \/ Head(jobs).step = "afterReconciliation" /\ Head(jobs).ok /\ AfterReconciliation(Head(jobs)),
           UNCHANGED <<connection, connects, generation, attached, toClient, server>>
    PROVE  IndInv'
<1>1. InHand(Head(jobs).handle, handles, Tail(jobs), count, exclusive) /\ HandClear(handles)
  BY HandPopped
<1>2. CASE Head(jobs).step = "afterDetachment" /\ AfterDetachment(Head(jobs))
  <2>1. /\ JoinReconciliation(Head(jobs).handle, handles, Tail(jobs))
        /\ UNCHANGED <<count, exclusive, detachment, cleanupRequired>>
    BY <1>2 DEF AfterDetachment
  <2>. QED  BY <1>1, <2>1, Reconciles
<1>3. CASE /\ Head(jobs).step = "afterReconciliation" /\ Head(jobs).ok
           /\ AfterReconciliation(Head(jobs))
  <2>1. /\ JoinAttachment(Head(jobs).handle, TRUE, handles, Tail(jobs)) /\ TRUE \in BOOLEAN
        /\ UNCHANGED <<count, exclusive, detachment, reconciliation, cleanupRequired>>
    BY <1>3 DEF AfterReconciliation
  <2>2. ~ cleanupRequired
    BY <1>3, HeadFacts DEF JobFits
  <2>. QED  BY <1>1, <2>1, <2>2, Attaches
<1>. QED  BY <1>2, <1>3

\* Every reaction.
LEMMA RunJobStep ==
    ASSUME IndInv, RunJob
    PROVE  IndInv'
<1>. DEFINE j == Head(jobs)
<1>1. jobs # <<>> /\ UNCHANGED <<connection, connects, generation, attached, toClient, server>>
  BY DEF RunJob
<1>2. \/ j.step = "settle" /\ SettlePromise(j)
      \/ j.step = "caught" /\ CatchDetachment(j)
      \/ j.step = "afterDetachment" /\ AfterDetachment(j)
      \/ j.step = "afterReconciliation" /\ AfterReconciliation(j)
      \/ j.step = "afterAttach" /\ AfterAttach(j)
      \/ j.step = "afterDetach" /\ AfterDetach(j)
      \/ j.step = "releaseFailed" /\ ReleaseFailed(j)
  BY DEF RunJob
<1>3. CASE j.step = "settle" /\ SettlePromise(j)
  BY <1>1, <1>3, SettleStep
<1>4. CASE j.step = "caught" /\ CatchDetachment(j)
  BY <1>1, <1>4, RequeueSteps
<1>5. CASE j.step = "afterDetachment" /\ AfterDetachment(j)
  BY <1>1, <1>5, ResumeSteps
<1>6. CASE j.step = "afterReconciliation" /\ AfterReconciliation(j)
  BY <1>1, <1>6, ResumeSteps, ReconciliationFails
<1>7. CASE j.step = "afterAttach" /\ AfterAttach(j)
  BY <1>1, <1>7, AttachStep
<1>8. CASE j.step = "afterDetach" /\ AfterDetach(j)
  BY <1>1, <1>8, DetachStep, RequeueSteps
<1>9. CASE j.step = "releaseFailed" /\ ReleaseFailed(j)
  BY <1>1, <1>9, ReleaseFailedStep
<1>. QED  BY <1>2, <1>3, <1>4, <1>5, <1>6, <1>7, <1>8, <1>9

\* A call of acquireSession while a detachment is under way waits for it first.
LEMMA DetachmentJoined ==
    ASSUME IndInv, jobs = <<>>, NEW h, NEW hs, NEW c, NEW e, InHand(h, hs, <<>>, c, e),
           detachment # None, Join(detachment, Job("caught", h), jobs),
           handles' = hs, count' = c, exclusive' = e,
           \A q \in Handles \ {h} : hs[q] = handles[q],
           UNCHANGED <<connection, connects, generation, attachment, detachment, reconciliation,
                       cleanupRequired, attached, revision, toClient, server>>
    PROVE  IndInv'
<1>1. Unsettled /\ detachment = Newest /\ Kind = "detach"
  BY DEF IndInv, PointersFit, Ahead
<1>2. /\ h \in Handles /\ hs \in [Handles -> Lease] /\ hs[h].state = "acquiring"
      /\ c \in Nat /\ e \in Handles \cup {None} /\ CountIs(hs, generation, c, e)
      /\ \A q \in Handles : hs[q].generation <= generation
  BY DEF InHand, HandLease
<1>3. Join(Newest, Job("caught", h), jobs) /\ "caught" \in AcquireSteps
  BY <1>1 DEF AcquireSteps
<1>4. PICK w \in Reaction : /\ w.handle = h /\ w.request = Newest /\ w.step = "caught"
                            /\ Registered(w) /\ jobs' = jobs /\ toServer' = toServer
  BY <1>1, <1>2, <1>3, JoinIs
<1>5. /\ Newest' = Newest /\ Unsettled' /\ Kind' = Kind /\ (PendingNow' <=> PendingNow)
      /\ requests' \in Seq(RequestRecord) /\ requests'[Newest].state = requests[Newest].state
      /\ Waiters' = Append(Waiters, w) /\ OneUnsettled'
  BY <1>1, <1>4, WaiterAdded
<1>6. Waiters \in Seq(Reaction) /\ Waiters # <<>>
  BY <1>1, QueueFacts DEF IndInv, WaitersFit
<1>7. /\ DOMAIN Waiters = 1 .. Len(Waiters) /\ Len(Waiters) \in Nat /\ Waiters' # <<>>
      /\ \A k \in DOMAIN Waiters : k \in DOMAIN Waiters' /\ Waiters'[k] = Waiters[k]
      /\ \A k \in DOMAIN Waiters' : k \in DOMAIN Waiters \/ k = Len(Waiters) + 1
      /\ Waiters'[Len(Waiters) + 1] = w /\ Len(Waiters) + 1 \in DOMAIN Waiters'
      /\ 1 \in DOMAIN Waiters /\ Len(Waiters) + 1 # 1
  <2>1. /\ DOMAIN Waiters = 1 .. Len(Waiters) /\ Len(Waiters) \in Nat /\ Waiters' # <<>>
        /\ \A k \in DOMAIN Waiters : k \in DOMAIN Waiters' /\ Waiters'[k] = Waiters[k]
        /\ \A k \in DOMAIN Waiters' : k \in DOMAIN Waiters \/ k = Len(Waiters) + 1
        /\ Waiters'[Len(Waiters) + 1] = w /\ DOMAIN Waiters' = 1 .. Len(Waiters) + 1
    BY <1>5, <1>6, AppendIs
  <2>2. Len(Waiters) >= 1
    BY <1>6, <2>1
  <2>. QED  BY <2>1, <2>2
<1>8. HandlesBacked' /\ OneReactionEach' /\ NobodyForgotten'
  <2>1. JobsGrow(<<>>)
    BY <1>4 DEF JobsGrow
  <2>2. WaitersGrow(h) /\ \E k \in DOMAIN Waiters' : Waiters'[k].handle = h
    <3>1. \E k \in DOMAIN Waiters' : Waiters'[k].handle = h
      BY <1>4, <1>7
    <3>2. \A k \in DOMAIN Waiters' : k \notin DOMAIN Waiters => k = Len(Waiters) + 1
      BY <1>7
    <3>3. Waiters'[Len(Waiters) + 1].handle = h /\ Waiters'[Len(Waiters) + 1].step \in AcquireSteps
      BY <1>3, <1>4, <1>7
    <3>4. \A k \in DOMAIN Waiters : k \in DOMAIN Waiters' /\ Waiters'[k] = Waiters[k]
      BY <1>7
    <3>. QED  BY <3>1, <3>2, <3>3, <3>4 DEF WaitersGrow
  <2>. QED  BY <1>2, <2>1, <2>2, Handed
<1>9. WaitersFit'
  <2>1. ASSUME NEW k \in DOMAIN Waiters'
        PROVE  /\ Waiters'[k].request = Newest
               /\ Waiters'[k].step = IF k = 1 THEN "afterDetach" ELSE "caught"
    <3>1. CASE k \in DOMAIN Waiters
      BY <1>1, <1>7, <3>1 DEF IndInv, WaitersFit
    <3>2. CASE k = Len(Waiters) + 1
      BY <1>4, <1>7, <3>2
    <3>. QED  BY <1>7, <3>1, <3>2
  <2>. QED  BY <1>1, <1>5, <1>7, <2>1 DEF WaitersFit
<1>10. Settles' /\ JobsOrdered' /\ JobsFit'
  <2>1. DOMAIN jobs' = {} /\ jobs' = jobs
    BY <1>4
  <2>2. ~ (Unsettled /\ requests[Newest].state = "done")
    BY DEF IndInv, Settles
  <2>3. Settles'
    <3>1. requests'[Newest'].state # "done"
      BY <1>1, <1>5, <2>2
    <3>. QED  BY <2>1, <3>1 DEF Settles
  <2>. QED  BY <2>1, <2>3 DEF JobsOrdered, JobsFit
<1>11. PointersFit'
  BY <1>1, <1>4, <1>5 DEF IndInv, PointersFit, Ahead
<1>12. CleanupFits'
  <2>1. ~ cleanupRequired
    BY <1>1 DEF IndInv, CleanupFits
  <2>2. \A k \in DOMAIN jobs' : jobs'[k].step = "settle"
    BY <1>4
  <2>. QED  BY <1>1, <1>5, <2>1, <2>2 DEF CleanupFits
<1>13. ReleaserAlone'
  <2>1. \A q \in Handles : Live(q)' => q = Waiters'[1].handle
    <3>1. ASSUME NEW q \in Handles, Live(q)' PROVE q = Waiters'[1].handle
      <4>1. q # h
        BY <1>2, <3>1 DEF Live
      <4>2. Live(q)
        BY <3>1, <4>1 DEF Live, Valid
      <4>. QED  BY <1>1, <1>7, <4>2 DEF IndInv, ReleaserAlone
    <3>. QED  BY <3>1
  <2>2. DOMAIN jobs' = {}
    BY <1>4
  <2>. QED  BY <2>1, <2>2 DEF ReleaserAlone
<1>14. CountFits'
  BY <1>2 DEF CountFits
<1>15. PromptsBounded' /\ WireFits' /\ Disconnected'
  BY <1>4, <1>5, WireKept
<1>16. Shape'
  BY <1>2, <1>4, <1>5 DEF IndInv, Shape, HandleShape, CountShape, FlagShape, ConnectionShape, QueueShape,
     WireShape, ServerShape
<1>. QED  BY <1>5, <1>8, <1>9, <1>10, <1>11, <1>12, <1>13, <1>14, <1>15, <1>16 DEF IndInv

\* acquireSession.
LEMMA AcquireStep ==
    ASSUME IndInv, "reentrant" \notin Faults, NEW h \in Handles, NEW mode \in {"shared", "exclusive"},
           Acquire(h, mode)
    PROVE  IndInv'
<1>. DEFINE hs == [handles EXCEPT ![h].state = "acquiring", ![h].mode = mode,
                                  ![h].generation = generation]
            e == IF mode = "exclusive" THEN h ELSE exclusive
<1>1. /\ jobs = <<>> /\ handles[h].state = "unused" /\ MayReserve(mode)
      /\ count' = count + 1 /\ exclusive' = e
      /\ UNCHANGED <<connection, connects, generation, detachment, cleanupRequired, attached,
                     toClient, server>>
  BY DEF Acquire, MayCall
<1>2. \/ /\ detachment # None /\ Join(detachment, Job("caught", h), jobs) /\ handles' = hs
         /\ UNCHANGED <<attachment, reconciliation, revision>>
      \/ detachment = None /\ JoinReconciliation(h, hs, jobs)
  BY Zenon DEF Acquire
<1>3. \A q \in Handles \ {h} : hs[q] = handles[q]
  BY DEF IndInv, Shape, HandleShape
<1>4. InHand(h, hs, <<>>, count + 1, e) /\ (detachment = None => HandClear(hs))
  BY <1>1, HandReserved
<1>. HIDE DEF hs, e
<1>5. CASE /\ detachment # None /\ Join(detachment, Job("caught", h), jobs) /\ handles' = hs
           /\ UNCHANGED <<attachment, reconciliation, revision>>
  BY <1>1, <1>3, <1>4, <1>5, DetachmentJoined
<1>6. CASE detachment = None /\ JoinReconciliation(h, hs, jobs)
  <2>1. JoinReconciliation(h, hs, <<>>)
    BY <1>1, <1>6
  <2>. QED  BY <1>1, <1>4, <1>6, <2>1, Reconciles
<1>. QED  BY <1>2, <1>5, <1>6

\* Between two reactions of the client an unsettled request is pending.
LEMMA IdleFacts ==
    ASSUME IndInv, jobs = <<>>
    PROVE  /\ Unsettled <=> PendingNow
           /\ Unsettled => requests[Newest].state = "pending"
           /\ DOMAIN jobs = {}
           /\ attachment # None => Unsettled
           /\ detachment # None => Unsettled
<1>1. Unsettled => requests[Newest].state = "pending"
  <2>. HAVE Unsettled
  <2>1. requests[Newest].state \in {"pending", "done"}
    BY QueueFacts DEF RequestRecord
  <2>2. requests[Newest].state # "done"
    BY DEF IndInv, Settles
  <2>. QED  BY <2>1, <2>2
<1>2. PendingNow => Unsettled
  <2>. HAVE PendingNow
  <2>1. Newest > 0 /\ requests[Newest].state = "pending" /\ Newest \in 1 .. Newest
    BY QueueFacts DEF PendingNow
  <2>. QED  BY <2>1 DEF IndInv, OneUnsettled, Unsettled
<1>3. Unsettled => PendingNow
  BY <1>1 DEF Unsettled, PendingNow
<1>4. DOMAIN jobs = {}
  OBVIOUS
<1>5. /\ attachment # None => Unsettled
      /\ detachment # None => Unsettled
  BY DEF IndInv, PointersFit, Ahead
<1>. QED  BY <1>1, <1>2, <1>3, <1>4, <1>5

\* Two calls in use count for two.
LEMMA CountTwo ==
    ASSUME NEW hs, NEW g, NEW c, NEW e, CountIs(hs, g, c, e), c <= 1,
           NEW p \in InUse(hs, g), NEW q \in InUse(hs, g)
    PROVE  p = q
<1>1. IsFiniteSet(InUse(hs, g)) /\ c = Cardinality(InUse(hs, g)) /\ c \in Nat
  BY FS_CardinalityType DEF CountIs
<1>2. IsFiniteSet(InUse(hs, g) \ {p}) /\ Cardinality(InUse(hs, g) \ {p}) = c - 1
  BY <1>1, FS_RemoveElement
<1>3. Cardinality(InUse(hs, g) \ {p}) \in Nat
  BY <1>2, FS_CardinalityType
<1>4. Cardinality(InUse(hs, g) \ {p}) = 0
  BY <1>1, <1>2, <1>3
<1>5. InUse(hs, g) \ {p} = {}
  BY <1>2, <1>4, FS_EmptySet
<1>. QED  BY <1>5

\* A release: the last lease asks for a detachment, another one just ends.
LEMMA ReleaseStep ==
    ASSUME IndInv, "reentrant" \notin Faults, NEW h \in Handles, NEW relinquish \in BOOLEAN,
           Release(h, relinquish)
    PROVE  IndInv'
<1>1. /\ jobs = <<>> /\ handles[h].state = "active" /\ Valid(h) /\ connection = "connected"
      /\ UNCHANGED <<connection, connects, generation, attachment, reconciliation, cleanupRequired,
                     attached, revision, toClient, server>>
  BY DEF Release, MayCall, Active
<1>2. /\ handles \in [Handles -> Lease] /\ count \in Nat /\ exclusive \in Handles \cup {None}
      /\ generation \in Nat /\ CountIs(handles, generation, count, exclusive)
      /\ \A q \in Handles : handles[q].generation <= generation
  BY DEF IndInv, Shape, HandleShape, CountShape, CountFits
<1>3. h \in InUse(handles, generation) /\ Live(h)
  BY <1>1 DEF InUse, Valid, Live
<1>4. ~ cleanupRequired /\ DOMAIN jobs = {}
  BY <1>1, <1>3, IdleFacts DEF IndInv, CleanupFits
<1>5. \A k \in DOMAIN Waiters : /\ Waiters[k].handle \in Handles /\ Waiters[k].handle # h
                                /\ Waiters[k].handle \in InUse(handles, generation)
                                /\ Waiters[k].step # "settle" /\ Backed(Waiters[k])
                                /\ Valid(Waiters[k].handle)
  <2>1. ASSUME NEW k \in DOMAIN Waiters
        PROVE  /\ Waiters[k].handle \in Handles /\ Waiters[k].handle # h
               /\ Waiters[k].handle \in InUse(handles, generation)
               /\ Waiters[k].step # "settle" /\ Backed(Waiters[k]) /\ Valid(Waiters[k].handle)
    <3>1. /\ Backed(Waiters[k]) /\ Waiters[k].handle \in Handles /\ Waiters[k].step # "settle"
          /\ Waiters[k].step \in AcquireSteps \cup ReleaseSteps
      BY <2>1, StepFacts DEF IndInv, HandlesBacked
    <3>2. handles[Waiters[k].handle].state \in {"acquiring", "releasing"} /\ Valid(Waiters[k].handle)
      BY <1>1, <3>1 DEF Backed, Acquiring
    <3>. QED  BY <1>1, <3>1, <3>2 DEF InUse, Valid
  <2>. QED  BY <2>1
<1>6. CASE count > 1
  <2>1. /\ handles' = [handles EXCEPT ![h].state = "released", ![h].relinquish = relinquish]
        /\ ReleaseLease(h) /\ UNCHANGED <<requests, toServer, jobs, detachment>>
    BY <1>2, <1>6 DEF Release
  <2>. DEFINE lease == [handles[h] EXCEPT !.state = "released", !.relinquish = relinquish]
  <2>2. lease \in Lease /\ lease.state = "released" /\ lease.generation = handles[h].generation
        /\ lease.mode = handles[h].mode
    <3>1. handles[h] \in Lease
      BY <1>2
    <3>. QED  BY <3>1 DEF Lease
  <2>3. handles' = [handles EXCEPT ![h] = lease]
    BY <1>2, <2>1
  <2>. HIDE DEF lease
  <2>4. /\ handles' \in [Handles -> Lease] /\ handles'[h] = lease
        /\ \A q \in Handles \ {h} : handles'[q] = handles[q]
    BY <1>2, <2>2, <2>3
  <2>5. SameRequests
    BY <2>1, RequestsKept
  <2>6. CountFits' /\ count' \in Nat /\ exclusive' \in Handles \cup {None}
    <3>1. InUse(handles', generation) = InUse(handles, generation) \ {h}
      BY <2>2, <2>4 DEF InUse
    <3>2. \A q \in Handles : handles'[q].mode = handles[q].mode
      BY <2>2, <2>4
    <3>3. CountIs(handles', generation, count - 1, exclusive')
      BY <1>2, <1>3, <3>1, <3>2, CountDrop
    <3>4. count' = count - 1 /\ count' \in Nat /\ exclusive' \in Handles \cup {None}
      BY <1>2, <1>6, <2>1 DEF ReleaseLease
    <3>5. \A q \in Handles : handles'[q].generation <= generation
      BY <1>2, <2>2, <2>4
    <3>. QED  BY <1>1, <3>3, <3>4, <3>5 DEF CountFits
  <2>7. HandlesBacked'
    <3>1. ASSUME NEW k \in DOMAIN Waiters PROVE Backed(Waiters[k])'
      BY <1>1, <1>5, <2>4, <2>5 DEF Backed, Acquiring, Valid, SameRequests
    <3>. QED  BY <1>4, <2>1, <2>5, <3>1 DEF HandlesBacked, SameRequests
  <2>8. NobodyForgotten'
    <3>1. ASSUME NEW q \in Handles, Acquiring(q)' PROVE Acquiring(q)
      BY <2>2, <2>4, <3>1 DEF Acquiring
    <3>. QED  BY <2>1, <2>5, <3>1 DEF IndInv, NobodyForgotten, SameRequests
  <2>9. \A q \in Handles : Live(q)' => Live(q)
    BY <1>1, <2>2, <2>4 DEF Live, Valid
  <2>10. ReleaserAlone' /\ CleanupFits'
    BY <1>1, <1>4, <2>1, <2>5, <2>9 DEF IndInv, ReleaserAlone, CleanupFits, SameRequests
  <2>11. OneUnsettled' /\ WaitersFit' /\ OneReactionEach'
    BY <2>1, <2>5 DEF IndInv, OneUnsettled, WaitersFit, OneReactionEach, SameRequests
  <2>12. Settles' /\ PointersFit'
    BY <1>1, <2>1, <2>5 DEF IndInv, Settles, PointersFit, Ahead, SameRequests
  <2>13. JobsOrdered' /\ JobsFit'
    BY <1>4, <2>1 DEF JobsOrdered, JobsFit
  <2>14. PromptsBounded' /\ WireFits' /\ Disconnected'
    BY <1>1, <2>1, <2>5, WireKept DEF SameRequests
  <2>15. Shape'
    BY <1>1, <2>1, <2>4, <2>6 DEF IndInv, Shape, HandleShape, CountShape, FlagShape, ConnectionShape,
       QueueShape, WireShape, ServerShape
  <2>. QED  BY <2>6, <2>7, <2>8, <2>10, <2>11, <2>12, <2>13, <2>14, <2>15 DEF IndInv
<1>7. CASE count <= 1
  <2>1. /\ handles' = [handles EXCEPT ![h].state = "releasing", ![h].relinquish = relinquish]
        /\ Send("detach", Job("afterDetach", h), jobs) /\ detachment' = Len(requests) + 1
        /\ UNCHANGED <<count, exclusive>>
    BY <1>7 DEF Release
  <2>. DEFINE lease == [handles[h] EXCEPT !.state = "releasing", !.relinquish = relinquish]
  <2>2. lease \in Lease /\ lease.state = "releasing" /\ lease.generation = handles[h].generation
        /\ lease.mode = handles[h].mode
    <3>1. handles[h] \in Lease
      BY <1>2
    <3>. QED  BY <3>1 DEF Lease
  <2>3. handles' = [handles EXCEPT ![h] = lease]
    BY <1>2, <2>1
  <2>. HIDE DEF lease
  <2>4. /\ handles' \in [Handles -> Lease] /\ handles'[h] = lease
        /\ \A q \in Handles \ {h} : handles'[q] = handles[q]
    BY <1>2, <2>2, <2>3
  <2>5. \A q \in InUse(handles, generation) : q = h
    BY <1>2, <1>3, <1>7, CountTwo
  <2>6. ~ Unsettled
    <3>1. DOMAIN Waiters = {}
      BY <1>5, <2>5
    <3>2. Unsettled => Waiters # <<>> /\ Waiters \in Seq(Reaction)
      BY QueueFacts DEF IndInv, WaitersFit
    <3>. QED  BY <3>1, <3>2
  <2>7. /\ Newest' = Newest + 1 /\ Newest \in Nat /\ Newest = Len(requests) /\ Unsettled' /\ Kind' = "detach"
        /\ requests' \in Seq(RequestRecord) /\ OneUnsettled'
        /\ requests'[Newest'].state = "pending"
        /\ DOMAIN Waiters' = {1} /\ Waiters' # <<>>
        /\ Waiters'[1].step = "afterDetach" /\ Waiters'[1].handle = h /\ Waiters'[1].request = Newest'
        /\ PromptsBounded' /\ WireFits' /\ Disconnected' /\ toServer' \in Seq(Command)
        /\ jobs' = jobs
    <3>1. "detach" \in Kinds /\ jobs \in Seq(Reaction)
      BY QueueFacts DEF Kinds
    <3>2. "afterDetach" \in {"afterAttach", "afterReconciliation", "afterDetach"}
      OBVIOUS
    <3>. QED  BY <1>1, <2>1, <2>6, <3>1, <3>2, SendFacts
  <2>8. CountFits'
    <3>1. InUse(handles', generation) = InUse(handles, generation)
      BY <1>1, <2>2, <2>4 DEF InUse
    <3>2. \A q \in Handles : handles'[q].mode = handles[q].mode
      BY <2>2, <2>4
    <3>3. CountIs(handles', generation, count, exclusive)
      BY <1>2, <3>1, <3>2, CountSame
    <3>4. \A q \in Handles : handles'[q].generation <= generation
      BY <1>2, <2>2, <2>4
    <3>. QED  BY <1>1, <2>1, <3>3, <3>4 DEF CountFits
  <2>9. DOMAIN jobs' = {} /\ jobs' = <<>>
    BY <1>1, <2>7
  <2>10. HandlesBacked'
    <3>1. Backed(Waiters[1])'
      BY <1>1, <2>2, <2>4, <2>7 DEF Backed, Valid, ReleaseSteps, AcquireSteps
    <3>. QED  BY <2>7, <2>9, <3>1 DEF HandlesBacked
  <2>11. NobodyForgotten'
    <3>1. ASSUME NEW q \in Handles PROVE ~ Acquiring(q)'
      <4>1. DOMAIN Waiters = {}
        BY <2>6 DEF Waiters
      <4>2. ~ Acquiring(q)
        BY <1>4, <4>1 DEF IndInv, NobodyForgotten
      <4>. QED  BY <2>2, <2>4, <4>2 DEF Acquiring
    <3>. QED  BY <3>1 DEF NobodyForgotten
  <2>12. ReleaserAlone'
    <3>1. ASSUME NEW q \in Handles, Live(q)' PROVE q = h
      <4>1. CASE q # h
        <5>1. q \in InUse(handles, generation)
          BY <1>1, <2>4, <3>1, <4>1 DEF Live, Valid, InUse
        <5>. QED  BY <2>5, <5>1
      <4>. QED  BY <4>1
    <3>. QED  BY <2>7, <2>9, <3>1 DEF ReleaserAlone
  <2>13. CleanupFits' /\ WaitersFit' /\ OneReactionEach'
    BY <1>1, <1>4, <2>7, <2>9 DEF CleanupFits, WaitersFit, OneReactionEach
  <2>14. Settles' /\ JobsOrdered' /\ JobsFit'
    BY <2>7, <2>9 DEF Settles, JobsOrdered, JobsFit
  <2>15. PointersFit'
    <3>1. attachment = None /\ reconciliation = None
      BY <1>1, <2>6, IdleFacts DEF IndInv, PointersFit
    <3>2. Newest' > 0 /\ Newest' = Len(requests) + 1
      BY <2>7
    <3>. QED  BY <1>1, <2>1, <2>7, <3>1, <3>2 DEF PointersFit
  <2>16. Shape'
    BY <1>1, <2>1, <2>4, <2>7 DEF IndInv, Shape, HandleShape, CountShape, FlagShape, ConnectionShape,
       QueueShape, WireShape, ServerShape
  <2>. QED  BY <2>7, <2>8, <2>10, <2>11, <2>12, <2>13, <2>14, <2>15, <2>16 DEF IndInv
<1>. QED  BY <1>2, <1>6, <1>7

\* connect() and the handshake: nothing waits and nothing is on its way.
LEMMA ConnectStep ==
    ASSUME IndInv, "reentrant" \notin Faults, Connect \/ Handshake
    PROVE  IndInv'
<1>1. /\ jobs = <<>> /\ connection # "connected"
      /\ connection' \in {"connecting", "connected"}
      /\ connects' \in {connects, connects + 1} /\ (connects' = connects + 1 => connects < MaxConnects)
      /\ attached' \in {attached, FALSE} /\ revision' \in {revision, None}
      /\ (connection' = "connected" => attached' = attached)
      /\ UNCHANGED <<handles, count, exclusive, generation, attachment, detachment, reconciliation,
                     cleanupRequired, requests, jobs, toServer, toClient, server>>
  <2>1. CASE Connect
    BY <2>1 DEF Connect, MayCall
  <2>2. CASE Handshake
    <3>1. connects' = connects /\ connects # connects + 1
      BY <2>2 DEF Handshake, IndInv, Shape, ConnectionShape
    <3>. QED  BY <2>2, <3>1 DEF Handshake
  <2>. QED  BY <2>1, <2>2
<1>2. /\ ~ attached /\ ~ PendingNow /\ toServer = <<>> /\ toClient = <<>> /\ server.serving = None
      /\ ~ server.attached /\ server.prompts = 0
  BY <1>1 DEF IndInv, Disconnected
<1>3. ~ Unsettled /\ DOMAIN jobs = {} /\ DOMAIN Waiters = {}
  BY <1>1, <1>2, IdleFacts DEF Waiters
<1>4. SameRequests
  BY <1>1, RequestsKept
<1>5. OneUnsettled' /\ WaitersFit' /\ Settles' /\ OneReactionEach' /\ NobodyForgotten'
  BY <1>1, <1>4 DEF IndInv, OneUnsettled, WaitersFit, Settles, OneReactionEach, NobodyForgotten,
     Acquiring, SameRequests
<1>6. JobsOrdered' /\ JobsFit' /\ HandlesBacked'
  BY <1>1, <1>3, <1>4 DEF JobsOrdered, JobsFit, HandlesBacked, SameRequests
<1>7. PointersFit'
  BY <1>1, <1>4 DEF IndInv, PointersFit, Ahead, SameRequests
<1>8. CleanupFits' /\ ReleaserAlone' /\ CountFits'
  BY <1>1, <1>4 DEF IndInv, CleanupFits, ReleaserAlone, CountFits, Live, Valid, SameRequests
<1>9. WireFits' /\ PromptsBounded'
  <2>1. Commands' = Commands /\ Answers' = Answers
    BY <1>1 DEF Commands, Answers
  <2>2. WireFits'
    BY <1>1, <1>4, <2>1 DEF IndInv, WireFits, SameRequests
  <2>3. PromptsBounded'
    BY <1>1 DEF IndInv, PromptsBounded, PromptsSent
  <2>. QED  BY <2>2, <2>3
<1>10. Disconnected'
  BY <1>1, <1>2, <1>4 DEF Disconnected, SameRequests
<1>11. Shape'
  <2>1. FlagShape'
    BY <1>1 DEF IndInv, Shape, FlagShape, Revisions
  <2>2. ConnectionShape'
    BY <1>1, BoundsAssumption DEF IndInv, Shape, ConnectionShape
  <2>. QED  BY <1>1, <2>1, <2>2 DEF IndInv, Shape, HandleShape, CountShape, QueueShape, WireShape, ServerShape
<1>. QED  BY <1>5, <1>6, <1>7, <1>8, <1>9, <1>10, <1>11 DEF IndInv

\* rejectPendingRequests between two reactions: the unsettled request, if there is one, is
\* rejected, and nothing else.
LEMMA Rejected ==
    ASSUME IndInv, jobs = <<>>, RejectPending
    PROVE  /\ requests' \in Seq(RequestRecord) /\ Newest' = Newest /\ (Unsettled' <=> Unsettled)
           /\ Kind' = Kind /\ Waiters' = Waiters /\ ~ PendingNow' /\ OneUnsettled'
           /\ Newest > 0 => requests'[Newest].state = "done"
           /\ jobs' \in Seq(Reaction)
           /\ ~ Unsettled => Len(jobs') = 0 /\ DOMAIN jobs' = {}
           /\ Unsettled => /\ Len(jobs') = 1 /\ DOMAIN jobs' = {1} /\ jobs' # <<>>
                           /\ jobs'[1].step = "settle" /\ jobs'[1].request = Newest /\ ~ jobs'[1].ok
<1>1. /\ requests \in Seq(RequestRecord) /\ Newest \in Nat /\ DOMAIN requests = 1 .. Newest
      /\ Request = 1 .. Newest /\ Newest = Len(requests)
      /\ Newest > 0 => Newest \in 1 .. Newest
  BY QueueFacts DEF Request, Newest
<1>2. \A i \in 1 .. Newest : [requests[i] EXCEPT !.state = "done"] \in RequestRecord
  <2>1. ASSUME NEW i \in 1 .. Newest PROVE [requests[i] EXCEPT !.state = "done"] \in RequestRecord
    <3>1. requests[i] \in RequestRecord
      BY <1>1, <2>1
    <3>. QED  BY <3>1 DEF RequestRecord
  <2>. QED  BY <2>1
<1>3. requests' = [i \in 1 .. Newest |-> [requests[i] EXCEPT !.state = "done"]]
  BY <1>1 DEF RejectPending
<1>4. /\ requests' \in Seq(RequestRecord) /\ Len(requests') = Newest
  BY <1>1, <1>2, <1>3
<1>5. ASSUME NEW i \in 1 .. Newest
      PROVE  /\ requests'[i].state = "done" /\ requests'[i].settled = requests[i].settled
             /\ requests'[i].kind = requests[i].kind /\ requests'[i].waiters = requests[i].waiters
  <2>1. requests[i] \in RequestRecord
    BY <1>1
  <2>2. requests'[i] = [requests[i] EXCEPT !.state = "done"]
    BY <1>3
  <2>. QED  BY <2>1, <2>2 DEF RequestRecord
<1>6. Newest' = Newest
  BY <1>4 DEF Newest
<1>7. Unsettled' <=> Unsettled
  BY <1>1, <1>5, <1>6 DEF Unsettled
<1>8. Newest > 0 => Kind' = Kind /\ requests'[Newest].state = "done"
  BY <1>1, <1>5, <1>6 DEF Kind
<1>9. Waiters' = Waiters
  <2>1. CASE Unsettled
    <3>1. Newest > 0 /\ requests'[Newest].waiters = requests[Newest].waiters
      BY <1>1, <1>5, <2>1 DEF Unsettled
    <3>. QED  BY <1>6, <1>7, <2>1, <3>1 DEF Waiters
  <2>2. CASE ~ Unsettled
    BY <1>7, <2>2 DEF Waiters
  <2>. QED  BY <2>1, <2>2
<1>10. ~ PendingNow'
  BY <1>6, <1>8 DEF PendingNow
<1>11. OneUnsettled'
  BY <1>5, <1>6 DEF IndInv, OneUnsettled
<1>12. /\ (Unsettled <=> PendingNow)
       /\ \A i \in Request : Pending(i) => i = Newest /\ Unsettled
  <2>1. Unsettled <=> PendingNow
    BY IdleFacts
  <2>2. ASSUME NEW i \in Request, Pending(i) PROVE i = Newest /\ Unsettled
    <3>1. ~ requests[i].settled
      BY <1>1, <2>2 DEF Pending, IndInv, OneUnsettled
    <3>2. ~ (i < Newest)
      BY <1>1, <3>1 DEF IndInv, OneUnsettled
    <3>3. i \in 1 .. Newest /\ Newest \in Nat
      BY <1>1
    <3>4. i = Newest /\ Newest > 0
      BY <3>2, <3>3
    <3>. QED  BY <3>1, <3>4 DEF Unsettled
  <2>. QED  BY <2>1, <2>2
<1>. DEFINE n == Cardinality({i \in Request : Pending(i)})
            tail == [k \in 1 .. n |-> Settle(PendingAt(k), FALSE)]
<1>13. jobs' = jobs \o tail
  BY DEF RejectPending
<1>14. CASE ~ Unsettled
  <2>1. {i \in Request : Pending(i)} = {}
    BY <1>12, <1>14
  <2>2. n = 0
    BY <2>1, FS_EmptySet
  <2>. HIDE DEF n
  <2>3. tail \in Seq(Reaction) /\ Len(tail) = 0
    BY <2>2
  <2>. HIDE DEF tail
  <2>4. jobs \in Seq(Reaction) /\ Len(jobs) = 0
    BY QueueFacts
  <2>5. jobs' \in Seq(Reaction) /\ Len(jobs') = 0
    BY <1>13, <2>3, <2>4, ConcatIs
  <2>6. DOMAIN jobs' = {}
    BY <2>5
  <2>7. Newest > 0 \/ Newest = 0
    BY <1>1
  <2>8. Kind' = Kind
    <3>1. CASE Newest > 0
      BY <1>8, <3>1
    <3>2. CASE Newest = 0
      <4>1. requests = <<>> /\ requests' = <<>>
        BY <1>1, <1>4, <3>2
      <4>. QED  BY <1>6, <4>1 DEF Kind
    <3>. QED  BY <2>7, <3>1, <3>2
  <2>. QED  BY <1>4, <1>6, <1>7, <1>8, <1>9, <1>10, <1>11, <1>14, <2>5, <2>6, <2>8
<1>15. CASE Unsettled
  <2>1. Newest > 0 /\ Newest \in Request /\ Pending(Newest)
    BY <1>1, <1>12, <1>15 DEF PendingNow, Pending
  <2>2. {i \in Request : Pending(i)} = {Newest}
    BY <1>12, <2>1
  <2>3. n = 1
    BY <2>2, FS_Singleton
  <2>4. {j \in 1 .. Newest : Pending(j)} = {Newest}
    BY <1>1, <2>2
  <2>5. Cardinality({j \in 1 .. Newest : Pending(j)}) = 1
    BY <2>4, FS_Singleton
  <2>6. PendingAt(1) = Newest
    <3>1. PendingAt(1) \in Request /\ Pending(PendingAt(1))
      BY <2>1, <2>5 DEF PendingAt
    <3>. QED  BY <1>12, <3>1
  <2>7. /\ Settle(Newest, FALSE) \in Reaction /\ Settle(Newest, FALSE).step = "settle"
        /\ Settle(Newest, FALSE).request = Newest /\ Settle(Newest, FALSE).ok = FALSE
    BY <1>1, SettleIs
  <2>. HIDE DEF n
  <2>8. tail = [k \in 1 .. 1 |-> Settle(PendingAt(k), FALSE)]
    BY <2>3
  <2>9. tail \in Seq(Reaction) /\ Len(tail) = 1 /\ tail[1] = Settle(Newest, FALSE)
    <3>. DEFINE x == Settle(Newest, FALSE)
    <3>1. \A k \in 1 .. 1 : k = 1
      OBVIOUS
    <3>2. tail = [k \in 1 .. 1 |-> x]
      BY <2>6, <2>8, <3>1
    <3>3. x \in Reaction
      BY <2>7
    <3>. HIDE DEF x, tail
    <3>4. tail \in Seq(Reaction) /\ Len(tail) = 1 /\ tail[1] = x
      BY <3>2, <3>3
    <3>. QED  BY <3>4 DEF x
  <2>. HIDE DEF tail
  <2>10. jobs \in Seq(Reaction) /\ Len(jobs) = 0
    BY QueueFacts
  <2>11. jobs' \in Seq(Reaction) /\ Len(jobs') = 1 /\ jobs'[1] = Settle(Newest, FALSE)
    <3>1. jobs' \in Seq(Reaction) /\ Len(jobs') = Len(tail) /\ \A k \in 1 .. Len(tail) : jobs'[k] = tail[k]
      BY <1>13, <2>9, <2>10, ConcatIs
    <3>2. 1 \in 1 .. Len(tail)
      BY <2>9
    <3>3. jobs'[1] = tail[1]
      BY <3>1, <3>2
    <3>. QED  BY <2>9, <3>1, <3>3
  <2>12. DOMAIN jobs' = {1} /\ jobs' # <<>>
    BY <2>11
  <2>. QED  BY <1>4, <1>6, <1>7, <1>8, <1>9, <1>10, <1>11, <1>15, <2>1, <2>7, <2>11, <2>12
<1>. QED  BY <1>14, <1>15

\* The connection is lost, or the client disposed of: every lease is invalidated.
LEMMA DisconnectStep ==
    ASSUME IndInv, "reentrant" \notin Faults, LoseConnection \/ Dispose
    PROVE  IndInv'
<1>1. /\ jobs = <<>> /\ connection' \in {"disconnected", "disposed"} /\ attached' = FALSE
      /\ InvalidateAllLeases /\ RejectPending /\ ServerDisconnect /\ revision' \in {revision, None}
      /\ UNCHANGED <<connects, handles, attachment, detachment, reconciliation>>
  BY DEF LoseConnection, Dispose, Disconnect
<1>2. /\ requests' \in Seq(RequestRecord) /\ Newest' = Newest /\ (Unsettled' <=> Unsettled)
      /\ Kind' = Kind /\ Waiters' = Waiters /\ ~ PendingNow' /\ OneUnsettled'
      /\ Newest > 0 => requests'[Newest].state = "done"
      /\ jobs' \in Seq(Reaction)
      /\ ~ Unsettled => Len(jobs') = 0 /\ DOMAIN jobs' = {}
      /\ Unsettled => /\ Len(jobs') = 1 /\ DOMAIN jobs' = {1} /\ jobs' # <<>>
                      /\ jobs'[1].step = "settle" /\ jobs'[1].request = Newest /\ ~ jobs'[1].ok
  BY <1>1, Rejected
<1>3. /\ handles \in [Handles -> Lease] /\ count \in Nat /\ exclusive \in Handles \cup {None}
      /\ generation \in Nat /\ CountIs(handles, generation, count, exclusive)
      /\ \A q \in Handles : handles[q].generation <= generation /\ handles[q].generation \in Nat
  BY DEF IndInv, Shape, HandleShape, CountShape, CountFits, Lease
<1>4. /\ count' = 0 /\ cleanupRequired' = FALSE /\ exclusive' \in Handles \cup {None}
      /\ \/ generation' = generation /\ exclusive' = exclusive /\ count = 0
         \/ generation' = generation + 1
  BY <1>1, <1>3 DEF InvalidateAllLeases, InvalidateLeases
<1>5. CountFits' /\ generation' \in Nat
  <2>1. CASE generation' = generation /\ exclusive' = exclusive /\ count = 0
    BY <1>1, <1>3, <1>4, <2>1 DEF CountFits
  <2>2. CASE generation' = generation + 1
    <3>1. \A q \in Handles : handles[q].generation # generation' /\ handles[q].generation <= generation'
      BY <1>3, <2>2
    <3>2. InUse(handles, generation') = {}
      BY <3>1 DEF InUse
    <3>3. CountIs(handles', generation', 0, exclusive')
      BY <1>1, <3>2, CountNone
    <3>. QED  BY <1>1, <1>3, <1>4, <2>2, <3>1, <3>3 DEF CountFits
  <2>. QED  BY <1>4, <2>1, <2>2
<1>6. \A q \in Handles : Live(q)' => Live(q)
  <2>1. CASE generation' = generation
    BY <1>1, <2>1 DEF Live, Valid
  <2>2. CASE generation' = generation + 1
    <3>1. \A q \in Handles : handles[q].generation # generation'
      BY <1>3, <2>2
    <3>. QED  BY <1>1, <3>1 DEF Live, Valid
  <2>. QED  BY <1>4, <2>1, <2>2
<1>7. \A k \in DOMAIN jobs' : Unsettled /\ k = 1 /\ jobs'[k].step = "settle"
  BY <1>2
<1>8. Settles'
  <2>1. ASSUME NEW k \in DOMAIN jobs'
        PROVE  k = Len(jobs') /\ jobs'[k].request = Newest /\ Unsettled /\ requests'[Newest].state = "done"
    <3>1. Newest > 0
      BY <1>7 DEF Unsettled
    <3>. QED  BY <1>2, <1>7, <3>1
  <2>2. Unsettled => jobs' # <<>> /\ jobs'[Len(jobs')].step = "settle"
    BY <1>2
  <2>. QED  BY <1>2, <2>1, <2>2 DEF Settles
<1>9. WaitersFit'
  BY <1>2 DEF IndInv, WaitersFit
<1>10. JobsOrdered'
  <2>1. ASSUME NEW k \in DOMAIN jobs', NEW l \in DOMAIN jobs', k < l PROVE FALSE
    <3>1. k = 1 /\ l = 1
      BY <1>7
    <3>. QED  BY <2>1, <3>1
  <2>. QED  BY <2>1 DEF JobsOrdered
<1>11. JobsFit'
  <2>1. ASSUME NEW k \in DOMAIN jobs' PROVE JobFits(jobs[k])'
    <3>1. jobs'[k].step = "settle" /\ ~ jobs'[k].ok
      BY <1>2, <1>7
    <3>. QED  BY <3>1 DEF JobFits
  <2>. QED  BY <2>1 DEF JobsFit
<1>12. PointersFit'
  <2>1. /\ attachment # None => Unsettled
        /\ detachment # None => Unsettled
    BY <1>1, IdleFacts
  <2>. QED  BY <1>1, <1>2, <2>1 DEF IndInv, PointersFit
<1>13. CleanupFits'
  BY <1>2, <1>4, <1>7 DEF CleanupFits
<1>14. HandlesBacked'
  <2>1. ASSUME NEW k \in DOMAIN Waiters PROVE Backed(Waiters[k])'
    <3>1. Backed(Waiters[k])
      BY <2>1 DEF IndInv, HandlesBacked
    <3>. QED  BY <1>1, <1>2, <1>4, <3>1 DEF Backed, Acquiring
  <2>2. ASSUME NEW k \in DOMAIN jobs' PROVE Backed(jobs[k])'
    BY <1>7, <2>2 DEF Backed, AcquireSteps, ReleaseSteps
  <2>. QED  BY <1>2, <2>1, <2>2 DEF HandlesBacked
<1>15. OneReactionEach'
  BY <1>2, <1>7 DEF IndInv, OneReactionEach
<1>16. NobodyForgotten'
  <2>1. ASSUME NEW q \in Handles, Acquiring(q)' PROVE \E k \in DOMAIN Waiters : Waiters[k].handle = q
    <3>1. Acquiring(q) /\ DOMAIN jobs = {}
      BY <1>1, <2>1, IdleFacts DEF Acquiring
    <3>. QED  BY <3>1 DEF IndInv, NobodyForgotten
  <2>. QED  BY <1>2, <2>1 DEF NobodyForgotten
<1>17. ReleaserAlone'
  <2>1. \A k \in DOMAIN jobs' : jobs'[k].step \notin ReleaseSteps
    BY <1>7 DEF ReleaseSteps
  <2>. QED  BY <1>2, <1>6, <2>1 DEF IndInv, ReleaserAlone
<1>18. /\ toServer' = <<>> /\ toClient' = <<>> /\ server' \in [attached : BOOLEAN, live : BOOLEAN,
             revision : 0 .. MaxRevision, serving : Nat \cup {None}, prompts : Nat]
       /\ server'.serving = None /\ server'.prompts = 0 /\ server'.attached = FALSE
  <2>1. server \in [attached : BOOLEAN, live : BOOLEAN, revision : 0 .. MaxRevision,
                    serving : Nat \cup {None}, prompts : Nat]
    BY DEF IndInv, Shape, ServerShape
  <2>2. server' = [server EXCEPT !.attached = FALSE, !.serving = None, !.prompts = 0, !.live = FALSE]
    BY <1>1 DEF ServerDisconnect
  <2>3. server' \in [attached : BOOLEAN, live : BOOLEAN, revision : 0 .. MaxRevision,
                     serving : Nat \cup {None}, prompts : Nat]
    BY <2>1, <2>2
  <2>4. server'.serving = None /\ server'.prompts = 0 /\ server'.attached = FALSE
    BY <2>1, <2>2
  <2>. QED  BY <1>1, <2>3, <2>4 DEF ServerDisconnect
<1>19. WireFits' /\ Disconnected'
  <2>1. Commands' = {} /\ Answers' = {}
    BY <1>18 DEF Commands, Answers
  <2>. QED  BY <1>1, <1>2, <1>18, <2>1 DEF WireFits, Disconnected
<1>20. PromptsBounded'
  <2>1. PromptsSent' = {}
    BY <1>18 DEF PromptsSent
  <2>2. Cardinality(PromptsSent') = 0
    BY <2>1, FS_EmptySet
  <2>. QED  BY <1>18, <2>2, BoundsAssumption DEF PromptsBounded
<1>21. Shape'
  <2>1. FlagShape' /\ ConnectionShape'
    BY <1>1, <1>4 DEF IndInv, Shape, FlagShape, ConnectionShape, Revisions
  <2>2. HandleShape' /\ CountShape'
    BY <1>1, <1>3, <1>4, <1>5 DEF HandleShape, CountShape
  <2>3. QueueShape' /\ ServerShape'
    BY <1>2, <1>18 DEF QueueShape, ServerShape
  <2>4. WireShape'
    BY <1>18 DEF WireShape
  <2>. QED  BY <2>1, <2>2, <2>3, <2>4 DEF Shape
<1>. QED  BY <1>2, <1>5, <1>8, <1>9, <1>10, <1>11, <1>12, <1>13, <1>14, <1>15, <1>16, <1>17, <1>19,
             <1>20, <1>21 DEF IndInv

--------------------------------------------------------------------------------
(* Steps of the server and of the network.                                       *)

AnswersIn(t) == {k \in DOMAIN t : t[k].request # None}

\* An event leaves the answers on the wire as they are; an answer is one more.
LEMMA AnswerAppended ==
    ASSUME NEW t \in Seq(Answer), NEW m \in Answer
    PROVE  /\ Append(t, m) \in Seq(Answer)
           /\ \A k \in AnswersIn(t) : Append(t, m)[k] = t[k]
           /\ m.request = None => AnswersIn(Append(t, m)) = AnswersIn(t)
           /\ m.request # None => /\ AnswersIn(Append(t, m)) = AnswersIn(t) \cup {Len(t) + 1}
                                  /\ Append(t, m)[Len(t) + 1] = m
<1>. DEFINE u == Append(t, m)
<1>1. /\ u \in Seq(Answer) /\ \A k \in DOMAIN t : k \in DOMAIN u /\ u[k] = t[k]
      /\ \A k \in DOMAIN u : k \in DOMAIN t \/ k = Len(t) + 1
      /\ Len(t) + 1 \in DOMAIN u /\ u[Len(t) + 1] = m
  BY AppendIs
<1>. HIDE DEF u
<1>2. \A k \in AnswersIn(t) : u[k] = t[k]
  BY <1>1 DEF AnswersIn
<1>3. m.request = None => AnswersIn(u) = AnswersIn(t)
  BY <1>1 DEF AnswersIn
<1>4. m.request # None => AnswersIn(u) = AnswersIn(t) \cup {Len(t) + 1}
  BY <1>1 DEF AnswersIn
<1>. QED  BY <1>1, <1>2, <1>3, <1>4 DEF u

\* What the server sends is an answer to the pending request or to none.
LEMMA MessageIs ==
    ASSUME NEW i \in Nat \cup {None}, NEW ok \in BOOLEAN,
           NEW s \in [attached : BOOLEAN, live : BOOLEAN, revision : 0 .. MaxRevision,
                      serving : Nat \cup {None}, prompts : Nat]
    PROVE  Message(i, ok, s) \in Answer /\ Message(i, ok, s).request = i
<1>1. (i # None /\ requests[i].kind # "attach") \in BOOLEAN
  OBVIOUS
<1>2. s.attached \in BOOLEAN /\ s.revision \in 0 .. MaxRevision
  OBVIOUS
<1>. QED  BY <1>1, <1>2 DEF Message, Answer

\* A set of positions shifted by one.
LEMMA ShiftedCardinality ==
    ASSUME NEW n \in Nat, NEW P \in SUBSET (2 .. n + 1), NEW Q,
           Q = {i \in 1 .. n : i + 1 \in P}
    PROVE  IsFiniteSet(P) /\ IsFiniteSet(Q) /\ Cardinality(Q) = Cardinality(P)
<1>1. IsFiniteSet(2 .. n + 1) /\ IsFiniteSet(1 .. n)
  BY FS_Interval
<1>2. IsFiniteSet(P) /\ IsFiniteSet(Q)
  <2>1. Q \in SUBSET (1 .. n)
    OBVIOUS
  <2>. QED  BY <1>1, <2>1, FS_Subset
<1>. DEFINE f == [i \in Q |-> i + 1]
<1>3. f \in [Q -> P]
  OBVIOUS
<1>4. \A a, b \in Q : f[a] = f[b] => a = b
  OBVIOUS
<1>5. \A p \in P : \E q \in Q : f[q] = p
  <2>1. ASSUME NEW p \in P PROVE \E q \in Q : f[q] = p
    <3>1. p - 1 \in Q /\ (p - 1) + 1 = p
      OBVIOUS
    <3>2. f[p - 1] = p
      BY <3>1
    <3>. QED  BY <3>1, <3>2
  <2>. QED  BY <2>1
<1>. HIDE DEF f
<1>6. f \in Bijection(Q, P)
  <2>1. f \in Injection(Q, P)
    BY <1>3, <1>4 DEF Injection, IsInjective
  <2>2. f \in Surjection(Q, P)
    BY <1>3, <1>5 DEF Surjection
  <2>. QED  BY <2>1, <2>2 DEF Bijection
<1>7. ExistsBijection(Q, P)
  BY <1>6 DEF ExistsBijection
<1>. QED  BY <1>2, <1>7, FS_Bijection

\* The server takes a command: the request's one is the only one, a prompt is one less.
LEMMA CommandTaken ==
    ASSUME IndInv, toServer # <<>>, toServer' = Tail(toServer)
    PROVE  /\ toServer' \in Seq(Command) /\ Head(toServer) \in Command
           /\ Cardinality(PromptsSent) \in Nat
           /\ \A k \in Commands' : k + 1 \in Commands /\ toServer'[k] = toServer[k + 1]
           /\ \A k, l \in Commands' : k = l
           /\ Head(toServer).kind # "prompt" =>
                  /\ PendingNow /\ Head(toServer).request = Newest /\ Head(toServer).kind = Kind
                  /\ Commands' = {} /\ Answers = {} /\ server.serving = None
                  /\ Cardinality(PromptsSent') = Cardinality(PromptsSent)
           /\ Head(toServer).kind = "prompt" => Cardinality(PromptsSent') = Cardinality(PromptsSent) - 1
<1>1. /\ toServer' \in Seq(Command) /\ Len(toServer) \in Nat /\ Len(toServer) >= 1
      /\ Len(toServer') = Len(toServer) - 1
      /\ DOMAIN toServer = 1 .. Len(toServer) /\ DOMAIN toServer' = 1 .. Len(toServer) - 1
      /\ Head(toServer) = toServer[1] /\ Head(toServer) \in Command /\ 1 \in DOMAIN toServer
      /\ \A k \in DOMAIN toServer' : k + 1 \in DOMAIN toServer /\ toServer'[k] = toServer[k + 1]
  <2>1. toServer \in Seq(Command)
    BY DEF IndInv, Shape, WireShape
  <2>. QED  BY <2>1, TailIs
<1>2. \A k \in Commands' : k + 1 \in Commands /\ toServer'[k] = toServer[k + 1] /\ k \in 1 .. Len(toServer) - 1
  BY <1>1 DEF Commands
<1>3. \A k, l \in Commands' : k = l
  <2>1. ASSUME NEW k \in Commands', NEW l \in Commands' PROVE k = l
    <3>1. k + 1 = l + 1
      BY <1>2 DEF IndInv, WireFits
    <3>2. k \in Int /\ l \in Int
      BY <1>2
    <3>. QED  BY <3>1, <3>2
  <2>. QED  BY <2>1
<1>. DEFINE n == Len(toServer) - 1
            P == PromptsSent \ {1}
<1>4. n \in Nat /\ P \in SUBSET (2 .. n + 1) /\ Len(toServer) = n + 1
  BY <1>1 DEF PromptsSent
<1>5. PromptsSent' = {i \in 1 .. n : i + 1 \in P}
  <2>1. ASSUME NEW i \in 1 .. n PROVE i + 1 \in 1 .. Len(toServer) /\ i + 1 # 1 /\ toServer'[i] = toServer[i + 1]
    BY <1>1, <1>4
  <2>2. Len(toServer') = n
    BY <1>1
  <2>. QED  BY <2>1, <2>2 DEF PromptsSent
<1>6. IsFiniteSet(P) /\ IsFiniteSet(PromptsSent') /\ Cardinality(PromptsSent') = Cardinality(P)
  <2>. HIDE DEF n, P
  <2>. QED  BY <1>4, <1>5, ShiftedCardinality
<1>7. IsFiniteSet(PromptsSent)
  <2>1. IsFiniteSet(1 .. Len(toServer))
    BY <1>1, FS_Interval
  <2>2. PromptsSent \in SUBSET (1 .. Len(toServer))
    BY DEF PromptsSent
  <2>. QED  BY <2>1, <2>2, FS_Subset
<1>8. Cardinality(PromptsSent) \in Nat
  BY <1>7, FS_CardinalityType
<1>9. Cardinality(P) = IF 1 \in PromptsSent THEN Cardinality(PromptsSent) - 1 ELSE Cardinality(PromptsSent)
  BY <1>7, FS_RemoveElement
<1>10. 1 \in PromptsSent <=> Head(toServer).kind = "prompt"
  BY <1>1 DEF PromptsSent
<1>11. ASSUME Head(toServer).kind # "prompt"
       PROVE  /\ PendingNow /\ Head(toServer).request = Newest /\ Head(toServer).kind = Kind
              /\ Commands' = {} /\ Answers = {} /\ server.serving = None
  <2>1. 1 \in Commands
    BY <1>1, <1>11 DEF Commands
  <2>2. /\ PendingNow /\ toServer[1].request = Newest /\ toServer[1].kind = Kind
        /\ Answers = {} /\ server.serving = None /\ \A k \in Commands : k = 1
    BY <2>1 DEF IndInv, WireFits
  <2>3. Commands' = {}
    <3>1. ASSUME NEW k \in Commands' PROVE FALSE
      <4>1. k + 1 = 1 /\ k \in 1 .. Len(toServer) - 1
        BY <1>2, <2>2
      <4>. QED  BY <1>1, <4>1
    <3>. QED  BY <3>1
  <2>. QED  BY <1>1, <2>2, <2>3
<1>. HIDE DEF P
<1>. QED  BY <1>1, <1>2, <1>3, <1>6, <1>8, <1>9, <1>10, <1>11

\* The invariant but for the wire does not speak of the client's copy of the session.
LEMMA WireStep ==
    ASSUME IndInv, connection = "connected", FlagShape',
           UNCHANGED <<connection, connects, handles, count, exclusive, generation, attachment, detachment,
                       reconciliation, cleanupRequired, requests, jobs>>,
           PromptsBounded', WireFits', WireShape', ServerShape'
    PROVE  IndInv'
<1>1. /\ UNCHANGED <<connection, connects, handles, count, exclusive, generation, attachment, detachment>>
      /\ UNCHANGED <<reconciliation, cleanupRequired, requests, jobs>>
  OBVIOUS
<1>2. SameRequests
  BY <1>1, RequestsKept
<1>3. HandleShape' /\ CountShape' /\ ConnectionShape' /\ QueueShape'
  BY <1>1 DEF IndInv, Shape, HandleShape, CountShape, ConnectionShape, QueueShape
<1>4. OneUnsettled' /\ WaitersFit' /\ Settles' /\ JobsOrdered'
  BY <1>1, <1>2 DEF IndInv, OneUnsettled, WaitersFit, Settles, JobsOrdered, SameRequests
<1>5. JobsFit'
  BY <1>1, <1>2 DEF IndInv, JobsFit, JobFits, SameRequests
<1>6. PointersFit'
  BY <1>1, <1>2 DEF IndInv, PointersFit, Ahead, SameRequests
<1>7. CleanupFits' /\ ReleaserAlone' /\ CountFits'
  BY <1>1, <1>2 DEF IndInv, CleanupFits, ReleaserAlone, CountFits, Live, Valid, SameRequests
<1>8. HandlesBacked'
  BY <1>1, <1>2 DEF IndInv, HandlesBacked, Backed, Acquiring, Valid, SameRequests
<1>9. OneReactionEach' /\ NobodyForgotten'
  BY <1>1, <1>2 DEF IndInv, OneReactionEach, NobodyForgotten, Acquiring, SameRequests
<1>10. Disconnected'
  BY <1>1 DEF Disconnected
<1>. QED  BY <1>3, <1>4, <1>5, <1>6, <1>7, <1>8, <1>9, <1>10 DEF IndInv, Shape

\* A step of the server or a prompt.
LEMMA WireOnly ==
    ASSUME IndInv, UNCHANGED clientVars, connection = "connected",
           PromptsBounded', WireFits', WireShape', ServerShape'
    PROVE  IndInv'
<1>1. FlagShape'
  BY DEF clientVars, IndInv, Shape, FlagShape
<1>. QED  BY <1>1, WireStep DEF clientVars

ServerRecord == [attached : BOOLEAN, live : BOOLEAN, revision : 0 .. MaxRevision,
                 serving : Nat \cup {None}, prompts : Nat]

\* A prompt is sent.
LEMMA PromptStep ==
    ASSUME IndInv, NEW h \in Handles, Prompt(h)
    PROVE  IndInv'
<1>. DEFINE m == [kind |-> "prompt", request |-> None]
<1>1. /\ UNCHANGED clientVars /\ connection = "connected" /\ UNCHANGED <<toClient, server>>
      /\ server.prompts + Cardinality(PromptsSent) < MaxPrompts /\ toServer' = Append(toServer, m)
  BY DEF Prompt, PromptsSent
<1>2. requests' = requests
  BY <1>1 DEF clientVars
<1>3. SameRequests
  BY <1>2, RequestsKept
<1>4. m \in Command /\ m.kind = "prompt"
  BY DEF Command
<1>. HIDE DEF m
<1>5. toServer \in Seq(Command) /\ toClient \in Seq(Answer) /\ server.prompts \in Nat
  BY DEF IndInv, Shape, WireShape, ServerShape
<1>6. /\ toServer' \in Seq(Command) /\ Len(toServer) \in Nat /\ Len(toServer') = Len(toServer) + 1
      /\ DOMAIN toServer = 1 .. Len(toServer) /\ DOMAIN toServer' = 1 .. Len(toServer) + 1
      /\ \A k \in DOMAIN toServer : k \in DOMAIN toServer' /\ toServer'[k] = toServer[k]
      /\ \A k \in DOMAIN toServer' : k \in DOMAIN toServer \/ k = Len(toServer) + 1
      /\ toServer'[Len(toServer) + 1] = m
  BY <1>1, <1>4, <1>5, AppendIs
<1>7. Commands' = Commands /\ \A k \in Commands : toServer'[k] = toServer[k]
  BY <1>4, <1>6 DEF Commands
<1>8. PromptsSent' = PromptsSent \cup {Len(toServer) + 1} /\ Len(toServer) + 1 \notin PromptsSent
  <2>1. Len(toServer) + 1 \in 1 .. Len(toServer') /\ Len(toServer) + 1 \notin 1 .. Len(toServer)
    BY <1>6
  <2>2. \A k \in 1 .. Len(toServer) : k \in 1 .. Len(toServer') /\ toServer'[k] = toServer[k]
    BY <1>6
  <2>3. \A k \in 1 .. Len(toServer') : k \in 1 .. Len(toServer) \/ k = Len(toServer) + 1
    BY <1>6
  <2>. QED  BY <1>4, <1>6, <2>1, <2>2, <2>3 DEF PromptsSent
<1>9. IsFiniteSet(PromptsSent)
  <2>1. IsFiniteSet(1 .. Len(toServer))
    BY <1>6, FS_Interval
  <2>2. PromptsSent \in SUBSET (1 .. Len(toServer))
    BY DEF PromptsSent
  <2>. QED  BY <2>1, <2>2, FS_Subset
<1>10. Cardinality(PromptsSent) \in Nat /\ Cardinality(PromptsSent') = Cardinality(PromptsSent) + 1
  BY <1>8, <1>9, FS_AddElement, FS_CardinalityType
<1>11. PromptsBounded'
  BY <1>1, <1>5, <1>10, BoundsAssumption DEF PromptsBounded
<1>12. WireFits'
  <2>1. Answers' = Answers
    BY <1>1 DEF Answers
  <2>. QED  BY <1>1, <1>3, <1>7, <2>1 DEF IndInv, WireFits, SameRequests
<1>13. WireShape' /\ ServerShape'
  BY <1>1, <1>5, <1>6 DEF IndInv, Shape, WireShape, ServerShape
<1>. QED  BY <1>1, <1>11, <1>12, <1>13, WireOnly

\* The server answers the pending request, the only thing on the wire but for events and prompts.
LEMMA Answered ==
    ASSUME IndInv, UNCHANGED clientVars, connection = "connected", PendingNow, Answers = {},
           NEW m \in Answer, m.request = Newest, NEW t \in Seq(Answer), AnswersIn(t) = {},
           toClient' = Append(t, m), Commands' = {}, toServer' \in Seq(Command),
           server' \in ServerRecord, server'.serving = None, PromptsBounded'
    PROVE  IndInv'
<1>1. requests' = requests
  BY DEF clientVars
<1>2. SameRequests
  BY <1>1, RequestsKept
<1>3. m.request # None
  BY QueueFacts, BoundsAssumption
<1>4. /\ toClient' \in Seq(Answer) /\ AnswersIn(toClient') = {Len(t) + 1} /\ toClient'[Len(t) + 1] = m
  BY <1>3, AnswerAppended
<1>5. Answers' = {Len(t) + 1}
  BY <1>4 DEF Answers, AnswersIn
<1>6. \A k \in Answers' : PendingNow' /\ toClient'[k].request = Newest'
  BY <1>2, <1>4, <1>5 DEF SameRequests
<1>7. WireFits'
  BY <1>5, <1>6 DEF WireFits
<1>8. WireShape' /\ ServerShape'
  BY <1>4 DEF WireShape, ServerShape, ServerRecord
<1>. QED  BY <1>7, <1>8, WireOnly

\* The server broadcasts a snapshot, and serves no command.
LEMMA Broadcast ==
    ASSUME IndInv, UNCHANGED <<clientVars, toServer>>, connection = "connected",
           NEW m \in Answer, m.request = None, toClient' = Append(toClient, m),
           server' \in ServerRecord, server'.serving = server.serving, server'.prompts <= server.prompts
    PROVE  IndInv'
<1>1. requests' = requests
  BY DEF clientVars
<1>2. SameRequests
  BY <1>1, RequestsKept
<1>3. toServer \in Seq(Command) /\ toClient \in Seq(Answer)
  BY DEF IndInv, Shape, WireShape
<1>4. /\ toClient' \in Seq(Answer) /\ Answers' = Answers
      /\ \A k \in Answers : toClient'[k] = toClient[k]
  BY <1>3, AnswerAppended DEF Answers, AnswersIn
<1>5. Commands' = Commands /\ PromptsSent' = PromptsSent
  BY DEF Commands, PromptsSent
<1>6. WireFits'
  BY <1>2, <1>4, <1>5 DEF IndInv, WireFits, SameRequests
<1>7. PromptsBounded'
  <2>1. IsFiniteSet(PromptsSent)
    <3>1. IsFiniteSet(1 .. Len(toServer))
      BY <1>3, FS_Interval
    <3>2. PromptsSent \in SUBSET (1 .. Len(toServer))
      BY DEF PromptsSent
    <3>. QED  BY <3>1, <3>2, FS_Subset
  <2>2. Cardinality(PromptsSent) \in Nat
    BY <2>1, FS_CardinalityType
  <2>3. server.prompts \in Nat /\ server'.prompts \in Nat /\ server.prompts + Cardinality(PromptsSent) <= MaxPrompts
    BY DEF IndInv, Shape, ServerShape, ServerRecord, PromptsBounded
  <2>. QED  BY <1>5, <2>2, <2>3, BoundsAssumption DEF PromptsBounded
<1>8. WireShape' /\ ServerShape'
  BY <1>3, <1>4 DEF WireShape, ServerShape, ServerRecord
<1>. QED  BY <1>6, <1>7, <1>8, WireOnly

\* A runtime without use may be disposed of; nothing else changes.
LEMMA AfterUseIs ==
    ASSUME NEW s \in ServerRecord, NEW t \in AfterUse(s)
    PROVE  t \in ServerRecord /\ t.serving = s.serving /\ t.prompts = s.prompts
<1>1. CASE t = s
  BY <1>1
<1>2. CASE t = [s EXCEPT !.live = FALSE]
  BY <1>2 DEF ServerRecord
<1>. QED  BY <1>1, <1>2 DEF AfterUse

\* The server begins with an attach or refuses it.
LEMMA ServeAttachStep ==
    ASSUME IndInv, ServeAttach
    PROVE  IndInv'
<1>1. /\ UNCHANGED clientVars /\ connection = "connected" /\ toServer # <<>>
      /\ Head(toServer).kind = "attach" /\ toServer' = Tail(toServer)
  BY DEF ServeAttach, Served
<1>2. /\ toServer' \in Seq(Command) /\ PendingNow /\ Head(toServer).request = Newest
      /\ Commands' = {} /\ Answers = {} /\ server.serving = None
      /\ Cardinality(PromptsSent') = Cardinality(PromptsSent)
  BY <1>1, CommandTaken
<1>3. server \in ServerRecord /\ toClient \in Seq(Answer) /\ Newest \in Nat
  BY QueueFacts DEF IndInv, Shape, ServerShape, WireShape, ServerRecord
<1>4. AnswersIn(toClient) = {}
  BY <1>2 DEF Answers, AnswersIn
<1>5. CASE UNCHANGED toClient /\ server' = [Opened(server) EXCEPT !.attached = TRUE, !.serving = Newest]
  <2>1. Opened(server) \in ServerRecord /\ Opened(server).prompts = server.prompts
    <3>1. 0 \in 0 .. MaxRevision
      BY BoundsAssumption
    <3>2. CASE server.live
      BY <1>3, <3>2 DEF Opened
    <3>3. CASE ~ server.live
      <4>1. CASE "restart" \in Faults
        <5>1. Opened(server) = [server EXCEPT !.live = TRUE, !.revision = 0]
          BY <3>3, <4>1, Zenon DEF Opened
        <5>. QED  BY <1>3, <3>1, <5>1 DEF ServerRecord
      <4>2. CASE "restart" \notin Faults
        <5>1. Opened(server) = [server EXCEPT !.live = TRUE, !.revision = server.revision]
          BY <3>3, <4>2 DEF Opened
        <5>. QED  BY <1>3, <5>1 DEF ServerRecord
      <4>. QED  BY <4>1, <4>2
    <3>. QED  BY <3>2, <3>3
  <2>2. server' \in ServerRecord /\ server'.serving = Newest /\ server'.prompts = server.prompts
    BY <1>3, <1>5, <2>1 DEF ServerRecord
  <2>3. PromptsBounded'
    BY <1>2, <2>2 DEF IndInv, PromptsBounded
  <2>4. SameRequests
    BY <1>1, RequestsKept DEF clientVars
  <2>5. Answers' = {}
    BY <1>2, <1>5 DEF Answers
  <2>6. WireFits'
    BY <1>2, <2>2, <2>4, <2>5 DEF WireFits, SameRequests
  <2>7. WireShape' /\ ServerShape'
    BY <1>2, <1>3, <1>5, <2>2 DEF WireShape, ServerShape, ServerRecord
  <2>. QED  BY <1>1, <2>3, <2>6, <2>7, WireOnly
<1>6. CASE UNCHANGED server /\ toClient' = Append(toClient, Message(Newest, FALSE, server))
  <2>1. Message(Newest, FALSE, server) \in Answer /\ Message(Newest, FALSE, server).request = Newest
    BY <1>3, MessageIs DEF ServerRecord
  <2>2. PromptsBounded'
    BY <1>2, <1>6 DEF IndInv, PromptsBounded
  <2>. QED  BY <1>1, <1>2, <1>3, <1>4, <1>6, <2>1, <2>2, Answered
<1>. QED  BY <1>2, <1>5, <1>6 DEF ServeAttach

\* The rest of attach.
LEMMA AnswerAttachStep ==
    ASSUME IndInv, AnswerAttach
    PROVE  IndInv'
<1>1. /\ UNCHANGED clientVars /\ UNCHANGED toServer /\ server.serving # None
      /\ server' = [server EXCEPT !.serving = None]
  BY DEF AnswerAttach
<1>2. /\ PendingNow /\ server.serving = Newest /\ connection = "connected" /\ Commands = {} /\ Answers = {}
  BY <1>1 DEF IndInv, WireFits, Disconnected
<1>3. server \in ServerRecord /\ toClient \in Seq(Answer) /\ toServer \in Seq(Command) /\ Newest \in Nat
  BY QueueFacts DEF IndInv, Shape, ServerShape, WireShape, ServerRecord
<1>4. server' \in ServerRecord /\ server'.serving = None /\ server'.prompts = server.prompts
  BY <1>1, <1>3 DEF ServerRecord
<1>5. AnswersIn(toClient) = {}
  BY <1>2 DEF Answers, AnswersIn
<1>6. Commands' = {} /\ PromptsBounded' /\ toServer' \in Seq(Command)
  BY <1>1, <1>2, <1>3, <1>4 DEF IndInv, Commands, PromptsBounded, PromptsSent
<1>7. ASSUME NEW ok \in BOOLEAN
      PROVE  Message(Newest, ok, server) \in Answer /\ Message(Newest, ok, server).request = Newest
  BY <1>3, MessageIs DEF ServerRecord
<1>8. CASE toClient' = toClient \o <<Message(None, TRUE, server), Message(Newest, TRUE, server)>>
  <2>. DEFINE a == Message(None, TRUE, server)
              m == Message(Newest, TRUE, server)
  <2>1. a \in Answer /\ a.request = None
    BY <1>3, MessageIs DEF ServerRecord
  <2>2. m \in Answer /\ m.request = Newest
    BY <1>7
  <2>3. toClient' = toClient \o <<a, m>>
    BY <1>8
  <2>. HIDE DEF a, m
  <2>4. toClient' = Append(Append(toClient, a), m)
    BY <1>3, <2>1, <2>2, <2>3
  <2>5. Append(toClient, a) \in Seq(Answer) /\ AnswersIn(Append(toClient, a)) = {}
    BY <1>3, <1>5, <2>1, AnswerAppended
  <2>. QED  BY <1>1, <1>2, <1>4, <1>6, <2>2, <2>4, <2>5, Answered
<1>9. CASE toClient' = Append(toClient, Message(Newest, FALSE, server))
  BY <1>1, <1>2, <1>3, <1>4, <1>5, <1>6, <1>7, <1>9, Answered
<1>. QED  BY <1>2, <1>8, <1>9 DEF AnswerAttach

\* A detach, whether asked for by a release or by a reconciliation.
LEMMA ServeDetachStep ==
    ASSUME IndInv, ServeDetach
    PROVE  IndInv'
<1>1. PICK ok \in BOOLEAN :
          /\ server' \in AfterUse([server EXCEPT !.attached = FALSE])
          /\ toClient' = Append(toClient, Message(Head(toServer).request, ok, server'))
  BY DEF ServeDetach
<1>2. /\ UNCHANGED clientVars /\ connection = "connected" /\ toServer # <<>>
      /\ Head(toServer).kind # "prompt" /\ toServer' = Tail(toServer)
  BY DEF ServeDetach, Served
<1>3. /\ toServer' \in Seq(Command) /\ PendingNow /\ Head(toServer).request = Newest
      /\ Commands' = {} /\ Answers = {} /\ server.serving = None
      /\ Cardinality(PromptsSent') = Cardinality(PromptsSent)
  BY <1>2, CommandTaken
<1>4. server \in ServerRecord /\ toClient \in Seq(Answer) /\ Newest \in Nat
  BY QueueFacts DEF IndInv, Shape, ServerShape, WireShape, ServerRecord
<1>5. /\ [server EXCEPT !.attached = FALSE] \in ServerRecord
      /\ [server EXCEPT !.attached = FALSE].serving = None
      /\ [server EXCEPT !.attached = FALSE].prompts = server.prompts
  BY <1>3, <1>4 DEF ServerRecord
<1>6. server' \in ServerRecord /\ server'.serving = None /\ server'.prompts = server.prompts
  BY <1>1, <1>5, AfterUseIs
<1>7. Message(Newest, ok, server') \in Answer /\ Message(Newest, ok, server').request = Newest
  BY <1>4, <1>6, MessageIs DEF ServerRecord
<1>8. PromptsBounded'
  BY <1>3, <1>6 DEF IndInv, PromptsBounded
<1>9. AnswersIn(toClient) = {} /\ toClient' = Append(toClient, Message(Newest, ok, server'))
  BY <1>1, <1>3 DEF Answers, AnswersIn
<1>. QED  BY <1>2, <1>3, <1>4, <1>6, <1>7, <1>8, <1>9, Answered

\* A prompt reaches the server, which counts it or refuses it.
LEMMA ServePromptStep ==
    ASSUME IndInv, ServePrompt
    PROVE  IndInv'
<1>1. /\ UNCHANGED clientVars /\ UNCHANGED toClient /\ connection = "connected" /\ toServer # <<>>
      /\ Head(toServer).kind = "prompt" /\ toServer' = Tail(toServer) /\ server.serving = None
      /\ server' = IF server.attached THEN [server EXCEPT !.prompts = @ + 1] ELSE server
  BY DEF ServePrompt, Served
<1>2. /\ toServer' \in Seq(Command) /\ Cardinality(PromptsSent) \in Nat
      /\ \A k \in Commands' : k + 1 \in Commands /\ toServer'[k] = toServer[k + 1]
      /\ \A k, l \in Commands' : k = l
      /\ Cardinality(PromptsSent') = Cardinality(PromptsSent) - 1
  BY <1>1, CommandTaken
<1>3. server \in ServerRecord /\ toClient \in Seq(Answer)
  BY DEF IndInv, Shape, ServerShape, WireShape, ServerRecord
<1>4. server' \in ServerRecord /\ server'.serving = None /\ server'.prompts \in {server.prompts, server.prompts + 1}
  <2>1. CASE server.attached
    <3>1. server.prompts + 1 \in Nat
      BY <1>3 DEF ServerRecord
    <3>2. server' = [server EXCEPT !.prompts = server.prompts + 1]
      BY <1>1, <2>1
    <3>. QED  BY <1>1, <1>3, <3>1, <3>2 DEF ServerRecord
  <2>2. CASE ~ server.attached
    BY <1>1, <1>3, <2>2
  <2>. QED  BY <2>1, <2>2
<1>5. PromptsBounded'
  <2>1. server.prompts \in Nat /\ server.prompts + Cardinality(PromptsSent) <= MaxPrompts
    BY <1>3 DEF ServerRecord, IndInv, PromptsBounded
  <2>. QED  BY <1>2, <1>4, <2>1, BoundsAssumption DEF PromptsBounded
<1>6. WireFits'
  <2>1. SameRequests
    BY <1>1, RequestsKept DEF clientVars
  <2>2. Answers' = Answers /\ \A k \in Answers : toClient'[k] = toClient[k]
    BY <1>1 DEF Answers
  <2>3. \A k \in Commands' : PendingNow' /\ toServer'[k].request = Newest' /\ toServer'[k].kind = Kind'
    BY <1>2, <2>1 DEF IndInv, WireFits, SameRequests
  <2>4. Commands' # {} => Answers' = {}
    BY <1>2, <2>2 DEF IndInv, WireFits
  <2>5. \A k \in Answers' : PendingNow' /\ toClient'[k].request = Newest'
    BY <2>1, <2>2 DEF IndInv, WireFits, SameRequests
  <2>6. \A k, l \in Answers' : k = l
    BY <2>2 DEF IndInv, WireFits
  <2>. QED  BY <1>2, <1>4, <2>3, <2>4, <2>5, <2>6 DEF WireFits
<1>7. WireShape' /\ ServerShape'
  BY <1>1, <1>2, <1>3, <1>4 DEF WireShape, ServerShape, ServerRecord
<1>. QED  BY <1>1, <1>5, <1>6, <1>7, WireOnly

\* An operation of the session ends, or its runtime reports a change: a snapshot is broadcast.
LEMMA BroadcastSteps ==
    ASSUME IndInv, AnswerPrompt \/ RuntimeChanges
    PROVE  IndInv'
<1>1. server \in ServerRecord /\ server.prompts \in Nat /\ server.revision \in 0 .. MaxRevision
  BY DEF IndInv, Shape, ServerShape, ServerRecord
<1>2. /\ UNCHANGED <<clientVars, toServer>> /\ server.revision < MaxRevision
      /\ server.prompts > 0 \/ server.attached
  BY DEF AnswerPrompt, RuntimeChanges
<1>3. connection = "connected"
  <2>1. ~ (server.prompts = 0 /\ ~ server.attached)
    BY <1>1, <1>2
  <2>. QED  BY <2>1 DEF IndInv, Disconnected
<1>4. server.revision + 1 \in 0 .. MaxRevision
  BY <1>1, <1>2, BoundsAssumption
<1>5. CASE AnswerPrompt
  <2>. DEFINE s == [server EXCEPT !.prompts = server.prompts - 1, !.revision = server.revision + 1]
  <2>1. toClient' = Append(toClient, Message(None, TRUE, s)) /\ server' \in AfterUse(s) /\ server.prompts > 0
    BY <1>5 DEF AnswerPrompt
  <2>2. server.prompts - 1 \in Nat /\ server.prompts - 1 <= server.prompts
    BY <1>1, <2>1
  <2>3. s \in ServerRecord /\ s.serving = server.serving /\ s.prompts = server.prompts - 1
    BY <1>1, <1>4, <2>2 DEF ServerRecord
  <2>. HIDE DEF s
  <2>4. server' \in ServerRecord /\ server'.serving = server.serving /\ server'.prompts <= server.prompts
    BY <2>1, <2>2, <2>3, AfterUseIs
  <2>5. Message(None, TRUE, s) \in Answer /\ Message(None, TRUE, s).request = None
    BY <2>3, MessageIs DEF ServerRecord
  <2>. QED  BY <1>2, <1>3, <2>1, <2>4, <2>5, Broadcast
<1>6. CASE RuntimeChanges
  <2>1. server' = [server EXCEPT !.revision = server.revision + 1]
    BY <1>6 DEF RuntimeChanges
  <2>2. server' \in ServerRecord /\ server'.serving = server.serving /\ server'.prompts = server.prompts
    BY <1>1, <1>4, <2>1 DEF ServerRecord
  <2>3. toClient' = Append(toClient, Message(None, TRUE, server'))
    BY <1>6 DEF RuntimeChanges
  <2>4. Message(None, TRUE, server') \in Answer /\ Message(None, TRUE, server').request = None
    BY <2>2, MessageIs DEF ServerRecord
  <2>5. server'.prompts <= server.prompts
    BY <1>1, <2>2
  <2>. QED  BY <1>2, <1>3, <2>2, <2>3, <2>4, <2>5, Broadcast
<1>. QED  BY <1>5, <1>6

\* The client takes a message: the only answer is that to the newest request.
LEMMA MessageTaken ==
    ASSUME IndInv, connection = "connected", toClient # <<>>, toClient' = Tail(toClient)
    PROVE  /\ toClient' \in Seq(Answer) /\ Head(toClient) \in Answer
           /\ \A k \in Answers' : k + 1 \in Answers /\ toClient'[k] = toClient[k + 1]
           /\ \A k, l \in Answers' : k = l
           /\ Head(toClient).request # None =>
                  /\ PendingNow /\ Head(toClient).request = Newest
                  /\ Answers' = {} /\ Commands = {} /\ server.serving = None
<1>1. /\ toClient' \in Seq(Answer) /\ Len(toClient) \in Nat /\ Len(toClient) >= 1
      /\ DOMAIN toClient = 1 .. Len(toClient) /\ DOMAIN toClient' = 1 .. Len(toClient) - 1
      /\ Head(toClient) = toClient[1] /\ Head(toClient) \in Answer /\ 1 \in DOMAIN toClient
      /\ \A k \in DOMAIN toClient' : k + 1 \in DOMAIN toClient /\ toClient'[k] = toClient[k + 1]
  <2>1. toClient \in Seq(Answer)
    BY DEF IndInv, Shape, WireShape
  <2>. QED  BY <2>1, TailIs
<1>2. \A k \in Answers' : k + 1 \in Answers /\ toClient'[k] = toClient[k + 1] /\ k \in 1 .. Len(toClient) - 1
  BY <1>1 DEF Answers
<1>3. \A k, l \in Answers' : k = l
  <2>1. ASSUME NEW k \in Answers', NEW l \in Answers' PROVE k = l
    <3>1. k + 1 = l + 1
      BY <1>2 DEF IndInv, WireFits
    <3>2. k \in Int /\ l \in Int
      BY <1>2
    <3>. QED  BY <3>1, <3>2
  <2>. QED  BY <2>1
<1>4. ASSUME Head(toClient).request # None
      PROVE  /\ PendingNow /\ Head(toClient).request = Newest
             /\ Answers' = {} /\ Commands = {} /\ server.serving = None
  <2>1. 1 \in Answers
    BY <1>1, <1>4 DEF Answers
  <2>2. /\ PendingNow /\ toClient[1].request = Newest /\ Commands = {} /\ server.serving = None
        /\ \A k \in Answers : k = 1
    BY <2>1 DEF IndInv, WireFits
  <2>3. Answers' = {}
    <3>1. ASSUME NEW k \in Answers' PROVE FALSE
      <4>1. k + 1 = 1 /\ k \in 1 .. Len(toClient) - 1
        BY <1>2, <2>2
      <4>. QED  BY <1>1, <4>1
    <3>. QED  BY <3>1
  <2>. QED  BY <1>1, <2>2, <2>3
<1>. QED  BY <1>1, <1>2, <1>3, <1>4

\* The answer to the newest request is there: its reaction is the only one.
LEMMA AnswerTaken ==
    ASSUME IndInv, jobs = <<>>, connection = "connected", PendingNow, NEW ok \in BOOLEAN,
           requests' = [requests EXCEPT ![Newest].state = "done"], jobs' = <<Settle(Newest, ok)>>,
           Commands = {}, Answers' = {}, server.serving = None, toClient' \in Seq(Answer), FlagShape',
           UNCHANGED <<connection, connects, handles, count, exclusive, generation, attachment, detachment,
                       reconciliation, cleanupRequired, toServer, server>>
    PROVE  IndInv'
<1>1. /\ requests \in Seq(RequestRecord) /\ Newest \in Nat /\ DOMAIN requests = 1 .. Newest
      /\ Newest = Len(requests) /\ Newest \in DOMAIN requests /\ requests[Newest] \in RequestRecord
      /\ Newest > 0
  BY QueueFacts DEF PendingNow
<1>2. Unsettled /\ DOMAIN jobs = {} /\ Newest \in 1 .. Newest
  BY <1>1, IdleFacts
<1>. DEFINE r == [requests[Newest] EXCEPT !.state = "done"]
<1>3. /\ r \in RequestRecord /\ r.state = "done" /\ r.settled = requests[Newest].settled
      /\ r.kind = requests[Newest].kind /\ r.waiters = requests[Newest].waiters
  BY <1>1 DEF RequestRecord
<1>4. requests' = [requests EXCEPT ![Newest] = r]
  BY <1>1
<1>. HIDE DEF r
<1>5. /\ requests' \in Seq(RequestRecord) /\ Len(requests') = Newest /\ requests'[Newest] = r
      /\ \A k \in DOMAIN requests : k # Newest => requests'[k] = requests[k]
  BY <1>1, <1>3, <1>4, UpdateIs
<1>6. Newest' = Newest
  BY <1>5 DEF Newest
<1>7. Unsettled' /\ Kind' = Kind /\ ~ PendingNow'
  BY <1>2, <1>3, <1>5, <1>6 DEF Unsettled, Kind, PendingNow
<1>8. Waiters' = Waiters
  BY <1>2, <1>3, <1>5, <1>6, <1>7 DEF Waiters
<1>9. OneUnsettled'
  <2>1. ASSUME NEW i \in 1 .. Newest
        PROVE  /\ requests'[i].settled => requests'[i].state = "done"
               /\ i < Newest => requests'[i].settled
    <3>1. CASE i = Newest
      BY <1>1, <1>3, <1>5, <3>1
    <3>2. CASE i # Newest
      BY <1>1, <1>5, <2>1, <3>2 DEF IndInv, OneUnsettled
    <3>. QED  BY <3>1, <3>2
  <2>. QED  BY <1>6, <2>1 DEF OneUnsettled
<1>. DEFINE j == Settle(Newest, ok)
<1>10. j \in Reaction /\ j.step = "settle" /\ j.request = Newest
  BY <1>1 DEF Settle, Reaction
<1>11. jobs' = <<j>>
  OBVIOUS
<1>. HIDE DEF j
<1>12. /\ jobs' \in Seq(Reaction) /\ Len(jobs') = 1 /\ DOMAIN jobs' = {1} /\ jobs' # <<>>
       /\ jobs'[1] = j
  BY <1>10, <1>11
<1>13. Settles'
  <2>1. ASSUME NEW k \in DOMAIN jobs'
        PROVE  k = Len(jobs') /\ jobs'[k].request = Newest' /\ requests'[Newest'].state = "done"
    BY <1>3, <1>5, <1>6, <1>10, <1>12
  <2>2. jobs' # <<>> /\ jobs'[Len(jobs')].step = "settle"
    BY <1>10, <1>12
  <2>. QED  BY <1>7, <2>1, <2>2 DEF Settles
<1>14. WaitersFit'
  BY <1>6, <1>7, <1>8, <1>2 DEF IndInv, WaitersFit
<1>15. \A k \in DOMAIN jobs' : k = 1 /\ jobs'[k].step = "settle"
  BY <1>10, <1>12
<1>16. JobsOrdered'
  <2>1. ASSUME NEW k \in DOMAIN jobs', NEW l \in DOMAIN jobs', k < l PROVE FALSE
    <3>1. k = 1 /\ l = 1
      BY <1>15
    <3>. QED  BY <2>1, <3>1
  <2>. QED  BY <2>1 DEF JobsOrdered
<1>17. JobsFit'
  BY <1>15 DEF JobsFit, JobFits
<1>18. PointersFit'
  BY <1>2, <1>6, <1>7 DEF IndInv, PointersFit
<1>19. CleanupFits'
  BY <1>2, <1>7, <1>10, <1>12, <1>15 DEF IndInv, CleanupFits, Live, Valid
<1>20. HandlesBacked'
  <2>1. ASSUME NEW k \in DOMAIN Waiters PROVE Backed(Waiters[k])'
    <3>1. Backed(Waiters[k])
      BY <2>1 DEF IndInv, HandlesBacked
    <3>. QED  BY <1>8, <3>1 DEF Backed, Acquiring, Valid
  <2>2. ASSUME NEW k \in DOMAIN jobs' PROVE Backed(jobs[k])'
    BY <1>15, <2>2 DEF Backed, AcquireSteps, ReleaseSteps
  <2>. QED  BY <1>8, <2>1, <2>2 DEF HandlesBacked
<1>21. OneReactionEach'
  BY <1>8, <1>15 DEF IndInv, OneReactionEach
<1>22. NobodyForgotten'
  <2>1. ASSUME NEW q \in Handles, Acquiring(q)' PROVE \E k \in DOMAIN Waiters : Waiters[k].handle = q
    <3>1. Acquiring(q)
      BY <2>1 DEF Acquiring
    <3>. QED  BY <1>2, <3>1 DEF IndInv, NobodyForgotten
  <2>. QED  BY <1>8, <2>1 DEF NobodyForgotten
<1>23. ReleaserAlone'
  <2>1. \A k \in DOMAIN jobs' : jobs'[k].step \notin ReleaseSteps
    BY <1>15 DEF ReleaseSteps
  <2>. QED  BY <1>2, <1>7, <1>8, <2>1 DEF IndInv, ReleaserAlone, Live, Valid
<1>24. CountFits'
  BY DEF IndInv, CountFits
<1>25. WireFits'
  <2>1. Commands' = {}
    BY DEF Commands
  <2>. QED  BY <2>1 DEF WireFits
<1>26. PromptsBounded' /\ Disconnected'
  BY DEF IndInv, PromptsBounded, PromptsSent, Disconnected
<1>27. Shape'
  BY <1>5, <1>12 DEF IndInv, Shape, HandleShape, CountShape, ConnectionShape, QueueShape, WireShape,
     ServerShape
<1>. QED  BY <1>9, <1>13, <1>14, <1>16, <1>17, <1>18, <1>19, <1>20, <1>21, <1>22, <1>23, <1>24, <1>25,
             <1>26, <1>27 DEF IndInv

\* The answer to a pending request is the first of its chunk: nothing is queued.
LEMMA FirstInChunk ==
    ASSUME IndInv, NoReactionRan, PendingNow
    PROVE  jobs = <<>>
<1>. SUFFICES ASSUME jobs # <<>> PROVE FALSE
  OBVIOUS
<1>1. 1 \in DOMAIN jobs
  BY QueueFacts
<1>2. jobs[1].step = "settle"
  BY <1>1 DEF NoReactionRan
<1>3. requests[Newest].state = "done"
  BY <1>1, <1>2 DEF IndInv, Settles
<1>. QED  BY <1>3 DEF PendingNow

\* handleMessage.
LEMMA ReceiveStep ==
    ASSUME IndInv, Receive
    PROVE  IndInv'
<1>. DEFINE m == Head(toClient)
<1>1. /\ NoReactionRan /\ connection = "connected" /\ toClient # <<>> /\ toClient' = Tail(toClient)
      /\ UNCHANGED <<connection, connects, handles, count, exclusive, generation, attachment, detachment,
                     reconciliation, cleanupRequired, toServer, server>>
  BY DEF Receive
<1>2. /\ attached' = IF ~ m.ok THEN attached
                     ELSE IF m.detached THEN FALSE
                     ELSE IF Applies(m) THEN m.attached ELSE attached
      /\ revision' = IF m.ok /\ ~ m.detached /\ Applies(m) THEN m.revision ELSE revision
  BY DEF Receive
<1>3. /\ toClient' \in Seq(Answer) /\ m \in Answer
      /\ \A k \in Answers' : k + 1 \in Answers /\ toClient'[k] = toClient[k + 1]
      /\ \A k, l \in Answers' : k = l
      /\ m.request # None => /\ PendingNow /\ m.request = Newest
                             /\ Answers' = {} /\ Commands = {} /\ server.serving = None
  BY <1>1, MessageTaken
<1>4. FlagShape'
  <2>1. cleanupRequired' \in BOOLEAN
    BY <1>1 DEF IndInv, Shape, FlagShape
  <2>2. attached \in BOOLEAN /\ revision \in Revisions
    BY DEF IndInv, Shape, FlagShape
  <2>3. m.attached \in BOOLEAN /\ m.revision \in Revisions
    BY <1>3 DEF Answer, Revisions
  <2>. HIDE DEF m
  <2>4. attached' \in BOOLEAN
    BY <1>2, <2>2, <2>3
  <2>5. revision' \in Revisions
    BY <1>2, <2>2, <2>3
  <2>. QED  BY <2>1, <2>4, <2>5 DEF FlagShape
<1>5. CASE m.request # None
  <2>1. jobs = <<>>
    BY <1>1, <1>3, <1>5, FirstInChunk
  <2>2. requests' = [requests EXCEPT ![Newest].state = "done"] /\ jobs' = <<Settle(Newest, m.ok)>>
    BY <1>3, <1>5, <2>1 DEF Receive
  <2>3. m.ok \in BOOLEAN
    BY <1>3 DEF Answer
  <2>. QED  BY <1>1, <1>3, <1>4, <1>5, <2>1, <2>2, <2>3, AnswerTaken
<1>6. CASE m.request = None
  <2>1. requests' = requests /\ jobs' = jobs
    BY <1>6 DEF Receive
  <2>2. SameRequests
    BY <2>1, RequestsKept
  <2>3. Commands' = Commands /\ PromptsBounded'
    BY <1>1 DEF Commands, IndInv, PromptsBounded, PromptsSent
  <2>4. \A k \in Answers' : PendingNow' /\ toClient'[k].request = Newest'
    BY <1>3, <2>2 DEF IndInv, WireFits, SameRequests
  <2>5. Answers' # {} => Answers # {}
    BY <1>3
  <2>6. WireFits'
    BY <1>1, <1>3, <2>2, <2>3, <2>4, <2>5 DEF IndInv, WireFits, SameRequests
  <2>7. WireShape' /\ ServerShape'
    BY <1>1, <1>3 DEF IndInv, Shape, WireShape, ServerShape
  <2>. QED  BY <1>1, <1>4, <2>1, <2>3, <2>6, <2>7, WireStep
<1>. QED  BY <1>5, <1>6

--------------------------------------------------------------------------------
(* The theorems.                                                                 *)

\* Nothing waits at the start.
LEMMA InitHolds ==
    ASSUME Init
    PROVE  IndInv
<1>1. Newest = 0 /\ ~ Unsettled /\ ~ PendingNow /\ Waiters = <<>> /\ DOMAIN Waiters = {} /\ DOMAIN jobs = {}
  BY DEF Init, Newest, Unsettled, PendingNow, Waiters
<1>2. OneUnsettled /\ Settles /\ WaitersFit /\ JobsOrdered /\ JobsFit
  BY <1>1 DEF OneUnsettled, Settles, WaitersFit, JobsOrdered, JobsFit
<1>3. PointersFit
  BY <1>1 DEF Init, PointersFit
<1>4. CleanupFits /\ HandlesBacked /\ OneReactionEach /\ ReleaserAlone
  BY <1>1 DEF Init, CleanupFits, HandlesBacked, OneReactionEach, ReleaserAlone
<1>5. \A h \in Handles : handles[h] = Unused
  BY DEF Init
<1>6. NobodyForgotten
  BY <1>5 DEF NobodyForgotten, Acquiring, Unused
<1>7. InUse(handles, generation) = {}
  BY <1>5 DEF InUse, Unused
<1>8. CountFits
  <2>1. CountIs(handles, generation, count, exclusive)
    BY <1>7, CountNone DEF Init
  <2>2. \A h \in Handles : handles[h].generation <= generation
    BY <1>5 DEF Init, Unused
  <2>. QED  BY <2>1, <2>2 DEF CountFits
<1>9. toServer = <<>> /\ toClient = <<>> /\ server.serving = None /\ server.prompts = 0
  BY DEF Init
<1>10. WireFits /\ Disconnected
  <2>1. Commands = {} /\ Answers = {}
    BY <1>9 DEF Commands, Answers
  <2>. QED  BY <1>9, <2>1 DEF Init, WireFits, Disconnected
<1>11. PromptsBounded
  <2>1. PromptsSent = {}
    BY <1>9 DEF PromptsSent
  <2>2. Cardinality(PromptsSent) = 0
    BY <2>1, FS_EmptySet
  <2>. QED  BY <1>9, <2>2, BoundsAssumption DEF PromptsBounded
<1>12. Shape
  <2>1. HandleShape
    <3>1. Unused \in Lease
      BY DEF Unused, Lease
    <3>. QED  BY <3>1 DEF Init, HandleShape
  <2>2. CountShape /\ FlagShape /\ ConnectionShape
    <3>1. 0 \in 0 .. MaxConnects
      BY BoundsAssumption
    <3>2. CountShape /\ FlagShape
      BY DEF Init, CountShape, FlagShape, Revisions
    <3>. QED  BY <3>1, <3>2 DEF Init, ConnectionShape
  <2>3. QueueShape /\ WireShape
    BY DEF Init, QueueShape, WireShape
  <2>4. ServerShape
    BY BoundsAssumption DEF Init, ServerShape
  <2>. QED  BY <2>1, <2>2, <2>3, <2>4 DEF Shape
<1>. QED  BY <1>2, <1>3, <1>4, <1>6, <1>8, <1>10, <1>11, <1>12 DEF IndInv

\* A step that changes nothing.
LEMMA StutterStep ==
    ASSUME IndInv, UNCHANGED vars
    PROVE  IndInv'
<1>1. /\ UNCHANGED <<connection, connects, handles, count, exclusive, generation, attachment, detachment>>
      /\ UNCHANGED <<reconciliation, cleanupRequired, attached, revision, requests, jobs>>
      /\ UNCHANGED <<toServer, toClient, server>>
  BY DEF vars, clientVars
<1>2. SameRequests
  BY <1>1, RequestsKept
<1>3. Shape'
  BY <1>1 DEF IndInv, Shape, HandleShape, CountShape, FlagShape, ConnectionShape, QueueShape, WireShape,
     ServerShape
<1>4. OneUnsettled' /\ WaitersFit' /\ Settles' /\ JobsOrdered'
  BY <1>1, <1>2 DEF IndInv, OneUnsettled, WaitersFit, Settles, JobsOrdered, SameRequests
<1>5. JobsFit'
  BY <1>1, <1>2 DEF IndInv, JobsFit, JobFits, SameRequests
<1>6. PointersFit'
  BY <1>1, <1>2 DEF IndInv, PointersFit, Ahead, SameRequests
<1>7. CleanupFits' /\ ReleaserAlone' /\ CountFits'
  BY <1>1, <1>2 DEF IndInv, CleanupFits, ReleaserAlone, CountFits, Live, Valid, SameRequests
<1>8. HandlesBacked'
  BY <1>1, <1>2 DEF IndInv, HandlesBacked, Backed, Acquiring, Valid, SameRequests
<1>9. OneReactionEach' /\ NobodyForgotten'
  BY <1>1, <1>2 DEF IndInv, OneReactionEach, NobodyForgotten, Acquiring, SameRequests
<1>10. PromptsBounded' /\ WireFits' /\ Disconnected'
  BY <1>1, <1>2, WireKept DEF SameRequests
<1>. QED  BY <1>3, <1>4, <1>5, <1>6, <1>7, <1>8, <1>9, <1>10 DEF IndInv

\* Every step keeps the invariant.
LEMMA StepHolds ==
    ASSUME IndInv, "reentrant" \notin Faults, [Next]_vars
    PROVE  IndInv'
<1>1. CASE \E h \in Handles, mode \in {"shared", "exclusive"} : Acquire(h, mode)
  BY <1>1, AcquireStep
<1>2. CASE \E h \in Handles, relinquish \in BOOLEAN : Release(h, relinquish)
  BY <1>2, ReleaseStep
<1>3. CASE \E h \in Handles : Prompt(h)
  BY <1>3, PromptStep
<1>4. CASE Connect \/ Handshake
  BY <1>4, ConnectStep
<1>5. CASE LoseConnection \/ Dispose
  BY <1>5, DisconnectStep
<1>6. CASE RunJob
  BY <1>6, RunJobStep
<1>7. CASE Receive
  BY <1>7, ReceiveStep
<1>8. CASE Serve
  BY <1>8, ServeAttachStep, AnswerAttachStep, ServeDetachStep, ServePromptStep, BroadcastSteps DEF Serve
<1>9. CASE RuntimeChanges
  BY <1>9, BroadcastSteps
<1>10. CASE UNCHANGED vars
  BY <1>10, StutterStep
<1>. QED  BY <1>1, <1>2, <1>3, <1>4, <1>5, <1>6, <1>7, <1>8, <1>9, <1>10 DEF Next

\* The inductive invariant.
LEMMA IndInvAlways ==
    ASSUME "reentrant" \notin Faults
    PROVE  Spec => []IndInv
<1>1. Init => IndInv
  BY InitHolds
<1>2. IndInv /\ [Next]_vars => IndInv'
  BY StepHolds
<1>. QED  BY <1>1, <1>2, PTL DEF Spec

\* The client's count never exceeds the calls made, the stored promises are those of requests
\* that were made, and the server never has more prompts than the bound: the type invariant,
\* for every number of handles, requests and reconnections.
THEOREM ClientAlwaysTyped ==
    ASSUME "reentrant" \notin Faults
    PROVE  Spec => []ClientTyped
<1>1. ASSUME IndInv PROVE ClientTyped
  <2>1. Newest \in Nat /\ Request = 1 .. Newest /\ (Newest > 0 => Newest \in Request)
        /\ requests \in Seq(RequestRecord)
    BY <1>1, QueueFacts DEF Request, Newest
  <2>2. count \in 0 .. Cardinality(Handles)
    <3>1. InUse(handles, generation) \in SUBSET Handles
      BY DEF InUse
    <3>2. IsFiniteSet(Handles)
      BY BoundsAssumption
    <3>3. Cardinality(InUse(handles, generation)) <= Cardinality(Handles)
      BY <3>1, <3>2, FS_Subset
    <3>4. count = Cardinality(InUse(handles, generation)) /\ count \in Nat /\ Cardinality(Handles) \in Nat
      BY <1>1, <3>2, FS_CardinalityType DEF IndInv, CountFits, CountIs, Shape, CountShape
    <3>. QED  BY <3>3, <3>4
  <2>3. {attachment, detachment, reconciliation} \subseteq Request \cup {None}
    BY <1>1, <2>1 DEF IndInv, PointersFit, Unsettled
  <2>4. \A i \in Request : requests[i].kind \in {"attach", "detach", "reconcile"}
    <3>1. ASSUME NEW i \in Request PROVE requests[i] \in RequestRecord
      BY <2>1 DEF Request
    <3>. QED  BY <3>1 DEF RequestRecord, Kinds
  <2>5. server \in [attached : BOOLEAN, live : BOOLEAN, revision : 0 .. MaxRevision,
                    serving : Request \cup {None}, prompts : 0 .. MaxPrompts]
    <3>1. server \in [attached : BOOLEAN, live : BOOLEAN, revision : 0 .. MaxRevision,
                      serving : Nat \cup {None}, prompts : Nat]
      BY <1>1 DEF IndInv, Shape, ServerShape
    <3>2. server.serving \in Request \cup {None}
      BY <1>1, <2>1 DEF IndInv, WireFits, PendingNow
    <3>3. server.prompts \in 0 .. MaxPrompts
      <4>1. toServer \in Seq(Command)
        BY <1>1 DEF IndInv, Shape, WireShape
      <4>2. IsFiniteSet(1 .. Len(toServer))
        BY <4>1, FS_Interval
      <4>3. PromptsSent \in SUBSET (1 .. Len(toServer))
        BY DEF PromptsSent
      <4>4. Cardinality(PromptsSent) \in Nat
        BY <4>2, <4>3, FS_Subset, FS_CardinalityType
      <4>5. server.prompts + Cardinality(PromptsSent) <= MaxPrompts /\ server.prompts \in Nat
        BY <1>1, <3>1 DEF IndInv, PromptsBounded
      <4>. QED  BY <4>4, <4>5, BoundsAssumption
    <3>. QED  BY <3>1, <3>2, <3>3
  <2>6. handles \in [Handles -> Lease]
    BY <1>1 DEF IndInv, Shape, HandleShape
  <2>7. /\ connection \in {"disconnected", "connecting", "connected", "disposed"}
        /\ connects \in 0 .. MaxConnects /\ exclusive \in Handles \cup {None} /\ generation \in Nat
        /\ cleanupRequired \in BOOLEAN /\ attached \in BOOLEAN /\ revision \in 0 .. MaxRevision \cup {None}
    BY <1>1 DEF IndInv, Shape, CountShape, FlagShape, ConnectionShape, Revisions
  <2>. QED  BY <2>2, <2>3, <2>4, <2>5, <2>6, <2>7 DEF ClientTyped, Lease
<1>. QED  BY <1>1, IndInvAlways, PTL

\* The count of leases (client.ts:382, :239) is right after every history of acquisitions,
\* releases, failures and lost connections, however many handles there are, and an exclusive
\* lease is alone.
THEOREM CountsAreRight ==
    ASSUME "reentrant" \notin Faults
    PROVE  Spec => []LeasesAreCounted
<1>1. ASSUME IndInv PROVE LeasesAreCounted
  <2>1. \A h \in Handles : h \in InUse(handles, generation) <=> Live(h) \/ Reserved(h)
    BY DEF InUse, Live, Reserved, Valid, Acquiring
  <2>2. InUse(handles, generation) = {h \in Handles : Live(h) \/ Reserved(h)}
    BY <2>1 DEF InUse
  <2>3. /\ count = Cardinality(InUse(handles, generation))
        /\ \A h \in InUse(handles, generation) : handles[h].mode = "exclusive" => exclusive = h /\ count = 1
    BY <1>1 DEF IndInv, CountFits, CountIs
  <2>. QED  BY <2>1, <2>2, <2>3 DEF LeasesAreCounted
<1>. QED  BY <1>1, IndInvAlways, PTL

\* Attaching, detaching and reconciling are never under way at once (client.ts:155-170, :240),
\* whichever of them fail and however often the connection is lost between two of them.
THEOREM OneRequestAtATime ==
    ASSUME "reentrant" \notin Faults
    PROVE  Spec => []RequestsAreSerial
<1>1. ASSUME IndInv PROVE RequestsAreSerial
  <2>1. Newest \in Nat /\ Request = 1 .. Newest
    BY <1>1, QueueFacts DEF Request, Newest
  <2>2. ASSUME NEW i \in Request, Pending(i) PROVE i = Newest
    <3>1. ~ requests[i].settled
      BY <1>1, <2>1, <2>2 DEF Pending, IndInv, OneUnsettled
    <3>2. ~ (i < Newest)
      BY <1>1, <2>1, <3>1 DEF IndInv, OneUnsettled
    <3>3. i \in 1 .. Newest
      BY <2>1
    <3>. QED  BY <2>1, <3>2, <3>3
  <2>. QED  BY <2>2 DEF RequestsAreSerial
<1>. QED  BY <1>1, IndInvAlways, PTL

\* A failed release is reconciled before any lease is handed out again
\* (client/README.md:32), for every order in which acquisitions wait for it.
THEOREM CleanupAlwaysFirst ==
    ASSUME "reentrant" \notin Faults
    PROVE  Spec => []CleanupComesFirst
<1>1. ASSUME IndInv PROVE CleanupComesFirst
  BY <1>1 DEF IndInv, CleanupFits, CleanupComesFirst
<1>. QED  BY <1>1, IndInvAlways, PTL

--------------------------------------------------------------------------------
(* The server's attachment and what the client is told of it.                    *)

\* A message that says whether the session is attached.
Told(m) == m.ok /\ ~ m.detached

\* From the n-th message on the server says, and keeps saying, attached.
AttachedFrom(n) ==
    /\ server.attached
    /\ \A k \in DOMAIN toClient : k > n /\ Told(toClient[k]) => toClient[k].attached

\* From the n-th message on it does not.
DetachedFrom(n) == ~ server.attached /\ \A k \in DOMAIN toClient : k > n => ~ toClient[k].attached

\* An answer separates what the server said before it took effect from what it says after.
AnswersFit ==
    \A k \in DOMAIN toClient :
        /\ toClient[k].detached = (toClient[k].request # None /\ Kind # "attach")
        /\ toClient[k].request # None /\ toClient[k].ok =>
               IF Kind = "attach" THEN toClient[k].attached /\ AttachedFrom(k) ELSE DetachedFrom(k)

\* What the outcome a reaction carries says of the server and of the requests made.
JobTells(j) ==
    /\ j.step = "settle" /\ j.ok => IF Kind = "attach" THEN AttachedFrom(0) ELSE DetachedFrom(0)
    /\ j.step = "afterAttach" /\ ~ j.ok => AttachFailed
    /\ j.step = "afterDetach" => IF j.ok THEN ~ server.attached ELSE DetachFailed
    /\ j.step = "releaseFailed" => DetachFailed
    /\ j.step = "afterReconciliation" /\ ~ j.ok => cleanupRequired \/ connection # "connected"

JobsTell == \A k \in DOMAIN jobs : JobTells(jobs[k])

\* A cleanup follows a detach that failed, and is reconciled while it is required.
CleanupTells ==
    /\ cleanupRequired => DetachFailed
    /\ Unsettled /\ Kind = "reconcile" => DetachFailed /\ (cleanupRequired \/ connection # "connected")

\* Somebody answers for a session that the server keeps attached.
SomebodyAnswers ==
    connection = "connected" /\ server.attached => count > 0 \/ cleanupRequired \/ AttachFailed

\* What the server is busy with is an attach that took effect.
ServingFits == server.serving # None => server.attached /\ Kind = "attach"

HeldInv ==
    /\ ServingFits
    /\ AnswersFit /\ JobsTell /\ CleanupTells /\ SomebodyAnswers

\* Without restarts the revisions of the server only grow, so nothing it says is too old.
Known == ({revision} \cup {requests[i].previous : i \in 1 .. Newest}) \ {None}
RevisionsFit ==
    /\ \A k \in DOMAIN toClient : toClient[k].revision <= server.revision
    /\ \A k, l \in DOMAIN toClient : k < l => toClient[k].revision <= toClient[l].revision
    /\ \A r \in Known : /\ r <= server.revision
                        /\ \A k \in DOMAIN toClient : r <= toClient[k].revision

\* What it says of the client's own view.
JobSees(j) ==
    /\ j.step = "settle" /\ j.ok => attached = (Kind = "attach")
    /\ j.step = "afterAttach" /\ j.ok => attached

\* The client's word for the attachment is good unless a detach is under way or failed.
Doubtful == DetachFailed \/ (Unsettled /\ Kind = "detach")

ViewFits ==
    /\ attached => Doubtful \/ AttachedFrom(0)
    /\ \A k \in DOMAIN toClient : Told(toClient[k]) /\ toClient[k].attached => Doubtful \/ AttachedFrom(k)

ViewInv ==
    /\ RevisionsFit /\ ViewFits /\ ActiveLeasesAreAttached
    /\ \A k \in DOMAIN jobs : JobSees(jobs[k])

--------------------------------------------------------------------------------
(* Steps of the client that the server does not see.                             *)

SameOutcome(r, s) == s.kind = r.kind /\ s.settled = r.settled /\ s.ok = r.ok /\ s.previous = r.previous
NewRequest(r) == /\ ~ r.settled /\ ~ r.ok /\ r.previous \in {None, revision}
                 /\ r.kind = "reconcile" => cleanupRequired

\* No request comes to an outcome; new ones have none yet.
Follows ==
    /\ Newest \in Nat /\ Newest' \in Nat /\ Newest' >= Newest
    /\ \A i \in 1 .. Newest : SameOutcome(requests[i], requests'[i])
    /\ \A i \in 1 .. Newest' : i > Newest => NewRequest(requests'[i])

\* The queue holds what it held, and reactions that bring no good news.
JobsFollow ==
    \A k \in DOMAIN jobs' :
        \/ \E l \in DOMAIN jobs : jobs'[k] = jobs[l]
        \/ jobs'[k].step \in {"caught", "afterDetachment"}
        \/ jobs'[k].step = "settle" /\ ~ jobs'[k].ok
        \/ jobs'[k].step = "releaseFailed" /\ DetachFailed

SameServer == /\ server'.attached = server.attached /\ server'.serving = server.serving
              /\ server'.revision = server.revision

ClientStep ==
    /\ Follows /\ JobsFollow /\ SameServer /\ UNCHANGED <<connection, attached, toClient>>
    /\ cleanupRequired => cleanupRequired'
    /\ cleanupRequired' => cleanupRequired \/ DetachFailed
    /\ revision' \in Known \cup {None}

\* The last lease goes only when nothing is left attached, or a failure answers for it.
AnsweredStep ==
    connection = "connected" /\ server.attached /\ count > 0 =>
        count' > 0 \/ cleanupRequired' \/ AttachFailed

\* A lease is handed out only with the session attached, or after a failed detach.
LeasedStep ==
    \A h \in Handles : handles'[h].state = "active" /\ Valid(h)' =>
        (handles[h].state = "active" /\ Valid(h)) \/ attached \/ DetachFailed

\* A failure stays one while no request comes to an outcome.
LEMMA FailuresKept ==
    ASSUME Follows
    PROVE  (DetachFailed => DetachFailed') /\ (AttachFailed => AttachFailed')
<1>1. /\ Newest \in Nat /\ Newest' \in Nat /\ Newest' >= Newest
      /\ Request = 1 .. Newest /\ Request' = 1 .. Newest'
  BY DEF Follows, Request, Newest
<1>2. \A i \in 1 .. Newest : /\ i \in 1 .. Newest'
                             /\ requests'[i].kind = requests[i].kind
                             /\ requests'[i].settled = requests[i].settled
                             /\ requests'[i].ok = requests[i].ok
  BY <1>1 DEF Follows, SameOutcome
<1>3. \A i \in 1 .. Newest' : i \in 1 .. Newest \/ ~ requests'[i].ok
  BY <1>1 DEF Follows, NewRequest
<1>4. ASSUME DetachFailed PROVE DetachFailed'
  <2>1. PICK i \in 1 .. Newest :
            /\ requests[i].kind = "detach" /\ requests[i].settled /\ ~ requests[i].ok
            /\ \A k \in 1 .. Newest : k > i /\ requests[k].kind = "attach" => ~ requests[k].ok
    BY <1>1, <1>4 DEF DetachFailed
  <2>2. \A k \in 1 .. Newest' : k > i /\ requests'[k].kind = "attach" => ~ requests'[k].ok
    BY <1>2, <1>3, <2>1
  <2>. QED  BY <1>1, <1>2, <2>1, <2>2 DEF DetachFailed
<1>5. ASSUME AttachFailed PROVE AttachFailed'
  <2>1. PICK i \in 1 .. Newest :
            /\ requests[i].kind = "attach" /\ requests[i].settled /\ ~ requests[i].ok
            /\ \A k \in 1 .. Newest : k > i /\ requests[k].kind # "attach" => ~ requests[k].ok
    BY <1>1, <1>5 DEF AttachFailed
  <2>2. \A k \in 1 .. Newest' : k > i /\ requests'[k].kind # "attach" => ~ requests'[k].ok
    BY <1>2, <1>3, <2>1
  <2>. QED  BY <1>1, <1>2, <2>1, <2>2 DEF AttachFailed
<1>. QED  BY <1>4, <1>5

\* While a request is unsettled there is no newer one.
LEMMA UnsettledKept ==
    ASSUME IndInv, IndInv', Follows
    PROVE  /\ Unsettled => Newest' = Newest
           /\ Newest' = Newest => Kind' = Kind \/ Newest = 0
           /\ Newest' = Newest => (Unsettled' <=> Unsettled)
           /\ Newest' # Newest => Unsettled' /\ NewRequest(requests'[Newest'])
<1>1. Newest \in Nat /\ Newest' \in Nat /\ Newest' >= Newest
  BY DEF Follows
<1>2. ASSUME Unsettled PROVE Newest' = Newest
  <2>1. Newest > 0 /\ ~ requests[Newest].settled /\ Newest \in 1 .. Newest
    BY <1>1, <1>2 DEF Unsettled
  <2>2. ~ requests'[Newest].settled
    BY <2>1 DEF Follows, SameOutcome
  <2>3. Newest \in 1 .. Newest'
    BY <1>1, <2>1
  <2>4. ~ (Newest < Newest')
    BY <2>2, <2>3 DEF IndInv, OneUnsettled
  <2>. QED  BY <1>1, <2>4
<1>3. ASSUME Newest' = Newest, Newest > 0
      PROVE  Kind' = Kind /\ (requests'[Newest].settled <=> requests[Newest].settled)
  <2>1. Newest \in 1 .. Newest
    BY <1>1, <1>3
  <2>. QED  BY <1>3, <2>1 DEF Follows, SameOutcome, Kind
<1>4. ASSUME Newest' # Newest PROVE Unsettled' /\ NewRequest(requests'[Newest'])
  <2>1. Newest' > 0 /\ Newest' > Newest /\ Newest' \in 1 .. Newest'
    BY <1>1, <1>4
  <2>2. NewRequest(requests'[Newest'])
    BY <2>1 DEF Follows
  <2>. QED  BY <2>1, <2>2 DEF Unsettled, NewRequest
<1>5. Newest' = Newest => (Unsettled' <=> Unsettled)
  BY <1>1, <1>3 DEF Unsettled
<1>. QED  BY <1>1, <1>2, <1>3, <1>4, <1>5

\* What is known of an answer concerns the request that awaits it.
LEMMA AnswerAwaited ==
    ASSUME IndInv, NEW k \in DOMAIN toClient, toClient[k].request # None
    PROVE  Unsettled /\ PendingNow /\ toClient[k].request = Newest
<1>1. PendingNow /\ toClient[k].request = Newest
  BY DEF IndInv, WireFits, Answers
<1>2. Newest \in 1 .. Newest
  BY <1>1, QueueFacts DEF PendingNow
<1>3. ~ requests[Newest].settled
  BY <1>1, <1>2 DEF IndInv, OneUnsettled, PendingNow
<1>. QED  BY <1>1, <1>3 DEF Unsettled, PendingNow

\* A settling reaction concerns the unsettled request, and no answer is on its way.
LEMMA SettleAwaited ==
    ASSUME IndInv, NEW k \in DOMAIN jobs, jobs[k].step = "settle"
    PROVE  Unsettled /\ ~ PendingNow /\ jobs[k].request = Newest
BY DEF IndInv, Settles, PendingNow

\* The server's side of the invariant.
LEMMA HeldQuietly ==
    ASSUME IndInv, IndInv', HeldInv, ClientStep, AnsweredStep
    PROVE  HeldInv'
<1>1. (DetachFailed => DetachFailed') /\ (AttachFailed => AttachFailed')
  BY FailuresKept DEF ClientStep
<1>2. /\ Unsettled => Newest' = Newest
      /\ Newest' = Newest => Kind' = Kind \/ Newest = 0
      /\ Newest' = Newest => (Unsettled' <=> Unsettled)
      /\ Newest' # Newest => Unsettled' /\ NewRequest(requests'[Newest'])
  BY UnsettledKept DEF ClientStep
<1>3. /\ connection' = connection /\ attached' = attached /\ toClient' = toClient
      /\ server'.attached = server.attached /\ server'.serving = server.serving
      /\ cleanupRequired => cleanupRequired'
      /\ cleanupRequired' => cleanupRequired \/ DetachFailed
  BY DEF ClientStep, SameServer
<1>4. \A n : (AttachedFrom(n) => AttachedFrom(n)') /\ (DetachedFrom(n) => DetachedFrom(n)')
  BY <1>3 DEF AttachedFrom, DetachedFrom
<1>5. Unsettled => Kind' = Kind
  BY <1>2 DEF Unsettled
<1>6. AnswersFit'
  <2>1. ASSUME NEW k \in DOMAIN toClient
        PROVE  /\ toClient[k].detached = (toClient[k].request # None /\ Kind' # "attach")
               /\ toClient[k].request # None /\ toClient[k].ok =>
                      IF Kind' = "attach" THEN toClient[k].attached /\ AttachedFrom(k)' ELSE DetachedFrom(k)'
    <3>1. /\ toClient[k].detached = (toClient[k].request # None /\ Kind # "attach")
          /\ toClient[k].request # None /\ toClient[k].ok =>
                      IF Kind = "attach" THEN toClient[k].attached /\ AttachedFrom(k) ELSE DetachedFrom(k)
      BY DEF HeldInv, AnswersFit
    <3>2. toClient[k].request # None => Kind' = Kind
      BY <1>5, AnswerAwaited
    <3>. QED  BY <1>4, <3>1, <3>2
  <2>. QED  BY <1>3, <2>1 DEF AnswersFit
<1>7. JobsTell'
  <2>1. ASSUME NEW k \in DOMAIN jobs' PROVE JobTells(jobs[k])'
    <3>1. CASE \E l \in DOMAIN jobs : jobs'[k] = jobs[l]
      <4>1. PICK l \in DOMAIN jobs : jobs'[k] = jobs[l]
        BY <3>1
      <4>2. JobTells(jobs[l])
        BY DEF HeldInv, JobsTell
      <4>3. jobs[l].step = "settle" => Kind' = Kind
        BY <1>5, SettleAwaited
      <4>. QED  BY <1>1, <1>3, <1>4, <4>1, <4>2, <4>3 DEF JobTells
    <3>2. CASE jobs'[k].step \in {"caught", "afterDetachment"}
      BY <3>2 DEF JobTells
    <3>3. CASE jobs'[k].step = "settle" /\ ~ jobs'[k].ok
      BY <3>3 DEF JobTells
    <3>4. CASE jobs'[k].step = "releaseFailed" /\ DetachFailed
      BY <1>1, <3>4 DEF JobTells
    <3>. QED  BY <2>1, <3>1, <3>2, <3>3, <3>4 DEF ClientStep, JobsFollow
  <2>. QED  BY <2>1 DEF JobsTell
<1>8. CleanupTells'
  <2>1. CASE Newest' = Newest
    BY <1>1, <1>2, <1>3, <1>5, <2>1 DEF HeldInv, CleanupTells
  <2>2. CASE Newest' # Newest
    BY <1>1, <1>2, <1>3, <2>2 DEF HeldInv, CleanupTells, NewRequest, Kind
  <2>. QED  BY <2>1, <2>2
<1>9. SomebodyAnswers'
  BY <1>1, <1>3 DEF HeldInv, SomebodyAnswers, AnsweredStep
<1>10. ServingFits'
  <2>1. server.serving # None => Unsettled
    <3>1. server.serving # None => PendingNow
      BY DEF IndInv, WireFits
    <3>2. Newest \in Nat
      BY QueueFacts
    <3>. QED  BY <3>1, <3>2 DEF IndInv, OneUnsettled, PendingNow, Unsettled
  <2>. QED  BY <1>3, <1>5, <2>1 DEF HeldInv, ServingFits
<1>. QED  BY <1>6, <1>7, <1>8, <1>9, <1>10 DEF HeldInv

\* The client's side of it.
LEMMA ViewQuietly ==
    ASSUME IndInv, IndInv', ViewInv, ClientStep, LeasedStep
    PROVE  ViewInv'
<1>1. (DetachFailed => DetachFailed') /\ (AttachFailed => AttachFailed')
  BY FailuresKept DEF ClientStep
<1>2. /\ Unsettled => Newest' = Newest
      /\ Newest' = Newest => Kind' = Kind \/ Newest = 0
      /\ Newest' = Newest => (Unsettled' <=> Unsettled)
  BY UnsettledKept DEF ClientStep
<1>3. /\ attached' = attached /\ toClient' = toClient
      /\ server'.attached = server.attached /\ server'.revision = server.revision
  BY DEF ClientStep, SameServer
<1>4. \A n : AttachedFrom(n) => AttachedFrom(n)'
  BY <1>3 DEF AttachedFrom
<1>5. Unsettled => Kind' = Kind /\ Unsettled'
  BY <1>2 DEF Unsettled
<1>6. Known' \subseteq Known
  <2>1. ASSUME NEW i \in 1 .. Newest' PROVE requests'[i].previous \in Known \cup {None}
    <3>1. CASE i \in 1 .. Newest
      BY <3>1 DEF ClientStep, Follows, SameOutcome, Known
    <3>2. CASE i \notin 1 .. Newest
      <4>1. i > Newest
        BY <3>2 DEF ClientStep, Follows
      <4>. QED  BY <4>1 DEF ClientStep, Follows, NewRequest, Known
    <3>. QED  BY <3>1, <3>2
  <2>. QED  BY <2>1 DEF Known, ClientStep
<1>7. RevisionsFit'
  BY <1>3, <1>6 DEF ViewInv, RevisionsFit
<1>8. ViewFits'
  <2>1. Doubtful => Doubtful'
    BY <1>1, <1>5 DEF Doubtful
  <2>. QED  BY <1>3, <1>4, <2>1 DEF ViewInv, ViewFits
<1>9. ActiveLeasesAreAttached'
  BY <1>1, <1>3 DEF ViewInv, ActiveLeasesAreAttached, LeasedStep
<1>10. ASSUME NEW k \in DOMAIN jobs' PROVE JobSees(jobs[k])'
  <2>1. CASE \E l \in DOMAIN jobs : jobs'[k] = jobs[l]
    <3>1. PICK l \in DOMAIN jobs : jobs'[k] = jobs[l]
      BY <2>1
    <3>2. JobSees(jobs[l])
      BY DEF ViewInv
    <3>3. jobs[l].step = "settle" => Kind' = Kind
      BY <1>5, SettleAwaited
    <3>. QED  BY <1>3, <3>1, <3>2, <3>3 DEF JobSees
  <2>2. CASE jobs'[k].step \in {"caught", "afterDetachment", "releaseFailed"}
    BY <2>2 DEF JobSees
  <2>3. CASE jobs'[k].step = "settle" /\ ~ jobs'[k].ok
    BY <2>3 DEF JobSees
  <2>. QED  BY <1>10, <2>1, <2>2, <2>3 DEF ClientStep, JobsFollow
<1>. QED  BY <1>7, <1>8, <1>9, <1>10 DEF ViewInv

\* No request is touched.
LEMMA SameFollows ==
    ASSUME IndInv, requests' = requests
    PROVE  Follows
<1>1. Newest' = Newest /\ Newest \in Nat
  BY QueueFacts DEF Newest
<1>. QED  BY <1>1 DEF Follows, SameOutcome

\* A request is made.
LEMMA SendFollows ==
    ASSUME IndInv, NEW kind, kind = "reconcile" => cleanupRequired, NEW w, NEW js, Send(kind, w, js)
    PROVE  /\ Follows
           /\ \/ jobs' = js
              \/ Newest' \in Nat /\ jobs' = Append(js, Settle(Newest', FALSE))
<1>. DEFINE i == Len(requests) + 1
            state == IF connection = "connected" THEN "pending" ELSE "done"
            previous == IF kind = "attach" THEN revision ELSE None
            ws == <<[w EXCEPT !.request = i]>>
            no == FALSE
            r == [kind |-> kind, state |-> state, settled |-> no, ok |-> no, waiters |-> ws,
                  previous |-> previous]
<1>1. /\ requests' = Append(requests, r)
      /\ jobs' = IF connection = "connected" THEN js ELSE Append(js, Settle(i, FALSE))
  BY Zenon DEF Send
<1>2. /\ requests \in Seq(RequestRecord) /\ Newest \in Nat /\ Newest = Len(requests)
      /\ DOMAIN requests = 1 .. Newest /\ i = Newest + 1
  BY QueueFacts
<1>. HIDE DEF i, ws, state
<1>3. r.kind = kind /\ ~ r.settled /\ ~ r.ok /\ r.previous \in {None, revision}
  OBVIOUS
<1>4. NewRequest(r)
  BY <1>3 DEF NewRequest
<1>. HIDE DEF r
<1>5. Len(requests') = Newest + 1 /\ requests'[Newest + 1] = r
      /\ \A k \in 1 .. Newest : requests'[k] = requests[k]
  BY <1>1, <1>2
<1>6. Newest' = Newest + 1
  BY <1>5 DEF Newest
<1>7. \A k \in 1 .. Newest' : k > Newest => k = Newest + 1
  BY <1>2, <1>6
<1>8. Newest' \in Nat /\ Newest' >= Newest
  BY <1>2, <1>6
<1>9. Follows
  BY <1>2, <1>4, <1>5, <1>7, <1>8 DEF Follows, SameOutcome
<1>. QED  BY <1>1, <1>2, <1>6, <1>8, <1>9

\* A reaction is registered on the unsettled request.
LEMMA RegisteredFollows ==
    ASSUME IndInv, Unsettled, NEW w \in Reaction, Registered(w)
    PROVE  Follows
<1>1. /\ requests \in Seq(RequestRecord) /\ Newest \in DOMAIN requests /\ Newest \in Nat
      /\ requests[Newest] \in RequestRecord /\ Newest = Len(requests) /\ DOMAIN requests = 1 .. Newest
  BY QueueFacts
<1>2. Newest' = Newest
  BY WaiterAdded
<1>. DEFINE n == Newest
            ws == Append(requests[n].waiters, w)
            r == [requests[n] EXCEPT !.waiters = ws]
<1>3. requests' = [requests EXCEPT ![n] = r]
  BY <1>1 DEF Registered
<1>. HIDE DEF ws
<1>4. SameOutcome(requests[n], r)
  BY <1>1 DEF RequestRecord, SameOutcome
<1>. HIDE DEF r, n
<1>5. \A i \in 1 .. Newest : requests'[i] = requests[i] \/ (i = n /\ requests'[i] = r)
  BY <1>1, <1>3
<1>6. \A i \in 1 .. Newest : SameOutcome(requests[i], requests'[i])
  BY <1>4, <1>5 DEF SameOutcome
<1>. QED  BY <1>1, <1>2, <1>6 DEF Follows

\* js holds reactions of the queue.
Drawn(js) == js \in Seq(Reaction) /\ \A k \in DOMAIN js : \E l \in DOMAIN jobs : js[k] = jobs[l]

\* The queue without its head, or an empty one.
LEMMA DrawnTail ==
    ASSUME IndInv
    PROVE  Drawn(<<>>) /\ (jobs # <<>> => Drawn(Tail(jobs)))
<1>1. jobs \in Seq(Reaction)
  BY QueueFacts
<1>2. ASSUME jobs # <<>> PROVE Drawn(Tail(jobs))
  BY <1>1, <1>2, TailIs DEF Drawn
<1>. QED  BY <1>2 DEF Drawn

\* One reaction more that brings no good news.
LEMMA QueueFollows ==
    ASSUME NEW js, Drawn(js),
           \/ jobs' = js
           \/ Newest' \in Nat /\ jobs' = Append(js, Settle(Newest', FALSE))
    PROVE  JobsFollow
<1>1. CASE jobs' = js
  BY <1>1 DEF Drawn, JobsFollow
<1>2. CASE Newest' \in Nat /\ jobs' = Append(js, Settle(Newest', FALSE))
  <2>. DEFINE j == Settle(Newest', FALSE)
  <2>1. j \in Reaction /\ j.step = "settle" /\ ~ j.ok
    BY <1>2, SettleIs
  <2>2. js \in Seq(Reaction) /\ jobs' = Append(js, j)
    BY <1>2 DEF Drawn
  <2>. HIDE DEF j
  <2>3. ASSUME NEW k \in DOMAIN jobs' PROVE (k \in DOMAIN js /\ jobs'[k] = js[k]) \/ jobs'[k] = j
    BY <2>1, <2>2, AppendIs
  <2>. QED  BY <2>1, <2>3 DEF Drawn, JobsFollow
<1>. QED  BY <1>1, <1>2

\* acquireSession from the check of the attachment on.
LEMMA AttachFollows ==
    ASSUME IndInv, NEW h \in Handles, NEW hs, NEW js, Drawn(js), NEW reconciled \in BOOLEAN,
           attachment # None => Unsettled, JoinAttachment(h, reconciled, hs, js)
    PROVE  /\ Follows /\ JobsFollow /\ revision' \in Known \cup {None}
           /\ handles' = hs \/ (attached /\ CreateLease(h, hs))
<1>0. revision \in Known \cup {None}
  BY DEF Known
<1>1. CASE ~ (reconciled \/ ~ attached)
  <2>1. /\ attached /\ CreateLease(h, hs) /\ jobs' = js /\ requests' = requests /\ revision' = revision
    BY <1>1 DEF JoinAttachment
  <2>. QED  BY <1>0, <2>1, SameFollows, QueueFollows
<1>2. CASE (reconciled \/ ~ attached) /\ attachment # None
  <2>1. handles' = hs /\ Join(attachment, Job("afterAttach", h), js) /\ revision' = revision
    BY <1>2 DEF JoinAttachment
  <2>2. Unsettled /\ attachment = Newest
    BY <1>2 DEF IndInv, PointersFit
  <2>3. Join(Newest, Job("afterAttach", h), js) /\ "afterAttach" \in AcquireSteps
    BY <2>1, <2>2 DEF AcquireSteps
  <2>4. PICK w \in Reaction : Registered(w) /\ jobs' = js
    BY <2>2, <2>3, JoinIs
  <2>. QED  BY <1>0, <2>1, <2>2, <2>4, RegisteredFollows, QueueFollows
<1>3. CASE (reconciled \/ ~ attached) /\ attachment = None
  <2>1. handles' = hs /\ Send("attach", Job("afterAttach", h), js) /\ revision' = None
    BY <1>3 DEF JoinAttachment
  <2>2. "attach" # "reconcile"
    OBVIOUS
  <2>3. Follows /\ (jobs' = js \/ (Newest' \in Nat /\ jobs' = Append(js, Settle(Newest', FALSE))))
    BY <2>1, <2>2, SendFollows
  <2>. QED  BY <2>1, <2>3, QueueFollows
<1>. QED  BY <1>1, <1>2, <1>3

\* acquireSession when no detachment is under way.
LEMMA ReconcileFollows ==
    ASSUME IndInv, NEW h \in Handles, NEW hs, NEW js, Drawn(js),
           attachment # None => Unsettled, JoinReconciliation(h, hs, js)
    PROVE  /\ Follows /\ JobsFollow /\ revision' \in Known \cup {None}
           /\ handles' = hs \/ (attached /\ CreateLease(h, hs))
<1>0. revision \in Known \cup {None}
  BY DEF Known
<1>1. CASE ~ cleanupRequired
  <2>1. JoinAttachment(h, FALSE, hs, js) /\ FALSE \in BOOLEAN
    BY <1>1 DEF JoinReconciliation
  <2>. QED  BY <2>1, AttachFollows
<1>2. CASE cleanupRequired /\ reconciliation # None
  <2>1. handles' = hs /\ Join(reconciliation, Job("afterReconciliation", h), js) /\ revision' = revision
    BY <1>2 DEF JoinReconciliation
  <2>2. Unsettled /\ reconciliation = Newest
    BY <1>2 DEF IndInv, PointersFit
  <2>3. Join(Newest, Job("afterReconciliation", h), js) /\ "afterReconciliation" \in AcquireSteps
    BY <2>1, <2>2 DEF AcquireSteps
  <2>4. PICK w \in Reaction : Registered(w) /\ jobs' = js
    BY <2>2, <2>3, JoinIs
  <2>. QED  BY <1>0, <2>1, <2>2, <2>4, RegisteredFollows, QueueFollows
<1>3. CASE cleanupRequired /\ reconciliation = None
  <2>1. handles' = hs /\ Send("reconcile", Job("afterReconciliation", h), js) /\ revision' = revision
    BY <1>3 DEF JoinReconciliation
  <2>2. Follows /\ (jobs' = js \/ (Newest' \in Nat /\ jobs' = Append(js, Settle(Newest', FALSE))))
    BY <1>3, <2>1, SendFollows
  <2>. QED  BY <1>0, <2>1, <2>2, QueueFollows
<1>. QED  BY <1>1, <1>2, <1>3

\* A lease in hand becomes active only with the session attached.
LEMMA HandLeased ==
    ASSUME NEW h \in Handles, NEW hs, hs \in [Handles -> Lease], hs[h].state = "acquiring",
           \A q \in Handles \ {h} : hs[q] = handles[q], generation' = generation,
           handles' = hs \/ (attached /\ CreateLease(h, hs))
    PROVE  LeasedStep
<1>1. CASE handles' = hs
  BY <1>1 DEF LeasedStep, Valid
<1>2. CASE attached
  BY <1>2 DEF LeasedStep
<1>. QED  BY <1>1, <1>2

\* acquireSession.
LEMMA AcquireMoves ==
    ASSUME IndInv, "reentrant" \notin Faults, NEW h \in Handles, NEW mode \in {"shared", "exclusive"},
           Acquire(h, mode)
    PROVE  ClientStep /\ AnsweredStep /\ LeasedStep
<1>. DEFINE hs == [handles EXCEPT ![h].state = "acquiring", ![h].mode = mode,
                                  ![h].generation = generation]
            e == IF mode = "exclusive" THEN h ELSE exclusive
<1>1. /\ jobs = <<>> /\ handles[h].state = "unused" /\ MayReserve(mode) /\ count' = count + 1
      /\ UNCHANGED <<connection, generation, cleanupRequired, attached, toClient, server>>
  BY DEF Acquire, MayCall
<1>2. \/ /\ detachment # None /\ Join(detachment, Job("caught", h), jobs) /\ handles' = hs
         /\ revision' = revision
      \/ detachment = None /\ JoinReconciliation(h, hs, jobs)
  BY Zenon DEF Acquire
<1>3. \A q \in Handles \ {h} : hs[q] = handles[q]
  BY DEF IndInv, Shape, HandleShape
<1>4. InHand(h, hs, <<>>, count + 1, e) /\ (detachment = None => HandClear(hs))
  BY <1>1, HandReserved
<1>5. hs \in [Handles -> Lease] /\ hs[h].state = "acquiring"
  BY <1>4 DEF InHand, HandLease
<1>. HIDE DEF hs, e
<1>6. Drawn(jobs)
  BY <1>1, DrawnTail
<1>7. /\ Follows /\ JobsFollow /\ revision' \in Known \cup {None}
      /\ handles' = hs \/ (attached /\ CreateLease(h, hs))
  <2>1. CASE /\ detachment # None /\ Join(detachment, Job("caught", h), jobs) /\ handles' = hs
             /\ revision' = revision
    <3>1. Unsettled /\ detachment = Newest
      BY <1>1, <2>1 DEF IndInv, PointersFit, Ahead
    <3>2. Join(Newest, Job("caught", h), jobs) /\ "caught" \in AcquireSteps
      BY <2>1, <3>1 DEF AcquireSteps
    <3>3. PICK w \in Reaction : Registered(w) /\ jobs' = jobs
      BY <3>1, <3>2, JoinIs
    <3>4. revision' \in Known \cup {None}
      BY <2>1 DEF Known
    <3>. QED  BY <1>6, <2>1, <3>1, <3>3, <3>4, RegisteredFollows, QueueFollows
  <2>2. CASE detachment = None /\ JoinReconciliation(h, hs, jobs)
    <3>1. attachment # None => Unsettled
      BY <1>4, <2>2 DEF HandClear
    <3>. QED  BY <1>6, <2>2, <3>1, ReconcileFollows
  <2>. QED  BY <1>2, <2>1, <2>2
<1>8. ClientStep
  BY <1>1, <1>7 DEF ClientStep, SameServer
<1>9. AnsweredStep
  BY <1>1 DEF AnsweredStep, IndInv, Shape, CountShape
<1>. QED  BY <1>1, <1>3, <1>5, <1>7, <1>8, <1>9, HandLeased

\* The state of one lease changes, and it does not become active.
LEMMA NotLeased ==
    ASSUME IndInv, NEW h \in Handles, generation' = generation, handles'[h].state # "active",
           \A q \in Handles \ {h} : handles'[q] = handles[q]
    PROVE  LeasedStep
BY DEF LeasedStep, Valid

\* detach() and dispose() of a lease.
LEMMA ReleaseMoves ==
    ASSUME IndInv, "reentrant" \notin Faults, NEW h \in Handles, NEW relinquish \in BOOLEAN,
           Release(h, relinquish)
    PROVE  ClientStep /\ AnsweredStep /\ LeasedStep
<1>1. /\ jobs = <<>> /\ revision' = revision
      /\ UNCHANGED <<connection, generation, cleanupRequired, attached, toClient, server>>
  BY DEF Release, MayCall
<1>2. Drawn(jobs) /\ revision \in Known \cup {None} /\ count \in Nat
  BY <1>1, DrawnTail DEF Known, IndInv, Shape, CountShape
<1>3. handles \in [Handles -> Lease]
  BY DEF IndInv, Shape, HandleShape
<1>4. CASE count <= 1
  <2>1. /\ handles' = [handles EXCEPT ![h].state = "releasing", ![h].relinquish = relinquish]
        /\ Send("detach", Job("afterDetach", h), jobs) /\ count' = count
    BY <1>4 DEF Release
  <2>2. "detach" # "reconcile"
    OBVIOUS
  <2>3. Follows /\ (jobs' = jobs \/ (Newest' \in Nat /\ jobs' = Append(jobs, Settle(Newest', FALSE))))
    BY <2>1, <2>2, SendFollows
  <2>4. JobsFollow
    BY <1>2, <2>3, QueueFollows
  <2>5. handles'[h].state # "active" /\ \A q \in Handles \ {h} : handles'[q] = handles[q]
    BY <1>3, <2>1 DEF Lease
  <2>6. LeasedStep
    BY <1>1, <2>5, NotLeased
  <2>. QED  BY <1>1, <1>2, <2>1, <2>3, <2>4, <2>6 DEF ClientStep, SameServer, AnsweredStep
<1>5. CASE ~ (count <= 1)
  <2>1. /\ handles' = [handles EXCEPT ![h].state = "released", ![h].relinquish = relinquish]
        /\ count' = count - 1 /\ requests' = requests /\ jobs' = jobs
    BY <1>5 DEF Release, ReleaseLease
  <2>2. Follows /\ JobsFollow
    BY <1>2, <2>1, SameFollows, QueueFollows
  <2>3. count' > 0
    BY <1>2, <1>5, <2>1
  <2>4. handles'[h].state # "active" /\ \A q \in Handles \ {h} : handles'[q] = handles[q]
    BY <1>3, <2>1 DEF Lease
  <2>5. LeasedStep
    BY <1>1, <2>4, NotLeased
  <2>. QED  BY <1>1, <1>2, <2>2, <2>3, <2>5 DEF ClientStep, SameServer, AnsweredStep
<1>. QED  BY <1>4, <1>5

\* Nothing of what the invariants speak of changes: prompts come and go.
LEMMA IdleMoves ==
    ASSUME IndInv, SameServer, UNCHANGED clientVars, toClient' = toClient
    PROVE  ClientStep /\ AnsweredStep /\ LeasedStep
<1>1. /\ UNCHANGED <<connection, handles, count, generation, cleanupRequired, attached, revision>>
      /\ requests' = requests /\ jobs' = jobs
  BY DEF clientVars
<1>2. Follows
  BY <1>1, SameFollows
<1>3. JobsFollow
  BY <1>1 DEF JobsFollow
<1>4. revision' \in Known \cup {None}
  BY <1>1 DEF Known
<1>5. ClientStep
  BY <1>1, <1>2, <1>3, <1>4 DEF ClientStep
<1>6. AnsweredStep /\ LeasedStep
  BY <1>1 DEF AnsweredStep, LeasedStep, Valid
<1>. QED  BY <1>5, <1>6

\* acquireSession resumes after a detachment, or after a reconciliation that succeeded.
LEMMA ResumeMoves ==
    ASSUME IndInv, jobs # <<>>,
           \/ Head(jobs).step = "afterDetachment" /\ AfterDetachment(Head(jobs))
           \/ Head(jobs).step = "afterReconciliation" /\ Head(jobs).ok /\ AfterReconciliation(Head(jobs)),
           UNCHANGED <<connection, connects, generation, attached, toClient, server>>
    PROVE  ClientStep /\ AnsweredStep /\ LeasedStep
<1>. DEFINE h == Head(jobs).handle
            js == Tail(jobs)
<1>1. InHand(h, handles, js, count, exclusive) /\ HandClear(handles)
  BY HandPopped
<1>2. h \in Handles /\ handles \in [Handles -> Lease] /\ handles[h].state = "acquiring"
  BY <1>1 DEF InHand, HandLease
<1>3. attachment # None => Unsettled
  BY <1>1 DEF HandClear
<1>4. Drawn(js)
  BY DrawnTail
<1>5. count' = count /\ cleanupRequired' = cleanupRequired
  BY DEF AfterDetachment, AfterReconciliation
<1>6. JoinReconciliation(h, handles, js) \/ JoinAttachment(h, TRUE, handles, js)
  BY DEF AfterDetachment, AfterReconciliation
<1>. HIDE DEF h, js
<1>7. /\ Follows /\ JobsFollow /\ revision' \in Known \cup {None}
      /\ handles' = handles \/ (attached /\ CreateLease(h, handles))
  <2>1. TRUE \in BOOLEAN
    OBVIOUS
  <2>. QED  BY <1>2, <1>3, <1>4, <1>6, <2>1, ReconcileFollows, AttachFollows
<1>8. ClientStep /\ AnsweredStep
  BY <1>5, <1>7 DEF ClientStep, SameServer, AnsweredStep
<1>. QED  BY <1>2, <1>7, <1>8, HandLeased

\* A lease less: if it is the last, something answers for what is left attached.
LEMMA LastReleased ==
    ASSUME IndInv, NEW h, ReleaseLease(h), ~ server.attached \/ cleanupRequired' \/ AttachFailed
    PROVE  AnsweredStep
BY DEF AnsweredStep

\* The head of the queue runs and queues nothing.
LEMMA PoppedMoves ==
    ASSUME IndInv, jobs # <<>>, jobs' = Tail(jobs), requests' = requests, revision' = revision,
           cleanupRequired => cleanupRequired', cleanupRequired' => cleanupRequired \/ DetachFailed,
           UNCHANGED <<connection, attached, toClient, server>>
    PROVE  ClientStep
<1>1. Follows /\ JobsFollow
  BY DrawnTail, SameFollows, QueueFollows
<1>2. revision' \in Known \cup {None}
  BY DEF Known
<1>. QED  BY <1>1, <1>2 DEF ClientStep, SameServer

\* The head of the queue tells what it tells.
LEMMA HeadTells ==
    ASSUME IndInv, jobs # <<>>
    PROVE  Head(jobs) = jobs[1] /\ 1 \in DOMAIN jobs /\ (HeldInv => JobTells(Head(jobs)))
           /\ (ViewInv => JobSees(Head(jobs)))
<1>1. Head(jobs) = jobs[1] /\ 1 \in DOMAIN jobs
  BY TailIsRest
<1>. QED  BY <1>1 DEF HeldInv, JobsTell, ViewInv

\* A reconciliation failed, and so does acquireSession.
LEMMA ReconciliationFailsMoves ==
    ASSUME IndInv, HeldInv, jobs # <<>>, Head(jobs).step = "afterReconciliation", ~ Head(jobs).ok,
           AfterReconciliation(Head(jobs)),
           UNCHANGED <<connection, connects, generation, attached, toClient, server>>
    PROVE  ClientStep /\ AnsweredStep /\ LeasedStep
<1>. DEFINE h == Head(jobs).handle
<1>1. h \in Handles /\ handles \in [Handles -> Lease]
  BY HeadFacts
<1>2. /\ handles' = [handles EXCEPT ![h].state = "failed"] /\ ReleaseLease(h) /\ jobs' = Tail(jobs)
      /\ requests' = requests /\ revision' = revision /\ cleanupRequired' = cleanupRequired
  BY DEF AfterReconciliation, FailAcquire
<1>3. cleanupRequired \/ connection # "connected"
  BY HeadTells DEF JobTells
<1>. HIDE DEF h
<1>4. ClientStep
  BY <1>2, PoppedMoves
<1>5. AnsweredStep
  BY <1>2, <1>3 DEF AnsweredStep
<1>6. handles'[h].state # "active" /\ \A q \in Handles \ {h} : handles'[q] = handles[q]
  BY <1>1, <1>2 DEF Lease
<1>. QED  BY <1>1, <1>4, <1>5, <1>6, NotLeased

\* acquireSession after the attachment, or its failure.
LEMMA AttachMoves ==
    ASSUME IndInv, HeldInv, jobs # <<>>, Head(jobs).step = "afterAttach", AfterAttach(Head(jobs)),
           UNCHANGED <<connection, connects, generation, attached, toClient, server>>
    PROVE  ClientStep /\ AnsweredStep /\ (ViewInv => LeasedStep)
<1>. DEFINE h == Head(jobs).handle
<1>1. h \in Handles /\ handles \in [Handles -> Lease] /\ Head(jobs).ok \in BOOLEAN
  BY HeadFacts
<1>2. /\ jobs' = Tail(jobs) /\ requests' = requests /\ revision' = revision
      /\ cleanupRequired' = cleanupRequired
  BY DEF AfterAttach
<1>3. ClientStep
  BY <1>2, PoppedMoves
<1>4. CASE Head(jobs).ok
  <2>1. count' = count
    BY <1>4 DEF AfterAttach
  <2>2. ViewInv => attached
    BY <1>4, HeadTells DEF JobSees
  <2>. QED  BY <1>3, <2>1, <2>2 DEF AnsweredStep, LeasedStep
<1>5. CASE ~ Head(jobs).ok
  <2>1. handles' = [handles EXCEPT ![h].state = "failed"] /\ ReleaseLease(h)
    BY <1>5 DEF AfterAttach, FailAcquire
  <2>2. AttachFailed
    BY <1>5, HeadTells DEF JobTells
  <2>. HIDE DEF h
  <2>3. AnsweredStep
    BY <2>1, <2>2, LastReleased
  <2>4. handles'[h].state # "active" /\ \A q \in Handles \ {h} : handles'[q] = handles[q]
    BY <1>1, <2>1 DEF Lease
  <2>. QED  BY <1>1, <1>3, <2>3, <2>4, NotLeased
<1>. QED  BY <1>4, <1>5

\* The head of the queue is replaced by a reaction behind the others.
LEMMA RequeuedMoves ==
    ASSUME IndInv, jobs # <<>>, NEW j \in Reaction, jobs' = Append(Tail(jobs), j),
           j.step = "afterDetachment" \/ (j.step = "releaseFailed" /\ DetachFailed),
           UNCHANGED <<connection, generation, handles, count, cleanupRequired, attached, revision,
                       requests, toClient, server>>
    PROVE  ClientStep /\ AnsweredStep /\ LeasedStep
<1>1. Follows
  BY SameFollows
<1>2. JobsFollow
  <2>1. Tail(jobs) \in Seq(Reaction) /\ \A k \in DOMAIN Tail(jobs) : \E l \in DOMAIN jobs : Tail(jobs)[k] = jobs[l]
    BY DrawnTail DEF Drawn
  <2>. DEFINE js == Tail(jobs)
  <2>2. js \in Seq(Reaction) /\ \A k \in DOMAIN js : \E l \in DOMAIN jobs : js[k] = jobs[l]
    BY <2>1
  <2>3. jobs' = Append(js, j)
    OBVIOUS
  <2>. HIDE DEF js
  <2>4. ASSUME NEW k \in DOMAIN jobs' PROVE (k \in DOMAIN js /\ jobs'[k] = js[k]) \/ jobs'[k] = j
    BY <2>2, <2>3, AppendIs
  <2>. QED  BY <2>2, <2>4 DEF JobsFollow
<1>3. revision' \in Known \cup {None}
  BY DEF Known
<1>. QED  BY <1>1, <1>2, <1>3 DEF ClientStep, SameServer, AnsweredStep, LeasedStep, Valid

\* The catch of a failed detachment, the failure of a release, or its success.
LEMMA DetachMoves ==
    ASSUME IndInv, HeldInv, jobs # <<>>,
           \/ Head(jobs).step = "caught" /\ CatchDetachment(Head(jobs))
           \/ Head(jobs).step = "afterDetach" /\ AfterDetach(Head(jobs)),
           UNCHANGED <<connection, connects, generation, attached, toClient, server>>
    PROVE  ClientStep /\ AnsweredStep /\ LeasedStep
<1>. DEFINE h == Head(jobs).handle
<1>1. h \in Handles /\ handles \in [Handles -> Lease] /\ Head(jobs).ok \in BOOLEAN
  BY HeadFacts
<1>2. ASSUME NEW step \in {"afterDetachment", "releaseFailed"}
      PROVE  Job(step, h) \in Reaction /\ Job(step, h).step = step
  BY <1>1 DEF Job, Reaction, AcquireSteps, ReleaseSteps
<1>3. CASE Head(jobs).step = "caught" /\ CatchDetachment(Head(jobs))
  <2>1. /\ jobs' = Append(Tail(jobs), Job("afterDetachment", h))
        /\ UNCHANGED <<handles, count, cleanupRequired, revision, requests>>
    BY <1>3 DEF CatchDetachment
  <2>. QED  BY <1>2, <2>1, RequeuedMoves
<1>4. CASE Head(jobs).step = "afterDetach" /\ AfterDetach(Head(jobs)) /\ Head(jobs).ok
  <2>1. /\ ReleaseLease(h) /\ handles' = [handles EXCEPT ![h].state = "released"]
        /\ jobs' = Tail(jobs) /\ requests' = requests /\ revision' = revision
        /\ cleanupRequired' = cleanupRequired
    BY <1>4 DEF AfterDetach
  <2>2. ~ server.attached
    BY <1>4, HeadTells DEF JobTells
  <2>. HIDE DEF h
  <2>3. ClientStep /\ AnsweredStep
    BY <2>1, <2>2, PoppedMoves, LastReleased
  <2>4. handles'[h].state # "active" /\ \A q \in Handles \ {h} : handles'[q] = handles[q]
    BY <1>1, <2>1 DEF Lease
  <2>. QED  BY <1>1, <2>3, <2>4, NotLeased
<1>5. CASE Head(jobs).step = "afterDetach" /\ AfterDetach(Head(jobs)) /\ ~ Head(jobs).ok
  <2>1. /\ jobs' = Append(Tail(jobs), Job("releaseFailed", h))
        /\ UNCHANGED <<handles, count, cleanupRequired, revision, requests>>
    BY <1>5 DEF AfterDetach
  <2>2. DetachFailed
    BY <1>5, HeadTells DEF JobTells
  <2>. QED  BY <1>2, <2>1, <2>2, RequeuedMoves
<1>. QED  BY <1>3, <1>4, <1>5

\* The catch of release.
LEMMA ReleaseFailedMoves ==
    ASSUME IndInv, HeldInv, jobs # <<>>, Head(jobs).step = "releaseFailed", ReleaseFailed(Head(jobs)),
           UNCHANGED <<connection, connects, generation, attached, toClient, server>>
    PROVE  ClientStep /\ AnsweredStep /\ LeasedStep
<1>. DEFINE h == Head(jobs).handle
<1>1. h \in Handles /\ handles \in [Handles -> Lease]
  BY HeadFacts
<1>2. DetachFailed
  BY HeadTells DEF JobTells
<1>3. LeasedStep
  BY <1>2 DEF LeasedStep
<1>4. /\ jobs' = Tail(jobs) /\ requests' = requests /\ revision' = revision
      /\ (cleanupRequired' = cleanupRequired /\ count' = count) \/ (cleanupRequired' = TRUE)
  BY DEF ReleaseFailed
<1>5. ClientStep
  BY <1>2, <1>4, PoppedMoves
<1>6. AnsweredStep
  BY <1>4 DEF AnsweredStep
<1>. QED  BY <1>3, <1>5, <1>6

--------------------------------------------------------------------------------
(* A request comes to an outcome.                                                *)

\* The newest request settles with the given outcome, and nothing else does.
Outcome(ok) ==
    /\ Newest' = Newest /\ Newest \in Nat /\ Newest > 0 /\ Kind' = Kind /\ ~ Unsettled'
    /\ requests'[Newest].kind = Kind /\ requests'[Newest].settled /\ requests'[Newest].ok = ok
    /\ requests'[Newest].previous = requests[Newest].previous
    /\ \A i \in 1 .. Newest : i # Newest => requests'[i] = requests[i]

\* A settled record.
LEMMA OutcomeRecord ==
    ASSUME NEW r \in RequestRecord, NEW ok \in BOOLEAN
    PROVE  /\ [r EXCEPT !.settled = TRUE, !.ok = ok, !.waiters = <<>>].ok = ok
           /\ [r EXCEPT !.settled = TRUE, !.ok = ok, !.waiters = <<>>].settled
           /\ [r EXCEPT !.settled = TRUE, !.ok = ok, !.waiters = <<>>].kind = r.kind
           /\ [r EXCEPT !.settled = TRUE, !.ok = ok, !.waiters = <<>>].previous = r.previous
<1>. DEFINE t == TRUE
            w == <<>>
<1>1. r = [kind |-> r.kind, state |-> r.state, settled |-> r.settled, ok |-> r.ok,
           waiters |-> r.waiters, previous |-> r.previous]
  BY DEF RequestRecord
<1>. HIDE DEF t, w
<1>2. /\ [r EXCEPT !.settled = t, !.ok = ok, !.waiters = w].ok = ok
      /\ [r EXCEPT !.settled = t, !.ok = ok, !.waiters = w].settled = t
      /\ [r EXCEPT !.settled = t, !.ok = ok, !.waiters = w].kind = r.kind
      /\ [r EXCEPT !.settled = t, !.ok = ok, !.waiters = w].previous = r.previous
  BY <1>1 DEF RequestRecord
<1>. QED  BY <1>2 DEF t, w

\* What settling a promise does, as far as the attachment is concerned.
LEMMA Settling ==
    ASSUME IndInv, jobs # <<>>, Head(jobs).step = "settle", SettlePromise(Head(jobs))
    PROVE  /\ Unsettled /\ ~ PendingNow /\ Outcome(Head(jobs).ok) /\ Head(jobs).ok \in BOOLEAN
           /\ \A k \in DOMAIN jobs' : /\ k \in DOMAIN Waiters /\ jobs'[k].step = Waiters[k].step
                                      /\ jobs'[k].ok = Head(jobs).ok
           /\ cleanupRequired' = (cleanupRequired /\ ~ (Kind = "reconcile" /\ Head(jobs).ok))
           /\ revision' \in {revision, requests[Newest].previous}
           /\ handles' = handles /\ count' = count
<1>. DEFINE ok == Head(jobs).ok
            i == Head(jobs).request
            settled == [requests[i] EXCEPT !.settled = TRUE, !.ok = ok, !.waiters = <<>>]
            woken == [k \in 1 .. Len(requests[i].waiters) |-> [requests[i].waiters[k] EXCEPT !.ok = ok]]
<1>1. /\ Head(jobs) = jobs[1] /\ 1 \in DOMAIN jobs /\ jobs[1] \in Reaction /\ ok \in BOOLEAN
      /\ Len(jobs) = 1 /\ i = Newest /\ Unsettled /\ requests[Newest].state = "done"
      /\ jobs \in Seq(Reaction)
  <2>1. Head(jobs) = jobs[1] /\ 1 \in DOMAIN jobs /\ jobs[1] \in Reaction /\ jobs \in Seq(Reaction)
    BY TailIsRest, QueueFacts
  <2>2. Len(jobs) = 1 /\ jobs[1].request = Newest /\ Unsettled /\ requests[Newest].state = "done"
    BY <2>1 DEF IndInv, Settles
  <2>. QED  BY <2>1, <2>2 DEF Reaction
<1>2. /\ requests \in Seq(RequestRecord) /\ Newest \in DOMAIN requests /\ DOMAIN requests = 1 .. Newest
      /\ Newest \in Nat /\ Newest = Len(requests) /\ Newest > 0 /\ requests[Newest] \in RequestRecord
      /\ Waiters = requests[Newest].waiters /\ Waiters \in Seq(Reaction)
      /\ Len(Waiters) \in Nat /\ DOMAIN Waiters = 1 .. Len(Waiters)
  BY <1>1, QueueFacts
<1>3. /\ requests' = [requests EXCEPT ![i].settled = TRUE, ![i].ok = ok, ![i].waiters = <<>>]
      /\ jobs' = Tail(jobs) \o woken
      /\ cleanupRequired' = (cleanupRequired /\ ~ (requests[i].kind = "reconcile" /\ ok))
      /\ revision' = IF requests[i].kind = "attach" /\ ~ ok /\ revision = None
                         THEN requests[i].previous ELSE revision
      /\ handles' = handles /\ count' = count
  BY Zenon DEF SettlePromise
<1>4. requests' = [requests EXCEPT ![i] = settled]
  <2>1. requests \in Seq(RequestRecord) /\ i \in DOMAIN requests
    BY <1>1, <1>2
  <2>. HIDE DEF ok, i
  <2>. QED  BY <1>3, <2>1, SettledAt, Zenon
<1>5. /\ settled \in RequestRecord /\ settled.settled /\ settled.ok = ok /\ settled.kind = Kind
      /\ settled.previous = requests[Newest].previous
  <2>1. requests[i] \in RequestRecord /\ requests[i].kind = Kind
        /\ requests[i].previous = requests[Newest].previous
    BY <1>1, <1>2 DEF Kind
  <2>2. ok \in BOOLEAN
    BY <1>1
  <2>. HIDE DEF ok, i
  <2>. QED  BY <2>1, <2>2, SettledRecord, OutcomeRecord, Zenon
<1>6. /\ Newest' = Newest /\ requests'[Newest] = settled
      /\ \A k \in 1 .. Newest : k # Newest => requests'[k] = requests[k]
  <2>1. requests \in Seq(RequestRecord) /\ i \in DOMAIN requests /\ settled \in RequestRecord
    BY <1>1, <1>2, <1>5
  <2>. HIDE DEF settled, i
  <2>2. /\ Len(requests') = Len(requests) /\ requests'[i] = settled
        /\ \A k \in DOMAIN requests : k # i => requests'[k] = requests[k]
    BY <1>4, <2>1, UpdateIs
  <2>. QED  BY <1>1, <1>2, <2>2 DEF Newest, i
<1>7. Outcome(ok)
  <2>. HIDE DEF settled, ok
  <2>. QED  BY <1>2, <1>5, <1>6 DEF Outcome, Unsettled, Kind
<1>8. \A k \in DOMAIN jobs' : k \in DOMAIN Waiters /\ jobs'[k].step = Waiters[k].step /\ jobs'[k].ok = ok
  <2>1. Waiters = requests[i].waiters
    BY <1>1, <1>2
  <2>2. ASSUME NEW k \in DOMAIN Waiters
        PROVE  woken[k] \in Reaction /\ woken[k].step = Waiters[k].step /\ woken[k].ok = ok
    <3>1. Waiters[k] \in Reaction /\ k \in 1 .. Len(Waiters)
      BY <1>2, <2>2
    <3>2. woken[k] = [Waiters[k] EXCEPT !.ok = ok] /\ ok \in BOOLEAN
      BY <1>1, <2>1, <3>1
    <3>. HIDE DEF ok, woken
    <3>. QED  BY <3>1, <3>2, WokenReaction
  <2>3. woken \in Seq(Reaction) /\ Len(woken) = Len(Waiters)
    <3>1. DOMAIN woken = 1 .. Len(Waiters) /\ woken = [k \in 1 .. Len(Waiters) |-> woken[k]]
      BY <2>1
    <3>2. Len(Waiters) \in Nat /\ \A k \in 1 .. Len(Waiters) : woken[k] \in Reaction
      BY <1>2, <2>2
    <3>. HIDE DEF woken
    <3>. QED  BY <3>1, <3>2
  <2>4. Tail(jobs) \in Seq(Reaction) /\ Len(Tail(jobs)) = 0
    BY <1>1, TailIs
  <2>. HIDE DEF ok, woken
  <2>5. /\ jobs' \in Seq(Reaction) /\ Len(jobs') = Len(woken)
        /\ \A k \in 1 .. Len(woken) : jobs'[k] = woken[k]
    <3>1. Tail(jobs) \o woken \in Seq(Reaction) /\ Len(Tail(jobs) \o woken) = Len(woken)
          /\ \A k \in 1 .. Len(woken) : (Tail(jobs) \o woken)[k] = woken[k]
      BY <2>3, <2>4, ConcatIs, ZenonT(30)
    <3>. QED  BY <1>3, <3>1, Zenon
  <2>6. DOMAIN jobs' = 1 .. Len(jobs')
    BY <2>5
  <2>. QED  BY <1>2, <2>2, <2>3, <2>5, <2>6
<1>9. revision' \in {revision, requests[Newest].previous}
  <2>. HIDE DEF ok
  <2>. QED  BY <1>1, <1>3
<1>10. ~ PendingNow
  BY <1>1 DEF PendingNow
<1>. QED  BY <1>1, <1>3, <1>7, <1>8, <1>9, <1>10 DEF Kind

\* What an outcome says of the failures.
LEMMA OutcomeTells ==
    ASSUME NEW ok \in BOOLEAN, Unsettled, Outcome(ok)
    PROVE  /\ DetachFailed /\ ~ (Kind = "attach" /\ ok) => DetachFailed'
           /\ AttachFailed /\ ~ (Kind # "attach" /\ ok) => AttachFailed'
           /\ Kind = "detach" /\ ~ ok => DetachFailed'
           /\ Kind = "attach" /\ ~ ok => AttachFailed'
<1>. DEFINE n == Newest
            kind == Kind
<1>1. /\ n \in Nat /\ n > 0 /\ Request = 1 .. n /\ Request' = 1 .. n /\ n \in 1 .. n
      /\ requests'[n].kind = kind /\ requests'[n].settled /\ requests'[n].ok = ok
      /\ ~ requests[n].settled
      /\ \A i \in 1 .. n : i # n => requests'[i] = requests[i]
  BY DEF Outcome, Request, Newest, Unsettled
<1>. HIDE DEF n, kind
<1>2. \A k \in 1 .. n : ~ (k > n)
  BY <1>1
<1>3. ASSUME DetachFailed, ~ (kind = "attach" /\ ok) PROVE DetachFailed'
  <2>1. PICK i \in 1 .. n :
            /\ requests[i].kind = "detach" /\ requests[i].settled /\ ~ requests[i].ok
            /\ \A k \in 1 .. n : k > i /\ requests[k].kind = "attach" => ~ requests[k].ok
    BY <1>1, <1>3 DEF DetachFailed
  <2>2. i # n /\ requests'[i] = requests[i]
    BY <1>1, <2>1
  <2>3. \A k \in 1 .. n : k > i /\ requests'[k].kind = "attach" => ~ requests'[k].ok
    BY <1>1, <1>3, <2>1
  <2>. QED  BY <1>1, <2>1, <2>2, <2>3 DEF DetachFailed
<1>4. ASSUME AttachFailed, ~ (kind # "attach" /\ ok) PROVE AttachFailed'
  <2>1. PICK i \in 1 .. n :
            /\ requests[i].kind = "attach" /\ requests[i].settled /\ ~ requests[i].ok
            /\ \A k \in 1 .. n : k > i /\ requests[k].kind # "attach" => ~ requests[k].ok
    BY <1>1, <1>4 DEF AttachFailed
  <2>2. i # n /\ requests'[i] = requests[i]
    BY <1>1, <2>1
  <2>3. \A k \in 1 .. n : k > i /\ requests'[k].kind # "attach" => ~ requests'[k].ok
    BY <1>1, <1>4, <2>1
  <2>. QED  BY <1>1, <2>1, <2>2, <2>3 DEF AttachFailed
<1>5. kind = "detach" /\ ~ ok => DetachFailed'
  BY <1>1, <1>2 DEF DetachFailed
<1>6. kind = "attach" /\ ~ ok => AttachFailed'
  BY <1>1, <1>2 DEF AttachFailed
<1>. QED  BY <1>3, <1>4, <1>5, <1>6 DEF kind

\* The promise derived from a request settles.
LEMMA SettleMoves ==
    ASSUME IndInv, HeldInv, jobs # <<>>, Head(jobs).step = "settle", SettlePromise(Head(jobs)),
           UNCHANGED <<connection, connects, generation, attached, toClient, server>>
    PROVE  HeldInv' /\ (ViewInv => ViewInv')
<1>. DEFINE ok == Head(jobs).ok
<1>1. /\ Unsettled /\ ~ PendingNow /\ Outcome(ok) /\ ok \in BOOLEAN
      /\ \A k \in DOMAIN jobs' : k \in DOMAIN Waiters /\ jobs'[k].step = Waiters[k].step /\ jobs'[k].ok = ok
      /\ cleanupRequired' = (cleanupRequired /\ ~ (Kind = "reconcile" /\ ok))
      /\ revision' \in {revision, requests[Newest].previous}
      /\ handles' = handles /\ count' = count
  BY Settling
<1>2. /\ DetachFailed /\ ~ (Kind = "attach" /\ ok) => DetachFailed'
      /\ AttachFailed /\ ~ (Kind # "attach" /\ ok) => AttachFailed'
      /\ Kind = "detach" /\ ~ ok => DetachFailed'
      /\ Kind = "attach" /\ ~ ok => AttachFailed'
  BY <1>1, OutcomeTells
<1>3. JobTells(Head(jobs)) /\ (ViewInv => JobSees(Head(jobs)))
  BY HeadTells
<1>4. Newest' = Newest /\ Kind' = Kind /\ ~ Unsettled'
  BY <1>1 DEF Outcome
<1>5. \A n : (AttachedFrom(n)' <=> AttachedFrom(n)) /\ (DetachedFrom(n)' <=> DetachedFrom(n))
  BY DEF AttachedFrom, DetachedFrom
<1>6. ok => IF Kind = "attach" THEN AttachedFrom(0) ELSE DetachedFrom(0)
  BY <1>3 DEF JobTells
<1>7. \A k \in DOMAIN toClient : toClient[k].request = None
  BY <1>1, AnswerAwaited
<1>8. Kind \in {"attach", "detach", "reconcile"}
  BY <1>1, QueueFacts DEF Kinds
<1>. HIDE DEF ok
<1>9. AnswersFit'
  BY <1>7 DEF HeldInv, AnswersFit
<1>10. ASSUME NEW k \in DOMAIN jobs'
       PROVE  /\ jobs'[k].ok = ok
              /\ Kind = "attach" => jobs'[k].step = "afterAttach"
              /\ Kind = "reconcile" => jobs'[k].step = "afterReconciliation"
              /\ Kind = "detach" => jobs'[k].step \in {"afterDetach", "caught"}
  BY <1>1 DEF IndInv, WaitersFit
<1>11. JobsTell'
  <2>1. ASSUME NEW k \in DOMAIN jobs' PROVE JobTells(jobs[k])'
    <3>1. CASE Kind = "attach"
      BY <1>2, <1>10, <3>1 DEF JobTells
    <3>2. CASE Kind = "reconcile"
      BY <1>1, <1>10, <3>2 DEF JobTells, HeldInv, CleanupTells
    <3>3. CASE Kind = "detach"
      BY <1>2, <1>6, <1>10, <3>3 DEF JobTells, DetachedFrom
    <3>. QED  BY <1>8, <3>1, <3>2, <3>3
  <2>. QED  BY <2>1 DEF JobsTell
<1>12. CleanupTells'
  <2>1. cleanupRequired => Kind = "reconcile"
    BY <1>1 DEF IndInv, CleanupFits
  <2>2. cleanupRequired' => cleanupRequired
    BY <1>1
  <2>. QED  BY <1>2, <1>4, <2>1, <2>2 DEF HeldInv, CleanupTells
<1>13. SomebodyAnswers'
  <2>1. ok /\ Kind # "attach" => ~ server.attached
    BY <1>6 DEF DetachedFrom
  <2>. QED  BY <1>1, <1>2, <2>1 DEF HeldInv, SomebodyAnswers
<1>14. HeldInv'
  BY <1>4, <1>9, <1>11, <1>12, <1>13 DEF HeldInv, ServingFits
<1>15. ASSUME ViewInv PROVE ViewInv'
  <2>1. Known' \subseteq Known
    <3>1. \A i \in 1 .. Newest : requests'[i].previous = requests[i].previous
      BY <1>1 DEF Outcome
    <3>2. Newest \in 1 .. Newest
      BY <1>1 DEF Outcome
    <3>. QED  BY <1>1, <1>4, <3>1, <3>2 DEF Known
  <2>2. RevisionsFit'
    BY <1>15, <2>1 DEF ViewInv, RevisionsFit
  <2>3. ok => attached = (Kind = "attach")
    BY <1>3, <1>15 DEF JobSees, ok
  <2>4. ViewFits'
    <3>1. CASE ok /\ Kind = "attach"
      <4>1. AttachedFrom(0) /\ \A k \in DOMAIN toClient : AttachedFrom(k)
        <5>1. \A k \in DOMAIN toClient : k > 0
          <6>1. DOMAIN toClient = 1 .. Len(toClient)
            BY DEF IndInv, Shape, WireShape
          <6>. QED  BY <6>1
        <5>. QED  BY <1>6, <3>1, <5>1 DEF AttachedFrom
      <4>. QED  BY <1>5, <4>1 DEF ViewFits
    <3>2. CASE ok /\ Kind = "detach"
      <4>1. ~ attached /\ \A k \in DOMAIN toClient : ~ toClient[k].attached
        <5>1. \A k \in DOMAIN toClient : k > 0
          <6>1. DOMAIN toClient = 1 .. Len(toClient)
            BY DEF IndInv, Shape, WireShape
          <6>. QED  BY <6>1
        <5>. QED  BY <1>6, <2>3, <3>2, <5>1 DEF DetachedFrom
      <4>. QED  BY <4>1 DEF ViewFits
    <3>3. CASE ~ ok \/ Kind = "reconcile"
      <4>1. Doubtful => Doubtful'
        <5>1. Unsettled /\ Kind = "detach" => DetachFailed'
          BY <1>2, <3>3
        <5>2. DetachFailed => DetachFailed'
          BY <1>2, <3>3
        <5>. QED  BY <5>1, <5>2 DEF Doubtful
      <4>. QED  BY <1>5, <1>15, <4>1 DEF ViewInv, ViewFits
    <3>. QED  BY <1>8, <3>1, <3>2, <3>3
  <2>5. ActiveLeasesAreAttached'
    <3>1. CASE ok /\ Kind = "attach"
      BY <2>3, <3>1 DEF ActiveLeasesAreAttached
    <3>2. CASE ~ (ok /\ Kind = "attach")
      BY <1>1, <1>2, <1>15, <3>2 DEF ViewInv, ActiveLeasesAreAttached, Valid
    <3>. QED  BY <3>1, <3>2
  <2>6. ASSUME NEW k \in DOMAIN jobs' PROVE JobSees(jobs[k])'
    <3>1. jobs'[k].step # "settle"
      BY <1>8, <1>10
    <3>2. jobs'[k].step = "afterAttach" => Kind = "attach"
      BY <1>8, <1>10
    <3>. QED  BY <1>10, <2>3, <3>1, <3>2 DEF JobSees
  <2>. QED  BY <2>2, <2>4, <2>5, <2>6 DEF ViewInv
<1>. QED  BY <1>14, <1>15

--------------------------------------------------------------------------------
(* Steps of the server.                                                          *)

Fresh == DOMAIN toClient' \ DOMAIN toClient

\* What the server adds to the messages on their way says what is true of it now.
Says ==
    /\ DOMAIN toClient \subseteq DOMAIN toClient'
    /\ \A k \in DOMAIN toClient : toClient'[k] = toClient[k]
    /\ \A k \in DOMAIN toClient, l \in Fresh : k < l
    /\ \A k \in Fresh : /\ toClient'[k].attached = server'.attached
                        /\ toClient'[k].revision = server'.revision
                        /\ toClient'[k].detached = (toClient'[k].request # None /\ Kind # "attach")
                        /\ toClient'[k].request # None /\ toClient'[k].ok =>
                               (server'.attached <=> Kind = "attach")

\* It attaches or detaches for the pending request only, and before it answers.
Effects ==
    /\ server'.attached # server.attached =>
           /\ PendingNow /\ Answers = {} /\ connection = "connected"
           /\ server'.attached <=> Kind = "attach"
    /\ server'.serving # None => server'.attached /\ Kind = "attach"

ServerStep == UNCHANGED clientVars /\ Says /\ Effects

\* A pending attach counts: whoever asked for it holds a reservation.
LEMMA AttachCounts ==
    ASSUME IndInv, Unsettled, Kind = "attach", connection = "connected"
    PROVE  count > 0
<1>1. Waiters # <<>> /\ Waiters \in Seq(Reaction) /\ DOMAIN Waiters = 1 .. Len(Waiters) /\ Len(Waiters) \in Nat
  BY QueueFacts DEF IndInv, WaitersFit
<1>2. 1 \in DOMAIN Waiters
  BY <1>1
<1>3. Waiters[1].step = "afterAttach" /\ Backed(Waiters[1])
  BY <1>2 DEF IndInv, WaitersFit, HandlesBacked
<1>. DEFINE h == Waiters[1].handle
<1>4. h \in Handles /\ handles[h].state = "acquiring" /\ handles[h].generation = generation
  BY <1>3 DEF Backed, Acquiring, Valid, AcquireSteps
<1>5. h \in InUse(handles, generation)
  BY <1>4 DEF InUse
<1>6. IsFiniteSet(InUse(handles, generation)) /\ count = Cardinality(InUse(handles, generation))
      /\ count \in Nat
  BY DEF IndInv, CountFits, CountIs, Shape, CountShape
<1>7. count # 0
  BY <1>5, <1>6, FS_EmptySet
<1>. QED  BY <1>6, <1>7

\* What the client keeps is as it was.
LEMMA ClientKept ==
    ASSUME UNCHANGED clientVars
    PROVE  /\ connection' = connection /\ handles' = handles /\ count' = count /\ generation' = generation
           /\ cleanupRequired' = cleanupRequired /\ attached' = attached /\ revision' = revision
           /\ requests' = requests /\ jobs' = jobs
           /\ Newest' = Newest /\ Kind' = Kind /\ Unsettled' = Unsettled /\ Known' = Known
           /\ DetachFailed' = DetachFailed /\ AttachFailed' = AttachFailed /\ Doubtful' = Doubtful
           /\ ActiveLeasesAreAttached' = ActiveLeasesAreAttached
<1>1. /\ connection' = connection /\ handles' = handles /\ count' = count /\ generation' = generation
      /\ cleanupRequired' = cleanupRequired /\ attached' = attached /\ revision' = revision
      /\ requests' = requests /\ jobs' = jobs
  BY DEF clientVars
<1>2. Newest' = Newest /\ Kind' = Kind /\ Unsettled' = Unsettled
  BY <1>1 DEF Newest, Kind, Unsettled
<1>3. Known' = Known
  BY <1>1, <1>2 DEF Known
<1>4. DetachFailed' = DetachFailed /\ AttachFailed' = AttachFailed
  BY <1>1 DEF DetachFailed, AttachFailed, Request
<1>5. Doubtful' = Doubtful
  BY <1>2, <1>4 DEF Doubtful
<1>6. ActiveLeasesAreAttached' = ActiveLeasesAreAttached
  BY <1>1, <1>4 DEF ActiveLeasesAreAttached, Valid
<1>. QED  BY <1>1, <1>2, <1>3, <1>4, <1>5, <1>6

\* What was said from some message on is still said, as long as the server does not turn.
LEMMA StillSaid ==
    ASSUME Says, server'.attached = server.attached, NEW n
    PROVE  (AttachedFrom(n) => AttachedFrom(n)') /\ (DetachedFrom(n) => DetachedFrom(n)')
<1>1. \A k \in DOMAIN toClient' : \/ k \in DOMAIN toClient /\ toClient'[k] = toClient[k]
                                  \/ toClient'[k].attached = server'.attached
  BY DEF Says, Fresh
<1>. QED  BY <1>1 DEF AttachedFrom, DetachedFrom, Told

\* After a message of this step the server says what is true now.
LEMMA FreshlySaid ==
    ASSUME IndInv, IndInv', Says, NEW n \in Fresh, server'.attached \in BOOLEAN
    PROVE  (server'.attached => AttachedFrom(n)') /\ (~ server'.attached => DetachedFrom(n)')
<1>1. DOMAIN toClient' = 1 .. Len(toClient') /\ DOMAIN toClient = 1 .. Len(toClient)
  BY DEF IndInv, Shape, WireShape
<1>2. n \in 1 .. Len(toClient')
  BY <1>1 DEF Fresh
<1>3. ASSUME NEW k \in DOMAIN toClient', k > n PROVE toClient'[k].attached = server'.attached
  <2>1. k \notin DOMAIN toClient
    BY <1>1, <1>2, <1>3 DEF Says
  <2>. QED  BY <1>3, <2>1 DEF Says, Fresh
<1>. QED  BY <1>3 DEF AttachedFrom, DetachedFrom

\* The server keeps its side of the invariant.
LEMMA ServerHolds ==
    ASSUME IndInv, IndInv', HeldInv, ServerStep
    PROVE  HeldInv'
<1>1. Says /\ Effects /\ UNCHANGED clientVars
  BY DEF ServerStep
<1>2. /\ connection' = connection /\ count' = count /\ cleanupRequired' = cleanupRequired /\ jobs' = jobs
      /\ Kind' = Kind /\ Unsettled' = Unsettled
      /\ DetachFailed' = DetachFailed /\ AttachFailed' = AttachFailed
  BY <1>1, ClientKept
<1>3. server.attached \in BOOLEAN /\ server'.attached \in BOOLEAN
  BY DEF IndInv, Shape, ServerShape
<1>4. server'.attached # server.attached =>
          /\ PendingNow /\ Answers = {} /\ connection = "connected" /\ (server'.attached <=> Kind = "attach")
  BY <1>1 DEF Effects
<1>5. PendingNow => Unsettled
  <2>1. Newest \in Nat
    BY QueueFacts
  <2>. QED  BY <2>1 DEF IndInv, OneUnsettled, PendingNow, Unsettled
<1>6. AnswersFit'
  <2>1. ASSUME NEW k \in DOMAIN toClient'
        PROVE  /\ toClient'[k].detached = (toClient'[k].request # None /\ Kind # "attach")
               /\ toClient'[k].request # None /\ toClient'[k].ok =>
                      IF Kind = "attach" THEN toClient'[k].attached /\ AttachedFrom(k)' ELSE DetachedFrom(k)'
    <3>1. CASE k \in DOMAIN toClient
      <4>1. /\ toClient'[k] = toClient[k]
            /\ toClient[k].detached = (toClient[k].request # None /\ Kind # "attach")
            /\ toClient[k].request # None /\ toClient[k].ok =>
                   IF Kind = "attach" THEN toClient[k].attached /\ AttachedFrom(k) ELSE DetachedFrom(k)
        BY <1>1, <3>1 DEF Says, HeldInv, AnswersFit
      <4>2. toClient[k].request # None => server'.attached = server.attached
        BY <1>4, <3>1 DEF Answers
      <4>. QED  BY <1>1, <4>1, <4>2, StillSaid
    <3>2. CASE k \in Fresh
      <4>1. /\ toClient'[k].attached = server'.attached
            /\ toClient'[k].detached = (toClient'[k].request # None /\ Kind # "attach")
            /\ toClient'[k].request # None /\ toClient'[k].ok => (server'.attached <=> Kind = "attach")
        BY <1>1, <3>2 DEF Says
      <4>2. (server'.attached => AttachedFrom(k)') /\ (~ server'.attached => DetachedFrom(k)')
        BY <1>1, <1>3, <3>2, FreshlySaid
      <4>. QED  BY <4>1, <4>2
    <3>. QED  BY <3>1, <3>2 DEF Fresh
  <2>. QED  BY <1>2, <2>1 DEF AnswersFit
<1>7. JobsTell'
  <2>1. ASSUME NEW k \in DOMAIN jobs PROVE JobTells(jobs[k])'
    <3>1. JobTells(jobs[k]) /\ JobFits(jobs[k])
      BY DEF HeldInv, JobsTell, IndInv, JobsFit
    <3>2. jobs[k].step = "settle" => server'.attached = server.attached
      BY <1>4, SettleAwaited
    <3>3. jobs[k].step = "afterDetach" => server'.attached = server.attached
      BY <1>4, <1>5, <3>1 DEF JobFits
    <3>4. server'.attached = server.attached =>
              (AttachedFrom(0) => AttachedFrom(0)') /\ (DetachedFrom(0) => DetachedFrom(0)')
      BY <1>1, StillSaid
    <3>. QED  BY <1>2, <3>1, <3>2, <3>3, <3>4 DEF JobTells
  <2>. QED  BY <1>2, <2>1 DEF JobsTell
<1>8. CleanupTells'
  BY <1>2 DEF HeldInv, CleanupTells
<1>9. SomebodyAnswers'
  <2>1. CASE server'.attached /\ ~ server.attached
    BY <1>2, <1>4, <1>5, <2>1, AttachCounts DEF SomebodyAnswers
  <2>2. CASE ~ (server'.attached /\ ~ server.attached)
    BY <1>2, <2>2 DEF HeldInv, SomebodyAnswers
  <2>. QED  BY <2>1, <2>2
<1>10. ServingFits'
  BY <1>1, <1>2 DEF Effects, ServingFits
<1>. QED  BY <1>6, <1>7, <1>8, <1>9, <1>10 DEF HeldInv

\* The revisions the client knows of are numbers.
LEMMA KnownNumbers ==
    ASSUME IndInv
    PROVE  Known \subseteq Nat
<1>1. revision \in Revisions
  BY DEF IndInv, Shape, FlagShape
<1>2. requests \in Seq(RequestRecord) /\ Newest = Len(requests)
  BY QueueFacts
<1>3. \A i \in 1 .. Len(requests) : requests[i] \in RequestRecord
  BY <1>2
<1>4. \A i \in 1 .. Newest : requests[i].previous \in Revisions
  BY <1>2, <1>3 DEF RequestRecord
<1>. QED  BY <1>1, <1>4, BoundsAssumption DEF Known, Revisions

\* The server keeps the client's side of it, as long as its revision does not fall back.
LEMMA ServerSeen ==
    ASSUME IndInv, IndInv', HeldInv, ViewInv, ServerStep, server.revision <= server'.revision
    PROVE  ViewInv'
<1>1. Says /\ Effects /\ UNCHANGED clientVars
  BY DEF ServerStep
<1>2. /\ attached' = attached /\ jobs' = jobs /\ Kind' = Kind /\ Known' = Known /\ Doubtful' = Doubtful
      /\ ActiveLeasesAreAttached' = ActiveLeasesAreAttached
  BY <1>1, ClientKept
<1>3. /\ server.attached \in BOOLEAN /\ server'.attached \in BOOLEAN
      /\ server.revision \in Nat /\ server'.revision \in Nat
      /\ \A k \in DOMAIN toClient : toClient[k].revision \in Nat
      /\ DOMAIN toClient \subseteq Int /\ DOMAIN toClient' \subseteq Int
  <2>1. toClient \in Seq(Answer) /\ toClient' \in Seq(Answer)
    BY DEF IndInv, Shape, WireShape
  <2>2. \A k \in DOMAIN toClient : toClient[k] \in Answer
    BY <2>1
  <2>3. \A k \in DOMAIN toClient : toClient[k].revision \in Nat
    BY <2>2, BoundsAssumption DEF Answer
  <2>4. DOMAIN toClient = 1 .. Len(toClient) /\ DOMAIN toClient' = 1 .. Len(toClient')
    BY <2>1
  <2>5. DOMAIN toClient \subseteq Int /\ DOMAIN toClient' \subseteq Int
    BY <2>4
  <2>. QED  BY <2>3, <2>5, BoundsAssumption DEF IndInv, Shape, ServerShape
<1>4. RevisionsFit'
  <2>. DEFINE old == DOMAIN toClient
              new == DOMAIN toClient'
              s == server.revision
              t == server'.revision
  <2>1. \A k \in new : \/ k \in old /\ toClient'[k] = toClient[k]
                       \/ k \in Fresh /\ toClient'[k].revision = t
    BY <1>1 DEF Says, Fresh
  <2>2. /\ \A k \in old : toClient[k].revision <= s
        /\ \A k, l \in old : k < l => toClient[k].revision <= toClient[l].revision
        /\ \A r \in Known : r <= s /\ \A k \in old : r <= toClient[k].revision
    BY DEF ViewInv, RevisionsFit
  <2>3. Known \subseteq Nat
    BY KnownNumbers
  <2>4. s \in Nat /\ t \in Nat /\ s <= t /\ \A k \in old : toClient[k].revision \in Nat
    BY <1>3
  <2>5. \A k \in old, l \in Fresh : k < l /\ ~ (l < k)
    BY <1>1, <1>3 DEF Says, Fresh
  <2>. HIDE DEF old, new, s, t
  <2>6. \A k \in new : toClient'[k].revision <= t
    BY <2>1, <2>2, <2>4
  <2>7. ASSUME NEW k \in new, NEW l \in new, k < l PROVE toClient'[k].revision <= toClient'[l].revision
    <3>1. CASE l \in Fresh /\ toClient'[l].revision = t
      BY <2>6, <3>1
    <3>2. CASE l \in old /\ toClient'[l] = toClient[l]
      <4>1. k \in old /\ toClient'[k] = toClient[k]
        BY <2>1, <2>5, <2>7, <3>2
      <4>. QED  BY <2>2, <2>7, <3>2, <4>1
    <3>. QED  BY <2>1, <3>1, <3>2
  <2>8. \A r \in Known : r <= t /\ \A k \in new : r <= toClient'[k].revision
    BY <2>1, <2>2, <2>3, <2>4
  <2>. QED  BY <1>2, <2>6, <2>7, <2>8 DEF RevisionsFit, old, new, s, t
<1>5. ViewFits'
  <2>1. server.attached /\ ~ server'.attached => Doubtful
    <3>1. ASSUME server.attached, ~ server'.attached PROVE Doubtful
      <4>1. PendingNow /\ Kind # "attach"
        BY <1>1, <3>1 DEF Effects
      <4>2. Unsettled /\ Kind \in Kinds
        <5>1. Newest \in Nat /\ (Newest > 0 => Kind \in Kinds)
          BY QueueFacts
        <5>. QED  BY <4>1, <5>1 DEF IndInv, OneUnsettled, PendingNow, Unsettled
      <4>3. Kind = "reconcile" => DetachFailed
        BY <4>2 DEF HeldInv, CleanupTells
      <4>. QED  BY <4>1, <4>2, <4>3 DEF Doubtful, Kinds
    <3>. QED  BY <3>1
  <2>2. ASSUME NEW n, AttachedFrom(n) PROVE Doubtful \/ AttachedFrom(n)'
    <3>1. CASE server'.attached
      BY <1>1, <1>3, <2>2, <3>1, StillSaid DEF AttachedFrom
    <3>2. CASE ~ server'.attached
      BY <2>1, <2>2, <3>2 DEF AttachedFrom
    <3>. QED  BY <3>1, <3>2
  <2>3. attached => Doubtful \/ AttachedFrom(0)'
    BY <2>2 DEF ViewInv, ViewFits
  <2>4. ASSUME NEW k \in DOMAIN toClient', Told(toClient'[k]), toClient'[k].attached
        PROVE  Doubtful \/ AttachedFrom(k)'
    <3>1. CASE k \in DOMAIN toClient
      <4>1. toClient'[k] = toClient[k]
        BY <1>1, <3>1 DEF Says
      <4>2. Doubtful \/ AttachedFrom(k)
        BY <2>4, <3>1, <4>1 DEF ViewInv, ViewFits
      <4>. QED  BY <2>2, <4>2
    <3>2. CASE k \in Fresh
      <4>1. server'.attached
        BY <1>1, <2>4, <3>2 DEF Says
      <4>. QED  BY <1>1, <1>3, <3>2, <4>1, FreshlySaid
    <3>. QED  BY <2>4, <3>1, <3>2 DEF Fresh
  <2>. QED  BY <1>2, <2>3, <2>4 DEF ViewFits, Told
<1>6. \A k \in DOMAIN jobs : JobSees(jobs[k])'
  BY <1>2 DEF ViewInv, JobSees
<1>7. ActiveLeasesAreAttached'
  BY <1>2 DEF ViewInv
<1>. QED  BY <1>2, <1>4, <1>5, <1>6, <1>7 DEF ViewInv

\* Nothing, one message or two are added to what is on its way.
Fits(m) == /\ m.attached = server'.attached /\ m.revision = server'.revision
           /\ m.detached = (m.request # None /\ Kind # "attach")
           /\ m.request # None /\ m.ok => (server'.attached <=> Kind = "attach")

\* Whatever is added fits.
LEMMA Adding ==
    ASSUME toClient \in Seq(Answer), NEW m \in Answer, NEW n \in Answer,
           \/ toClient' = toClient
           \/ toClient' = Append(toClient, m) /\ Fits(m)
           \/ toClient' = Append(Append(toClient, n), m) /\ Fits(m) /\ Fits(n)
    PROVE  Says
<1>1. CASE toClient' = toClient
  BY <1>1 DEF Says, Fresh
<1>2. CASE toClient' = Append(toClient, m) /\ Fits(m)
  <2>1. /\ DOMAIN toClient = 1 .. Len(toClient) /\ Len(toClient) \in Nat
        /\ DOMAIN toClient' = 1 .. Len(toClient) + 1
        /\ \A k \in DOMAIN toClient : toClient'[k] = toClient[k]
        /\ toClient'[Len(toClient) + 1] = m
    BY <1>2, AppendIs
  <2>2. Fresh = {Len(toClient) + 1} /\ \A k \in DOMAIN toClient, l \in Fresh : k < l
    BY <2>1 DEF Fresh
  <2>3. DOMAIN toClient \subseteq DOMAIN toClient'
    BY <2>1
  <2>. QED  BY <1>2, <2>1, <2>2, <2>3 DEF Says, Fits
<1>3. CASE toClient' = Append(Append(toClient, n), m) /\ Fits(m) /\ Fits(n)
  <2>. DEFINE t == Append(toClient, n)
  <2>1. /\ DOMAIN toClient = 1 .. Len(toClient) /\ Len(toClient) \in Nat
        /\ t \in Seq(Answer) /\ Len(t) = Len(toClient) + 1 /\ DOMAIN t = 1 .. Len(toClient) + 1
        /\ \A k \in DOMAIN toClient : t[k] = toClient[k]
        /\ t[Len(toClient) + 1] = n
    BY AppendIs
  <2>2. toClient' = Append(t, m)
    BY <1>3
  <2>. HIDE DEF t
  <2>3. /\ DOMAIN toClient' = 1 .. Len(t) + 1 /\ \A k \in DOMAIN t : toClient'[k] = t[k]
        /\ toClient'[Len(t) + 1] = m
    <3>1. t \in Seq(Answer)
      BY <2>1
    <3>2. /\ DOMAIN Append(t, m) = 1 .. Len(t) + 1 /\ \A k \in DOMAIN t : Append(t, m)[k] = t[k]
          /\ Append(t, m)[Len(t) + 1] = m
      BY <3>1, AppendIs
    <3>. QED  BY <2>2, <3>2
  <2>4. /\ Fresh = {Len(toClient) + 1, Len(toClient) + 2} /\ \A k \in DOMAIN toClient, l \in Fresh : k < l
        /\ DOMAIN toClient \subseteq DOMAIN toClient' /\ DOMAIN toClient \subseteq DOMAIN t
        /\ Len(t) + 1 = Len(toClient) + 2 /\ Len(toClient) + 1 \in DOMAIN t
    BY <2>1, <2>3 DEF Fresh
  <2>5. \A k \in DOMAIN toClient : toClient'[k] = toClient[k]
    BY <2>1, <2>3, <2>4
  <2>6. toClient'[Len(toClient) + 1] = n /\ toClient'[Len(toClient) + 2] = m
    BY <2>1, <2>3, <2>4
  <2>. QED  BY <1>3, <2>4, <2>5, <2>6 DEF Says, Fits
<1>. QED  BY <1>1, <1>2, <1>3

\* A message that the server makes.
LEMMA MessageFits ==
    ASSUME IndInv, NEW i \in {None, Newest}, NEW ok \in BOOLEAN, NEW s \in ServerRecord,
           s.attached = server'.attached, s.revision = server'.revision,
           i # None /\ ok => (server'.attached <=> Kind = "attach")
    PROVE  Message(i, ok, s) \in Answer /\ Fits(Message(i, ok, s))
<1>1. i \in Nat \cup {None}
  BY QueueFacts
<1>2. Message(i, ok, s) \in Answer /\ Message(i, ok, s).request = i
  BY <1>1, MessageIs DEF ServerRecord
<1>3. /\ Message(i, ok, s).ok = ok /\ Message(i, ok, s).attached = s.attached
      /\ Message(i, ok, s).revision = s.revision
      /\ Message(i, ok, s).detached = (i # None /\ requests[i].kind # "attach")
  BY DEF Message
<1>4. (i # None /\ requests[i].kind # "attach") = (i # None /\ Kind # "attach")
  BY DEF Kind
<1>. HIDE DEF Message
<1>. QED  BY <1>2, <1>3, <1>4 DEF Fits

\* Disposing of a runtime changes neither the attachment nor the revision.
LEMMA AfterUseKeeps ==
    ASSUME NEW s \in ServerRecord, NEW t \in AfterUse(s)
    PROVE  t \in ServerRecord /\ t.attached = s.attached /\ t.revision = s.revision /\ t.serving = s.serving
<1>1. CASE t = s
  BY <1>1
<1>2. CASE t = [s EXCEPT !.live = FALSE]
  BY <1>2 DEF ServerRecord
<1>. QED  BY <1>1, <1>2 DEF AfterUse

\* The server begins with an attach or refuses it.
LEMMA ServeAttachMoves ==
    ASSUME IndInv, HeldInv, ServeAttach
    PROVE  ServerStep /\ ("restart" \notin Faults => server.revision <= server'.revision)
<1>1. /\ UNCHANGED clientVars /\ connection = "connected" /\ toServer # <<>>
      /\ Head(toServer).kind = "attach" /\ toServer' = Tail(toServer)
  BY DEF ServeAttach, Served
<1>2. /\ PendingNow /\ Head(toServer).request = Newest /\ Answers = {} /\ server.serving = None
      /\ Kind = "attach"
  BY <1>1, CommandTaken
<1>3. server \in ServerRecord /\ toClient \in Seq(Answer) /\ server.revision \in Nat
  BY BoundsAssumption DEF IndInv, Shape, ServerShape, WireShape, ServerRecord
<1>4. CASE UNCHANGED toClient /\ server' = [Opened(server) EXCEPT !.attached = TRUE, !.serving = Newest]
  <2>1. /\ Opened(server) \in ServerRecord
        /\ "restart" \notin Faults => Opened(server).revision = server.revision
    <3>1. 0 \in 0 .. MaxRevision
      BY BoundsAssumption
    <3>2. CASE server.live
      BY <1>3, <3>2 DEF Opened
    <3>3. CASE ~ server.live
      <4>1. CASE "restart" \in Faults
        <5>1. Opened(server) = [server EXCEPT !.live = TRUE, !.revision = 0]
          BY <3>3, <4>1, Zenon DEF Opened
        <5>. QED  BY <1>3, <3>1, <4>1, <5>1 DEF ServerRecord
      <4>2. CASE "restart" \notin Faults
        <5>1. Opened(server) = [server EXCEPT !.live = TRUE, !.revision = server.revision]
          BY <3>3, <4>2 DEF Opened
        <5>. QED  BY <1>3, <5>1 DEF ServerRecord
      <4>. QED  BY <4>1, <4>2
    <3>. QED  BY <3>2, <3>3
  <2>2. server'.attached = TRUE /\ server'.revision = Opened(server).revision
    BY <1>4, <2>1 DEF ServerRecord
  <2>3. Says
    BY <1>4 DEF Says, Fresh
  <2>4. Effects
    BY <1>1, <1>2, <2>2 DEF Effects
  <2>. QED  BY <1>1, <1>3, <2>1, <2>2, <2>3, <2>4 DEF ServerStep
<1>5. CASE UNCHANGED server /\ toClient' = Append(toClient, Message(Newest, FALSE, server))
  <2>1. Message(Newest, FALSE, server) \in Answer /\ Fits(Message(Newest, FALSE, server))
    BY <1>3, <1>5, MessageFits
  <2>2. Says
    BY <1>3, <1>5, <2>1, Adding
  <2>3. Effects
    BY <1>2, <1>5 DEF Effects
  <2>. QED  BY <1>1, <1>3, <1>5, <2>2, <2>3 DEF ServerStep
<1>. QED  BY <1>2, <1>4, <1>5 DEF ServeAttach

\* The rest of attach.
LEMMA AnswerAttachMoves ==
    ASSUME IndInv, HeldInv, AnswerAttach
    PROVE  ServerStep /\ server.revision <= server'.revision
<1>1. /\ UNCHANGED clientVars /\ server.serving # None /\ server' = [server EXCEPT !.serving = None]
  BY DEF AnswerAttach
<1>2. server.serving = Newest /\ server.attached /\ Kind = "attach"
  BY <1>1 DEF IndInv, WireFits, HeldInv, ServingFits
<1>3. server \in ServerRecord /\ toClient \in Seq(Answer) /\ server.revision \in Nat
  BY BoundsAssumption DEF IndInv, Shape, ServerShape, WireShape, ServerRecord
<1>4. /\ server'.attached = server.attached /\ server'.revision = server.revision
      /\ server'.serving = None
  BY <1>1, <1>3 DEF ServerRecord
<1>5. ASSUME NEW ok \in BOOLEAN, NEW i \in {None, Newest}
      PROVE  Message(i, ok, server) \in Answer /\ Fits(Message(i, ok, server))
  BY <1>2, <1>3, <1>4, MessageFits
<1>6. Says
  <2>. DEFINE a == Message(None, TRUE, server)
              m == Message(Newest, TRUE, server)
              f == Message(Newest, FALSE, server)
  <2>1. a \in Answer /\ Fits(a) /\ m \in Answer /\ Fits(m) /\ f \in Answer /\ Fits(f)
    BY <1>5
  <2>2. toClient' = toClient \o <<a, m>> \/ toClient' = Append(toClient, f)
    BY <1>2 DEF AnswerAttach
  <2>. HIDE DEF a, m, f
  <2>3. toClient' = Append(Append(toClient, a), m) \/ toClient' = Append(toClient, f)
    BY <1>3, <2>1, <2>2
  <2>. QED  BY <1>3, <2>1, <2>3, Adding
<1>7. Effects
  BY <1>4 DEF Effects
<1>. QED  BY <1>1, <1>3, <1>4, <1>6, <1>7 DEF ServerStep

\* A detach, for a release or a reconciliation.
LEMMA ServeDetachMoves ==
    ASSUME IndInv, HeldInv, ServeDetach
    PROVE  ServerStep /\ server.revision <= server'.revision
<1>1. PICK ok \in BOOLEAN :
          /\ server' \in AfterUse([server EXCEPT !.attached = FALSE])
          /\ toClient' = Append(toClient, Message(Head(toServer).request, ok, server'))
  BY DEF ServeDetach
<1>2. /\ UNCHANGED clientVars /\ connection = "connected" /\ toServer # <<>>
      /\ Head(toServer).kind \in {"detach", "reconcile"} /\ toServer' = Tail(toServer)
  BY DEF ServeDetach, Served
<1>3. /\ PendingNow /\ Head(toServer).request = Newest /\ Answers = {} /\ server.serving = None
      /\ Kind # "attach"
  BY <1>2, CommandTaken
<1>4. server \in ServerRecord /\ toClient \in Seq(Answer) /\ server.revision \in Nat
  BY BoundsAssumption DEF IndInv, Shape, ServerShape, WireShape, ServerRecord
<1>. DEFINE s == [server EXCEPT !.attached = FALSE]
<1>5. s \in ServerRecord /\ s.attached = FALSE /\ s.revision = server.revision /\ s.serving = None
  BY <1>3, <1>4 DEF ServerRecord
<1>. HIDE DEF s
<1>6. /\ server' \in ServerRecord /\ server'.attached = FALSE /\ server'.revision = server.revision
      /\ server'.serving = None
  <2>1. server' \in AfterUse(s)
    BY <1>1 DEF s
  <2>. QED  BY <1>5, <2>1, AfterUseKeeps
<1>7. Message(Newest, ok, server') \in Answer /\ Fits(Message(Newest, ok, server'))
  BY <1>3, <1>6, MessageFits
<1>8. Says
  BY <1>1, <1>3, <1>4, <1>7, Adding
<1>9. Effects
  BY <1>2, <1>3, <1>6 DEF Effects
<1>. QED  BY <1>2, <1>4, <1>6, <1>8, <1>9 DEF ServerStep

\* A snapshot is broadcast.
LEMMA BroadcastMoves ==
    ASSUME IndInv, HeldInv, AnswerPrompt \/ RuntimeChanges
    PROVE  ServerStep /\ server.revision <= server'.revision
<1>1. server \in ServerRecord /\ server.prompts \in Nat /\ server.revision \in 0 .. MaxRevision
      /\ toClient \in Seq(Answer) /\ server.revision \in Nat
  BY BoundsAssumption DEF IndInv, Shape, WireShape, ServerShape, ServerRecord
<1>2. UNCHANGED clientVars /\ server.revision < MaxRevision
  BY DEF AnswerPrompt, RuntimeChanges
<1>3. server.revision + 1 \in 0 .. MaxRevision
  BY <1>1, <1>2, BoundsAssumption
<1>4. \E s \in ServerRecord :
          /\ toClient' = Append(toClient, Message(None, TRUE, s))
          /\ s.attached = server'.attached /\ s.revision = server'.revision
          /\ server'.attached = server.attached /\ server'.revision = server.revision + 1
          /\ server'.serving = server.serving
  <2>1. CASE AnswerPrompt
    <3>. DEFINE s == [server EXCEPT !.prompts = server.prompts - 1, !.revision = server.revision + 1]
    <3>1. toClient' = Append(toClient, Message(None, TRUE, s)) /\ server' \in AfterUse(s) /\ server.prompts > 0
      BY <2>1 DEF AnswerPrompt
    <3>2. server.prompts - 1 \in Nat
      BY <1>1, <3>1
    <3>3. s \in ServerRecord /\ s.attached = server.attached /\ s.revision = server.revision + 1
          /\ s.serving = server.serving
      BY <1>1, <1>3, <3>2 DEF ServerRecord
    <3>. HIDE DEF s
    <3>4. server'.attached = s.attached /\ server'.revision = s.revision /\ server'.serving = s.serving
      BY <3>1, <3>3, AfterUseKeeps
    <3>. QED  BY <3>1, <3>3, <3>4
  <2>2. CASE RuntimeChanges
    <3>1. server' = [server EXCEPT !.revision = server.revision + 1]
          /\ toClient' = Append(toClient, Message(None, TRUE, server'))
      BY <2>2 DEF RuntimeChanges
    <3>2. /\ server' \in ServerRecord /\ server'.attached = server.attached
          /\ server'.revision = server.revision + 1 /\ server'.serving = server.serving
      BY <1>1, <1>3, <3>1 DEF ServerRecord
    <3>. QED  BY <3>1, <3>2
  <2>. QED  BY <2>1, <2>2
<1>5. PICK s \in ServerRecord :
          /\ toClient' = Append(toClient, Message(None, TRUE, s))
          /\ s.attached = server'.attached /\ s.revision = server'.revision
          /\ server'.attached = server.attached /\ server'.revision = server.revision + 1
          /\ server'.serving = server.serving
  BY <1>4
<1>6. Message(None, TRUE, s) \in Answer /\ Fits(Message(None, TRUE, s))
  BY <1>5, MessageFits
<1>7. Says
  BY <1>1, <1>5, <1>6, Adding
<1>8. Effects
  BY <1>5 DEF Effects, HeldInv, ServingFits
<1>. QED  BY <1>1, <1>2, <1>5, <1>7, <1>8 DEF ServerStep

--------------------------------------------------------------------------------
(* Messages taken and connections lost.                                          *)

\* Every request keeps its outcome.
OutcomesStay ==
    /\ Newest' = Newest /\ Newest \in Nat
    /\ \A i \in 1 .. Newest : SameOutcome(requests[i], requests'[i])

\* Then the failures stay what they are.
LEMMA OutcomesKept ==
    ASSUME OutcomesStay
    PROVE  /\ Newest > 0 => Kind' = Kind
           /\ Unsettled' <=> Unsettled
           /\ DetachFailed' <=> DetachFailed
           /\ AttachFailed' <=> AttachFailed
           /\ Known' \subseteq Known \cup {revision'}
<1>1. /\ Newest \in Nat /\ Request = 1 .. Newest /\ Request' = 1 .. Newest /\ Newest' = Newest
      /\ Newest > 0 => Newest \in 1 .. Newest
  BY DEF OutcomesStay, Request, Newest
<1>2. \A i \in 1 .. Newest : /\ requests'[i].kind = requests[i].kind
                             /\ requests'[i].settled = requests[i].settled
                             /\ requests'[i].ok = requests[i].ok
                             /\ requests'[i].previous = requests[i].previous
  BY DEF OutcomesStay, SameOutcome
<1>3. (Newest > 0 => Kind' = Kind) /\ (Unsettled' <=> Unsettled)
  BY <1>1, <1>2 DEF Kind, Unsettled
<1>4. DetachFailed' <=> DetachFailed
  BY <1>1, <1>2 DEF DetachFailed
<1>5. AttachFailed' <=> AttachFailed
  BY <1>1, <1>2 DEF AttachFailed
<1>6. Known' \subseteq Known \cup {revision'}
  BY <1>1, <1>2 DEF Known
<1>. QED  BY <1>3, <1>4, <1>5, <1>6

\* A request that is answered, or whose connection is gone, has no outcome yet.
LEMMA DoneRecord ==
    ASSUME NEW r \in RequestRecord
    PROVE  SameOutcome(r, [r EXCEPT !.state = "done"])
BY DEF RequestRecord, SameOutcome

\* The answer to the newest request is taken.
LEMMA AnswerStays ==
    ASSUME IndInv, PendingNow, requests' = [requests EXCEPT ![Newest].state = "done"]
    PROVE  OutcomesStay
<1>1. /\ requests \in Seq(RequestRecord) /\ Newest \in Nat /\ DOMAIN requests = 1 .. Newest
      /\ Newest = Len(requests) /\ Newest \in DOMAIN requests /\ requests[Newest] \in RequestRecord
  BY QueueFacts DEF PendingNow
<1>. DEFINE r == [requests[Newest] EXCEPT !.state = "done"]
<1>2. r \in RequestRecord /\ SameOutcome(requests[Newest], r)
  BY <1>1, DoneRecord DEF RequestRecord
<1>3. requests' = [requests EXCEPT ![Newest] = r]
  BY <1>1
<1>. HIDE DEF r
<1>4. /\ Len(requests') = Newest /\ requests'[Newest] = r
      /\ \A k \in DOMAIN requests : k # Newest => requests'[k] = requests[k]
  BY <1>1, <1>2, <1>3, UpdateIs
<1>5. ASSUME NEW i \in 1 .. Newest PROVE SameOutcome(requests[i], requests'[i])
  BY <1>1, <1>2, <1>4 DEF SameOutcome
<1>. QED  BY <1>1, <1>4, <1>5 DEF OutcomesStay, Newest

\* The pending requests are rejected.
LEMMA RejectionStays ==
    ASSUME IndInv, RejectPending, Newest' = Newest
    PROVE  OutcomesStay
<1>1. requests \in Seq(RequestRecord) /\ Newest \in Nat /\ Newest = Len(requests) /\ Request = 1 .. Newest
  BY QueueFacts DEF Request, Newest
<1>2. ASSUME NEW i \in 1 .. Newest PROVE SameOutcome(requests[i], requests'[i])
  <2>1. requests[i] \in RequestRecord
    BY <1>1
  <2>2. requests'[i] = [requests[i] EXCEPT !.state = "done"]
    BY <1>1 DEF RejectPending
  <2>. QED  BY <2>1, <2>2, DoneRecord
<1>. QED  BY <1>1, <1>2 DEF OutcomesStay

\* What the server said from the message behind the first on, it says from the first on when
\* that one is taken.
LEMMA SaidBehind ==
    ASSUME IndInv, toClient # <<>>, toClient' = Tail(toClient), server' = server, NEW n \in Nat
    PROVE  /\ AttachedFrom(n + 1) => AttachedFrom(n)'
           /\ DetachedFrom(n + 1) => DetachedFrom(n)'
<1>1. /\ \A k \in DOMAIN toClient' : k + 1 \in DOMAIN toClient /\ toClient'[k] = toClient[k + 1]
      /\ DOMAIN toClient' = 1 .. Len(toClient) - 1
  <2>1. toClient \in Seq(Answer)
    BY DEF IndInv, Shape, WireShape
  <2>. QED  BY <2>1, TailIs
<1>2. \A k \in DOMAIN toClient' : k > n => k + 1 > n + 1
  <2>1. toClient \in Seq(Answer)
    BY DEF IndInv, Shape, WireShape
  <2>. QED  BY <1>1, <2>1
<1>. QED  BY <1>1, <1>2 DEF AttachedFrom, DetachedFrom, Told

\* A message taken: what there is to know about it.
LEMMA ReceiveFacts ==
    ASSUME IndInv, HeldInv, Receive
    PROVE  /\ NoReactionRan /\ toClient # <<>> /\ toClient' = Tail(toClient) /\ connection = "connected"
           /\ Head(toClient) = toClient[1] /\ 1 \in DOMAIN toClient /\ Head(toClient) \in Answer
           /\ \A k \in DOMAIN toClient' :
                  k \in Nat /\ k + 1 > 1 /\ k + 1 \in DOMAIN toClient /\ toClient'[k] = toClient[k + 1]
           /\ UNCHANGED <<connection, connects, handles, count, exclusive, generation, attachment, detachment,
                          reconciliation, cleanupRequired, toServer, server>>
           /\ OutcomesStay /\ (Unsettled => Kind' = Kind)
           /\ Head(toClient).request # None => /\ Unsettled /\ jobs' = <<Settle(Newest, Head(toClient).ok)>>
                                               /\ \A k \in DOMAIN toClient' : toClient'[k].request = None
           /\ Head(toClient).request = None => jobs' = jobs
<1>. DEFINE m == Head(toClient)
<1>1. /\ NoReactionRan /\ connection = "connected" /\ toClient # <<>> /\ toClient' = Tail(toClient)
      /\ UNCHANGED <<connection, connects, handles, count, exclusive, generation, attachment, detachment,
                     reconciliation, cleanupRequired, toServer, server>>
  BY DEF Receive
<1>2. /\ m \in Answer
      /\ m.request # None => PendingNow /\ m.request = Newest /\ Answers' = {}
  BY <1>1, MessageTaken
<1>3. /\ m = toClient[1] /\ 1 \in DOMAIN toClient /\ DOMAIN toClient' = 1 .. Len(toClient) - 1
      /\ \A k \in DOMAIN toClient' : k + 1 \in DOMAIN toClient /\ toClient'[k] = toClient[k + 1]
      /\ Len(toClient) \in Nat
  <2>1. toClient \in Seq(Answer)
    BY DEF IndInv, Shape, WireShape
  <2>. QED  BY <1>1, <2>1, TailIs
<1>4. \A k \in DOMAIN toClient' : k \in Nat /\ k + 1 > 1
  BY <1>3
<1>5. CASE m.request # None
  <2>6. jobs = <<>>
    BY <1>1, <1>2, <1>5, FirstInChunk
  <2>1. requests' = [requests EXCEPT ![Newest].state = "done"] /\ jobs' = <<Settle(Newest, m.ok)>>
    BY <1>2, <1>5, <2>6 DEF Receive
  <2>2. OutcomesStay
    BY <1>2, <1>5, <2>1, AnswerStays
  <2>3. Unsettled
    BY <1>3, <1>5, AnswerAwaited
  <2>4. \A k \in DOMAIN toClient' : toClient'[k].request = None
    BY <1>2, <1>5 DEF Answers
  <2>5. Unsettled => Kind' = Kind
    BY <2>2, OutcomesKept DEF Unsettled
  <2>. QED  BY <1>1, <1>2, <1>3, <1>4, <1>5, <2>1, <2>2, <2>3, <2>4, <2>5
<1>6. CASE m.request = None
  <2>1. requests' = requests /\ jobs' = jobs
    BY <1>1, <1>6 DEF Receive
  <2>2. Newest' = Newest /\ Newest \in Nat
    BY <2>1, QueueFacts DEF Newest
  <2>3. OutcomesStay
    BY <2>1, <2>2 DEF OutcomesStay, SameOutcome
  <2>4. Unsettled => Kind' = Kind
    BY <2>3, OutcomesKept DEF Unsettled
  <2>. QED  BY <1>1, <1>2, <1>3, <1>4, <1>6, <2>1, <2>3, <2>4
<1>. QED  BY <1>5, <1>6

\* The settling reaction, alone in the queue.
LEMMA SettleAlone ==
    ASSUME NEW i, NEW ok, NEW js, js = <<Settle(i, ok)>>
    PROVE  \A k \in DOMAIN js : js[k].step = "settle" /\ js[k].ok = ok
BY DEF Settle

\* Taking a message keeps the server's side.
LEMMA ReceiveHolds ==
    ASSUME IndInv, HeldInv, Receive
    PROVE  HeldInv'
<1>. DEFINE m == Head(toClient)
<1>1. /\ NoReactionRan /\ toClient # <<>> /\ toClient' = Tail(toClient) /\ connection = "connected"
      /\ m = toClient[1] /\ 1 \in DOMAIN toClient
      /\ \A k \in DOMAIN toClient' :
             k \in Nat /\ k + 1 > 1 /\ k + 1 \in DOMAIN toClient /\ toClient'[k] = toClient[k + 1]
      /\ connection' = connection /\ count' = count /\ cleanupRequired' = cleanupRequired /\ server' = server
      /\ OutcomesStay /\ (Unsettled => Kind' = Kind)
      /\ m.request # None => /\ Unsettled /\ jobs' = <<Settle(Newest, m.ok)>>
                             /\ \A k \in DOMAIN toClient' : toClient'[k].request = None
      /\ m.request = None => jobs' = jobs
  BY ReceiveFacts
<1>2. /\ Unsettled' <=> Unsettled
      /\ DetachFailed' <=> DetachFailed
      /\ AttachFailed' <=> AttachFailed
  BY <1>1, OutcomesKept
<1>3. \A n \in Nat : (AttachedFrom(n + 1) => AttachedFrom(n)') /\ (DetachedFrom(n + 1) => DetachedFrom(n)')
  BY <1>1, SaidBehind
<1>4. AnswersFit'
  <2>1. ASSUME NEW k \in DOMAIN toClient'
        PROVE  /\ toClient'[k].detached = (toClient'[k].request # None /\ Kind' # "attach")
               /\ toClient'[k].request # None /\ toClient'[k].ok =>
                      IF Kind' = "attach" THEN toClient'[k].attached /\ AttachedFrom(k)' ELSE DetachedFrom(k)'
    <3>1. k \in Nat /\ k + 1 \in DOMAIN toClient /\ toClient'[k] = toClient[k + 1]
      BY <1>1
    <3>. DEFINE l == k + 1
    <3>2. /\ toClient[l].detached = (toClient[l].request # None /\ Kind # "attach")
          /\ toClient[l].request # None /\ toClient[l].ok =>
                 IF Kind = "attach" THEN toClient[l].attached /\ AttachedFrom(l) ELSE DetachedFrom(l)
      BY <3>1 DEF HeldInv, AnswersFit
    <3>3. toClient[l].request # None => Kind' = Kind
      BY <1>1, <3>1, AnswerAwaited
    <3>4. (AttachedFrom(l) => AttachedFrom(k)') /\ (DetachedFrom(l) => DetachedFrom(k)')
      BY <1>3, <3>1
    <3>. HIDE DEF l
    <3>5. toClient'[k] = toClient[l]
      BY <3>1 DEF l
    <3>. QED  BY <3>2, <3>3, <3>4, <3>5
  <2>. QED  BY <2>1 DEF AnswersFit
<1>5. JobsTell'
  <2>1. CASE m.request # None
    <3>1. m.ok => IF Kind = "attach" THEN AttachedFrom(1) ELSE DetachedFrom(1)
      BY <1>1, <2>1 DEF HeldInv, AnswersFit
    <3>2. (AttachedFrom(1) => AttachedFrom(0)') /\ (DetachedFrom(1) => DetachedFrom(0)')
      <4>1. 0 \in Nat /\ 0 + 1 = 1
        OBVIOUS
      <4>. QED  BY <1>3, <4>1
    <3>3. \A k \in DOMAIN jobs' : jobs'[k].step = "settle" /\ jobs'[k].ok = m.ok
      BY <1>1, <2>1, SettleAlone
    <3>. QED  BY <1>1, <2>1, <3>1, <3>2, <3>3 DEF JobsTell, JobTells
  <2>2. CASE m.request = None
    <3>1. (AttachedFrom(0) => AttachedFrom(0)') /\ (DetachedFrom(0) => DetachedFrom(0)')
      <4>1. 0 \in Nat /\ 0 + 1 = 1
        OBVIOUS
      <4>2. (AttachedFrom(0) => AttachedFrom(1)) /\ (DetachedFrom(0) => DetachedFrom(1))
        <5>1. DOMAIN toClient = 1 .. Len(toClient)
          BY DEF IndInv, Shape, WireShape
        <5>. QED  BY <5>1 DEF AttachedFrom, DetachedFrom
      <4>. QED  BY <1>3, <4>1, <4>2
    <3>2. ASSUME NEW k \in DOMAIN jobs PROVE JobTells(jobs[k])'
      <4>1. jobs[k].step = "settle" /\ JobTells(jobs[k]) /\ jobs'[k] = jobs[k]
        BY <1>1, <2>2, <3>2 DEF NoReactionRan, HeldInv, JobsTell
      <4>2. Kind' = Kind
        BY <1>1, <3>2, <4>1 DEF IndInv, Settles
      <4>. QED  BY <3>1, <4>1, <4>2 DEF JobTells
    <3>. QED  BY <1>1, <2>2, <3>2 DEF JobsTell
  <2>. QED  BY <2>1, <2>2
<1>6. CleanupTells'
  BY <1>1, <1>2 DEF HeldInv, CleanupTells
<1>7. SomebodyAnswers'
  BY <1>1, <1>2 DEF HeldInv, SomebodyAnswers
<1>8. ServingFits'
  <2>1. server.serving # None => Unsettled
    <3>1. server.serving # None => PendingNow
      BY DEF IndInv, WireFits
    <3>2. Newest \in Nat
      BY QueueFacts
    <3>. QED  BY <3>1, <3>2 DEF IndInv, OneUnsettled, PendingNow, Unsettled
  <2>. QED  BY <1>1, <2>1 DEF HeldInv, ServingFits
<1>. QED  BY <1>4, <1>5, <1>6, <1>7, <1>8 DEF HeldInv

\* While a detach is under way no lease is active.
LEMMA DetachedAlone ==
    ASSUME IndInv, Unsettled, Kind = "detach", NEW h \in Handles, Valid(h)
    PROVE  handles[h].state # "active"
<1>1. Waiters # <<>> /\ Waiters \in Seq(Reaction) /\ DOMAIN Waiters = 1 .. Len(Waiters) /\ Len(Waiters) \in Nat
  BY QueueFacts DEF IndInv, WaitersFit
<1>2. 1 \in DOMAIN Waiters
  BY <1>1
<1>3. Waiters[1].step = "afterDetach" /\ Backed(Waiters[1])
  BY <1>2 DEF IndInv, WaitersFit, HandlesBacked
<1>4. handles[Waiters[1].handle].state = "releasing"
  BY <1>3 DEF Backed, ReleaseSteps
<1>5. Live(h) => h = Waiters[1].handle
  BY DEF IndInv, ReleaserAlone
<1>. QED  BY <1>4, <1>5 DEF Live

\* Taking a message keeps the client's side.
LEMMA ReceiveSeen ==
    ASSUME IndInv, IndInv', HeldInv, ViewInv, Receive
    PROVE  ViewInv'
<1>. DEFINE m == Head(toClient)
<1>1. /\ NoReactionRan /\ toClient # <<>> /\ toClient' = Tail(toClient)
      /\ m = toClient[1] /\ 1 \in DOMAIN toClient /\ m \in Answer
      /\ \A k \in DOMAIN toClient' :
             k \in Nat /\ k + 1 > 1 /\ k + 1 \in DOMAIN toClient /\ toClient'[k] = toClient[k + 1]
      /\ handles' = handles /\ generation' = generation /\ server' = server
      /\ OutcomesStay /\ (Unsettled => Kind' = Kind)
      /\ m.request # None => Unsettled /\ jobs' = <<Settle(Newest, m.ok)>>
      /\ m.request = None => jobs' = jobs
  BY ReceiveFacts
<1>2. /\ Unsettled' <=> Unsettled
      /\ DetachFailed' <=> DetachFailed
      /\ Known' \subseteq Known \cup {revision'}
  BY <1>1, OutcomesKept
<1>3. \A n \in Nat : AttachedFrom(n + 1) => AttachedFrom(n)'
  BY <1>1, SaidBehind
<1>4. /\ m.detached = (m.request # None /\ Kind # "attach")
      /\ m.request # None /\ m.ok => (Kind = "attach" => m.attached)
      /\ m.ok \in BOOLEAN /\ m.attached \in BOOLEAN /\ m.detached \in BOOLEAN /\ m.revision \in Nat
      /\ attached \in BOOLEAN
  BY <1>1, BoundsAssumption DEF HeldInv, AnswersFit, Answer, IndInv, Shape, FlagShape
<1>5. revision # None => revision \in Nat /\ revision <= m.revision
  BY <1>1, KnownNumbers DEF ViewInv, RevisionsFit, Known
<1>6. Applies(m)
  <2>. HIDE DEF m
  <2>. QED  BY <1>4, <1>5 DEF Applies
<1>7. /\ attached' = IF ~ m.ok THEN attached ELSE IF m.detached THEN FALSE ELSE m.attached
      /\ revision' \in {revision, m.revision}
  <2>1. /\ attached' = IF ~ m.ok THEN attached
                       ELSE IF m.detached THEN FALSE
                       ELSE IF Applies(m) THEN m.attached ELSE attached
        /\ revision' = IF m.ok /\ ~ m.detached /\ Applies(m) THEN m.revision ELSE revision
    BY DEF Receive
  <2>. HIDE DEF m
  <2>. QED  BY <1>6, <2>1
<1>8. RevisionsFit'
  <2>1. \A k \in DOMAIN toClient' : m.revision <= toClient'[k].revision
    <3>1. \A k \in DOMAIN toClient : k > 1 => toClient[1].revision <= toClient[k].revision
      <4>1. DOMAIN toClient = 1 .. Len(toClient)
        BY DEF IndInv, Shape, WireShape
      <4>. QED  BY <1>1, <4>1 DEF ViewInv, RevisionsFit
    <3>. QED  BY <1>1, <3>1
  <2>2. m.revision <= server.revision
    BY <1>1 DEF ViewInv, RevisionsFit
  <2>3. \A r \in Known' : r \in Known \/ r = m.revision
    <3>1. None \notin Known'
      BY DEF Known
    <3>2. revision \in Known \cup {None}
      BY DEF Known
    <3>. HIDE DEF m
    <3>. QED  BY <1>2, <1>7, <3>1, <3>2
  <2>4. \A r \in Known' : r <= server'.revision /\ \A k \in DOMAIN toClient' : r <= toClient'[k].revision
    <3>1. \A r \in Known : r <= server.revision /\ \A k \in DOMAIN toClient : r <= toClient[k].revision
      BY DEF ViewInv, RevisionsFit
    <3>. QED  BY <1>1, <2>1, <2>2, <2>3, <3>1
  <2>5. \A k \in DOMAIN toClient' : toClient'[k].revision <= server'.revision
    BY <1>1 DEF ViewInv, RevisionsFit
  <2>6. \A k, l \in DOMAIN toClient' : k < l => toClient'[k].revision <= toClient'[l].revision
    <3>1. \A k, l \in DOMAIN toClient' : k < l => k + 1 < l + 1
      BY <1>1
    <3>. QED  BY <1>1, <3>1 DEF ViewInv, RevisionsFit
  <2>. QED  BY <2>4, <2>5, <2>6 DEF RevisionsFit
<1>9. Doubtful => Doubtful'
  BY <1>1, <1>2 DEF Doubtful
<1>10. ViewFits'
  <2>1. AttachedFrom(0) \/ AttachedFrom(1) => AttachedFrom(0)'
    <3>1. 0 \in Nat /\ 0 + 1 = 1
      OBVIOUS
    <3>2. AttachedFrom(1) => AttachedFrom(0)'
      BY <1>3, <3>1
    <3>3. AttachedFrom(0) => AttachedFrom(1)
      <4>1. DOMAIN toClient = 1 .. Len(toClient)
        BY DEF IndInv, Shape, WireShape
      <4>. QED  BY <4>1 DEF AttachedFrom
    <3>. QED  BY <3>2, <3>3
  <2>2. attached' => Doubtful \/ AttachedFrom(0)'
    <3>1. CASE ~ m.ok
      <4>1. attached' = attached
        BY <1>7, <3>1
      <4>. QED  BY <2>1, <4>1 DEF ViewInv, ViewFits
    <3>2. CASE m.ok /\ ~ m.detached
      <4>1. attached' = m.attached
        BY <1>7, <3>2
      <4>2. m.attached => Doubtful \/ AttachedFrom(1)
        BY <1>1, <3>2 DEF ViewInv, ViewFits, Told
      <4>. QED  BY <2>1, <4>1, <4>2
    <3>3. CASE m.ok /\ m.detached
      BY <1>7, <3>3
    <3>. QED  BY <1>4, <3>1, <3>2, <3>3
  <2>3. ASSUME NEW k \in DOMAIN toClient', Told(toClient'[k]), toClient'[k].attached
        PROVE  Doubtful \/ AttachedFrom(k)'
    <3>1. k \in Nat /\ k + 1 \in DOMAIN toClient /\ toClient'[k] = toClient[k + 1]
      BY <1>1
    <3>2. Doubtful \/ AttachedFrom(k + 1)
      BY <2>3, <3>1 DEF ViewInv, ViewFits
    <3>. QED  BY <1>3, <3>1, <3>2
  <2>. QED  BY <1>9, <2>2, <2>3 DEF ViewFits, Told
<1>11. ActiveLeasesAreAttached'
  <2>1. ASSUME NEW h \in Handles, handles[h].state = "active", Valid(h), ~ DetachFailed PROVE attached'
    <3>1. attached
      BY <2>1 DEF ViewInv, ActiveLeasesAreAttached
    <3>2. ~ (Unsettled /\ Kind = "detach")
      BY <2>1, DetachedAlone
    <3>3. ~ Doubtful
      BY <2>1, <3>2 DEF Doubtful
    <3>4. AttachedFrom(0)
      BY <3>1, <3>3 DEF ViewInv, ViewFits
    <3>5. ~ (Unsettled /\ Kind = "reconcile")
      BY <2>1 DEF HeldInv, CleanupTells
    <3>6. ~ m.detached
      <4>1. m.request # None => Unsettled
        BY <1>1
      <4>2. Unsettled => Kind \in Kinds
        BY QueueFacts
      <4>. QED  BY <1>4, <3>2, <3>5, <4>1, <4>2 DEF Kinds
    <3>7. m.ok => m.attached
      <4>1. 1 > 0
        OBVIOUS
      <4>. QED  BY <1>1, <3>4, <3>6, <4>1 DEF AttachedFrom, Told
    <3>. QED  BY <1>4, <1>7, <3>1, <3>6, <3>7
  <2>. QED  BY <1>1, <1>2, <2>1 DEF ActiveLeasesAreAttached, Valid
<1>12. ASSUME NEW k \in DOMAIN jobs' PROVE JobSees(jobs[k])'
  <2>1. CASE m.request # None
    <3>1. jobs'[k].step = "settle" /\ jobs'[k].ok = m.ok
      BY <1>1, <1>12, <2>1, SettleAlone
    <3>2. Kind' = Kind
      BY <1>1, <2>1
    <3>3. m.ok => (attached' <=> Kind = "attach")
      BY <1>4, <1>7, <2>1
    <3>4. attached' \in BOOLEAN
      BY DEF IndInv, Shape, FlagShape
    <3>. HIDE DEF m
    <3>. QED  BY <3>1, <3>2, <3>3, <3>4 DEF JobSees
  <2>2. CASE m.request = None
    <3>1. k \in DOMAIN jobs /\ jobs'[k] = jobs[k]
      BY <1>1, <1>12, <2>2
    <3>2. jobs[k].step = "settle" /\ JobSees(jobs[k])
      BY <1>1, <3>1 DEF NoReactionRan, ViewInv
    <3>3. Unsettled /\ Kind' = Kind
      BY <1>1, <3>1, <3>2 DEF IndInv, Settles
    <3>4. jobs[k].ok => IF Kind = "attach" THEN AttachedFrom(0) ELSE DetachedFrom(0)
      BY <3>1, <3>2 DEF HeldInv, JobsTell, JobTells
    <3>5. ~ m.detached /\ 1 > 0
      BY <1>4, <2>2
    <3>6. jobs[k].ok /\ m.ok => m.attached = (Kind = "attach")
      BY <1>1, <1>4, <3>4, <3>5 DEF AttachedFrom, DetachedFrom, Told
    <3>7. attached' = IF m.ok THEN m.attached ELSE attached
      BY <1>4, <1>7, <3>5
    <3>. HIDE DEF m
    <3>8. jobs[k].ok => attached' = (Kind = "attach")
      BY <1>4, <3>2, <3>6, <3>7 DEF JobSees
    <3>. QED  BY <3>1, <3>2, <3>3, <3>8 DEF JobSees
  <2>. QED  BY <2>1, <2>2
<1>. QED  BY <1>8, <1>10, <1>11, <1>12 DEF ViewInv

\* Nobody holds a lease when none is counted.
LEMMA NoneActive ==
    ASSUME NEW hs, NEW g, NEW e, CountIs(hs, g, 0, e)
    PROVE  \A h \in Handles : ~ (hs[h].state = "active" /\ hs[h].generation = g)
<1>1. InUse(hs, g) = {}
  BY FS_EmptySet DEF CountIs
<1>. QED  BY <1>1 DEF InUse

\* The connection is lost or given up.
LEMMA DisconnectHolds ==
    ASSUME IndInv, IndInv', HeldInv, "reentrant" \notin Faults, LoseConnection \/ Dispose
    PROVE  HeldInv' /\ (ViewInv => ViewInv')
<1>1. /\ jobs = <<>> /\ connection' # "connected" /\ attached' = FALSE /\ toClient' = <<>>
      /\ InvalidateAllLeases /\ RejectPending /\ revision' \in {revision, None}
      /\ server' = [server EXCEPT !.attached = FALSE, !.serving = None, !.prompts = 0, !.live = FALSE]
  BY DEF LoseConnection, Dispose, Disconnect, ServerDisconnect
<1>2. /\ Newest' = Newest
      /\ ~ Unsettled => DOMAIN jobs' = {}
      /\ Unsettled => DOMAIN jobs' = {1} /\ jobs'[1].step = "settle" /\ ~ jobs'[1].ok
  BY <1>1, Rejected
<1>3. OutcomesStay
  BY <1>1, <1>2, RejectionStays
<1>4. /\ Newest > 0 => Kind' = Kind
      /\ Unsettled' <=> Unsettled
      /\ DetachFailed' <=> DetachFailed
      /\ Known' \subseteq Known \cup {revision'}
  BY <1>3, OutcomesKept
<1>5. server \in ServerRecord
  BY DEF IndInv, Shape, ServerShape, ServerRecord
<1>6. server'.attached = FALSE /\ server'.serving = None /\ server'.revision = server.revision
  BY <1>1, <1>5 DEF ServerRecord
<1>7. count' = 0 /\ cleanupRequired' = FALSE
  <2>1. count \in Nat
    BY DEF IndInv, Shape, CountShape
  <2>. QED  BY <1>1, <2>1 DEF InvalidateAllLeases, InvalidateLeases
<1>8. \A k \in DOMAIN jobs' : jobs'[k].step = "settle" /\ ~ jobs'[k].ok
  BY <1>2
<1>9. DOMAIN toClient' = {}
  BY <1>1
<1>10. HeldInv'
  <2>1. AnswersFit'
    BY <1>9 DEF AnswersFit
  <2>2. JobsTell'
    BY <1>8 DEF JobsTell, JobTells
  <2>3. CleanupTells'
    BY <1>1, <1>4, <1>7 DEF HeldInv, CleanupTells, Unsettled
  <2>4. SomebodyAnswers' /\ ServingFits'
    BY <1>1, <1>6 DEF SomebodyAnswers, ServingFits
  <2>. QED  BY <2>1, <2>2, <2>3, <2>4 DEF HeldInv
<1>11. ASSUME ViewInv PROVE ViewInv'
  <2>1. Known' \subseteq Known
    BY <1>1, <1>4 DEF Known
  <2>2. RevisionsFit'
    BY <1>6, <1>9, <1>11, <2>1 DEF ViewInv, RevisionsFit
  <2>3. ViewFits'
    BY <1>1, <1>9 DEF ViewFits
  <2>4. ActiveLeasesAreAttached'
    <3>1. CountIs(handles', generation', 0, exclusive')
      BY <1>7 DEF IndInv, CountFits
    <3>. QED  BY <3>1, NoneActive DEF ActiveLeasesAreAttached, Valid
  <2>5. \A k \in DOMAIN jobs' : JobSees(jobs[k])'
    BY <1>8 DEF JobSees
  <2>. QED  BY <2>2, <2>3, <2>4, <2>5 DEF ViewInv
<1>. QED  BY <1>10, <1>11

\* connect() and the handshake.
LEMMA ConnectHolds ==
    ASSUME IndInv, HeldInv, "reentrant" \notin Faults, Connect \/ Handshake
    PROVE  HeldInv' /\ (ViewInv => ViewInv')
<1>1. /\ jobs = <<>> /\ connection # "connected" /\ revision' \in {revision, None}
      /\ attached' \in {attached, FALSE}
      /\ UNCHANGED <<handles, count, generation, cleanupRequired, requests, jobs, toClient, server>>
  BY DEF Connect, Handshake, MayCall
<1>2. /\ attached = FALSE /\ toClient = <<>> /\ server.serving = None /\ ~ server.attached /\ ~ PendingNow
  BY <1>1 DEF IndInv, Disconnected, Shape, FlagShape
<1>3. ~ Unsettled
  BY <1>1, <1>2, IdleFacts
<1>4. Newest' = Newest /\ Newest \in Nat
  BY <1>1, QueueFacts DEF Newest
<1>5. OutcomesStay
  BY <1>1, <1>4 DEF OutcomesStay, SameOutcome
<1>6. /\ Unsettled' <=> Unsettled
      /\ DetachFailed' <=> DetachFailed
      /\ Known' \subseteq Known \cup {revision'}
  BY <1>5, OutcomesKept
<1>7. DOMAIN toClient' = {} /\ DOMAIN jobs' = {}
  BY <1>1, <1>2
<1>8. HeldInv'
  <2>1. AnswersFit' /\ JobsTell'
    BY <1>7 DEF AnswersFit, JobsTell
  <2>2. CleanupTells'
    BY <1>1, <1>3, <1>6 DEF HeldInv, CleanupTells
  <2>3. SomebodyAnswers' /\ ServingFits'
    BY <1>1, <1>2 DEF SomebodyAnswers, ServingFits
  <2>. QED  BY <2>1, <2>2, <2>3 DEF HeldInv
<1>9. ASSUME ViewInv PROVE ViewInv'
  <2>1. Known' \subseteq Known
    BY <1>1, <1>6 DEF Known
  <2>2. RevisionsFit'
    BY <1>1, <1>7, <1>9, <2>1 DEF ViewInv, RevisionsFit
  <2>3. ViewFits'
    BY <1>1, <1>2, <1>7 DEF ViewFits
  <2>4. ActiveLeasesAreAttached'
    BY <1>1, <1>2, <1>6, <1>9 DEF ViewInv, ActiveLeasesAreAttached, Valid
  <2>. QED  BY <1>7, <2>2, <2>3, <2>4 DEF ViewInv
<1>. QED  BY <1>8, <1>9

\* A reaction runs.
LEMMA RunJobHolds ==
    ASSUME IndInv, IndInv', HeldInv, RunJob
    PROVE  HeldInv' /\ (ViewInv => ViewInv')
<1>. DEFINE j == Head(jobs)
<1>1. jobs # <<>> /\ UNCHANGED <<connection, connects, generation, attached, toClient, server>>
  BY DEF RunJob
<1>2. \/ j.step = "settle" /\ SettlePromise(j)
      \/ j.step = "caught" /\ CatchDetachment(j)
      \/ j.step = "afterDetachment" /\ AfterDetachment(j)
      \/ j.step = "afterReconciliation" /\ AfterReconciliation(j)
      \/ j.step = "afterAttach" /\ AfterAttach(j)
      \/ j.step = "afterDetach" /\ AfterDetach(j)
      \/ j.step = "releaseFailed" /\ ReleaseFailed(j)
  BY DEF RunJob
<1>3. CASE j.step = "settle" /\ SettlePromise(j)
  BY <1>1, <1>3, SettleMoves
<1>4. CASE ~ (j.step = "settle" /\ SettlePromise(j))
  <2>1. ClientStep /\ AnsweredStep /\ (ViewInv => LeasedStep)
    <3>1. CASE \/ j.step = "caught" /\ CatchDetachment(j)
               \/ j.step = "afterDetach" /\ AfterDetach(j)
      BY <1>1, <3>1, DetachMoves
    <3>2. CASE \/ j.step = "afterDetachment" /\ AfterDetachment(j)
               \/ j.step = "afterReconciliation" /\ j.ok /\ AfterReconciliation(j)
      BY <1>1, <3>2, ResumeMoves
    <3>3. CASE j.step = "afterReconciliation" /\ ~ j.ok /\ AfterReconciliation(j)
      BY <1>1, <3>3, ReconciliationFailsMoves
    <3>4. CASE j.step = "afterAttach" /\ AfterAttach(j)
      BY <1>1, <3>4, AttachMoves
    <3>5. CASE j.step = "releaseFailed" /\ ReleaseFailed(j)
      BY <1>1, <3>5, ReleaseFailedMoves
    <3>. QED  BY <1>2, <1>4, <3>1, <3>2, <3>3, <3>4, <3>5
  <2>. QED  BY <2>1, HeldQuietly, ViewQuietly
<1>. QED  BY <1>3, <1>4

--------------------------------------------------------------------------------
(* The theorems about the attachment.                                            *)

\* At the start nothing is attached and nothing was said.
LEMMA InitViewed ==
    ASSUME Init
    PROVE  HeldInv /\ ViewInv
<1>1. /\ DOMAIN toClient = {} /\ DOMAIN jobs = {} /\ Newest = 0 /\ revision = None
      /\ server.attached = FALSE /\ server.serving = None /\ cleanupRequired = FALSE /\ attached = FALSE
  BY DEF Init, Newest
<1>2. ~ Unsettled
  BY <1>1 DEF Unsettled
<1>3. AnswersFit /\ JobsTell /\ CleanupTells /\ SomebodyAnswers /\ ServingFits
  BY <1>1, <1>2 DEF AnswersFit, JobsTell, CleanupTells, SomebodyAnswers, ServingFits
<1>4. Known = {}
  BY <1>1 DEF Known
<1>5. RevisionsFit /\ ViewFits
  BY <1>1, <1>4 DEF RevisionsFit, ViewFits
<1>6. ActiveLeasesAreAttached
  BY DEF Init, Unused, ActiveLeasesAreAttached
<1>. QED  BY <1>1, <1>3, <1>5, <1>6 DEF HeldInv, ViewInv

\* A step of the server or of the network.
LEMMA ServerMoves ==
    ASSUME IndInv, IndInv', HeldInv, Serve \/ RuntimeChanges
    PROVE  HeldInv' /\ ("restart" \notin Faults /\ ViewInv => ViewInv')
<1>1. CASE ServePrompt
  <2>1. /\ UNCHANGED clientVars /\ toClient' = toClient
        /\ server' = IF server.attached THEN [server EXCEPT !.prompts = @ + 1] ELSE server
    BY <1>1 DEF ServePrompt
  <2>2. server \in ServerRecord
    BY DEF IndInv, Shape, ServerShape, ServerRecord
  <2>3. SameServer
    <3>1. CASE server.attached
      <4>1. server' = [server EXCEPT !.prompts = server.prompts + 1]
        BY <2>1, <3>1
      <4>. QED  BY <2>2, <4>1 DEF SameServer, ServerRecord
    <3>2. CASE ~ server.attached
      BY <2>1, <3>2 DEF SameServer
    <3>. QED  BY <3>1, <3>2
  <2>4. ClientStep /\ AnsweredStep /\ LeasedStep
    BY <2>1, <2>3, IdleMoves
  <2>. QED  BY <2>4, HeldQuietly, ViewQuietly
<1>2. CASE ~ ServePrompt
  <2>1. ServerStep /\ ("restart" \notin Faults => server.revision <= server'.revision)
    BY <1>2, ServeAttachMoves, AnswerAttachMoves, ServeDetachMoves, BroadcastMoves DEF Serve
  <2>. QED  BY <2>1, ServerHolds, ServerSeen
<1>. QED  BY <1>1, <1>2

\* Every step keeps both sides.
LEMMA StepViewed ==
    ASSUME IndInv, HeldInv, "reentrant" \notin Faults, [Next]_vars
    PROVE  HeldInv' /\ ("restart" \notin Faults /\ ViewInv => ViewInv')
<1>1. IndInv'
  BY StepHolds
<1>2. CASE \E h \in Handles, mode \in {"shared", "exclusive"} : Acquire(h, mode)
  BY <1>1, <1>2, AcquireMoves, HeldQuietly, ViewQuietly
<1>3. CASE \E h \in Handles, relinquish \in BOOLEAN : Release(h, relinquish)
  BY <1>1, <1>3, ReleaseMoves, HeldQuietly, ViewQuietly
<1>4. CASE (\E h \in Handles : Prompt(h)) \/ UNCHANGED vars
  <2>1. UNCHANGED clientVars /\ toClient' = toClient /\ server' = server
    BY <1>4 DEF Prompt, vars
  <2>2. ClientStep /\ AnsweredStep /\ LeasedStep
    BY <2>1, IdleMoves DEF SameServer
  <2>. QED  BY <1>1, <2>2, HeldQuietly, ViewQuietly
<1>5. CASE Connect \/ Handshake
  BY <1>5, ConnectHolds
<1>6. CASE LoseConnection \/ Dispose
  BY <1>1, <1>6, DisconnectHolds
<1>7. CASE RunJob
  BY <1>1, <1>7, RunJobHolds
<1>8. CASE Receive
  BY <1>1, <1>8, ReceiveHolds, ReceiveSeen
<1>9. CASE Serve \/ RuntimeChanges
  BY <1>1, <1>9, ServerMoves
<1>. QED  BY <1>2, <1>3, <1>4, <1>5, <1>6, <1>7, <1>8, <1>9 DEF Next

\* With nothing under way the server keeps a session attached only for a client that holds a
\* lease of it, asks for one or has a failed release to reconcile, or after an attach it
\* answered with an error (client.ts:259): whatever the order of acquisitions, releases,
\* failures, lost connections and restarts of the runtime.
THEOREM NothingStaysAttached ==
    ASSUME "reentrant" \notin Faults
    PROVE  Spec => []NothingLeftAttached
<1>1. Init => HeldInv
  BY InitViewed
<1>2. IndInv /\ HeldInv /\ [Next]_vars => HeldInv'
  BY StepViewed
<1>3. HeldInv => NothingLeftAttached
  BY DEF HeldInv, SomebodyAnswers, NothingLeftAttached
<1>4. Spec => []IndInv
  BY IndInvAlways
<1>. QED  BY <1>1, <1>2, <1>3, <1>4, PTL DEF Spec

\* A lease that is held is attached in the client's own state, unless a release of it was
\* answered with an error (client.ts:224), as long as no runtime comes back with an older
\* revision, which makes the client ignore the answer to its attach (state.ts:108).
THEOREM LeasesStayAttached ==
    ASSUME "reentrant" \notin Faults, "restart" \notin Faults
    PROVE  Spec => []ActiveLeasesAreAttached
<1>1. Init => HeldInv /\ ViewInv
  BY InitViewed
<1>2. IndInv /\ HeldInv /\ ViewInv /\ [Next]_vars => HeldInv' /\ ViewInv'
  BY StepViewed
<1>3. ViewInv => ActiveLeasesAreAttached
  BY DEF ViewInv
<1>4. Spec => []IndInv
  BY IndInvAlways
<1>. QED  BY <1>1, <1>2, <1>3, <1>4, PTL DEF Spec

================================================================================
