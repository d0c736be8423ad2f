------------------------------ MODULE ClientLeases ------------------------------
(***************************************************************************)
(* One client (packages/client/src) and one session: the leases handed out *)
(* by acquireSession, how they are counted, attached, released, reconciled *)
(* and invalidated, and the client's copy of whether it is attached.       *)
(*                                                                         *)
(* The client runs on one thread.  A settled promise queues the reactions  *)
(* registered on it; `jobs` is that queue.  A message of the server is     *)
(* handled when the queue is empty, or holds only what messages of the     *)
(* same chunk put there; a call of the user is made when the queue is      *)
(* empty unless "reentrant" is in Faults: then user code that itself       *)
(* resumes from some promise calls in between two reactions.               *)
(*                                                                         *)
(* The server side is reduced to what one connection sees of               *)
(* server/src/sessions.ts; messages are delivered in order until the       *)
(* connection is lost.                                                     *)
(***************************************************************************)
EXTENDS Naturals, Sequences, FiniteSets

CONSTANTS
    Handles,          \* one per call of acquireSession
    None,
    MaxRequests,      \* bound: no further user call once that many requests were made
    MaxRevision,      \* bound on the revision of the session's snapshots
    MaxConnects,      \* bound on connect()
    MaxPrompts,       \* bound on prompts in flight
    Faults            \* what may go wrong or happen, see below

\* "open": the server cannot open the session; "snapshot": it attaches, then fails
\* to read a snapshot; "detach": it detaches, then fails; "restart": a runtime that
\* was disposed of comes back with a lower revision; "reentrant": user calls
\* between two reactions.
ASSUME FaultsAssumption ==
    Faults \subseteq {"open", "snapshot", "detach", "restart", "reentrant"}

ASSUME BoundsAssumption ==
    /\ MaxRequests \in Nat /\ MaxRevision \in Nat /\ MaxConnects \in Nat /\ MaxPrompts \in Nat
    /\ IsFiniteSet(Handles) /\ None \notin Handles /\ None \notin Nat

VARIABLES
    connection,       \* Connection.#lifecycle.state, or "disposed"
    connects,         \* how often connect() was called
    handles,          \* per call of acquireSession: how far it, or its lease, is
    count,            \* #sessionLeaseCounts
    exclusive,        \* #exclusiveSessionLeases: the handle whose token is stored
    generation,       \* #sessionLeaseGenerations
    attachment,       \* #sessionAttachments, #sessionDetachments and
    detachment,       \* #sessionReconciliations hold the promise derived
    reconciliation,   \* from one request, named here by that request
    cleanupRequired,  \* #sessionCleanupRequired
    attached,         \* ClientState.#attachedSessionIds
    revision,         \* the revision of the stored session snapshot
    requests,         \* #pendingRequests and the promises derived from them
    jobs,             \* reactions ready to run
    toServer, toClient,
    server            \* the session and this connection at the server

clientVars == <<connection, connects, handles, count, exclusive, generation, attachment, detachment,
                reconciliation, cleanupRequired, attached, revision, requests, jobs>>
vars == <<clientVars, toServer, toClient, server>>

--------------------------------------------------------------------------------
(* Promises and requests *)

Request == 1 .. Len(requests)

Pending(i) == requests[i].state = "pending"

Job(step, h) == [step |-> step, handle |-> h, ok |-> TRUE, request |-> None]

Settle(i, ok) == [step |-> "settle", handle |-> None, ok |-> ok, request |-> i]

\* #request: rejected at once without a connection, sent otherwise.  `waiter` is the
\* reaction the caller registers on the promise derived from the request.
Send(kind, waiter, js) ==
    LET i == Len(requests) + 1
        sent == connection = "connected"
    IN  /\ requests' = Append(requests, [kind |-> kind, state |-> IF sent THEN "pending" ELSE "done",
                                         settled |-> FALSE, ok |-> FALSE,
                                         waiters |-> <<[waiter EXCEPT !.request = i]>>,
                                         previous |-> IF kind = "attach" THEN revision ELSE None])
        /\ toServer' = IF sent THEN Append(toServer, [kind |-> kind, request |-> i]) ELSE toServer
        /\ jobs' = IF sent THEN js ELSE Append(js, Settle(i, FALSE))

\* await on the promise derived from an earlier request.
Join(i, waiter, js) ==
    /\ LET w == [waiter EXCEPT !.request = i]
       IN  IF requests[i].settled
              THEN /\ jobs' = Append(js, [w EXCEPT !.ok = requests[i].ok])
                   /\ UNCHANGED requests
              ELSE /\ requests' = [requests EXCEPT ![i].waiters = Append(@, w)]
                   /\ jobs' = js
    /\ UNCHANGED toServer

--------------------------------------------------------------------------------
(* Leases *)

Acquiring(h) == handles[h].state = "acquiring"

\* refreshState: an old generation invalidates the lease.
Valid(h) == handles[h].generation = generation

Live(h) == handles[h].state \in {"active", "releasing"} /\ Valid(h)

\* isActive.
Active(h) == handles[h].state = "active" /\ Valid(h) /\ attached

\* Mutant of ReleaseLease: the count of an invalidated lease is taken off as well.
ReleaseBelowZero(h) ==
    /\ count' = count - 1
    /\ exclusive' = IF exclusive = h THEN None ELSE exclusive

\* #releaseSessionLease.
ReleaseLease(h) ==
    /\ count' = IF count <= 1 THEN 0 ELSE count - 1
    /\ exclusive' = IF exclusive = h THEN None ELSE exclusive

\* #createSessionLease.
CreateLease(h, hs) ==
    handles' = [hs EXCEPT ![h].state = "active", ![h].generation = generation]

\* Mutant of JoinAttachment: an attachment under way is not shared.
AttachAlone(h, reconciled, hs, js) ==
    IF reconciled \/ ~ attached
       THEN /\ handles' = hs
            /\ Send("attach", Job("afterAttach", h), js)
            /\ attachment' = Len(requests) + 1
            /\ revision' = None
       ELSE /\ CreateLease(h, hs)
            /\ jobs' = js
            /\ UNCHANGED <<attachment, revision, requests, toServer>>

\* acquireSession from the check of the attachment on.  `hs` and `js` are the handles
\* and the jobs as the caller left them.
JoinAttachment(h, reconciled, hs, js) ==
    IF reconciled \/ ~ attached
       THEN /\ handles' = hs
            /\ IF attachment # None
                  THEN /\ Join(attachment, Job("afterAttach", h), js)
                       /\ UNCHANGED <<attachment, revision>>
                  ELSE /\ Send("attach", Job("afterAttach", h), js)
                       /\ attachment' = Len(requests) + 1
                       /\ revision' = None
       ELSE /\ CreateLease(h, hs)
            /\ jobs' = js
            /\ UNCHANGED <<attachment, revision, requests, toServer>>

\* acquireSession after the detachment in flight, if there was one, and the call of
\* #reconcileSessionCleanup.
JoinReconciliation(h, hs, js) ==
    IF cleanupRequired
       THEN /\ handles' = hs
            /\ IF reconciliation # None
                  THEN /\ Join(reconciliation, Job("afterReconciliation", h), js)
                       /\ UNCHANGED reconciliation
                  ELSE /\ Send("reconcile", Job("afterReconciliation", h), js)
                       /\ reconciliation' = Len(requests) + 1
            /\ UNCHANGED <<attachment, revision>>
       ELSE /\ JoinAttachment(h, FALSE, hs, js)
            /\ UNCHANGED reconciliation

\* #invalidateSessionLeases.
InvalidateLeases ==
    /\ count' = 0
    /\ exclusive' = None
    /\ generation' = generation + 1

\* #invalidateAllSessionLeases visits the sessions that have a count.
InvalidateAllLeases ==
    /\ IF count > 0 THEN InvalidateLeases ELSE UNCHANGED <<count, exclusive, generation>>
    /\ cleanupRequired' = FALSE

--------------------------------------------------------------------------------
(* Calls of the user *)

MayCall == (jobs = <<>> \/ "reentrant" \in Faults) /\ Len(requests) < MaxRequests

\* #reserveSessionLease; a call that throws here leaves nothing behind.
MayReserve(mode) == IF mode = "exclusive" THEN count = 0 ELSE exclusive = None

\* Mutant of Acquire: a detachment under way is not waited for.
AcquireAtOnce(h, mode) ==
    /\ MayCall
    /\ handles[h].state = "unused"
    /\ connection # "disposed"
    /\ MayReserve(mode)
    /\ count' = count + 1
    /\ exclusive' = IF mode = "exclusive" THEN h ELSE exclusive
    /\ JoinReconciliation(h, [handles EXCEPT ![h].state = "acquiring", ![h].mode = mode,
                                             ![h].generation = generation], jobs)
    /\ UNCHANGED <<connection, connects, generation, detachment, cleanupRequired, attached, toClient, server>>

\* acquireSession up to its first await.
Acquire(h, mode) ==
    /\ MayCall
    /\ handles[h].state = "unused"
    /\ connection # "disposed"
    /\ MayReserve(mode)
    /\ count' = count + 1
    /\ exclusive' = IF mode = "exclusive" THEN h ELSE exclusive
    /\ LET reserved == [handles EXCEPT ![h].state = "acquiring", ![h].mode = mode,
                                       ![h].generation = generation]
       IN  IF detachment # None
              THEN /\ Join(detachment, Job("caught", h), jobs)
                   /\ handles' = reserved
                   /\ UNCHANGED <<attachment, reconciliation, revision>>
              ELSE JoinReconciliation(h, reserved, jobs)
    /\ UNCHANGED <<connection, connects, generation, detachment, cleanupRequired, attached, toClient, server>>

\* Mutant of Release: off by one, the last lease does not detach.
ReleaseLocally(h, relinquish) ==
    /\ MayCall
    /\ Active(h) /\ connection = "connected"
    /\ handles' = [handles EXCEPT ![h].state = "released", ![h].relinquish = relinquish]
    /\ ReleaseLease(h)
    /\ UNCHANGED <<connection, connects, generation, attachment, detachment, reconciliation, cleanupRequired,
                   attached, revision, requests, jobs, toServer, toClient, server>>

\* detach() and dispose() of a lease: release(relinquishOnFailure).
Release(h, relinquish) ==
    /\ MayCall
    /\ Active(h) /\ connection = "connected"
    /\ IF count <= 1
          THEN /\ handles' = [handles EXCEPT ![h].state = "releasing", ![h].relinquish = relinquish]
               /\ Send("detach", Job("afterDetach", h), jobs)
               /\ detachment' = Len(requests) + 1
               /\ UNCHANGED <<count, exclusive>>
          ELSE /\ handles' = [handles EXCEPT ![h].state = "released", ![h].relinquish = relinquish]
               /\ ReleaseLease(h)
               /\ UNCHANGED <<requests, toServer, jobs, detachment>>
    /\ UNCHANGED <<connection, connects, generation, attachment, reconciliation, cleanupRequired,
                   attached, revision, toClient, server>>

\* prompt(), and steer(), abort(), setModel() and setThinking() alike.
Prompt(h) ==
    /\ MayCall
    /\ Active(h) /\ connection = "connected"
    /\ server.prompts + Cardinality({i \in 1 .. Len(toServer) : toServer[i].kind = "prompt"}) < MaxPrompts
    /\ toServer' = Append(toServer, [kind |-> "prompt", request |-> None])
    /\ UNCHANGED <<clientVars, toClient, server>>

\* connect() and the handshake that follows, which only the network completes.
Connect ==
    /\ MayCall /\ connects < MaxConnects
    /\ connection = "disconnected"
    /\ connection' = "connecting"
    /\ connects' = connects + 1
    /\ attached' = FALSE
    /\ revision' = None
    /\ UNCHANGED <<handles, count, exclusive, generation, attachment, detachment, reconciliation,
                   cleanupRequired, requests, jobs, toServer, toClient, server>>

Handshake ==
    /\ jobs = <<>> /\ connection = "connecting"
    /\ connection' = "connected"
    /\ UNCHANGED <<connects, handles, count, exclusive, generation, attachment, detachment, reconciliation,
                   cleanupRequired, attached, revision, requests, jobs, toServer, toClient, server>>

\* What the server does when a connection is gone: LiveSessionManager.disconnect.
ServerDisconnect ==
    /\ toServer' = <<>> /\ toClient' = <<>>
    /\ server' = [server EXCEPT !.attached = FALSE, !.serving = None, !.prompts = 0, !.live = FALSE]

\* Mutant of RejectPending: the requests are forgotten and not rejected.
ForgetPending ==
    /\ requests' = [i \in Request |-> [requests[i] EXCEPT !.state = "done"]]
    /\ UNCHANGED jobs

\* The k-th pending request, in the order they were made.
PendingAt(k) ==
    CHOOSE i \in Request : Pending(i) /\ Cardinality({j \in 1 .. i : Pending(j)}) = k

\* #rejectPendingRequests.
RejectPending ==
    /\ requests' = [i \in Request |-> [requests[i] EXCEPT !.state = "done"]]
    /\ jobs' = jobs \o [k \in 1 .. Cardinality({i \in Request : Pending(i)}) |-> Settle(PendingAt(k), FALSE)]

\* The connection is closed or fails, or disconnect() is called.
Disconnect(state) ==
    /\ connection' = state
    /\ attached' = FALSE
    /\ InvalidateAllLeases
    /\ RejectPending
    /\ ServerDisconnect
    /\ UNCHANGED <<connects, handles, attachment, detachment, reconciliation>>

LoseConnection ==
    /\ connection \in {"connecting", "connected"}
    /\ jobs = <<>> \/ "reentrant" \in Faults
    /\ Disconnect("disconnected")
    /\ UNCHANGED revision

\* PiClient.dispose.
Dispose ==
    /\ connection # "disposed"
    /\ jobs = <<>> \/ "reentrant" \in Faults
    /\ Disconnect("disposed")
    /\ revision' = None

--------------------------------------------------------------------------------
(* Reactions *)

\* The promise derived from a request settles: #attachSession resumes, or the thens of
\* a detachment or a reconciliation run; whoever waits is resumed in turn.
SettlePromise(j) ==
    LET i == j.request
        r == requests[i]
    IN  /\ requests' = [requests EXCEPT ![i].settled = TRUE, ![i].ok = j.ok, ![i].waiters = <<>>]
        /\ jobs' = Tail(jobs) \o [k \in 1 .. Len(r.waiters) |-> [r.waiters[k] EXCEPT !.ok = j.ok]]
        /\ revision' = IF r.kind = "attach" /\ ~ j.ok /\ revision = None THEN r.previous ELSE revision
        /\ cleanupRequired' = (cleanupRequired /\ ~ (r.kind = "reconcile" /\ j.ok))
        /\ reconciliation' = IF r.kind = "reconcile" THEN None ELSE reconciliation
        /\ UNCHANGED <<handles, count, exclusive, attachment, detachment, toServer>>

AfterDetachment(j) ==
    /\ JoinReconciliation(j.handle, handles, Tail(jobs))
    /\ UNCHANGED <<count, exclusive, detachment, cleanupRequired>>

\* Mutant of CatchDetachment: a try around the await, so that acquireSession resumes one
\* reaction earlier.
CatchAtOnce(j) == AfterDetachment(j)

\* The catch that swallows a failed detachment, one reaction before acquireSession resumes.
CatchDetachment(j) ==
    /\ jobs' = Append(Tail(jobs), Job("afterDetachment", j.handle))
    /\ UNCHANGED <<handles, count, exclusive, attachment, detachment, reconciliation, cleanupRequired,
                   revision, requests, toServer>>

\* Mutant of FailAcquire: the reservation is kept.
KeepReservation(h) ==
    /\ handles' = [handles EXCEPT ![h].state = "failed"]
    /\ UNCHANGED <<count, exclusive>>

\* The end of acquireSession that throws.
FailAcquire(h) ==
    /\ handles' = [handles EXCEPT ![h].state = "failed"]
    /\ ReleaseLease(h)

AfterReconciliation(j) ==
    /\ IF j.ok
          THEN /\ JoinAttachment(j.handle, TRUE, handles, Tail(jobs))
               /\ UNCHANGED <<count, exclusive>>
          ELSE /\ FailAcquire(j.handle)
               /\ jobs' = Tail(jobs)
               /\ UNCHANGED <<attachment, revision, requests, toServer>>
    /\ UNCHANGED <<detachment, reconciliation, cleanupRequired>>

\* The await of the attachment, its finally and the end of acquireSession.
AfterAttach(j) ==
    /\ attachment' = IF attachment = j.request THEN None ELSE attachment
    /\ IF j.ok
          THEN CreateLease(j.handle, handles) /\ UNCHANGED <<count, exclusive>>
          ELSE FailAcquire(j.handle)
    /\ jobs' = Tail(jobs)
    /\ UNCHANGED <<detachment, reconciliation, cleanupRequired, revision, requests, toServer>>

\* The await of the detachment in release and its finally.
AfterDetach(j) ==
    /\ detachment' = IF detachment = j.request THEN None ELSE detachment
    /\ IF j.ok
          THEN /\ ReleaseLease(j.handle)
               /\ handles' = [handles EXCEPT ![j.handle].state = "released"]
               /\ jobs' = Tail(jobs)
          ELSE /\ jobs' = Append(Tail(jobs), Job("releaseFailed", j.handle))
               /\ UNCHANGED <<handles, count, exclusive>>
    /\ UNCHANGED <<attachment, reconciliation, cleanupRequired, revision, requests, toServer>>

\* The catch of release.
ReleaseFailed(j) ==
    LET h == j.handle
    IN  /\ IF ~ Valid(h)
              THEN UNCHANGED <<handles, count, exclusive, cleanupRequired>>
              ELSE IF handles[h].relinquish
                      THEN /\ ReleaseLease(h)
                           /\ cleanupRequired' = TRUE
                           /\ handles' = [handles EXCEPT ![h].state = "released"]
                      ELSE /\ handles' = [handles EXCEPT ![h].state = "active"]
                           /\ UNCHANGED <<count, exclusive, cleanupRequired>>
        /\ jobs' = Tail(jobs)
        /\ UNCHANGED <<attachment, detachment, reconciliation, revision, requests, toServer>>

RunJob ==
    /\ jobs # <<>>
    /\ LET j == Head(jobs)
       IN  \/ j.step = "settle" /\ SettlePromise(j)
           \/ j.step = "caught" /\ CatchDetachment(j)
           \/ j.step = "afterDetachment" /\ AfterDetachment(j)
           \/ j.step = "afterReconciliation" /\ AfterReconciliation(j)
           \/ j.step = "afterAttach" /\ AfterAttach(j)
           \/ j.step = "afterDetach" /\ AfterDetach(j)
           \/ j.step = "releaseFailed" /\ ReleaseFailed(j)
    /\ UNCHANGED <<connection, connects, generation, attached, toClient, server>>

--------------------------------------------------------------------------------
(* Messages of the server *)

\* ClientState.#applySessionSnapshot: a lower revision than the stored one is ignored.
Applies(m) == revision = None \/ m.revision >= revision

\* The loop over the messages of a chunk runs none of the reactions it causes.
NoReactionRan == \A k \in DOMAIN jobs : jobs[k].step = "settle"

\* #handleData, for one message of a chunk, and #handleMessage.
Receive ==
    /\ NoReactionRan /\ connection = "connected" /\ toClient # <<>>
    /\ LET m == Head(toClient)
       IN  /\ toClient' = Tail(toClient)
           /\ IF m.request # None
                 THEN /\ requests' = [requests EXCEPT ![m.request].state = "done"]
                      /\ jobs' = Append(jobs, Settle(m.request, m.ok))
                 ELSE UNCHANGED <<requests, jobs>>
           /\ attached' = IF ~ m.ok THEN attached
                          ELSE IF m.detached THEN FALSE
                          ELSE IF Applies(m) THEN m.attached ELSE attached
           /\ revision' = IF m.ok /\ ~ m.detached /\ Applies(m) THEN m.revision ELSE revision
    /\ UNCHANGED <<connection, connects, handles, count, exclusive, generation, attachment, detachment,
                   reconciliation, cleanupRequired, toServer, server>>

--------------------------------------------------------------------------------
(* The server, as one connection sees it *)

\* An event or the answer to a prompt when `i` is None, a response to request `i` otherwise.
Message(i, ok, s) ==
    [request |-> i, ok |-> ok, detached |-> i # None /\ requests[i].kind # "attach",
     attached |-> s.attached, revision |-> s.revision]

\* maybeDispose: without connections and operations the runtime goes; another client may keep it.
AfterUse(s) ==
    {s} \cup (IF s.attached \/ s.prompts > 0 THEN {} ELSE {[s EXCEPT !.live = FALSE]})

\* acquire opens the runtime when it is not live.
Opened(s) ==
    IF s.live THEN s
    ELSE [s EXCEPT !.live = TRUE, !.revision = IF "restart" \in Faults THEN 0 ELSE @]

Served == connection = "connected" /\ toServer # <<>> /\ server.serving = None

\* The command attach up to the snapshot it reads.
ServeAttach ==
    /\ Served /\ Head(toServer).kind = "attach"
    /\ \/ /\ server' = [Opened(server) EXCEPT !.attached = TRUE, !.serving = Head(toServer).request]
          /\ UNCHANGED toClient
       \/ /\ "open" \in Faults
          /\ toClient' = Append(toClient, Message(Head(toServer).request, FALSE, server))
          /\ UNCHANGED server
    /\ toServer' = Tail(toServer)
    /\ UNCHANGED clientVars

\* The rest of attach: the snapshot is broadcast and then returned.
AnswerAttach ==
    /\ server.serving # None
    /\ \/ toClient' = toClient \o <<Message(None, TRUE, server), Message(server.serving, TRUE, server)>>
       \/ /\ "snapshot" \in Faults
          /\ toClient' = Append(toClient, Message(server.serving, FALSE, server))
    /\ server' = [server EXCEPT !.serving = None]
    /\ UNCHANGED <<clientVars, toServer>>

\* The command detach; broadcasting or disposing of the runtime may fail after it detached.
ServeDetach ==
    /\ Served /\ Head(toServer).kind \in {"detach", "reconcile"}
    /\ \E ok \in BOOLEAN :
          /\ ~ ok => server.attached /\ "detach" \in Faults
          /\ server' \in AfterUse([server EXCEPT !.attached = FALSE])
          /\ toClient' = Append(toClient, Message(Head(toServer).request, ok, server'))
    /\ toServer' = Tail(toServer)
    /\ UNCHANGED clientVars

\* A command of the session begins: requireAttached, runOperation.
ServePrompt ==
    /\ Served /\ Head(toServer).kind = "prompt"
    /\ server' = IF server.attached THEN [server EXCEPT !.prompts = @ + 1] ELSE server
    /\ toServer' = Tail(toServer)
    /\ UNCHANGED <<clientVars, toClient>>

\* runOperation ends: the broadcast and the response carry one snapshot.
AnswerPrompt ==
    /\ server.prompts > 0 /\ server.revision < MaxRevision
    /\ LET s == [server EXCEPT !.prompts = @ - 1, !.revision = @ + 1]
       IN  /\ toClient' = Append(toClient, Message(None, TRUE, s))
           /\ server' \in AfterUse(s)
    /\ UNCHANGED <<clientVars, toServer>>

\* The runtime reports a change and its snapshot is broadcast.
RuntimeChanges ==
    /\ server.attached /\ server.revision < MaxRevision
    /\ server' = [server EXCEPT !.revision = @ + 1]
    /\ toClient' = Append(toClient, Message(None, TRUE, server'))
    /\ UNCHANGED <<clientVars, toServer>>

--------------------------------------------------------------------------------

Unused == [state |-> "unused", mode |-> "shared", generation |-> 0, relinquish |-> FALSE]

Init ==
    /\ connection = "connected" /\ connects = 0
    /\ handles = [h \in Handles |-> Unused]
    /\ count = 0 /\ exclusive = None /\ generation = 0
    /\ attachment = None /\ detachment = None /\ reconciliation = None
    /\ cleanupRequired = FALSE
    /\ attached = FALSE /\ revision = None
    /\ requests = <<>> /\ jobs = <<>> /\ toServer = <<>> /\ toClient = <<>>
    /\ server = [attached |-> FALSE, live |-> FALSE, revision |-> 0, serving |-> None, prompts |-> 0]

Serve == ServeAttach \/ AnswerAttach \/ ServeDetach \/ ServePrompt \/ AnswerPrompt

Next ==
    \/ \E h \in Handles, mode \in {"shared", "exclusive"} : Acquire(h, mode)
    \/ \E h \in Handles, relinquish \in BOOLEAN : Release(h, relinquish)
    \/ \E h \in Handles : Prompt(h)
    \/ Connect \/ Handshake \/ LoseConnection \/ Dispose
    \/ RunJob \/ Receive
    \/ Serve \/ RuntimeChanges

Spec == Init /\ [][Next]_vars

\* The event loop goes on, and the server answers what reaches it and its answers arrive.
FairSpec == Spec /\ WF_vars(RunJob) /\ WF_vars(Receive) /\ WF_vars(Serve)

--------------------------------------------------------------------------------
(* Properties *)

Reserved(h) == Acquiring(h) /\ Valid(h)

\* Type correctness of the client's and the server's variables.
ClientTyped ==
    /\ connection \in {"disconnected", "connecting", "connected", "disposed"}
    /\ connects \in 0 .. MaxConnects
    /\ handles \in [Handles -> [state : {"unused", "acquiring", "active", "releasing", "released", "failed"},
                                mode : {"shared", "exclusive"}, generation : Nat, relinquish : BOOLEAN]]
    /\ count \in 0 .. Cardinality(Handles) /\ exclusive \in Handles \cup {None}
    /\ generation \in Nat
    /\ {attachment, detachment, reconciliation} \subseteq Request \cup {None}
    /\ cleanupRequired \in BOOLEAN /\ attached \in BOOLEAN
    /\ revision \in 0 .. MaxRevision \cup {None}
    /\ \A i \in Request : requests[i].kind \in {"attach", "detach", "reconcile"}
    /\ server \in [attached : BOOLEAN, live : BOOLEAN, revision : 0 .. MaxRevision,
                   serving : Request \cup {None}, prompts : 0 .. MaxPrompts]

\* The count that decides whether a release detaches and whether an exclusive lease is
\* granted (client.ts:382, :239) is the number of leases and of acquisitions under way, and
\* an exclusive one is alone, whatever releases, failures and lost connections came before.
LeasesAreCounted ==
    /\ count = Cardinality({h \in Handles : Live(h) \/ Reserved(h)})
    /\ \A h \in Handles : (Live(h) \/ Reserved(h)) /\ handles[h].mode = "exclusive" =>
                              exclusive = h /\ count = 1

\* Attaching, detaching and reconciling are never under way at once (client.ts:155-170,
\* :240): the server runs the commands of a connection concurrently, so two of them could
\* take effect in either order.
RequestsAreSerial ==
    \A i, k \in Request : Pending(i) /\ Pending(k) => i = k

\* The server answered a detach with an error, and no attach has succeeded since.
DetachFailed ==
    \E i \in Request : /\ requests[i].kind = "detach" /\ requests[i].settled /\ ~ requests[i].ok
                       /\ \A k \in Request : k > i /\ requests[k].kind = "attach" => ~ requests[k].ok

\* A lease that acquireSession returned and that was neither released nor invalidated is
\* attached in the client's state (client.ts:224), so that its commands are not refused and
\* it can be released.
ActiveLeasesAreAttached ==
    \A h \in Handles : handles[h].state = "active" /\ Valid(h) => attached \/ DetachFailed

Quiet == jobs = <<>> /\ toClient = <<>> /\ toServer = <<>> /\ server.serving = None

\* The server answered an attach with an error, and no detach has succeeded since.
AttachFailed ==
    \E i \in Request : /\ requests[i].kind = "attach" /\ requests[i].settled /\ ~ requests[i].ok
                       /\ \A k \in Request : k > i /\ requests[k].kind # "attach" => ~ requests[k].ok

\* With no message under way, the server keeps the session attached for this client only
\* while a lease of it is live or a failed release is still to be reconciled
\* (client.ts:259): nothing keeps a runtime locked that nobody uses.  An attach that the
\* server refuses after it attached is the exception.
NothingLeftAttached ==
    Quiet /\ connection = "connected" /\ server.attached => count > 0 \/ cleanupRequired \/ AttachFailed

\* "PiClient reconciles the failed protocol cleanup before the next acquisition"
\* (client/README.md:32): no lease is live while a failed release waits to be reconciled.
CleanupComesFirst == cleanupRequired => \A h \in Handles : ~ Live(h)

\* The reactions of h that are queued or registered on a request not yet settled.
Awaits(h) ==
    \/ \E k \in DOMAIN jobs : jobs[k].handle = h
    \/ \E i \in Request : \E k \in DOMAIN requests[i].waiters : requests[i].waiters[k].handle = h

\* Every acquireSession comes to an end, with a lease or an error, also when the connection
\* is lost while it waits for an attachment, a detachment or a reconciliation; and so does
\* every release (client.ts:155-170, :190, :350).  A release that fails after its lease was
\* invalidated leaves the lease's state as it is (client.ts:254): it has ended when nothing
\* of it is left to run.
CallsSettle ==
    \A h \in Handles :
        /\ Acquiring(h) ~> ~ Acquiring(h)
        /\ handles[h].state = "releasing" ~>
               handles[h].state # "releasing" \/ (~ Valid(h) /\ ~ Awaits(h))

================================================================================
