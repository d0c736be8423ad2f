------------------------ MODULE SqliteStorageProofs ------------------------
(***************************************************************************)
(* Proofs about SqliteStorage, for any number of processes, sessions and   *)
(* storages, any lease times and any writes: an unexpired lease is never   *)
(* taken away, no stale owner's write is ever committed, the tables that   *)
(* repeat what the entries say agree with them, and every session steps    *)
(* as the in-memory storage does.                                          *)
(*                                                                         *)
(* LeaseIsKept is nearly inductive: it says that a storage whose committed *)
(* expiry is still to come owns the row, so that a claim, which needs the  *)
(* row to be absent or expired, and a renewal by another storage, which    *)
(* needs to own the row, cannot meet one.  It needs the shapes of the rows *)
(* and the storages, the target of a running fork, and, for the fencing of *)
(* writes, that the row's owner is the last one that claimed the session.  *)
(*                                                                         *)
(* The content of the tables has an invariant of its own, ContentInv: a    *)
(* cached branch is the one set of entries from a root down to its tip     *)
(* (Path), every entry is on one, and a running fork has read rows that    *)
(* its source still has, with their parents, so that once all tips it read *)
(* are among the rows nothing is missing.                                  *)
(*                                                                         *)
(* The refinement needs the shapes of the tables (ShapeInv) and, from      *)
(* ContentInv, that every lane's leaf is an entry: a write is admitted on  *)
(* a session exactly when a MemoryStorage of what its readers see admits   *)
(* it, its mutation passes applyMutation's own checks (PermitsValid), and  *)
(* it leaves what that MemoryStorage would.                                *)
(***************************************************************************)
EXTENDS SqliteRefinement, SessionStateProofs

\* What a repository's queue remembers of a fork while it reads: the target
\* it will claim and the statement it is at.
ForkFields == {"op", "session", "target", "options", "step", "entries",
               "lanes", "tips", "name", "labels"}
ForksAreSound ==
    \A r \in Repositories :
        (task[r] # None /\ task[r].op = "fork") =>
            /\ DOMAIN task[r] = ForkFields
            /\ task[r].target \in Sessions
            /\ task[r].step \in Nat \ {0}

\* One row and one history per session.
OnePerSession ==
    /\ DOMAIN leases = Sessions
    /\ lastClaim \in [Sessions -> Nat]
    /\ DOMAIN lastWrite = Sessions

\* A row is that of the last claim: no one but a claim changes the owner.
LastClaimHoldsRow ==
    \A s \in Sessions : leases[s] # None => leases[s].owner = lastClaim[s]

\* Only a session that exists has a row: deletion takes both.
RowsHaveSessions ==
    \A s \in Sessions : leases[s] # None => s \in DOMAIN db

\* The inductive invariant.
IndInv ==
    /\ SqliteTyped
    /\ OnePerSession
    /\ ForksAreSound
    /\ LeaseIsKept
    /\ LastClaimHoldsRow
    /\ RowsHaveSessions

\* An empty database, no storage and no task satisfy it.
LEMMA IndInvInit == Init => IndInv
BY SqliteBoundsAssumption
   DEF Init, IndInv, SqliteTyped, OnePerSession, ForksAreSound, LeaseIsKept,
       LastClaimHoldsRow, RowsHaveSessions

-----------------------------------------------------------------------------
(* What the steps do to rows and storages, in four ways.                   *)

\* Storage st as far as its lease is concerned.
SameLease(new, st) ==
    /\ new \in Storage
    /\ new.session = st.session
    /\ new.fence = st.fence
    /\ new.validUntil = st.validUntil

\* A step that leaves the rows alone and at most drops storages or changes
\* what they queue.
LEMMA KeepStep ==
    ASSUME IndInv,
           now' \in 0..MaxTime, now <= now',
           UNCHANGED <<leases, claims, lastClaim>>,
           DOMAIN lastWrite' = Sessions,
           DOMAIN db \subseteq DOMAIN db',
           DOMAIN storages' \subseteq DOMAIN storages,
           \A o \in DOMAIN storages' : SameLease(storages'[o], storages[o]),
           DOMAIN task' = Repositories, ForksAreSound'
    PROVE  IndInv'
<1>1. SqliteTyped'
  BY DEF IndInv, SqliteTyped, SameLease
<1>2. OnePerSession' /\ LastClaimHoldsRow' /\ RowsHaveSessions'
  BY DEF IndInv, OnePerSession, LastClaimHoldsRow, RowsHaveSessions
<1>3. ASSUME NEW o \in DOMAIN storages', now' < storages'[o].validUntil
      PROVE  /\ storages'[o].session \in DOMAIN db'
             /\ ownsLease(leases'[storages'[o].session], o, storages'[o])
             /\ leases'[storages'[o].session].expiresAt = storages'[o].validUntil
  <2>1. /\ o \in DOMAIN storages
        /\ SameLease(storages'[o], storages[o])
        /\ storages[o] \in Storage
    BY <1>3 DEF IndInv, SqliteTyped
  <2>2. now < storages[o].validUntil
    BY <1>3, <2>1, SqliteBoundsAssumption DEF SameLease, Storage, IndInv, SqliteTyped
  <2>. QED  BY <1>3, <2>1, <2>2 DEF IndInv, LeaseIsKept, SameLease, ownsLease
<1>4. LeaseIsKept'
  BY <1>3 DEF LeaseIsKept
<1>. QED  BY <1>1, <1>2, <1>4 DEF IndInv

\* A step that removes a session's row while every storage of that session
\* that stays open has expired.
LEMMA DropStep ==
    ASSUME IndInv, NEW s,
           UNCHANGED <<now, claims, lastClaim, lastWrite>>,
           leases' = [leases EXCEPT ![s] = None],
           DOMAIN db \ {s} \subseteq DOMAIN db',
           DOMAIN storages' \subseteq DOMAIN storages,
           \A o \in DOMAIN storages' : storages'[o] = storages[o],
           \A o \in DOMAIN storages' :
                storages[o].session = s => ~(now < storages[o].validUntil),
           DOMAIN task' = Repositories, ForksAreSound'
    PROVE  IndInv'
<1>1. SqliteTyped'
  BY DEF IndInv, SqliteTyped, OnePerSession
<1>2. OnePerSession' /\ LastClaimHoldsRow' /\ RowsHaveSessions'
  BY DEF IndInv, OnePerSession, LastClaimHoldsRow, RowsHaveSessions
<1>3. ASSUME NEW o \in DOMAIN storages', now' < storages'[o].validUntil
      PROVE  /\ storages'[o].session \in DOMAIN db'
             /\ ownsLease(leases'[storages'[o].session], o, storages'[o])
             /\ leases'[storages'[o].session].expiresAt = storages'[o].validUntil
  <2>1. /\ o \in DOMAIN storages /\ storages'[o] = storages[o]
        /\ storages[o].session # s /\ storages[o].session \in Sessions
    BY <1>3 DEF IndInv, SqliteTyped, Storage
  <2>2. leases'[storages[o].session] = leases[storages[o].session]
    BY <2>1 DEF IndInv, OnePerSession
  <2>. QED  BY <1>3, <2>1, <2>2 DEF IndInv, LeaseIsKept
<1>4. LeaseIsKept'
  BY <1>3 DEF LeaseIsKept
<1>. QED  BY <1>1, <1>2, <1>4 DEF IndInv

\* A renewal: only the storage that owns the row makes one, so every other
\* storage of the session has expired.
LEMMA RenewStep ==
    ASSUME IndInv, NEW o \in DOMAIN storages, NEW new \in Storage,
           UNCHANGED <<now, claims, lastClaim>>,
           canRenew(o),
           leases' = Renewed(o),
           DOMAIN lastWrite' = Sessions,
           DOMAIN db \subseteq DOMAIN db',
           new.session = storages[o].session, new.fence = storages[o].fence,
           new.validUntil = now + Ttl,
           storages' = [storages EXCEPT ![o] = new],
           task' = task
    PROVE  IndInv'
<1>. DEFINE s == storages[o].session
            row == [leases[s] EXCEPT !.expiresAt = now + Ttl]
<1>1. /\ storages[o] \in Storage /\ s \in Sessions
      /\ leases[s] \in LeaseRow /\ leases[s] # None
      /\ leases[s].owner = o /\ leases[s].fence = storages[o].fence
      /\ leases[s].expiresAt > now
  BY DEF IndInv, SqliteTyped, Storage, canRenew, ownsLease
<1>2. now + Ttl \in Nat
  BY LeaseAssumption, SqliteBoundsAssumption DEF IndInv, SqliteTyped
<1>3. /\ row \in LeaseRow /\ row # None
      /\ row.owner = o /\ row.fence = storages[o].fence
      /\ row.expiresAt = now + Ttl
  BY <1>1, <1>2, LeaseRowAssumption DEF LeaseRow
<1>4. leases' = [leases EXCEPT ![s] = row]
  BY DEF Renewed
<1>5. storages[o].session \in DOMAIN db
  BY <1>1 DEF IndInv, RowsHaveSessions
<1>. HIDE DEF row
<1>6. SqliteTyped'
  BY <1>1, <1>3, <1>4 DEF IndInv, SqliteTyped, OnePerSession
<1>7. OnePerSession'
  BY <1>4 DEF IndInv, OnePerSession
<1>8. LastClaimHoldsRow' /\ RowsHaveSessions'
  BY <1>1, <1>3, <1>4 DEF IndInv, OnePerSession, LastClaimHoldsRow, RowsHaveSessions
<1>9. ForksAreSound'
  BY DEF IndInv, ForksAreSound
<1>10. ASSUME NEW x \in DOMAIN storages', now' < storages'[x].validUntil
       PROVE  /\ storages'[x].session \in DOMAIN db'
              /\ ownsLease(leases'[storages'[x].session], x, storages'[x])
              /\ leases'[storages'[x].session].expiresAt = storages'[x].validUntil
  <2>1. CASE x = o
    BY <1>1, <1>3, <1>4, <1>5, <2>1 DEF IndInv, OnePerSession, ownsLease
  <2>2. CASE x # o
    <3>1. /\ x \in DOMAIN storages /\ storages'[x] = storages[x]
          /\ storages[x].session \in Sessions /\ now < storages[x].validUntil
      BY <1>10, <2>2 DEF IndInv, SqliteTyped, Storage
    <3>2. storages[x].session # s
      BY <1>1, <2>2, <3>1 DEF IndInv, LeaseIsKept, ownsLease
    <3>3. leases'[storages[x].session] = leases[storages[x].session]
      BY <1>4, <3>1, <3>2 DEF IndInv, OnePerSession
    <3>. QED  BY <3>1, <3>3 DEF IndInv, LeaseIsKept
  <2>. QED  BY <2>1, <2>2
<1>11. LeaseIsKept'
  BY <1>10 DEF LeaseIsKept
<1>. QED  BY <1>6, <1>7, <1>8, <1>9, <1>11 DEF IndInv

\* A claim: it needs the row to be absent or expired, so every open storage
\* of the session has expired, and its owner id is a new one.
LEMMA ClaimStep ==
    ASSUME IndInv, NEW r \in Repositories, NEW s \in Sessions,
           claimWriterLease(r, s),
           UNCHANGED <<now, lastWrite>>,
           DOMAIN db \subseteq DOMAIN db', s \in DOMAIN db',
           DOMAIN task' = Repositories, ForksAreSound'
    PROVE  IndInv'
<1>. DEFINE owner == claims + 1
            row == acquireWriterLease(s, owner)
            new == [repo |-> r, session |-> s, fence |-> row.fence,
                    queue |-> <<>>, closing |-> FALSE, leaseError |-> FALSE,
                    timer |-> now + HeartbeatInterval,
                    validUntil |-> row.expiresAt]
<1>1. /\ owner \in 1..MaxClaims /\ owner \notin DOMAIN storages
      /\ now + Ttl \in Nat /\ now + HeartbeatInterval \in Nat
      /\ leases[s] \in LeaseRow \cup {None}
  BY LeaseAssumption, SqliteBoundsAssumption
     DEF IndInv, SqliteTyped, claimWriterLease
<1>2. /\ row \in LeaseRow /\ row # None
      /\ row.owner = owner /\ row.expiresAt = now + Ttl
  BY <1>1, LeaseRowAssumption DEF acquireWriterLease, LeaseRow
<1>3. /\ claims' = owner
      /\ leases' = [leases EXCEPT ![s] = row]
      /\ lastClaim' = [lastClaim EXCEPT ![s] = owner]
      /\ storages' = With(storages, owner, new)
      /\ canAcquire(s)
  BY DEF claimWriterLease
<1>. HIDE DEF row
<1>4. new \in Storage
  BY <1>1, <1>2 DEF Storage, LeaseRow
<1>5. /\ DOMAIN storages' = DOMAIN storages \cup {owner}
      /\ storages'[owner] = new
      /\ \A x \in DOMAIN storages : storages'[x] = storages[x]
  BY <1>1, <1>3 DEF With
<1>6. SqliteTyped'
  <2>1. /\ now' \in 0..MaxTime /\ claims' \in 0..MaxClaims
        /\ DOMAIN storages' \subseteq 1..claims'
    BY <1>1, <1>3, <1>5, SqliteBoundsAssumption DEF IndInv, SqliteTyped
  <2>2. \A x \in DOMAIN storages' : storages'[x] \in Storage
    BY <1>4, <1>5 DEF IndInv, SqliteTyped
  <2>3. \A x \in Sessions : leases'[x] \in LeaseRow \cup {None}
    BY <1>2, <1>3 DEF IndInv, SqliteTyped, OnePerSession
  <2>. QED  BY <2>1, <2>2, <2>3 DEF SqliteTyped
<1>7. OnePerSession'
  BY <1>1, <1>3 DEF IndInv, OnePerSession
<1>8. LastClaimHoldsRow' /\ RowsHaveSessions'
  BY <1>2, <1>3 DEF IndInv, OnePerSession, LastClaimHoldsRow, RowsHaveSessions
<1>9. ASSUME NEW x \in DOMAIN storages', now' < storages'[x].validUntil
      PROVE  /\ storages'[x].session \in DOMAIN db'
             /\ ownsLease(leases'[storages'[x].session], x, storages'[x])
             /\ leases'[storages'[x].session].expiresAt = storages'[x].validUntil
  <2>1. CASE x = owner
    BY <1>2, <1>3, <1>5, <2>1 DEF IndInv, OnePerSession, ownsLease
  <2>2. CASE x # owner
    <3>1. /\ x \in DOMAIN storages /\ storages'[x] = storages[x]
          /\ storages[x].session \in Sessions /\ now < storages[x].validUntil
          /\ storages[x].validUntil \in Nat /\ now \in Nat
      BY <1>5, <1>9, <2>2, SqliteBoundsAssumption DEF IndInv, SqliteTyped, Storage
    <3>2. storages[x].session # s
      BY <1>3, <3>1 DEF IndInv, LeaseIsKept, ownsLease, canAcquire
    <3>3. leases'[storages[x].session] = leases[storages[x].session]
      BY <1>3, <3>1, <3>2 DEF IndInv, OnePerSession
    <3>. QED  BY <3>1, <3>3 DEF IndInv, LeaseIsKept
  <2>. QED  BY <2>1, <2>2
<1>10. LeaseIsKept'
  BY <1>9 DEF LeaseIsKept
<1>. QED  BY <1>6, <1>7, <1>8, <1>10 DEF IndInv

-----------------------------------------------------------------------------
(* The steps of a storage.                                                 *)

\* Queueing a write or a due heartbeat, and running a queued call that fails
\* or finds its lease gone, keep every lease as it is (enqueueWrite, the
\* heartbeat timer, a rolled back transaction).
LEMMA QueueSteps ==
    ASSUME IndInv, NEW o \in DOMAIN storages,
           \/ \E request \in Requests : enqueueWrite(o, request)
           \/ heartbeatFires(o)
           \/ leaseIsLost(o)
           \/ writeFails(o)
           \/ heartbeatFails(o)
    PROVE  IndInv'
<1>. DEFINE st == storages[o]
<1>1. /\ st \in Storage /\ now \in Nat /\ now \in 0..MaxTime
      /\ now + HeartbeatInterval \in Nat
  BY LeaseAssumption, SqliteBoundsAssumption DEF IndInv, SqliteTyped
<1>2. UNCHANGED <<now, db, leases, task, claims, lastClaim, lastWrite>>
  BY DEF enqueueWrite, heartbeatFires, leaseIsLost, writeFails, heartbeatFails
<1>3. PICK new : storages' = [storages EXCEPT ![o] = new] /\ SameLease(new, st)
  <2>1. CASE \E request \in Requests : enqueueWrite(o, request)
    <3>1. PICK request \in Requests : enqueueWrite(o, request)
      BY <2>1
    <3>2. Append(st.queue, request) \in Seq(Queued)
      BY <1>1 DEF Storage, Queued
    <3>. DEFINE w == [st EXCEPT !.queue = Append(st.queue, request)]
    <3>3. storages' = [storages EXCEPT ![o] = w]
      BY <3>1 DEF enqueueWrite
    <3>4. SameLease(w, st)
      BY <1>1, <3>2 DEF SameLease, Storage
    <3>. QED  BY <3>3, <3>4
  <2>2. CASE heartbeatFires(o)
    <3>1. Append(st.queue, [op |-> "heartbeat"]) \in Seq(Queued)
      BY <1>1 DEF Storage, Queued
    <3>. DEFINE w == [st EXCEPT !.timer = None,
                                !.queue = Append(st.queue, [op |-> "heartbeat"])]
    <3>2. storages' = [storages EXCEPT ![o] = w]
      BY <2>2 DEF heartbeatFires
    <3>3. SameLease(w, st)
      BY <1>1, <3>1 DEF SameLease, Storage
    <3>. QED  BY <3>2, <3>3
  <2>3. CASE leaseIsLost(o) \/ writeFails(o) \/ heartbeatFails(o)
    <3>1. Tail(st.queue) \in Seq(Queued)
      BY <1>1, <2>3 DEF Storage, leaseIsLost, writeFails, heartbeatFails
    <3>2. SameLease(Dequeued(o), st)
      BY <1>1, <3>1 DEF SameLease, Storage, Dequeued
    <3>3. SameLease([Dequeued(o) EXCEPT !.leaseError = TRUE, !.timer = None], st)
      BY <3>2 DEF SameLease, Storage
    <3>4. SameLease(scheduleHeartbeat(Dequeued(o)), st)
      BY <1>1, <3>2 DEF SameLease, Storage, scheduleHeartbeat
    <3>. QED  BY <2>3, <3>2, <3>3, <3>4 DEF leaseIsLost, writeFails, heartbeatFails
  <2>. QED  BY <2>1, <2>2, <2>3
<1>4. \A x \in DOMAIN storages' : SameLease(storages'[x], storages[x])
  BY <1>3 DEF IndInv, SqliteTyped, SameLease
<1>5. ForksAreSound' /\ DOMAIN task' = Repositories
  BY <1>2 DEF IndInv, ForksAreSound, SqliteTyped
<1>. QED  BY <1>1, <1>2, <1>3, <1>4, <1>5, KeepStep DEF IndInv, OnePerSession

\* A committed write renews its own lease and no other (enqueueWrite).
LEMMA WriteStep ==
    ASSUME IndInv, NEW o \in DOMAIN storages, writeCommits(o)
    PROVE  IndInv'
<1>. DEFINE st == storages[o]
            new == [Dequeued(o) EXCEPT !.validUntil = now + Ttl]
<1>1. st \in Storage /\ now + Ttl \in Nat
  BY LeaseAssumption, SqliteBoundsAssumption DEF IndInv, SqliteTyped
<1>2. Tail(st.queue) \in Seq(Queued)
  BY <1>1 DEF Storage, writeCommits
<1>3. /\ new \in Storage /\ new.session = st.session
      /\ new.fence = st.fence /\ new.validUntil = now + Ttl
  BY <1>1, <1>2 DEF Storage, Dequeued
<1>4. /\ UNCHANGED <<now, task, claims, lastClaim>>
      /\ canRenew(o) /\ leases' = Renewed(o)
      /\ DOMAIN db' = DOMAIN db /\ DOMAIN lastWrite' = Sessions
      /\ storages' = [storages EXCEPT ![o] = new]
  BY DEF writeCommits, IndInv, OnePerSession
<1>. HIDE DEF new
<1>. QED  BY <1>3, <1>4, RenewStep

\* A heartbeat renews its own lease, or changes none (heartbeat).
LEMMA HeartbeatStep ==
    ASSUME IndInv, NEW o \in DOMAIN storages, heartbeatRuns(o)
    PROVE  IndInv'
<1>. DEFINE st == storages[o]
            renewed == [Dequeued(o) EXCEPT !.validUntil = now + Ttl]
            new == scheduleHeartbeat(renewed)
<1>1. /\ st \in Storage /\ now + Ttl \in Nat /\ now + HeartbeatInterval \in Nat
      /\ now \in Nat /\ now \in 0..MaxTime
  BY LeaseAssumption, SqliteBoundsAssumption DEF IndInv, SqliteTyped
<1>2. Tail(st.queue) \in Seq(Queued)
  BY <1>1 DEF Storage, heartbeatRuns
<1>3. Dequeued(o) \in Storage /\ SameLease(Dequeued(o), st)
  BY <1>1, <1>2 DEF Storage, Dequeued, SameLease
<1>4. UNCHANGED <<now, db, task, claims, lastClaim, lastWrite>>
  BY DEF heartbeatRuns
<1>5. CASE ~st.closing /\ ~st.leaseError /\ canRenew(o)
  <2>1. /\ renewed \in Storage /\ renewed.session = st.session
        /\ renewed.fence = st.fence /\ renewed.validUntil = now + Ttl
    BY <1>1, <1>3 DEF SameLease, Storage
  <2>2. /\ new \in Storage /\ new.session = st.session
        /\ new.fence = st.fence /\ new.validUntil = now + Ttl
    BY <1>1, <2>1 DEF scheduleHeartbeat, Storage
  <2>3. leases' = Renewed(o) /\ storages' = [storages EXCEPT ![o] = new]
    BY <1>5 DEF heartbeatRuns
  <2>. HIDE DEF new
  <2>. QED  BY <1>4, <1>5, <2>2, <2>3, RenewStep DEF IndInv, OnePerSession
<1>6. CASE ~(~st.closing /\ ~st.leaseError /\ canRenew(o))
  <2>1. PICK w : storages' = [storages EXCEPT ![o] = w] /\ SameLease(w, st)
    <3>1. SameLease([Dequeued(o) EXCEPT !.leaseError = TRUE], st)
      BY <1>3 DEF SameLease, Storage
    <3>. QED  BY <1>3, <1>6, <3>1 DEF heartbeatRuns
  <2>2. leases' = leases
    BY <1>6 DEF heartbeatRuns
  <2>3. \A x \in DOMAIN storages' : SameLease(storages'[x], storages[x])
    BY <2>1 DEF IndInv, SqliteTyped, SameLease
  <2>4. ForksAreSound' /\ DOMAIN task' = Repositories
    BY <1>4 DEF IndInv, ForksAreSound, SqliteTyped
  <2>. QED  BY <1>1, <1>4, <2>1, <2>2, <2>3, <2>4, KeepStep DEF IndInv, OnePerSession
<1>. QED  BY <1>5, <1>6

\* A queued release drops its storage, and the row only if it is its own, so
\* a later owner keeps it (finishRelease).
LEMMA ReleaseStep ==
    ASSUME IndInv, NEW o \in DOMAIN storages, releaseRuns(o) \/ releaseFails(o)
    PROVE  IndInv'
<1>. DEFINE s == storages[o].session
<1>1. /\ UNCHANGED <<now, db, claims, lastClaim, lastWrite>>
      /\ DOMAIN storages' = DOMAIN storages \ {o}
      /\ \A x \in DOMAIN storages' : storages'[x] = storages[x]
  BY DEF releaseRuns, releaseFails, Without
<1>2. ForksAreSound' /\ DOMAIN task' = Repositories
  BY DEF IndInv, ForksAreSound, SqliteTyped, releaseRuns, releaseFails
<1>3. now \in 0..MaxTime /\ now <= now
  BY SqliteBoundsAssumption DEF IndInv, SqliteTyped
<1>4. CASE leases' = leases
  <2>1. \A x \in DOMAIN storages' : SameLease(storages'[x], storages[x])
    BY <1>1 DEF IndInv, SqliteTyped, SameLease
  <2>. QED  BY <1>1, <1>2, <1>3, <1>4, <2>1, KeepStep DEF IndInv, OnePerSession
<1>5. CASE leases' # leases
  <2>1. /\ leases' = [leases EXCEPT ![s] = None]
        /\ ownsLease(leases[s], o, storages[o])
    BY <1>5 DEF releaseRuns, releaseFails, releaseWriterLease
  <2>2. \A x \in DOMAIN storages' :
            storages[x].session = s => ~(now < storages[x].validUntil)
    BY <1>1, <2>1 DEF IndInv, LeaseIsKept, ownsLease
  <2>. QED  BY <1>1, <1>2, <2>1, <2>2, DropStep
<1>. QED  BY <1>4, <1>5

-----------------------------------------------------------------------------
(* The steps of a repository.                                              *)

\* Creating or opening a session claims it (create, claimSession).
LEMMA ClaimSteps ==
    ASSUME IndInv, NEW r \in Repositories, NEW s \in Sessions,
           create(r, s) \/ open(r, s)
    PROVE  IndInv'
<1>1. /\ claimWriterLease(r, s) /\ UNCHANGED <<now, task, lastWrite>>
      /\ DOMAIN db \subseteq DOMAIN db' /\ s \in DOMAIN db'
  BY DEF create, open, With
<1>2. ForksAreSound' /\ DOMAIN task' = Repositories
  BY <1>1 DEF IndInv, ForksAreSound, SqliteTyped
<1>. QED  BY <1>1, <1>2, ClaimStep

\* Starting and finishing a task changes no lease (operations.enqueue).
LEMMA TaskSteps ==
    ASSUME IndInv, NEW r \in Repositories,
           \/ \E s \in Deletable : beginTask(r, "delete", s)
           \/ \E s \in Repairable : beginTask(r, "repair", s)
           \/ beginTask(r, "close", None)
           \/ \E f \in Forks : beginFork(r, f)
           \/ close(r)
    PROVE  IndInv'
<1>1. UNCHANGED <<now, db, leases, storages, claims, lastClaim, lastWrite>>
  BY DEF beginTask, beginFork, close
<1>2. PICK t : task' = [task EXCEPT ![r] = t]
               /\ ((t # None /\ t.op = "fork") =>
                    /\ DOMAIN t = ForkFields
                    /\ t.target \in Sessions
                    /\ t.step \in Nat \ {0})
  <2>1. CASE \E f \in Forks : beginFork(r, f)
    <3>1. PICK f \in Forks : beginFork(r, f)
      BY <2>1
    <3>. DEFINE t == [op |-> "fork", session |-> f.source, target |-> f.target,
                      options |-> f.options, step |-> 1, entries |-> <<>>,
                      lanes |-> <<>>, tips |-> {}, name |-> None, labels |-> <<>>]
    <3>2. task' = [task EXCEPT ![r] = t]
      BY <3>1 DEF beginFork, Run
    <3>3. f.target \in Sessions
      BY SqliteBoundsAssumption
    <3>4. DOMAIN t = ForkFields /\ t.target \in Sessions /\ t.step \in Nat \ {0}
      BY <3>3 DEF ForkFields
    <3>. QED  BY <3>2, <3>4
  <2>2. CASE ~\E f \in Forks : beginFork(r, f)
    BY <2>2 DEF beginTask, close, Run
  <2>. QED  BY <2>1, <2>2
<1>3. ForksAreSound' /\ DOMAIN task' = Repositories
  BY <1>2 DEF IndInv, ForksAreSound, SqliteTyped
<1>4. \A x \in DOMAIN storages' : SameLease(storages'[x], storages[x])
  BY <1>1 DEF IndInv, SqliteTyped, SameLease
<1>5. now \in 0..MaxTime /\ now <= now
  BY SqliteBoundsAssumption DEF IndInv, SqliteTyped
<1>. QED  BY <1>1, <1>3, <1>4, <1>5, KeepStep DEF IndInv, OnePerSession

\* A fork's read changes no lease and keeps the fork's target (fork).
LEMMA ForkReadStep ==
    ASSUME IndInv, NEW r \in Repositories, forkReads(r)
    PROVE  IndInv'
<1>. DEFINE f == task[r]
            what == ForkReads(f.options)[f.step]
            read == ForkRead(f, Source(r), what)
<1>1. /\ UNCHANGED <<now, db, leases, storages, claims, lastClaim, lastWrite>>
      /\ f # None /\ f.op = "fork" /\ DOMAIN f = ForkFields
      /\ f.target \in Sessions /\ f.step \in Nat \ {0}
      /\ f.step <= Len(ForkReads(f.options))
  BY DEF forkReads, Idle, IndInv, ForksAreSound
<1>2. what \in {"entries", "lanes", "tips", "name", "labels", "main", "branch"}
  BY <1>1 DEF ForkReads
<1>. HIDE DEF what
<1>3. /\ DOMAIN read = ForkFields /\ read.target = f.target
      /\ read.step = f.step
  <2>. HIDE DEF f
  <2>1. \A v : /\ DOMAIN [f EXCEPT !.entries = v] = ForkFields
               /\ [f EXCEPT !.entries = v].target = f.target
               /\ [f EXCEPT !.entries = v].step = f.step
    BY <1>1 DEF ForkFields
  <2>2. \A v : /\ DOMAIN [f EXCEPT !.lanes = v] = ForkFields
               /\ [f EXCEPT !.lanes = v].target = f.target
               /\ [f EXCEPT !.lanes = v].step = f.step
    BY <1>1 DEF ForkFields
  <2>3. \A v : /\ DOMAIN [f EXCEPT !.tips = v] = ForkFields
               /\ [f EXCEPT !.tips = v].target = f.target
               /\ [f EXCEPT !.tips = v].step = f.step
    BY <1>1 DEF ForkFields
  <2>4. \A v : /\ DOMAIN [f EXCEPT !.name = v] = ForkFields
               /\ [f EXCEPT !.name = v].target = f.target
               /\ [f EXCEPT !.name = v].step = f.step
    BY <1>1 DEF ForkFields
  <2>5. \A v : /\ DOMAIN [f EXCEPT !.labels = v] = ForkFields
               /\ [f EXCEPT !.labels = v].target = f.target
               /\ [f EXCEPT !.labels = v].step = f.step
    BY <1>1 DEF ForkFields
  <2>6. \A v, w, x :
            LET g == [f EXCEPT !.lanes = v, !.entries = w, !.tips = x]
            IN  DOMAIN g = ForkFields /\ g.target = f.target /\ g.step = f.step
    BY <1>1 DEF ForkFields
  <2>. QED  BY <1>2, <2>1, <2>2, <2>3, <2>4, <2>5, <2>6 DEF ForkRead, readBranch
<1>. HIDE DEF read
<1>4. ForksAreSound' /\ DOMAIN task' = Repositories
  <2>1. \/ task' = [task EXCEPT ![r] = None]
        \/ task' = [task EXCEPT ![r] = [read EXCEPT !.step = @ + 1]]
    BY DEF forkReads, Run, read, what
  <2>2. LET g == [read EXCEPT !.step = @ + 1]
        IN  DOMAIN g = ForkFields /\ g.target \in Sessions /\ g.step \in Nat \ {0}
    BY <1>1, <1>3 DEF ForkFields
  <2>. QED  BY <2>1, <2>2 DEF IndInv, ForksAreSound, SqliteTyped
<1>5. \A x \in DOMAIN storages' : SameLease(storages'[x], storages[x])
  BY <1>1 DEF IndInv, SqliteTyped, SameLease
<1>6. now \in 0..MaxTime /\ now <= now
  BY SqliteBoundsAssumption DEF IndInv, SqliteTyped
<1>. QED  BY <1>1, <1>4, <1>5, <1>6, KeepStep DEF IndInv, OnePerSession

\* The transaction of a fork claims the target or throws (fork).
LEMMA ForkStep ==
    ASSUME IndInv, NEW r \in Repositories, fork(r)
    PROVE  IndInv'
<1>1. /\ task[r] # None /\ task[r].op = "fork" /\ task[r].target \in Sessions
      /\ UNCHANGED <<now, lastWrite>>
  BY DEF fork, Idle, IndInv, ForksAreSound
<1>2. ForksAreSound' /\ DOMAIN task' = Repositories
  BY DEF fork, Run, IndInv, ForksAreSound, SqliteTyped
<1>3. CASE ForkThrows(task[r])
  <2>1. UNCHANGED <<db, leases, storages, claims, lastClaim>>
    BY <1>3 DEF fork
  <2>2. \A x \in DOMAIN storages' : SameLease(storages'[x], storages[x])
    BY <2>1 DEF IndInv, SqliteTyped, SameLease
  <2>3. now \in 0..MaxTime /\ now <= now
    BY SqliteBoundsAssumption DEF IndInv, SqliteTyped
  <2>. QED  BY <1>1, <1>2, <2>1, <2>2, <2>3, KeepStep DEF IndInv, OnePerSession
<1>4. CASE ~ForkThrows(task[r])
  <2>1. /\ claimWriterLease(r, task[r].target)
        /\ DOMAIN db' = DOMAIN db \cup {task[r].target}
    BY <1>4 DEF fork, With
  <2>. QED  BY <1>1, <1>2, <2>1, ClaimStep
<1>. QED  BY <1>3, <1>4

\* Deleting or repairing a session removes its row only when no unexpired
\* lease is on it (delete, repairBranchCache).
LEMMA DropSteps ==
    ASSUME IndInv, NEW r \in Repositories, delete(r) \/ repairBranchCache(r)
    PROVE  IndInv'
<1>. DEFINE s == task[r].session
<1>1. UNCHANGED <<now, storages, claims, lastClaim, lastWrite>>
  BY DEF delete, repairBranchCache
<1>2. ForksAreSound' /\ DOMAIN task' = Repositories
  BY DEF delete, repairBranchCache, Run, IndInv, ForksAreSound, SqliteTyped
<1>3. CASE UNCHANGED <<db, leases>>
  <2>1. \A x \in DOMAIN storages' : SameLease(storages'[x], storages[x])
    BY <1>1 DEF IndInv, SqliteTyped, SameLease
  <2>2. now \in 0..MaxTime /\ now <= now
    BY SqliteBoundsAssumption DEF IndInv, SqliteTyped
  <2>. QED  BY <1>1, <1>2, <1>3, <2>1, <2>2, KeepStep DEF IndInv, OnePerSession
<1>4. CASE ~UNCHANGED <<db, leases>>
  <2>1. /\ leases' = [leases EXCEPT ![s] = None]
        /\ DOMAIN db \ {s} \subseteq DOMAIN db'
        /\ s \notin DOMAIN db \/ canAcquire(s)
    BY <1>4 DEF delete, repairBranchCache, Without
  <2>2. ASSUME NEW o \in DOMAIN storages', storages[o].session = s
        PROVE  ~(now < storages[o].validUntil)
    <3>1. o \in DOMAIN storages /\ storages[o].validUntil \in Nat /\ now \in Nat
      BY <1>1, SqliteBoundsAssumption DEF IndInv, SqliteTyped, Storage
    <3>. QED  BY <2>1, <2>2, <3>1 DEF IndInv, LeaseIsKept, ownsLease, canAcquire
  <2>. QED  BY <1>1, <1>2, <2>1, <2>2, DropStep
<1>. QED  BY <1>3, <1>4

\* Asking a storage to release only queues the release (release).
LEMMA ReleasingStep ==
    ASSUME IndInv, NEW r \in Repositories, release(r)
    PROVE  IndInv'
<1>. DEFINE o == Min(Releasing(r))
            st == storages[o]
            queue == Append(st.queue, [op |-> "release"])
            new == [st EXCEPT !.closing = TRUE, !.timer = None, !.queue = queue]
<1>1. UNCHANGED <<now, db, leases, task, claims, lastClaim, lastWrite>>
  BY DEF release
<1>2. storages' = [storages EXCEPT ![o] = new]
  BY DEF release
<1>3. ASSUME o \in DOMAIN storages PROVE SameLease(new, st)
  <2>1. st \in Storage
    BY <1>3 DEF IndInv, SqliteTyped
  <2>2. queue \in Seq(Queued)
    BY <2>1 DEF Storage, Queued
  <2>. HIDE DEF o, queue
  <2>. QED  BY <2>1, <2>2 DEF SameLease, Storage
<1>. HIDE DEF o, new
<1>4. \A x \in DOMAIN storages' : SameLease(storages'[x], storages[x])
  BY <1>2, <1>3 DEF IndInv, SqliteTyped, SameLease
<1>5. ForksAreSound' /\ DOMAIN task' = Repositories
  BY <1>1 DEF IndInv, ForksAreSound, SqliteTyped
<1>6. now \in 0..MaxTime /\ now <= now
  BY SqliteBoundsAssumption DEF IndInv, SqliteTyped
<1>. QED  BY <1>1, <1>2, <1>4, <1>5, <1>6, KeepStep DEF IndInv, OnePerSession

\* A process that dies takes its storages with it and leaves its rows.
LEMMA CrashStep ==
    ASSUME IndInv, NEW r \in Repositories, crash(r)
    PROVE  IndInv'
<1>1. /\ UNCHANGED <<now, db, leases, claims, lastClaim, lastWrite>>
      /\ DOMAIN storages' \subseteq DOMAIN storages
      /\ \A x \in DOMAIN storages' : SameLease(storages'[x], storages[x])
  BY DEF crash, IndInv, SqliteTyped, SameLease
<1>2. ForksAreSound' /\ DOMAIN task' = Repositories
  BY DEF crash, Run, IndInv, ForksAreSound, SqliteTyped
<1>3. now \in 0..MaxTime /\ now <= now
  BY SqliteBoundsAssumption DEF IndInv, SqliteTyped
<1>. QED  BY <1>1, <1>2, <1>3, KeepStep DEF IndInv, OnePerSession

\* Leases only expire as time passes.
LEMMA TickStep == ASSUME IndInv, tick PROVE IndInv'
<1>1. /\ UNCHANGED <<db, leases, storages, task, claims, lastClaim, lastWrite>>
      /\ now' \in 0..MaxTime /\ now <= now'
  BY SqliteBoundsAssumption DEF tick, IndInv, SqliteTyped
<1>2. \A x \in DOMAIN storages' : SameLease(storages'[x], storages[x])
  BY <1>1 DEF IndInv, SqliteTyped, SameLease
<1>3. ForksAreSound' /\ DOMAIN task' = Repositories
  BY <1>1 DEF IndInv, ForksAreSound, SqliteTyped
<1>. QED  BY <1>1, <1>2, <1>3, KeepStep DEF IndInv, OnePerSession

-----------------------------------------------------------------------------
(* The theorems.                                                           *)

\* Every step preserves the invariant.
LEMMA IndInvStep == IndInv /\ [Next]_vars => IndInv'
<1>. SUFFICES ASSUME IndInv, [Next]_vars PROVE IndInv'
  OBVIOUS
<1>1. ASSUME NEW o \in DOMAIN storages, StorageStep(o) PROVE IndInv'
  BY <1>1, QueueSteps, WriteStep, HeartbeatStep, ReleaseStep DEF StorageStep
<1>2. ASSUME NEW r \in Repositories, RepositoryStep(r) PROVE IndInv'
  <2>1. CASE \E s \in Sessions : create(r, s) \/ open(r, s)
    BY <2>1, ClaimSteps
  <2>2. CASE ~\E s \in Sessions : create(r, s) \/ open(r, s)
    BY <1>2, <2>2, SqliteBoundsAssumption, TaskSteps, ForkReadStep, ForkStep,
       DropSteps, ReleasingStep, CrashStep DEF RepositoryStep
  <2>. QED  BY <2>1, <2>2
<1>3. CASE tick
  BY <1>3, TickStep
<1>4. CASE UNCHANGED vars
  BY <1>4 DEF vars, IndInv, SqliteTyped, OnePerSession, ForksAreSound, LeaseIsKept,
     ownsLease, LastClaimHoldsRow, RowsHaveSessions
<1>. QED  BY <1>1, <1>2, <1>3, <1>4 DEF Next

\* The invariant holds throughout.
LEMMA IndInvAlways == Spec => []IndInv
BY IndInvInit, IndInvStep, PTL DEF Spec

\* Lease rows and storages keep their shapes through every claim, renewal,
\* release, crash and takeover.
THEOREM AlwaysTyped == Spec => []SqliteTyped
<1>1. IndInv => SqliteTyped
  BY DEF IndInv
<1>. QED  BY <1>1, IndInvAlways, PTL

\* For any number of processes and any lease time: until the expiry it last
\* committed has passed, a storage's session exists and its row is its own,
\* whatever the other processes claim, repair, delete, release or crash
\* (acquireWriterLease, renewWriterLease, releaseWriterLease).
THEOREM LeaseNeverTaken == Spec => []LeaseIsKept
<1>1. IndInv => LeaseIsKept
  BY DEF IndInv
<1>. QED  BY <1>1, IndInvAlways, PTL

\* At most one storage of a session, over all processes, holds a lease that
\* has not expired: there is one writer at a time.
OneWriter ==
    \A a, b \in DOMAIN storages :
        (/\ storages[a].session = storages[b].session
         /\ now < storages[a].validUntil
         /\ now < storages[b].validUntil) => a = b

\* For any number of processes, crashes, takeovers and clock readings, a session has
\* one unexpired owner (claimLease, heartbeat).
THEOREM OneWriterAtATime == Spec => []OneWriter
<1>1. IndInv => OneWriter
  BY DEF IndInv, LeaseIsKept, OneWriter, ownsLease
<1>. QED  BY <1>1, IndInvAlways, PTL

\* A committed write is the write of the session's last claim, so that no
\* queued write of an earlier owner is committed after a takeover, although
\* the fence starts again at 1 once a row was released (enqueueWrite).
THEOREM StaleWritesFenced == Spec => WritesAreFenced
<1>1. ASSUME IndInv, [Next]_vars, NEW s \in Sessions, lastWrite'[s] # lastWrite[s]
      PROVE  lastWrite'[s][1] >= lastClaim[s]
  <2>1. PICK o \in DOMAIN storages : writeCommits(o)
    BY <1>1 DEF Next, vars, StorageStep, RepositoryStep, enqueueWrite,
       heartbeatFires, leaseIsLost, writeFails, heartbeatRuns, heartbeatFails,
       releaseRuns, releaseFails, create, open, beginTask, beginFork, release,
       delete, repairBranchCache, close, forkReads, fork, crash, tick
  <2>2. /\ storages[o].session = s
        /\ lastWrite'[s][1] = o
    BY <1>1, <2>1 DEF writeCommits, IndInv, OnePerSession
  <2>3. leases[s] # None /\ leases[s].owner = o
    BY <2>1, <2>2 DEF writeCommits, canRenew, ownsLease
  <2>4. lastClaim[s] = o /\ o \in Nat
    BY <1>1, <2>3 DEF IndInv, LastClaimHoldsRow, OnePerSession
  <2>. QED  BY <2>2, <2>4
<1>2. IndInv /\ [Next]_vars =>
        [\A s \in Sessions :
            lastWrite'[s] # lastWrite[s] => lastWrite'[s][1] >= lastClaim[s]]_vars
  BY <1>1
<1>. QED  BY <1>2, IndInvAlways, PTL DEF Spec, WritesAreFenced

-----------------------------------------------------------------------------
(* The tables of one session: the branch cache.                            *)

\* B is the set of entries from a root down to leaf: with an entry also its
\* parent, and every other entry than leaf is the parent of one.
Path(entries, leaf, B) ==
    /\ B \subseteq DOMAIN entries /\ leaf \in B
    /\ \A e \in B : entries[e].parentId \in B \cup {None}
    /\ \A e \in B \ {leaf} : \E c \in B : entries[c].parentId = e

\* A nonempty set of entries has a youngest one.
LEMMA YoungestExists ==
    ASSUME NEW entries, NEW n \in Nat, Forest(entries, n),
           NEW U \in SUBSET DOMAIN entries, U # {}
    PROVE  \E e \in U : \A c \in U : entries[c].seq <= entries[e].seq
<1>. DEFINE seq(e) == entries[e].seq
            ages == {n - seq(e) : e \in U}
            R == OpToRel(<, Nat)
<1>1. \A e \in U : seq(e) \in 1..n
  BY DEF Forest
<1>. HIDE DEF seq
<1>2. ages \subseteq Nat /\ ages # {}
  BY <1>1
<1>3. IsWellFoundedOn(R, Nat)
  BY NatLessThanWellFounded
<1>4. PICK x \in ages : \A y \in ages : ~ (<<y, x>> \in R)
  <2>. HIDE DEF R, ages
  <2>. QED  BY <1>2, <1>3, WFMin
<1>5. \A y \in ages : ~ (y < x)
  BY <1>2, <1>4 DEF OpToRel
<1>6. PICK e \in U : x = n - seq(e)
  OBVIOUS
<1>7. \A c \in U : ~ (n - seq(c) < n - seq(e))
  BY <1>5, <1>6
<1>8. \A c \in U : seq(c) <= seq(e)
  BY <1>1, <1>7
<1>. QED  BY <1>8 DEF seq

\* A path lies in every set that has its leaf and, with an entry, its parent:
\* the youngest entry of the path that were missing would be the parent of
\* one that is not.
LEMMA PathInside ==
    ASSUME NEW entries, NEW n \in Nat, Forest(entries, n), NEW leaf, NEW B, NEW C,
           Path(entries, leaf, B), leaf \in C,
           \A e \in C \cap DOMAIN entries : entries[e].parentId \in C \cup {None}
    PROVE  B \subseteq C
<1>. DEFINE U == B \ C
<1>1. SUFFICES ASSUME U # {} PROVE FALSE
  OBVIOUS
<1>2. U \in SUBSET DOMAIN entries
  BY DEF Path
<1>3. PICK e \in U : \A c \in U : entries[c].seq <= entries[e].seq
  <2>. HIDE DEF U
  <2>. QED  BY <1>1, <1>2, YoungestExists
<1>4. PICK c \in B : entries[c].parentId = e
  BY DEF Path
<1>5. c \in DOMAIN entries /\ e \in DOMAIN entries /\ e # None
  BY <1>2, IdsAssumption DEF Path, Forest
<1>6. /\ entries[e].seq < entries[c].seq
      /\ entries[e].seq \in Nat /\ entries[c].seq \in Nat
  BY <1>4, <1>5 DEF Forest
<1>7. c \notin U
  BY <1>3, <1>6
<1>. QED  BY <1>4, <1>5, <1>7

\* There is one path to a leaf.
LEMMA PathIsOne ==
    ASSUME NEW entries, NEW n \in Nat, Forest(entries, n), NEW leaf, NEW B, NEW C,
           Path(entries, leaf, B), Path(entries, leaf, C)
    PROVE  B = C
<1>1. B \subseteq C
  <2>1. leaf \in C /\ \A e \in C \cap DOMAIN entries : entries[e].parentId \in C \cup {None}
    BY DEF Path
  <2>. QED  BY <2>1, PathInside
<1>2. C \subseteq B
  <2>1. leaf \in B /\ \A e \in B \cap DOMAIN entries : entries[e].parentId \in B \cup {None}
    BY DEF Path
  <2>. QED  BY <2>1, PathInside
<1>. QED  BY <1>1, <1>2

\* The part of a chain up to one of its entries is the path to it.
LEMMA ChainPath ==
    ASSUME NEW entries, NEW b, NEW leaf, Chain(entries, b, leaf),
           NEW k \in 1..Len(b)
    PROVE  Path(entries, b[k], {b[i] : i \in 1..k})
<1>. DEFINE B == {b[i] : i \in 1..k}
<1>1. /\ b \in Seq(DOMAIN entries) /\ Len(b) \in Nat /\ b # <<>>
      /\ entries[b[1]].parentId = None
      /\ \A i \in 2..Len(b) : entries[b[i]].parentId = b[i - 1]
  BY DEF Chain
<1>2. \A i \in 1..k : i \in 1..Len(b) /\ b[i] \in DOMAIN entries
  BY <1>1
<1>3. k \in 1..k
  BY <1>1
<1>4. B \subseteq DOMAIN entries /\ b[k] \in B
  BY <1>2, <1>3
<1>5. ASSUME NEW i \in 1..k PROVE entries[b[i]].parentId \in B \cup {None}
  <2>1. CASE i = 1
    BY <1>1, <2>1
  <2>2. CASE i # 1
    <3>1. i \in 2..Len(b) /\ i - 1 \in 1..k
      BY <1>1, <2>2
    <3>. QED  BY <1>1, <3>1
  <2>. QED  BY <2>1, <2>2
<1>6. ASSUME NEW i \in 1..k, b[i] # b[k] PROVE \E c \in B : entries[c].parentId = b[i]
  <2>1. i + 1 \in 1..k /\ i + 1 \in 2..Len(b) /\ (i + 1) - 1 = i
    BY <1>1, <1>6
  <2>2. entries[b[i + 1]].parentId = b[i] /\ b[i + 1] \in B
    BY <1>1, <2>1
  <2>. QED  BY <2>2
<1>7. \A e \in B : \E i \in 1..k : e = b[i]
  OBVIOUS
<1>8. \A e \in B : entries[e].parentId \in B \cup {None}
  <2>. HIDE DEF B
  <2>. QED  BY <1>5, <1>7
<1>9. \A e \in B \ {b[k]} : \E c \in B : entries[c].parentId = e
  <2>. HIDE DEF B
  <2>. QED  BY <1>6, <1>7
<1>. HIDE DEF B
<1>10. Path(entries, b[k], B)
  BY <1>4, <1>8, <1>9 DEF Path
<1>. QED  BY <1>10 DEF B

\* The ids of Branch(s, leaf) are the path to the leaf.
LEMMA BranchPath ==
    ASSUME NEW s, IsTree(s), NEW leaf \in DOMAIN s.entriesById
    PROVE  Path(s.entriesById, leaf, Range(Branch(s, leaf)))
<1>. DEFINE entries == s.entriesById
            b == Branch(s, leaf)
<1>1. Chain(entries, b, leaf)
  BY BranchIsChain
<1>2. leaf # None
  BY IdsAssumption DEF IsTree, Forest
<1>. HIDE DEF b, entries
<1>3. b \in Seq(DOMAIN entries) /\ b # <<>> /\ b[Len(b)] = leaf
  BY <1>1, <1>2 DEF Chain
<1>4. Len(b) \in 1..Len(b)
  BY <1>3
<1>5. Path(entries, b[Len(b)], {b[i] : i \in 1..Len(b)})
  BY <1>1, <1>4, ChainPath
<1>6. {b[i] : i \in 1..Len(b)} = Range(b)
  <2>1. \A x : x \in Range(b) <=> \E i \in 1..Len(b) : b[i] = x
    BY <1>3, RangeIs
  <2>. QED  BY <2>1
<1>. QED  BY <1>3, <1>5, <1>6 DEF b, entries

\* A path stays one while the entries grow.
LEMMA PathKept ==
    ASSUME NEW entries, NEW later, Kept(entries, later), NEW leaf, NEW B,
           Path(entries, leaf, B)
    PROVE  Path(later, leaf, B)
BY DEF Path, Kept

\* The entries of a path that are not younger than one of them are the path
\* to that one.
LEMMA PathThrough ==
    ASSUME NEW entries, NEW n \in Nat, Forest(entries, n), NEW leaf, NEW B,
           Path(entries, leaf, B), NEW id \in B
    PROVE  Path(entries, id, {e \in B : entries[e].seq <= entries[id].seq})
<1>. DEFINE s == [entriesById |-> entries, sequence |-> n]
            b == Branch(s, leaf)
<1>1. IsTree(s) /\ s.entriesById = entries
  BY DEF IsTree
<1>2. leaf \in DOMAIN entries /\ None \notin DOMAIN entries
  BY IdsAssumption DEF Path, Forest
<1>3. Chain(entries, b, leaf) /\ Path(entries, leaf, Range(b))
  <2>. HIDE DEF s
  <2>. QED  BY <1>1, <1>2, BranchIsChain, BranchPath
<1>. HIDE DEF s, b
<1>4. B = Range(b)
  BY <1>3, PathIsOne
<1>5. /\ b \in Seq(DOMAIN entries) /\ Len(b) \in Nat
      /\ \A x : x \in Range(b) <=> \E i \in 1..Len(b) : b[i] = x
  <2>1. b \in Seq(DOMAIN entries)
    BY <1>3 DEF Chain
  <2>. QED  BY <2>1, RangeIs
<1>6. \A i, j \in 1..Len(b) : i < j => entries[b[i]].seq < entries[b[j]].seq
  BY <1>2, <1>3, ChainGetsYounger
<1>7. PICK k \in 1..Len(b) : b[k] = id
  BY <1>4, <1>5
<1>8. \A i \in 1..Len(b) : entries[b[i]].seq \in Nat
  <2>1. \A x \in DOMAIN entries : entries[x].seq \in Nat
    BY DEF Forest
  <2>. QED  BY <1>5, <2>1
<1>9. \A i \in 1..Len(b) : entries[b[i]].seq <= entries[b[k]].seq <=> i \in 1..k
  <2>1. \A i \in 1..Len(b) : i < k \/ i = k \/ k < i
    BY <1>5
  <2>2. \A i \in 1..Len(b) : i < k => entries[b[i]].seq < entries[b[k]].seq
    BY <1>6
  <2>3. \A i \in 1..Len(b) : k < i => entries[b[k]].seq < entries[b[i]].seq
    BY <1>6
  <2>4. \A i \in 1..Len(b) : i \in 1..k <=> i < k \/ i = k
    BY <1>5
  <2>5. \A i \in 1..Len(b) : k < i => ~ (i < k) /\ i # k
    BY <1>5
  <2>. QED  BY <2>1, <2>2, <2>3, <2>4, <2>5, <1>8
<1>10. {e \in B : entries[e].seq <= entries[id].seq} = {b[i] : i \in 1..k}
  <2>1. \A i \in 1..k : i \in 1..Len(b)
    BY <1>5
  <2>. QED  BY <1>4, <1>5, <1>7, <1>9, <2>1
<1>11. Path(entries, b[k], {b[i] : i \in 1..k})
  BY <1>3, ChainPath
<1>. QED  BY <1>7, <1>10, <1>11

Messages(entries) == {id \in DOMAIN entries : entries[id].type = "message"}

\* The branch cache of some entries: branches numbered from 1, each the path
\* to its tip, and every entry on one of them.
Cached(entries, branches, tips) ==
    /\ \E K \in Nat : DOMAIN branches = 1..K
    /\ DOMAIN tips = DOMAIN branches
    /\ \A b \in DOMAIN branches : Path(entries, tips[b], branches[b])
    /\ \A id \in DOMAIN entries : \E b \in DOMAIN branches : id \in branches[b]

\* The lanes of a session point at its entries.
LanesInto(lanes, entries) ==
    /\ IsFiniteSet(DOMAIN lanes)
    /\ \A l \in DOMAIN lanes :
        /\ lanes[l] = [leafId |-> lanes[l].leafId, open |-> lanes[l].open]
        /\ lanes[l].leafId \in DOMAIN entries \cup {None}

IsRecordOfTables(t) ==
    t = [nextSeq |-> t.nextSeq, entries |-> t.entries, records |-> t.records,
         lanes |-> t.lanes, facts |-> t.facts, branches |-> t.branches,
         tips |-> t.tips, messages |-> t.messages]

Fact == [kind : {"name", "label"}, key : Ids \cup {None},
         value : Values \cup {None}]

\* What the tables of every session satisfy.
GoodTables(t) ==
    /\ IsRecordOfTables(t)
    /\ t.nextSeq \in Nat \ {0}
    /\ Forest(t.entries, t.nextSeq - 1) /\ IsFiniteSet(DOMAIN t.entries)
    /\ LanesInto(t.lanes, t.entries)
    /\ t.facts \in Seq(Fact)
    /\ Cached(t.entries, t.branches, t.tips)
    /\ t.messages = Cardinality(Messages(t.entries))

\* Walks over the tables' entries are walks over a tree.
LEMMA TablesAreTree ==
    ASSUME NEW t, t.nextSeq \in Nat \ {0}, Forest(t.entries, t.nextSeq - 1)
    PROVE  IsTree(Tree(t)) /\ Tree(t).entriesById = t.entries
BY DEF IsTree, Tree

\* The derived tables of such a session match its entries.
LEMMA GoodTablesMatch ==
    ASSUME NEW t, GoodTables(t)
    PROVE  /\ DOMAIN t.tips = DOMAIN t.branches
           /\ \A b \in DOMAIN t.branches :
                t.branches[b] = Range(Branch(Tree(t), t.tips[b]))
           /\ \A id \in DOMAIN t.entries : readBranchesContaining(t, id) # {}
           /\ \A l \in DOMAIN t.lanes : entryExists(t, t.lanes[l].leafId)
           /\ t.messages = Cardinality({id \in DOMAIN t.entries :
                                            t.entries[id].type = "message"})
<1>1. /\ t.nextSeq \in Nat \ {0} /\ t.nextSeq - 1 \in Nat
      /\ Forest(t.entries, t.nextSeq - 1)
      /\ Cached(t.entries, t.branches, t.tips) /\ LanesInto(t.lanes, t.entries)
      /\ t.messages = Cardinality(Messages(t.entries))
  BY DEF GoodTables
<1>2. IsTree(Tree(t)) /\ Tree(t).entriesById = t.entries
  BY <1>1, TablesAreTree
<1>3. ASSUME NEW b \in DOMAIN t.branches
      PROVE  t.branches[b] = Range(Branch(Tree(t), t.tips[b]))
  <2>1. Path(t.entries, t.tips[b], t.branches[b]) /\ t.tips[b] \in DOMAIN t.entries
    BY <1>1, <1>3 DEF Cached, Path
  <2>2. Path(t.entries, t.tips[b], Range(Branch(Tree(t), t.tips[b])))
    BY <1>2, <2>1, BranchPath
  <2>. QED  BY <1>1, <2>1, <2>2, PathIsOne
<1>4. \A id \in DOMAIN t.entries : readBranchesContaining(t, id) # {}
  BY <1>1 DEF Cached, readBranchesContaining
<1>5. \A l \in DOMAIN t.lanes : entryExists(t, t.lanes[l].leafId)
  BY <1>1 DEF LanesInto, entryExists
<1>. QED  BY <1>1, <1>3, <1>4, <1>5 DEF Cached, Messages

\* A session that was just created.
LEMMA NoTablesGood == GoodTables(NoTables) /\ NoTables.entries = <<>>
<1>1. DOMAIN NoTables.entries = {} /\ NoTables.nextSeq = 1 /\ 1 - 1 = 0
  BY DEF NoTables
<1>2. IsFiniteSet({}) /\ Cardinality({}) = 0 /\ IsFiniteSet({"main"})
  BY FS_EmptySet, FS_Singleton
<1>3. Messages(NoTables.entries) = {}
  BY <1>1 DEF Messages
<1>4. Forest(NoTables.entries, 0)
  BY <1>1 DEF Forest
<1>5. LanesInto(NoTables.lanes, NoTables.entries)
  BY <1>2 DEF LanesInto, NoTables
<1>6. Cached(NoTables.entries, NoTables.branches, NoTables.tips)
  <2>1. DOMAIN NoTables.branches = {} /\ DOMAIN NoTables.tips = {} /\ 1..0 = {}
    BY DEF NoTables
  <2>. QED  BY <1>1, <2>1 DEF Cached
<1>7. NoTables.facts \in Seq(Fact) /\ NoTables.messages = 0 /\ IsRecordOfTables(NoTables)
  BY DEF NoTables, IsRecordOfTables
<1>8. NoTables.entries = <<>>
  BY DEF NoTables
<1>9. /\ NoTables.nextSeq \in Nat \ {0} /\ NoTables.nextSeq - 1 = 0
      /\ IsFiniteSet(DOMAIN NoTables.entries)
      /\ NoTables.messages = Cardinality(Messages(NoTables.entries))
  BY <1>1, <1>2, <1>3, <1>7
<1>. QED  BY <1>4, <1>5, <1>6, <1>7, <1>8, <1>9 DEF GoodTables

-----------------------------------------------------------------------------
(* One entry more in the branch cache.                                     *)

\* The least element of a nonempty set of numbers.
LEMMA MinIs ==
    ASSUME NEW S \in SUBSET Nat, S # {}
    PROVE  Min(S) \in S
<1>. DEFINE R == OpToRel(<, Nat)
<1>1. IsWellFoundedOn(R, Nat)
  BY NatLessThanWellFounded
<1>2. PICK x \in S : \A y \in S : ~ (<<y, x>> \in R)
  <2>. HIDE DEF R
  <2>. QED  BY <1>1, WFMin
<1>3. \A y \in S : ~ (y < x)
  BY <1>2 DEF OpToRel
<1>4. \A y \in S : x <= y
  BY <1>3
<1>. QED  BY <1>4 DEF Min

\* A path to the new entry: through its parent, or the entry alone.
LEMMA PathGrows ==
    ASSUME NEW entries, NEW id, id \notin DOMAIN entries, id # None,
           NEW later, Kept(entries, later), DOMAIN later = DOMAIN entries \cup {id},
           NEW B, \/ later[id].parentId = None /\ B = {}
                  \/ Path(entries, later[id].parentId, B)
    PROVE  Path(later, id, B \cup {id})
<1>1. B \subseteq DOMAIN entries
  BY DEF Path
<1>2. \A e \in B : later[e].parentId \in B \cup {None}
  BY <1>1 DEF Path, Kept
<1>3. later[id].parentId \in B \cup {None}
  BY DEF Path
<1>4. \A e \in B : \E c \in B \cup {id} : later[c].parentId = e
  BY <1>1 DEF Path, Kept
<1>. QED  BY <1>1, <1>2, <1>3, <1>4 DEF Path

\* A branch for the new entry replaces one it extends, or is added; the other
\* branches stay.
LEMMA CacheGrows ==
    ASSUME NEW entries, NEW branches, NEW tips, Cached(entries, branches, tips),
           NEW id, NEW later, Kept(entries, later),
           DOMAIN later = DOMAIN entries \cup {id},
           NEW b, NEW B, Path(later, id, B),
           \/ b \in DOMAIN branches /\ branches[b] \subseteq B
           \/ b = Cardinality(DOMAIN branches) + 1
    PROVE  Cached(later, With(branches, b, B), With(tips, b, id))
<1>. DEFINE more == With(branches, b, B)
            ends == With(tips, b, id)
<1>1. PICK K \in Nat : DOMAIN branches = 1..K
  BY DEF Cached
<1>2. Cardinality(DOMAIN branches) = K
  BY <1>1, FS_Interval
<1>3. \E N \in Nat : DOMAIN more = 1..N
  <2>1. CASE b \in DOMAIN branches
    BY <1>1, <2>1 DEF With
  <2>2. CASE b = K + 1
    <3>1. DOMAIN more = 1..(K + 1)
      BY <1>1, <2>2 DEF With
    <3>. QED  BY <1>1, <3>1
  <2>. QED  BY <1>2, <2>1, <2>2
<1>4. /\ DOMAIN more = DOMAIN branches \cup {b} /\ DOMAIN ends = DOMAIN tips \cup {b}
      /\ more[b] = B /\ ends[b] = id
      /\ \A x \in DOMAIN branches : x # b => more[x] = branches[x]
      /\ \A x \in DOMAIN tips : x # b => ends[x] = tips[x]
  BY DEF With
<1>. HIDE DEF more, ends
<1>5. DOMAIN tips = DOMAIN branches
  BY DEF Cached
<1>6. ASSUME NEW x \in DOMAIN more PROVE Path(later, ends[x], more[x])
  <2>1. CASE x = b
    BY <1>4, <2>1
  <2>2. CASE x # b
    <3>1. x \in DOMAIN branches /\ Path(entries, tips[x], branches[x])
      BY <1>4, <2>2 DEF Cached
    <3>2. Path(later, tips[x], branches[x])
      BY <3>1, PathKept
    <3>. QED  BY <1>4, <1>5, <2>2, <3>1, <3>2
  <2>. QED  BY <2>1, <2>2
<1>7. ASSUME NEW e \in DOMAIN later PROVE \E x \in DOMAIN more : e \in more[x]
  <2>1. CASE e = id
    BY <1>4, <2>1 DEF Path
  <2>2. CASE e # id
    <3>1. PICK x \in DOMAIN branches : e \in branches[x]
      BY <2>2 DEF Cached
    <3>2. CASE x = b
      <4>1. b \in DOMAIN branches
        BY <3>1, <3>2
      <4>2. b # K + 1
        BY <1>1, <4>1
      <4>3. branches[b] \subseteq B
        BY <1>2, <4>2
      <4>. QED  BY <1>4, <3>1, <3>2, <4>3
    <3>3. CASE x # b
      BY <1>4, <3>1, <3>3
    <3>. QED  BY <3>2, <3>3
  <2>. QED  BY <2>1, <2>2
<1>8. Cached(later, more, ends)
  BY <1>3, <1>4, <1>5, <1>6, <1>7 DEF Cached
<1>. QED  BY <1>8 DEF more, ends

\* The tables with another cache.
WithCache(t, branches, tips) ==
    [nextSeq |-> t.nextSeq, entries |-> t.entries, records |-> t.records,
     lanes |-> t.lanes, facts |-> t.facts, branches |-> branches,
     tips |-> tips, messages |-> t.messages]

\* appendEntryToBranchCache: the tables t already have the entry id with its
\* parent, and the cache is still that of the entries before.
LEMMA EntryIsCached ==
    ASSUME NEW t, IsRecordOfTables(t), NEW entries, NEW n \in Nat, Forest(entries, n),
           NEW id \in Ids, id \notin DOMAIN entries, Kept(entries, t.entries),
           DOMAIN t.entries = DOMAIN entries \cup {id},
           NEW parent \in DOMAIN entries \cup {None}, t.entries[id].parentId = parent,
           Cached(entries, t.branches, t.tips), NEW u,
           u = appendEntryToBranchCache(t, id, parent)
    PROVE  /\ Cached(t.entries, u.branches, u.tips)
           /\ u = WithCache(t, u.branches, u.tips)
<1>. DEFINE later == t.entries
            fresh == newBranchId(t)
<1>1. id # None /\ None \notin DOMAIN entries
  BY IdsAssumption DEF Forest
<1>2. fresh = Cardinality(DOMAIN t.branches) + 1
  BY DEF newBranchId
<1>3. ASSUME NEW b, NEW B, Path(later, id, B),
             \/ b \in DOMAIN t.branches /\ t.branches[b] \subseteq B
             \/ b = fresh,
             u = addToCache(t, b, B, id)
      PROVE  /\ Cached(later, u.branches, u.tips)
             /\ u = WithCache(t, u.branches, u.tips)
  <2>1. Cached(later, With(t.branches, b, B), With(t.tips, b, id))
    BY <1>2, <1>3, CacheGrows
  <2>2. u = [t EXCEPT !.branches = With(t.branches, b, B), !.tips = With(t.tips, b, id)]
    BY <1>3 DEF addToCache
  <2>. HIDE DEF later
  <2>3. u = WithCache(t, With(t.branches, b, B), With(t.tips, b, id))
    BY <2>2 DEF IsRecordOfTables, WithCache
  <2>4. u.branches = With(t.branches, b, B) /\ u.tips = With(t.tips, b, id)
    BY <2>3 DEF WithCache
  <2>. QED  BY <2>1, <2>3, <2>4
<1>. HIDE DEF fresh
<1>4. CASE parent = None
  <2>1. Path(later, id, {} \cup {id})
    BY <1>1, <1>4, PathGrows
  <2>2. u = addToCache(t, fresh, {id}, id) /\ {} \cup {id} = {id}
    BY <1>4 DEF appendEntryToBranchCache, fresh
  <2>. QED  BY <1>3, <2>1, <2>2
<1>5. CASE parent # None /\ tipBranches(t, parent) # {}
  <2>. DEFINE b == CHOOSE x \in tipBranches(t, parent) : TRUE
  <2>1. b \in tipBranches(t, parent)
    BY <1>5
  <2>2. u = addToCache(t, b, t.branches[b] \cup {id}, id)
    BY <1>5 DEF appendEntryToBranchCache
  <2>. HIDE DEF b
  <2>3. b \in DOMAIN t.branches /\ Path(entries, parent, t.branches[b])
    BY <2>1 DEF tipBranches, Cached
  <2>4. Path(later, id, t.branches[b] \cup {id})
    BY <1>1, <2>3, PathGrows
  <2>. QED  BY <1>3, <2>2, <2>3, <2>4
<1>6. CASE parent # None /\ tipBranches(t, parent) = {}
  <2>. DEFINE S == readBranchesContaining(t, parent)
              b == Min(S)
              B == copyBranchEntriesThroughSeq(t, b, parent)
  <2>1. S \in SUBSET Nat /\ S # {}
    BY <1>6 DEF readBranchesContaining, Cached
  <2>2. b \in S
    <3>. HIDE DEF S
    <3>. QED  BY <2>1, MinIs
  <2>3. u = addToCache(t, fresh, B \cup {id}, id)
    BY <1>6 DEF appendEntryToBranchCache, fresh
  <2>. HIDE DEF b
  <2>4. /\ b \in DOMAIN t.branches /\ parent \in t.branches[b]
        /\ Path(entries, t.tips[b], t.branches[b])
    BY <2>2 DEF readBranchesContaining, Cached
  <2>5. Path(entries, parent, {e \in t.branches[b] : entries[e].seq <= entries[parent].seq})
    BY <2>4, PathThrough
  <2>6. B = {e \in t.branches[b] : entries[e].seq <= entries[parent].seq}
    <3>1. t.branches[b] \subseteq DOMAIN entries
      BY <2>4 DEF Path
    <3>2. \A e \in DOMAIN entries : t.entries[e] = entries[e]
      BY DEF Kept
    <3>. QED  BY <2>4, <3>1, <3>2 DEF copyBranchEntriesThroughSeq, through
  <2>7. Path(later, id, B \cup {id})
    <3>. HIDE DEF B
    <3>. QED  BY <1>1, <2>5, <2>6, PathGrows
  <2>. HIDE DEF B
  <2>. QED  BY <1>3, <2>3, <2>7
<1>. QED  BY <1>4, <1>5, <1>6

-----------------------------------------------------------------------------
(* What a write keeps of the tables.                                       *)

IsLane(x) == x = [leafId |-> x.leafId, open |-> x.open]

\* The lanes after one of them was set.
LEMMA LanesOn ==
    ASSUME NEW lanes, NEW entries, LanesInto(lanes, entries), NEW later,
           DOMAIN entries \subseteq DOMAIN later, NEW l, NEW more,
           DOMAIN more = DOMAIN lanes \cup {l},
           \A x \in DOMAIN lanes : x # l => more[x] = lanes[x],
           IsLane(more[l]),
           more[l].leafId \in DOMAIN later \cup {None}
    PROVE  LanesInto(more, later)
<1>1. IsFiniteSet(DOMAIN more)
  BY FS_AddElement DEF LanesInto
<1>. QED  BY <1>1 DEF LanesInto, IsLane

\* A write that adds no entry.
LEMMA PlainWrite ==
    ASSUME NEW t, GoodTables(t), NEW R, NEW L, NEW F, LanesInto(L, t.entries),
           F \in Seq(Fact), NEW u,
           u = [nextSeq |-> t.nextSeq + 1, entries |-> t.entries, records |-> R,
                lanes |-> L, facts |-> F, branches |-> t.branches,
                tips |-> t.tips, messages |-> t.messages]
    PROVE  GoodTables(u) /\ Kept(t.entries, u.entries)
<1>1. /\ u.nextSeq = t.nextSeq + 1 /\ u.entries = t.entries /\ u.lanes = L
      /\ u.facts = F /\ u.branches = t.branches /\ u.tips = t.tips
      /\ u.messages = t.messages /\ IsRecordOfTables(u)
  BY DEF IsRecordOfTables
<1>2. /\ t.nextSeq \in Nat \ {0} /\ Forest(t.entries, t.nextSeq - 1)
      /\ IsFiniteSet(DOMAIN t.entries)
      /\ Cached(t.entries, t.branches, t.tips)
      /\ t.messages = Cardinality(Messages(t.entries))
  BY DEF GoodTables
<1>3. t.nextSeq - 1 \in Nat /\ (t.nextSeq - 1) + 1 = (t.nextSeq + 1) - 1
  BY <1>2
<1>4. Forest(t.entries, u.nextSeq - 1) /\ u.nextSeq \in Nat \ {0}
  BY <1>1, <1>2, <1>3, ForestAges
<1>. QED  BY <1>1, <1>2, <1>4 DEF GoodTables, Kept

\* createLane and moveLane.
LEMMA LaneWrites ==
    ASSUME NEW t, GoodTables(t), NEW r \in CreateLanes \cup MoveLanes, Accepts(t, r)
    PROVE  GoodTables(Written(t, r)) /\ Kept(t.entries, Written(t, r).entries)
<1>. DEFINE lanes == t.lanes
            lane == r.lane
            leaf == IF r.op = "createLane" THEN r.at ELSE r.to
            made == With(lanes, lane, [leafId |-> leaf, open |-> None])
            moved == [lanes EXCEPT ![lane].leafId = leaf]
            L == IF r.op = "createLane" THEN made ELSE moved
<1>1. /\ LanesInto(lanes, t.entries) /\ t.facts \in Seq(Fact) /\ IsRecordOfTables(t)
      /\ t.nextSeq \in Nat
  BY DEF GoodTables
<1>2. /\ r.op \in {"createLane", "moveLane"} /\ leaf \in DOMAIN t.entries \cup {None}
      /\ r.op = "moveLane" => lane \in DOMAIN lanes
  BY DEF Accepts, CreateLanes, MoveLanes, entryExists
<1>3. Written(t, r) = advanceSequence([t EXCEPT !.lanes = L])
  <2>1. CASE r.op = "createLane"
    BY <2>1 DEF Written, writeCreateLane
  <2>2. CASE r.op = "moveLane"
    BY <2>2 DEF Written, writeMoveLane
  <2>. QED  BY <1>2, <2>1, <2>2
<1>. HIDE DEF lanes, lane, leaf
<1>4. LanesInto(made, t.entries)
  <2>1. /\ DOMAIN made = DOMAIN lanes \cup {lane}
        /\ \A x \in DOMAIN lanes : x # lane => made[x] = lanes[x]
        /\ made[lane] = [leafId |-> leaf, open |-> None]
    BY DEF With
  <2>. HIDE DEF made
  <2>2. IsLane(made[lane]) /\ made[lane].leafId = leaf
    BY <2>1 DEF IsLane
  <2>. QED  BY <1>1, <1>2, <2>1, <2>2, LanesOn
<1>5. ASSUME lane \in DOMAIN lanes PROVE LanesInto(moved, t.entries)
  <2>1. moved = [lanes EXCEPT ![lane].leafId = leaf]
    OBVIOUS
  <2>. HIDE DEF moved
  <2>2. /\ DOMAIN moved = DOMAIN lanes \cup {lane}
        /\ \A x \in DOMAIN lanes : x # lane => moved[x] = lanes[x]
        /\ IsLane(moved[lane])
        /\ moved[lane].leafId = leaf \/ moved[lane].leafId \in DOMAIN t.entries \cup {None}
    BY <1>1, <1>5, <2>1 DEF LanesInto, IsLane
  <2>3. moved[lane].leafId \in DOMAIN t.entries \cup {None}
    BY <1>2, <2>2
  <2>. QED  BY <1>1, <2>2, <2>3, LanesOn
<1>6. LanesInto(L, t.entries)
  <2>. HIDE DEF made, moved
  <2>. QED  BY <1>2, <1>4, <1>5
<1>. HIDE DEF L
<1>7. Written(t, r) = [nextSeq |-> t.nextSeq + 1, entries |-> t.entries,
                       records |-> t.records, lanes |-> L, facts |-> t.facts,
                       branches |-> t.branches, tips |-> t.tips, messages |-> t.messages]
  BY <1>1, <1>3 DEF IsRecordOfTables, advanceSequence
<1>. QED  BY <1>1, <1>6, <1>7, PlainWrite

\* appendRecord.
LEMMA RecordWrites ==
    ASSUME NEW t, GoodTables(t), NEW r \in AppendRecords, Accepts(t, r)
    PROVE  GoodTables(Written(t, r)) /\ Kept(t.entries, Written(t, r).entries)
<1>. DEFINE lanes == t.lanes
            lane == r.lane
            before == lanes[lane].open
            after == CASE r.type = "operation_started"  -> r.id
                       [] r.type = "operation_finished" -> finishLaneOperation(before, r)
                       [] OTHER -> before
            L == [lanes EXCEPT ![lane].open = after]
            R == t.records \cup {r.id}
<1>1. /\ LanesInto(lanes, t.entries) /\ t.facts \in Seq(Fact) /\ IsRecordOfTables(t)
      /\ t.nextSeq \in Nat
  BY DEF GoodTables
<1>2. r.op = "appendRecord" /\ lane \in DOMAIN lanes
  BY DEF Accepts, AppendRecords
<1>3. Written(t, r) = advanceSequence(writeRecord(t, r))
  BY <1>2 DEF Written
<1>4. writeRecord(t, r) = [t EXCEPT !.records = R, !.lanes = L]
  BY <1>1 DEF writeRecord, IsRecordOfTables
<1>. HIDE DEF after, R, lanes, lane
<1>5. LanesInto(L, t.entries)
  <2>1. L = [lanes EXCEPT ![lane].open = after]
    OBVIOUS
  <2>. HIDE DEF L
  <2>2. /\ DOMAIN L = DOMAIN lanes \cup {lane}
        /\ \A x \in DOMAIN lanes : x # lane => L[x] = lanes[x]
        /\ IsLane(L[lane])
    BY <1>1, <1>2, <2>1 DEF LanesInto, IsLane
  <2>3. L[lane].leafId = lanes[lane].leafId
    BY <1>1, <1>2, <2>1 DEF LanesInto
  <2>4. L[lane].leafId \in DOMAIN t.entries \cup {None}
    BY <1>1, <1>2, <2>3 DEF LanesInto
  <2>. QED  BY <1>1, <2>2, <2>4, LanesOn
<1>. HIDE DEF L
<1>6. Written(t, r) = [nextSeq |-> t.nextSeq + 1, entries |-> t.entries,
                       records |-> R, lanes |-> L, facts |-> t.facts,
                       branches |-> t.branches, tips |-> t.tips, messages |-> t.messages]
  <2>. DEFINE a == t.nextSeq  en == t.entries  re == t.records  la == t.lanes
              fa == t.facts  br == t.branches  ti == t.tips  me == t.messages
              u == [t EXCEPT !.records = R, !.lanes = L]
  <2>1. t = [nextSeq |-> a, entries |-> en, records |-> re, lanes |-> la,
             facts |-> fa, branches |-> br, tips |-> ti, messages |-> me]
    BY <1>1 DEF IsRecordOfTables
  <2>2. Written(t, r) = [u EXCEPT !.nextSeq = @ + 1]
    BY <1>3, <1>4 DEF advanceSequence
  <2>. HIDE DEF a, en, re, la, fa, br, ti, me
  <2>3. u = [nextSeq |-> a, entries |-> en, records |-> R, lanes |-> L,
             facts |-> fa, branches |-> br, tips |-> ti, messages |-> me]
    <3>1. u = [t EXCEPT !.records = R, !.lanes = L]
      OBVIOUS
    <3>. HIDE DEF u
    <3>. QED  BY <2>1, <3>1
  <2>. HIDE DEF u
  <2>4. Written(t, r) = [nextSeq |-> a + 1, entries |-> en, records |-> R, lanes |-> L,
                         facts |-> fa, branches |-> br, tips |-> ti, messages |-> me]
    BY <2>2, <2>3
  <2>. QED  BY <2>4 DEF a, en, fa, br, ti, me
<1>. QED  BY <1>1, <1>5, <1>6, PlainWrite

\* setName and setLabel.
LEMMA FactWrites ==
    ASSUME NEW t, GoodTables(t), NEW r \in SetNames \cup SetLabels, Accepts(t, r)
    PROVE  GoodTables(Written(t, r)) /\ Kept(t.entries, Written(t, r).entries)
<1>. DEFINE fact == IF r.op = "setName" THEN [kind |-> "name", key |-> None, value |-> r.name]
                    ELSE [kind |-> "label", key |-> r.id, value |-> r.label]
            F == Append(t.facts, fact)
<1>1. /\ LanesInto(t.lanes, t.entries) /\ t.facts \in Seq(Fact) /\ IsRecordOfTables(t)
      /\ t.nextSeq \in Nat
  BY DEF GoodTables
<1>2. r.op \in {"setName", "setLabel"} /\ fact \in Fact
  BY DEF SetNames, SetLabels, Fact
<1>3. Written(t, r) = advanceSequence([t EXCEPT !.facts = F])
  BY <1>2 DEF Written, appendFact
<1>. HIDE DEF fact
<1>4. F \in Seq(Fact)
  BY <1>1, <1>2
<1>. HIDE DEF F
<1>5. Written(t, r) = [nextSeq |-> t.nextSeq + 1, entries |-> t.entries,
                       records |-> t.records, lanes |-> t.lanes, facts |-> F,
                       branches |-> t.branches, tips |-> t.tips, messages |-> t.messages]
  BY <1>1, <1>3 DEF IsRecordOfTables, advanceSequence
<1>. QED  BY <1>1, <1>4, <1>5, PlainWrite

\* appendEntry.
LEMMA EntryWrites ==
    ASSUME NEW t, GoodTables(t), NEW r \in AppendEntries, Accepts(t, r)
    PROVE  GoodTables(Written(t, r)) /\ Kept(t.entries, Written(t, r).entries)
<1>. DEFINE parent == t.lanes[r.lane].leafId
            e == [parentId |-> parent, type |-> r.type, seq |-> t.nextSeq]
            later == With(t.entries, r.id, e)
            lanes == t.lanes
            lane == r.lane
            id == r.id
            L == [lanes EXCEPT ![lane].leafId = id]
            M == IF r.type = "message" THEN t.messages + 1 ELSE t.messages
            stored == [t EXCEPT !.entries = later, !.lanes = L, !.messages = M]
            u == appendEntryToBranchCache(stored, r.id, parent)
<1>1. /\ LanesInto(t.lanes, t.entries) /\ t.facts \in Seq(Fact) /\ IsRecordOfTables(t)
      /\ t.nextSeq \in Nat \ {0} /\ Forest(t.entries, t.nextSeq - 1)
      /\ IsFiniteSet(DOMAIN t.entries)
      /\ Cached(t.entries, t.branches, t.tips)
      /\ t.messages = Cardinality(Messages(t.entries))
  BY DEF GoodTables
<1>2. /\ r.op = "appendEntry" /\ r.lane \in DOMAIN t.lanes
      /\ r.id \in Ids /\ r.id \notin DOMAIN t.entries /\ r.type \in EntryTypes
  BY DEF Accepts, AppendEntries, idExists
<1>3. /\ t.nextSeq - 1 \in Nat /\ (t.nextSeq - 1) + 1 = t.nextSeq
      /\ parent \in DOMAIN t.entries \cup {None}
  <2>1. parent \in DOMAIN t.entries \cup {None}
    BY <1>1, <1>2, Zenon DEF LanesInto
  <2>. QED  BY <1>1, <2>1
<1>4. Written(t, r) = advanceSequence(u)
  <2>1. writeEntry(t, r) = u
    BY DEF writeEntry
  <2>. QED  BY <1>2, <2>1 DEF Written
<1>5. e = [parentId |-> parent, type |-> r.type, seq |-> (t.nextSeq - 1) + 1]
      /\ e.parentId = parent /\ e.type = r.type
  BY <1>3
<1>. HIDE DEF e, parent
<1>6. /\ Forest(later, t.nextSeq) /\ Kept(t.entries, later)
      /\ DOMAIN later = DOMAIN t.entries \cup {r.id} /\ later[r.id] = e
  <2>. DEFINE n == t.nextSeq - 1
              entries == t.entries
              type == r.type
  <2>0. n + 1 = t.nextSeq
    BY <1>3
  <2>1. /\ n \in Nat /\ Forest(entries, n) /\ id \in Ids
        /\ id \notin DOMAIN entries /\ parent \in DOMAIN entries \cup {None}
        /\ type \in EntryTypes /\ e = [parentId |-> parent, type |-> type, seq |-> n + 1]
    BY <1>1, <1>2, <1>3, <1>5
  <2>2. later = With(entries, id, e)
    OBVIOUS
  <2>. HIDE DEF n, entries, id, type, later
  <2>3. /\ Forest(With(entries, id, e), n + 1) /\ Kept(entries, With(entries, id, e))
        /\ DOMAIN With(entries, id, e) = DOMAIN entries \cup {id}
        /\ With(entries, id, e)[id] = e
    BY <2>1, ForestGrows, SMTT(30)
  <2>. QED  BY <2>0, <2>2, <2>3 DEF entries, id
<1>. HIDE DEF later
<1>7. LanesInto(L, later)
  <2>1. LanesInto(lanes, t.entries) /\ lane \in DOMAIN lanes /\ id \in DOMAIN later
        /\ DOMAIN t.entries \subseteq DOMAIN later
    BY <1>1, <1>2, <1>6
  <2>2. L = [lanes EXCEPT ![lane].leafId = id]
    OBVIOUS
  <2>. HIDE DEF L, lanes, lane, id
  <2>3. /\ DOMAIN L = DOMAIN lanes \cup {lane}
        /\ \A x \in DOMAIN lanes : x # lane => L[x] = lanes[x]
        /\ IsLane(L[lane])
        /\ L[lane].leafId = id \/ L[lane].leafId \in DOMAIN t.entries \cup {None}
    BY <2>1, <2>2 DEF LanesInto, IsLane
  <2>. QED  BY <2>1, <2>3, LanesOn
<1>. HIDE DEF L, M
<1>8. /\ stored.entries = later /\ stored.lanes = L /\ stored.messages = M
      /\ stored.nextSeq = t.nextSeq /\ stored.facts = t.facts
      /\ stored.branches = t.branches /\ stored.tips = t.tips
      /\ IsRecordOfTables(stored)
  <2>1. stored = [nextSeq |-> t.nextSeq, entries |-> later, records |-> t.records,
                  lanes |-> L, facts |-> t.facts, branches |-> t.branches,
                  tips |-> t.tips, messages |-> M]
    <3>. DEFINE a == t.nextSeq  en == t.entries  re == t.records  la == t.lanes
                fa == t.facts  br == t.branches  ti == t.tips  me == t.messages
    <3>1. t = [nextSeq |-> a, entries |-> en, records |-> re, lanes |-> la,
               facts |-> fa, branches |-> br, tips |-> ti, messages |-> me]
      BY <1>1 DEF IsRecordOfTables
    <3>2. stored = [t EXCEPT !.entries = later, !.lanes = L, !.messages = M]
      OBVIOUS
    <3>. HIDE DEF a, en, re, la, fa, br, ti, me, stored
    <3>3. stored = [nextSeq |-> a, entries |-> later, records |-> re, lanes |-> L,
                    facts |-> fa, branches |-> br, tips |-> ti, messages |-> M]
      BY <3>1, <3>2
    <3>. QED  BY <3>3 DEF a, re, fa, br, ti
  <2>. HIDE DEF stored
  <2>. QED  BY <2>1 DEF IsRecordOfTables
<1>. HIDE DEF stored, u
<1>9. /\ Cached(later, u.branches, u.tips)
      /\ u = WithCache(stored, u.branches, u.tips)
  <2>1. /\ Kept(t.entries, stored.entries)
        /\ DOMAIN stored.entries = DOMAIN t.entries \cup {r.id}
        /\ stored.entries[r.id].parentId = parent
        /\ Cached(t.entries, stored.branches, stored.tips)
    BY <1>1, <1>5, <1>6, <1>8
  <2>2. u = appendEntryToBranchCache(stored, r.id, parent)
    BY DEF u
  <2>3. /\ Cached(stored.entries, u.branches, u.tips)
        /\ u = WithCache(stored, u.branches, u.tips)
    <3>. DEFINE n == t.nextSeq - 1
                entries == t.entries
    <3>1. /\ n \in Nat /\ Forest(entries, n) /\ id \in Ids /\ id \notin DOMAIN entries
          /\ parent \in DOMAIN entries \cup {None} /\ IsRecordOfTables(stored)
          /\ Kept(entries, stored.entries)
          /\ DOMAIN stored.entries = DOMAIN entries \cup {id}
          /\ stored.entries[id].parentId = parent
          /\ Cached(entries, stored.branches, stored.tips)
          /\ u = appendEntryToBranchCache(stored, id, parent)
      BY <1>1, <1>2, <1>3, <1>8, <2>1, <2>2
    <3>. HIDE DEF n, entries, id
    <3>. QED  BY <3>1, EntryIsCached
  <2>. QED  BY <1>8, <2>3
<1>10. M = Cardinality(Messages(later))
  <2>1. IsFiniteSet(Messages(t.entries))
    BY <1>1, FS_Subset DEF Messages
  <2>2. CASE r.type = "message"
    <3>1. Messages(later) = Messages(t.entries) \cup {r.id} /\ r.id \notin Messages(t.entries)
      BY <1>2, <1>5, <1>6, <2>2 DEF Messages, Kept
    <3>. DEFINE X == Messages(t.entries)
                x == r.id
    <3>2. IsFiniteSet(X) /\ x \notin X /\ Messages(later) = X \cup {x}
      BY <2>1, <3>1
    <3>3. M = Cardinality(X) + 1
      BY <1>1, <2>2 DEF M
    <3>. HIDE DEF X, x
    <3>4. Cardinality(X \cup {x}) = Cardinality(X) + 1
      BY <3>2, FS_AddElement
    <3>. QED  BY <3>2, <3>3, <3>4
  <2>3. CASE r.type # "message"
    <3>1. Messages(later) = Messages(t.entries)
      BY <1>2, <1>5, <1>6, <2>3 DEF Messages, Kept
    <3>. QED  BY <1>1, <2>3, <3>1 DEF M
  <2>. QED  BY <2>2, <2>3
<1>11. IsFiniteSet(DOMAIN later)
  BY <1>1, <1>6, FS_AddElement
<1>. DEFINE w == advanceSequence(u)
<1>12. /\ w.nextSeq = t.nextSeq + 1 /\ w.entries = later /\ w.lanes = L
       /\ w.messages = M /\ w.facts = t.facts
       /\ w.branches = u.branches /\ w.tips = u.tips /\ IsRecordOfTables(w)
  <2>. DEFINE B == u.branches
              T == u.tips
  <2>1. u = WithCache(stored, B, T)
    BY <1>9
  <2>2. w = [u EXCEPT !.nextSeq = @ + 1]
    BY DEF advanceSequence
  <2>. HIDE DEF B, T, w
  <2>3. /\ u.nextSeq = t.nextSeq /\ u.entries = later /\ u.lanes = L
        /\ u.messages = M /\ u.facts = t.facts /\ IsRecordOfTables(u)
    BY <1>8, <2>1 DEF IsRecordOfTables, WithCache
  <2>. QED  BY <2>2, <2>3 DEF IsRecordOfTables
<1>. HIDE DEF w
<1>13. w.nextSeq \in Nat \ {0} /\ w.nextSeq - 1 = t.nextSeq
  BY <1>1, <1>12
<1>14. GoodTables(w)
  BY <1>1, <1>6, <1>7, <1>9, <1>10, <1>11, <1>12, <1>13 DEF GoodTables
<1>. QED  BY <1>4, <1>6, <1>12, <1>14 DEF w

\* Every write that is accepted.
LEMMA WritesKeepTables ==
    ASSUME NEW t, GoodTables(t), NEW r \in Requests, Accepts(t, r)
    PROVE  GoodTables(Written(t, r)) /\ Kept(t.entries, Written(t, r).entries)
<1>1. r \in CreateLanes \cup MoveLanes \cup AppendEntries \cup AppendRecords
            \cup SetNames \cup SetLabels
  BY RequestsAssumption
<1>. QED  BY <1>1, LaneWrites, RecordWrites, FactWrites, EntryWrites

-----------------------------------------------------------------------------
(* Building the cache: rebuildBranchCache and the transaction of a fork.   *)

\* Every entry is on a path to one of the tips.
TipsReach(entries, tips) ==
    \A id \in DOMAIN entries : \E tip \in tips : \E B :
        id \in B /\ Path(entries, tip, B)

\* One branch per tip is a cache, when the tips reach every entry.
LEMMA BranchesBuilt ==
    ASSUME NEW s, IsTree(s), NEW tips \in Seq(DOMAIN s.entriesById),
           TipsReach(s.entriesById, Range(tips))
    PROVE  Cached(s.entriesById,
                  [i \in DOMAIN tips |-> Range(Branch(s, tips[i]))], tips)
<1>. DEFINE entries == s.entriesById
            branches == [i \in DOMAIN tips |-> Range(Branch(s, tips[i]))]
<1>1. /\ Len(tips) \in Nat /\ DOMAIN tips = 1..Len(tips)
      /\ \A x : x \in Range(tips) <=> \E i \in 1..Len(tips) : tips[i] = x
      /\ \A i \in 1..Len(tips) : tips[i] \in DOMAIN entries
  BY RangeIs
<1>2. DOMAIN branches = DOMAIN tips
  OBVIOUS
<1>3. \A i \in DOMAIN tips : branches[i] = Range(Branch(s, tips[i]))
  OBVIOUS
<1>. HIDE DEF branches
<1>4. \A i \in DOMAIN tips : Path(entries, tips[i], branches[i])
  BY <1>1, <1>3, BranchPath
<1>5. ASSUME NEW id \in DOMAIN entries PROVE \E i \in DOMAIN tips : id \in branches[i]
  <2>1. PICK tip \in Range(tips) : \E B : id \in B /\ Path(entries, tip, B)
    BY DEF TipsReach
  <2>2. PICK B : id \in B /\ Path(entries, tip, B)
    BY <2>1
  <2>3. PICK i \in DOMAIN tips : tips[i] = tip
    BY <1>1
  <2>4. s.sequence \in Nat /\ Forest(entries, s.sequence)
    BY DEF IsTree
  <2>5. Path(entries, tip, branches[i])
    BY <1>4, <2>3
  <2>6. B = branches[i]
    BY <2>2, <2>4, <2>5, PathIsOne
  <2>. QED  BY <2>2, <2>6
<1>6. Cached(entries, branches, tips)
  BY <1>1, <1>2, <1>4, <1>5 DEF Cached
<1>. QED  BY <1>6 DEF branches

\* The entries without children reach every entry: the youngest one they did
\* not reach would have a child that they reach.
LEMMA LeavesReach ==
    ASSUME NEW s, IsTree(s), NEW leaves,
           leaves = DOMAIN s.entriesById
                        \ {s.entriesById[e].parentId : e \in DOMAIN s.entriesById}
    PROVE  TipsReach(s.entriesById, leaves)
<1>. DEFINE entries == s.entriesById
            n == s.sequence
            Reached(id) == \E tip \in leaves : \E B : id \in B /\ Path(entries, tip, B)
            U == {id \in DOMAIN entries : ~ Reached(id)}
<1>1. n \in Nat /\ Forest(entries, n)
  BY DEF IsTree
<1>2. ASSUME NEW e \in DOMAIN entries, e \notin leaves
      PROVE  \E c \in DOMAIN entries : entries[c].parentId = e
  BY <1>2
<1>3. ASSUME NEW e \in leaves PROVE Reached(e)
  <2>1. e \in DOMAIN entries
    OBVIOUS
  <2>2. Path(entries, e, Range(Branch(s, e))) /\ e \in Range(Branch(s, e))
    BY <2>1, BranchPath DEF Path
  <2>. QED  BY <2>2
<1>4. ASSUME NEW e \in DOMAIN entries, NEW c \in DOMAIN entries, entries[c].parentId = e,
             Reached(c)
      PROVE  Reached(e)
  <2>1. PICK tip \in leaves : \E B : c \in B /\ Path(entries, tip, B)
    BY <1>4
  <2>2. PICK B : c \in B /\ Path(entries, tip, B)
    BY <2>1
  <2>3. e # None
    BY <1>1, IdsAssumption DEF Forest
  <2>4. e \in B
    BY <1>4, <2>2, <2>3 DEF Path
  <2>. QED  BY <2>2, <2>4
<1>. HIDE DEF Reached
<1>5. SUFFICES ASSUME U # {} PROVE FALSE
  BY DEF TipsReach, Reached
<1>6. U \in SUBSET DOMAIN entries
  OBVIOUS
<1>7. PICK e \in U : \A c \in U : entries[c].seq <= entries[e].seq
  <2>. HIDE DEF U, n, entries
  <2>. QED  BY <1>1, <1>5, <1>6, YoungestExists
<1>8. e \in DOMAIN entries /\ e \notin leaves
  BY <1>3
<1>9. PICK c \in DOMAIN entries : entries[c].parentId = e
  BY <1>2, <1>8
<1>10. c \in U
  BY <1>4, <1>8, <1>9
<1>11. e # None
  BY <1>1, <1>8, IdsAssumption DEF Forest
<1>12. /\ entries[e].seq < entries[c].seq
       /\ entries[e].seq \in Nat /\ entries[c].seq \in Nat
  <2>. HIDE DEF U, n, entries
  <2>1. \A x \in DOMAIN entries :
            /\ entries[x].seq \in 1..n
            /\ entries[x].parentId # None =>
                    entries[entries[x].parentId].seq < entries[x].seq
    BY <1>1 DEF Forest
  <2>. QED  BY <1>1, <1>8, <1>9, <1>11, <2>1
<1>. QED  BY <1>7, <1>10, <1>12

\* rebuildBranchCache.
LEMMA RebuildKeepsTables ==
    ASSUME NEW t, GoodTables(t)
    PROVE  /\ GoodTables(rebuildBranchCache(t))
           /\ Kept(t.entries, rebuildBranchCache(t).entries)
<1>. DEFINE s == Tree(t)
            leaves == DOMAIN t.entries \ {t.entries[e].parentId : e \in DOMAIN t.entries}
            tips == Among(InSequenceOrder(s), leaves)
            branches == [i \in DOMAIN tips |-> Range(Branch(s, tips[i]))]
<1>1. /\ t.nextSeq \in Nat \ {0} /\ Forest(t.entries, t.nextSeq - 1)
      /\ IsRecordOfTables(t)
  BY DEF GoodTables
<1>2. IsTree(s) /\ s.entriesById = t.entries
  BY <1>1, TablesAreTree
<1>3. rebuildBranchCache(t) = [t EXCEPT !.branches = branches, !.tips = tips]
  BY DEF rebuildBranchCache, withBranches
<1>. HIDE DEF s, tips
<1>4. tips \in Seq(DOMAIN t.entries) /\ Range(tips) = leaves
  <2>1. /\ InSequenceOrder(s) \in Seq(DOMAIN t.entries)
        /\ Range(InSequenceOrder(s)) = DOMAIN t.entries
    BY <1>2, SequenceOrder DEF CopyOrder
  <2>2. /\ tips \in Seq(DOMAIN t.entries)
        /\ Range(tips) = Range(InSequenceOrder(s)) \cap leaves
    <3>. HIDE DEF leaves
    <3>. QED  BY <2>1, AmongRange DEF tips
  <2>. QED  BY <2>1, <2>2
<1>5. TipsReach(t.entries, leaves)
  <2>1. leaves = DOMAIN s.entriesById
                    \ {s.entriesById[e].parentId : e \in DOMAIN s.entriesById}
    BY <1>2
  <2>. HIDE DEF leaves
  <2>. QED  BY <1>2, <2>1, LeavesReach
<1>. HIDE DEF leaves
<1>6. Cached(t.entries, branches, tips)
  <2>1. tips \in Seq(DOMAIN s.entriesById) /\ TipsReach(s.entriesById, Range(tips))
    BY <1>2, <1>4, <1>5
  <2>2. Cached(s.entriesById, [i \in DOMAIN tips |-> Range(Branch(s, tips[i]))], tips)
    BY <1>2, <2>1, BranchesBuilt
  <2>. QED  BY <1>2, <2>2
<1>. HIDE DEF branches
<1>7. rebuildBranchCache(t) = WithCache(t, branches, tips)
  BY <1>1, <1>3 DEF IsRecordOfTables, WithCache
<1>. DEFINE u == rebuildBranchCache(t)
<1>. HIDE DEF u
<1>8. /\ u.nextSeq = t.nextSeq /\ u.entries = t.entries /\ u.lanes = t.lanes
      /\ u.facts = t.facts /\ u.messages = t.messages /\ u.branches = branches
      /\ u.tips = tips /\ IsRecordOfTables(u)
  BY <1>7 DEF WithCache, IsRecordOfTables, u
<1>9. GoodTables(u)
  BY <1>6, <1>8 DEF GoodTables
<1>. QED  BY <1>8, <1>9 DEF u, Kept

-----------------------------------------------------------------------------
(* What a fork has read of its source.                                     *)

Row == [id : Ids, type : EntryTypes, parentId : IdOrNone]
RowIds(rows) == {rows[i].id : i \in DOMAIN rows}

\* Rows of some entries, each after its parent's and none twice.
RowsOf(rows, entries) ==
    /\ rows \in Seq(Row)
    /\ \A i \in 1..Len(rows) :
        /\ rows[i].id \in DOMAIN entries
        /\ rows[i].parentId = entries[rows[i].id].parentId
        /\ rows[i].type = entries[rows[i].id].type
        /\ rows[i].parentId # None =>
                \E j \in 1..Len(rows) : j < i /\ rows[j].id = rows[i].parentId
    /\ \A i, j \in 1..Len(rows) : rows[i].id = rows[j].id => i = j

\* The rows stay those of the entries while these grow.
LEMMA RowsKept ==
    ASSUME NEW rows, NEW entries, NEW later, RowsOf(rows, entries), Kept(entries, later)
    PROVE  RowsOf(rows, later)
BY DEF RowsOf, Kept

\* The copied ids: with an entry also its parent.
LEMMA RowIdsAre ==
    ASSUME NEW rows, NEW entries, RowsOf(rows, entries)
    PROVE  /\ Len(rows) \in Nat /\ DOMAIN rows = 1..Len(rows)
           /\ \A x : x \in RowIds(rows) <=> \E i \in 1..Len(rows) : rows[i].id = x
           /\ RowIds(rows) \subseteq DOMAIN entries
           /\ \A e \in RowIds(rows) : entries[e].parentId \in RowIds(rows) \cup {None}
<1>1. Len(rows) \in Nat /\ DOMAIN rows = 1..Len(rows)
  BY DEF RowsOf
<1>2. \A x : x \in RowIds(rows) <=> \E i \in 1..Len(rows) : rows[i].id = x
  BY <1>1 DEF RowIds
<1>3. RowIds(rows) \subseteq DOMAIN entries
  BY <1>2 DEF RowsOf
<1>4. ASSUME NEW e \in RowIds(rows) PROVE entries[e].parentId \in RowIds(rows) \cup {None}
  <2>1. PICK i \in 1..Len(rows) : rows[i].id = e
    BY <1>2
  <2>2. rows[i].parentId = entries[e].parentId
    BY <2>1 DEF RowsOf
  <2>3. rows[i].parentId # None =>
            \E j \in 1..Len(rows) : j < i /\ rows[j].id = rows[i].parentId
    BY DEF RowsOf
  <2>. QED  BY <1>2, <2>2, <2>3
<1>. QED  BY <1>1, <1>2, <1>3, <1>4

\* Rows(t, ids) are the rows of ids, when these have their parents.
LEMMA RowsAre ==
    ASSUME NEW t, t.nextSeq \in Nat \ {0}, Forest(t.entries, t.nextSeq - 1),
           NEW ids \in SUBSET DOMAIN t.entries,
           \A e \in ids : t.entries[e].parentId \in ids \cup {None}
    PROVE  RowsOf(Rows(t, ids), t.entries) /\ RowIds(Rows(t, ids)) = ids
<1>. DEFINE entries == t.entries
            s == Tree(t)
            all == InSequenceOrder(s)
            sorted == Among(all, ids)
            key == [x \in DOMAIN entries |-> entries[x].seq]
            rows == Rows(t, ids)
<1>1. IsTree(s) /\ s.entriesById = entries
  BY TablesAreTree
<1>2. rows = [i \in DOMAIN sorted |->
                [id |-> sorted[i], type |-> entries[sorted[i]].type,
                 parentId |-> entries[sorted[i]].parentId]]
  BY DEF Rows
<1>3. \A x \in DOMAIN entries : key[x] = entries[x].seq /\ key[x] \in Nat
  <2>. DEFINE n == t.nextSeq - 1
  <2>1. Forest(entries, n)
    OBVIOUS
  <2>. HIDE DEF entries, n
  <2>2. \A x \in DOMAIN entries : entries[x].seq \in 1..n
    BY <2>1 DEF Forest
  <2>3. \A x \in DOMAIN entries : entries[x].seq \in Nat
    BY <2>2
  <2>. QED  BY <2>3
<1>. HIDE DEF s, all, sorted, rows, key
<1>4. /\ all \in Seq(DOMAIN entries) /\ Range(all) = DOMAIN entries
      /\ \A i, j \in 1..Len(all) : i < j => entries[all[i]].seq < entries[all[j]].seq
  BY <1>1, SequenceOrder DEF CopyOrder, Sorted, all
<1>5. \A i, j \in 1..Len(all) : i < j => key[all[i]] < key[all[j]]
  <2>1. \A i \in 1..Len(all) : all[i] \in DOMAIN entries
    BY <1>4
  <2>. QED  BY <1>3, <1>4, <2>1
<1>6. sorted \in Seq(DOMAIN entries) /\ Range(sorted) = ids
  <2>1. sorted \in Seq(DOMAIN entries) /\ Range(sorted) = Range(all) \cap ids
    BY <1>4, AmongRange DEF sorted
  <2>. QED  BY <1>4, <2>1
<1>7. \A i, j \in 1..Len(sorted) : i < j => key[sorted[i]] < key[sorted[j]]
  BY <1>3, <1>4, <1>5, AmongOrder DEF sorted
<1>8. /\ Len(sorted) \in Nat /\ DOMAIN sorted = 1..Len(sorted)
      /\ \A x : x \in ids <=> \E i \in 1..Len(sorted) : sorted[i] = x
      /\ \A i \in 1..Len(sorted) : sorted[i] \in DOMAIN entries /\ sorted[i] \in ids
  BY <1>6, RangeIs
<1>9. \A e \in DOMAIN entries : /\ e \in Ids /\ entries[e].type \in EntryTypes
                                /\ entries[e].parentId \in IdOrNone
  BY DEF Forest
<1>10. /\ rows \in Seq(Row) /\ Len(rows) = Len(sorted) /\ DOMAIN rows = 1..Len(rows)
       /\ \A i \in 1..Len(rows) :
            /\ rows[i].id = sorted[i]
            /\ rows[i].type = entries[sorted[i]].type
            /\ rows[i].parentId = entries[sorted[i]].parentId
  <2>1. /\ DOMAIN rows = 1..Len(sorted)
        /\ \A i \in 1..Len(sorted) :
            rows[i] = [id |-> sorted[i], type |-> entries[sorted[i]].type,
                       parentId |-> entries[sorted[i]].parentId]
    BY <1>2, <1>8
  <2>2. \A i \in 1..Len(sorted) : rows[i] \in Row
    BY <1>8, <1>9, <2>1 DEF Row
  <2>3. rows = [i \in 1..Len(sorted) |-> rows[i]]
    BY <1>2, <1>8
  <2>4. rows \in Seq(Row) /\ Len(rows) = Len(sorted)
    BY <1>8, <2>2, <2>3
  <2>. QED  BY <2>1, <2>4
<1>11. ASSUME NEW i \in 1..Len(rows), rows[i].parentId # None
       PROVE  \E j \in 1..Len(rows) : j < i /\ rows[j].id = rows[i].parentId
  <2>. DEFINE e == sorted[i]
              p == entries[e].parentId
  <2>1. e \in ids /\ e \in DOMAIN entries /\ p = rows[i].parentId
    BY <1>8, <1>10
  <2>2. p \in ids /\ p # None
    BY <1>11, <2>1
  <2>3. p \in DOMAIN entries /\ entries[p].seq < entries[e].seq
    BY <2>1, <2>2 DEF Forest
  <2>4. PICK j \in 1..Len(sorted) : sorted[j] = p
    BY <1>8, <2>2
  <2>5. key[sorted[j]] < key[sorted[i]] /\ key[sorted[i]] \in Nat /\ key[sorted[j]] \in Nat
    BY <1>3, <2>1, <2>3, <2>4
  <2>6. i \in 1..Len(sorted)
    BY <1>10
  <2>7. j < i
    <3>1. ~ (i < j) /\ i # j
      BY <1>7, <2>5, <2>6
    <3>. QED  BY <1>8, <2>6, <3>1
  <2>. QED  BY <1>10, <2>1, <2>4, <2>7
<1>12. ASSUME NEW i \in 1..Len(rows), NEW j \in 1..Len(rows), rows[i].id = rows[j].id
       PROVE  i = j
  <2>1. sorted[i] = sorted[j] /\ i \in 1..Len(sorted) /\ j \in 1..Len(sorted)
    BY <1>10, <1>12
  <2>2. key[sorted[i]] \in Nat
    BY <1>3, <1>8, <2>1
  <2>3. ~ (i < j) /\ ~ (j < i)
    BY <1>7, <2>1, <2>2
  <2>. QED  BY <1>8, <2>1, <2>3
<1>13. \A i \in 1..Len(rows) :
            /\ rows[i].id \in DOMAIN entries
            /\ rows[i].parentId = entries[rows[i].id].parentId
            /\ rows[i].type = entries[rows[i].id].type
  BY <1>8, <1>10
<1>14. RowsOf(rows, entries)
  BY <1>10, <1>11, <1>12, <1>13 DEF RowsOf
<1>15. RowIds(rows) = ids
  BY <1>8, <1>10 DEF RowIds
<1>. QED  BY <1>14, <1>15 DEF rows

-----------------------------------------------------------------------------
(* The tables of a fork.                                                   *)

\* A set whose elements are numbered by a finite one is as large.
LEMMA SameNumber ==
    ASSUME NEW S, IsFiniteSet(S), NEW T, NEW f \in [S -> T],
           \A a, b \in S : f[a] = f[b] => a = b, \A t \in T : \E a \in S : f[a] = t
    PROVE  IsFiniteSet(T) /\ Cardinality(T) = Cardinality(S)
<1>1. f \in Bijection(S, T)
  BY DEF Bijection, Injection, Surjection, IsInjective
<1>2. ExistsBijection(S, T)
  BY <1>1 DEF ExistsBijection
<1>. QED  BY <1>2, FS_Bijection

\* The entries of a fork: the copied rows, numbered in their order.
Renumbered(E, rows) ==
    /\ DOMAIN E = RowIds(rows)
    /\ \A i \in 1..Len(rows) :
            E[rows[i].id] = [parentId |-> rows[i].parentId, type |-> rows[i].type,
                             seq |-> i]

IsEntry(e) == e = [parentId |-> e.parentId, type |-> e.type, seq |-> e.seq]

\* The entry of each row.
LEMMA RenumberedIs ==
    ASSUME NEW rows, NEW entries, RowsOf(rows, entries), NEW E, Renumbered(E, rows)
    PROVE  \A i \in 1..Len(rows) :
                /\ E[rows[i].id].parentId = rows[i].parentId
                /\ E[rows[i].id].type = rows[i].type
                /\ E[rows[i].id].seq = i
                /\ rows[i].id \in DOMAIN E
                /\ IsEntry(E[rows[i].id])
<1>1. TAKE i \in 1..Len(rows)
<1>. DEFINE id == rows[i].id
            parent == rows[i].parentId
            type == rows[i].type
<1>2. id \in RowIds(rows)
  BY RowIdsAre
<1>3. id \in DOMAIN E
  BY <1>2 DEF Renumbered
<1>4. E[id] = [parentId |-> parent, type |-> type, seq |-> i]
  BY DEF Renumbered
<1>. HIDE DEF id, parent, type
<1>5. /\ E[id].parentId = parent /\ E[id].type = type /\ E[id].seq = i
      /\ IsEntry(E[id])
  BY <1>4 DEF IsEntry
<1>. QED  BY <1>3, <1>5 DEF id, parent, type

\* They are a forest.
LEMMA RenumberedForest ==
    ASSUME NEW rows, NEW entries, RowsOf(rows, entries), NEW E, Renumbered(E, rows),
           NEW n \in Nat, Len(rows) <= n
    PROVE  /\ Forest(E, n)
           /\ \A e \in DOMAIN E : E[e].parentId = entries[e].parentId
<1>1. /\ Len(rows) \in Nat
      /\ \A x : x \in RowIds(rows) <=> \E i \in 1..Len(rows) : rows[i].id = x
  BY RowIdsAre
<1>2. \A e \in DOMAIN E : \E i \in 1..Len(rows) : rows[i].id = e
  BY <1>1 DEF Renumbered
<1>3. \A i \in 1..Len(rows) : /\ rows[i].id \in Ids /\ rows[i].type \in EntryTypes
                              /\ rows[i].parentId \in IdOrNone
  <2>1. \A i \in 1..Len(rows) : rows[i] \in Row
    BY DEF RowsOf
  <2>. QED  BY <2>1 DEF Row
<1>4. \A i \in 1..Len(rows) : /\ E[rows[i].id].parentId = rows[i].parentId
                              /\ E[rows[i].id].type = rows[i].type
                              /\ E[rows[i].id].seq = i
                              /\ rows[i].id \in DOMAIN E
  BY RenumberedIs
<1>5. \A i \in 1..Len(rows) : rows[i].parentId # None =>
            \E j \in 1..Len(rows) : j < i /\ rows[j].id = rows[i].parentId
  BY DEF RowsOf
<1>6. ASSUME NEW e \in DOMAIN E
      PROVE  /\ IsEntry(E[e])
             /\ e \in Ids /\ E[e].parentId \in IdOrNone /\ E[e].type \in EntryTypes
             /\ E[e].seq \in 1..n
             /\ E[e].parentId # None => /\ E[e].parentId \in DOMAIN E
                                        /\ E[E[e].parentId].seq < E[e].seq
  <2>1. PICK i \in 1..Len(rows) : rows[i].id = e
    BY <1>2
  <2>2. /\ E[e].parentId = rows[i].parentId /\ E[e].type = rows[i].type /\ E[e].seq = i
        /\ e \in Ids /\ rows[i].type \in EntryTypes /\ rows[i].parentId \in IdOrNone
    BY <1>3, <1>4, <2>1
  <2>3. E[e].seq \in 1..n
    BY <1>1, <2>2
  <2>5. IsEntry(E[e])
    BY <2>1, RenumberedIs
  <2>4. ASSUME E[e].parentId # None
        PROVE  E[e].parentId \in DOMAIN E /\ E[E[e].parentId].seq < E[e].seq
    <3>1. PICK j \in 1..Len(rows) : j < i /\ rows[j].id = rows[i].parentId
      BY <1>5, <2>2, <2>4
    <3>. QED  BY <1>4, <2>2, <3>1
  <2>. QED  BY <2>2, <2>3, <2>4, <2>5
<1>7. ASSUME NEW a \in DOMAIN E, NEW b \in DOMAIN E, E[a].seq = E[b].seq PROVE a = b
  <2>1. PICK i \in 1..Len(rows) : rows[i].id = a
    BY <1>2
  <2>2. PICK j \in 1..Len(rows) : rows[j].id = b
    BY <1>2
  <2>. QED  BY <1>4, <1>7, <2>1, <2>2
<1>8. Forest(E, n)
  <2>1. DOMAIN E \subseteq Ids
    BY <1>6
  <2>. QED  BY <2>1, <1>6, <1>7, Zenon DEF Forest, IsEntry
<1>9. \A e \in DOMAIN E : E[e].parentId = entries[e].parentId
  BY <1>2, <1>4 DEF RowsOf
<1>. QED  BY <1>8, <1>9

\* There are as many as rows, and as many messages.
LEMMA RenumberedCount ==
    ASSUME NEW rows, NEW entries, RowsOf(rows, entries), NEW E, Renumbered(E, rows)
    PROVE  /\ IsFiniteSet(RowIds(rows)) /\ Cardinality(RowIds(rows)) = Len(rows)
           /\ Cardinality({i \in DOMAIN rows : rows[i].type = "message"})
                = Cardinality(Messages(E))
<1>. DEFINE N == Len(rows)
            S == {i \in DOMAIN rows : rows[i].type = "message"}
            f == [i \in 1..N |-> rows[i].id]
            g == [i \in S |-> rows[i].id]
<1>1. /\ N \in Nat /\ DOMAIN rows = 1..N
      /\ \A x : x \in RowIds(rows) <=> \E i \in 1..N : rows[i].id = x
  BY RowIdsAre
<1>2. \A i, j \in 1..N : rows[i].id = rows[j].id => i = j
  BY DEF RowsOf
<1>3. \A i \in 1..N : E[rows[i].id].type = rows[i].type /\ rows[i].id \in DOMAIN E
  BY RenumberedIs
<1>4. \A e \in DOMAIN E : \E i \in 1..N : rows[i].id = e
  BY <1>1 DEF Renumbered
<1>. HIDE DEF N
<1>5. IsFiniteSet(1..N) /\ Cardinality(1..N) = N
  <2>1. 1 \in Int /\ N \in Int
    BY <1>1
  <2>2. IsFiniteSet(1..N) /\ Cardinality(1..N) = IF 1 > N THEN 0 ELSE N - 1 + 1
    BY <2>1, FS_Interval
  <2>. QED  BY <1>1, <2>2
<1>6. IsFiniteSet(RowIds(rows)) /\ Cardinality(RowIds(rows)) = Cardinality(1..N)
  <2>1. /\ f \in [1..N -> RowIds(rows)]
        /\ \A a, b \in 1..N : f[a] = f[b] => a = b
        /\ \A t \in RowIds(rows) : \E a \in 1..N : f[a] = t
    BY <1>1, <1>2
  <2>. HIDE DEF f
  <2>. QED  BY <1>5, <2>1, SameNumber
<1>7. Cardinality(Messages(E)) = Cardinality(S)
  <2>1. IsFiniteSet(S)
    <3>1. S \subseteq 1..N
      BY <1>1
    <3>. HIDE DEF S
    <3>. QED  BY <1>5, <3>1, FS_Subset
  <2>2. /\ g \in [S -> Messages(E)]
        /\ \A a, b \in S : g[a] = g[b] => a = b
        /\ \A t \in Messages(E) : \E a \in S : g[a] = t
    <3>0. \A x : x \in Messages(E) <=> x \in DOMAIN E /\ E[x].type = "message"
      BY DEF Messages
    <3>1. \A i \in S : i \in 1..N /\ g[i] = rows[i].id /\ g[i] \in Messages(E)
      BY <1>1, <1>3, <3>0
    <3>2. ASSUME NEW t \in Messages(E) PROVE \E a \in S : rows[a].id = t
      <4>1. PICK i \in 1..N : rows[i].id = t
        BY <1>4, <3>0
      <4>2. i \in S
        BY <1>1, <1>3, <3>0, <4>1
      <4>. QED  BY <4>1, <4>2
    <3>. QED  BY <1>2, <3>1, <3>2
  <2>. HIDE DEF g, S
  <2>. QED  BY <2>1, <2>2, SameNumber
<1>. QED  BY <1>5, <1>6, <1>7 DEF N

\* What a fork may write: its rows, lanes into them, tips that reach them, a
\* name and labels.
Copied(f, entries) ==
    /\ RowsOf(f.entries, entries)
    /\ IsFiniteSet(DOMAIN f.lanes)
    /\ \A l \in DOMAIN f.lanes : f.lanes[l] \in RowIds(f.entries) \cup {None}
    /\ f.name \in Values \cup {None}
    /\ IsFiniteSet(DOMAIN f.labels)
    /\ \A id \in DOMAIN f.labels : id \in Ids /\ f.labels[id] \in Values \cup {None}
    /\ f.tips \subseteq RowIds(f.entries)
    /\ \A id \in RowIds(f.entries) : \E tip \in f.tips : \E B :
            id \in B /\ Path(entries, tip, B)

\* The paths of the source are those of the copy.
LEMMA CopyReached ==
    ASSUME NEW f, NEW entries, NEW n \in Nat, Forest(entries, n), Copied(f, entries),
           NEW E, Renumbered(E, f.entries)
    PROVE  TipsReach(E, f.tips)
<1>. DEFINE ids == RowIds(f.entries)
<1>1. DOMAIN E = ids /\ \A e \in ids : E[e].parentId = entries[e].parentId
  <2>1. RowsOf(f.entries, entries) /\ Len(f.entries) \in Nat /\ Len(f.entries) <= Len(f.entries)
    BY RowIdsAre DEF Copied
  <2>2. \A e \in DOMAIN E : E[e].parentId = entries[e].parentId
    BY <2>1, RenumberedForest
  <2>. QED  BY <2>2 DEF Renumbered
<1>2. /\ ids \subseteq DOMAIN entries
      /\ \A e \in ids : entries[e].parentId \in ids \cup {None}
  BY RowIdsAre DEF Copied
<1>. HIDE DEF ids
<1>3. ASSUME NEW id \in ids PROVE \E tip \in f.tips : \E B : id \in B /\ Path(E, tip, B)
  <2>1. PICK tip \in f.tips : \E B : id \in B /\ Path(entries, tip, B)
    BY DEF Copied, ids
  <2>2. PICK B : id \in B /\ Path(entries, tip, B)
    BY <2>1
  <2>3. tip \in ids
    BY DEF Copied, ids
  <2>4. B \subseteq ids
    <3>1. \A e \in ids \cap DOMAIN entries : entries[e].parentId \in ids \cup {None}
      BY <1>2
    <3>. QED  BY <2>2, <2>3, <3>1, PathInside
  <2>5. Path(E, tip, B)
    BY <1>1, <2>2, <2>4 DEF Path
  <2>. QED  BY <2>2, <2>5
<1>. QED  BY <1>1, <1>3 DEF TipsReach

\* The transaction of a fork writes tables like any other session's.
LEMMA ForkedGood ==
    ASSUME NEW f, NEW entries, NEW n \in Nat, Forest(entries, n), Copied(f, entries)
    PROVE  GoodTables(Forked(f))
<1>. DEFINE rows == f.entries
            ids == {f.entries[i].id : i \in DOMAIN f.entries}
            row == [id \in ids |-> CHOOSE i \in DOMAIN f.entries :
                                      f.entries[i].id = id]
            keys == SetToSeq({id \in DOMAIN f.labels :
                                 f.options.scope = "tree" \/ id \in ids})
            names == IF f.name = None THEN <<>>
                     ELSE <<[kind |-> "name", key |-> None, value |-> f.name]>>
            lanes == IF f.options.scope = "tree"
                     THEN Cardinality(DOMAIN f.lanes) ELSE 0
            E == [id \in ids |->
                    [parentId |-> f.entries[row[id]].parentId,
                     type |-> f.entries[row[id]].type, seq |-> row[id]]]
            L == [l \in DOMAIN f.lanes |-> [leafId |-> f.lanes[l], open |-> None]]
            labels == [i \in DOMAIN keys |->
                        [kind |-> "label", key |-> keys[i], value |-> f.labels[keys[i]]]]
            F == names \o labels
            M == Cardinality({i \in DOMAIN f.entries : f.entries[i].type = "message"})
            Q == 1 + Cardinality(ids) + lanes + Len(names) + Len(keys)
            tips == SetToSeq(f.tips)
            tables == [NoTables EXCEPT !.entries = E, !.lanes = L, !.facts = F,
                                       !.messages = M, !.nextSeq = Q]
            s == Tree(tables)
            branches == [i \in DOMAIN tips |-> Range(Branch(s, tips[i]))]
<1>1. Forked(f) = [tables EXCEPT !.branches = branches, !.tips = tips]
  BY DEF Forked, withBranches
<1>2. /\ RowsOf(rows, entries) /\ IsFiniteSet(DOMAIN f.lanes)
      /\ \A l \in DOMAIN f.lanes : f.lanes[l] \in RowIds(rows) \cup {None}
      /\ f.name \in Values \cup {None} /\ IsFiniteSet(DOMAIN f.labels)
      /\ \A id \in DOMAIN f.labels : id \in Ids /\ f.labels[id] \in Values \cup {None}
      /\ f.tips \subseteq RowIds(rows)
  BY DEF Copied
<1>3. ids = RowIds(rows)
  BY DEF RowIds
<1>4. /\ Len(rows) \in Nat /\ DOMAIN rows = 1..Len(rows)
      /\ \A x : x \in ids <=> \E i \in 1..Len(rows) : rows[i].id = x
  BY <1>2, <1>3, RowIdsAre
<1>5. Renumbered(E, rows)
  <2>1. \A i, j \in 1..Len(rows) : rows[i].id = rows[j].id => i = j
    BY <1>2 DEF RowsOf
  <2>2. ASSUME NEW i \in 1..Len(rows)
        PROVE  rows[i].id \in ids /\ row[rows[i].id] = i
    BY <1>4, <2>1
  <2>3. DOMAIN E = RowIds(rows)
    BY <1>3
  <2>4. ASSUME NEW i \in 1..Len(rows)
        PROVE  E[rows[i].id] = [parentId |-> rows[i].parentId, type |-> rows[i].type,
                                seq |-> i]
    <3>. HIDE DEF row, ids, rows
    <3>. QED  BY <2>2 DEF rows
  <2>. QED  BY <2>3, <2>4 DEF Renumbered
<1>6. /\ IsFiniteSet(ids) /\ Cardinality(ids) = Len(rows) /\ M = Cardinality(Messages(E))
  <2>. HIDE DEF E
  <2>1. /\ IsFiniteSet(RowIds(rows)) /\ Cardinality(RowIds(rows)) = Len(rows)
        /\ Cardinality({i \in DOMAIN rows : rows[i].type = "message"})
                = Cardinality(Messages(E))
    <3>. HIDE DEF rows
    <3>. QED  BY <1>2, <1>5, RenumberedCount
  <2>. QED  BY <1>3, <2>1
<1>7. DOMAIN E = ids
  OBVIOUS
<1>. HIDE DEF E, M
<1>8. LanesInto(L, E)
  <2>1. DOMAIN L = DOMAIN f.lanes
    OBVIOUS
  <2>2. \A l \in DOMAIN L : L[l] = [leafId |-> f.lanes[l], open |-> None]
    OBVIOUS
  <2>. HIDE DEF L
  <2>3. \A l \in DOMAIN L : /\ L[l] = [leafId |-> L[l].leafId, open |-> L[l].open]
                            /\ L[l].leafId = f.lanes[l]
    BY <2>2
  <2>. QED  BY <1>2, <1>3, <1>7, <2>1, <2>3 DEF LanesInto
<1>. HIDE DEF L
<1>9. /\ keys \in Seq(DOMAIN f.labels) /\ Len(keys) \in Nat
      /\ DOMAIN keys = 1..Len(keys) /\ \A i \in 1..Len(keys) : keys[i] \in DOMAIN f.labels
  <2>. DEFINE K == {id \in DOMAIN f.labels : f.options.scope = "tree" \/ id \in ids}
  <2>1. K \subseteq DOMAIN f.labels
    OBVIOUS
  <2>2. keys = SetToSeq(K)
    OBVIOUS
  <2>. HIDE DEF K, keys
  <2>3. IsFiniteSet(K)
    BY <1>2, <2>1, FS_Subset
  <2>4. keys \in Seq(K)
    BY <2>2, <2>3, SetToSeqIs
  <2>. QED  BY <2>1, <2>4
<1>. HIDE DEF keys
<1>10. names \in Seq(Fact) /\ Len(names) \in Nat
  <2>. DEFINE fact == [kind |-> "name", key |-> None, value |-> f.name]
  <2>1. fact \in Fact
    BY <1>2 DEF Fact
  <2>. HIDE DEF fact
  <2>2. <<fact>> \in Seq(Fact) /\ Len(<<fact>>) = 1
    BY <2>1
  <2>3. <<>> \in Seq(Fact) /\ Len(<<>>) = 0
    OBVIOUS
  <2>. QED  BY <2>2, <2>3 DEF fact
<1>11. labels \in Seq(Fact)
  <2>1. \A i \in 1..Len(keys) :
            [kind |-> "label", key |-> keys[i], value |-> f.labels[keys[i]]] \in Fact
    BY <1>2, <1>9 DEF Fact
  <2>2. labels = [i \in 1..Len(keys) |-> labels[i]] /\ \A i \in 1..Len(keys) : labels[i] \in Fact
    BY <1>9, <2>1
  <2>. HIDE DEF labels
  <2>. QED  BY <1>9, <2>2
<1>. HIDE DEF names, labels
<1>12. F \in Seq(Fact)
  BY <1>10, <1>11
<1>. HIDE DEF F
<1>13. lanes \in Nat
  BY <1>2, FS_CardinalityType
<1>. HIDE DEF lanes
<1>14. Q \in Nat \ {0} /\ Q - 1 \in Nat /\ Len(rows) <= Q - 1
  <2>. DEFINE a == Cardinality(ids)
              b == Len(names)
              c == Len(keys)
  <2>1. a = Len(rows) /\ a \in Nat /\ b \in Nat /\ c \in Nat /\ Q = 1 + a + lanes + b + c
    BY <1>4, <1>6, <1>9, <1>10
  <2>. HIDE DEF a, b, c, Q
  <2>. QED  BY <1>13, <2>1
<1>. HIDE DEF Q, ids, row
<1>15. Forest(E, Q - 1)
  <2>. HIDE DEF rows
  <2>. QED  BY <1>2, <1>5, <1>14, RenumberedForest
<1>16. tips \in Seq(DOMAIN E) /\ Range(tips) = f.tips
  <2>1. f.tips \subseteq ids
    BY <1>2, <1>3
  <2>2. IsFiniteSet(f.tips)
    BY <1>6, <2>1, FS_Subset
  <2>3. SetToSeq(f.tips) \in Seq(f.tips) /\ Range(SetToSeq(f.tips)) = f.tips
    BY <2>2, SetToSeqIs
  <2>. QED  BY <1>7, <2>1, <2>3
<1>17. TipsReach(E, f.tips)
  BY <1>5, CopyReached
<1>. HIDE DEF tips
<1>18. tables = [nextSeq |-> Q, entries |-> E, records |-> {}, lanes |-> L, facts |-> F,
                 branches |-> <<>>, tips |-> <<>>, messages |-> M]
  <2>. DEFINE empty == NoTables
              main == [l \in {"main"} |-> [leafId |-> None, open |-> None]]
  <2>1. empty = [nextSeq |-> 1, entries |-> <<>>, records |-> {}, lanes |-> main,
                 facts |-> <<>>, branches |-> <<>>, tips |-> <<>>, messages |-> 0]
    BY DEF NoTables
  <2>2. tables = [empty EXCEPT !.entries = E, !.lanes = L, !.facts = F,
                               !.messages = M, !.nextSeq = Q]
    OBVIOUS
  <2>. HIDE DEF empty, main, tables
  <2>. QED  BY <2>1, <2>2
<1>. HIDE DEF tables
<1>19. s = [entriesById |-> E, sequence |-> Q - 1]
  BY <1>18 DEF Tree
<1>. HIDE DEF s
<1>20. IsTree(s) /\ s.entriesById = E
  BY <1>14, <1>15, <1>19 DEF IsTree
<1>21. Cached(E, branches, tips)
  <2>1. tips \in Seq(DOMAIN s.entriesById) /\ TipsReach(s.entriesById, Range(tips))
    BY <1>16, <1>17, <1>20
  <2>2. Cached(s.entriesById, [i \in DOMAIN tips |-> Range(Branch(s, tips[i]))], tips)
    BY <1>20, <2>1, BranchesBuilt
  <2>. QED  BY <1>20, <2>2
<1>. HIDE DEF branches
<1>22. Forked(f) = [nextSeq |-> Q, entries |-> E, records |-> {}, lanes |-> L, facts |-> F,
                    branches |-> branches, tips |-> tips, messages |-> M]
  BY <1>1, <1>18
<1>. DEFINE u == Forked(f)
<1>. HIDE DEF u
<1>23. /\ u.nextSeq = Q /\ u.entries = E /\ u.lanes = L /\ u.facts = F
       /\ u.branches = branches /\ u.tips = tips /\ u.messages = M
       /\ IsRecordOfTables(u)
  BY <1>22 DEF IsRecordOfTables, u
<1>24. GoodTables(u)
  BY <1>6, <1>7, <1>8, <1>12, <1>14, <1>15, <1>21, <1>23 DEF GoodTables
<1>. QED  BY <1>24 DEF u

-----------------------------------------------------------------------------
(* The reads of a fork, while other processes write.                       *)

\* The steps after which a fork has read its entries, lanes and tips.
AllRead(f) == f.step > IF f.options.scope = "tree" THEN 3 ELSE 2

\* The tips a fork read are all copied only if nothing it copies is missing:
\* its lanes are among the copied entries and the tips reach all of these.
NothingMissing(f, entries) ==
    f.tips \subseteq RowIds(f.entries) =>
        /\ \A l \in DOMAIN f.lanes : f.lanes[l] \in RowIds(f.entries) \cup {None}
        /\ \A id \in RowIds(f.entries) : \E tip \in f.tips : \E B :
                id \in B /\ Path(entries, tip, B)

\* What a fork has read so far of a source that has these entries now.
ReadSoFar(f, entries) ==
    /\ f.options \in ForkOptions
    /\ RowsOf(f.entries, entries)
    /\ IsFiniteSet(DOMAIN f.lanes)
    /\ \A l \in DOMAIN f.lanes : f.lanes[l] \in DOMAIN entries \cup {None}
    /\ f.name \in Values \cup {None}
    /\ IsFiniteSet(DOMAIN f.labels)
    /\ \A id \in DOMAIN f.labels : id \in Ids /\ f.labels[id] \in Values \cup {None}
    /\ f.options.scope # "tree" /\ f.step > 1 => "main" \in DOMAIN f.lanes
    /\ AllRead(f) => NothingMissing(f, entries)

\* It stays true while the source grows.
LEMMA ReadSoFarKept ==
    ASSUME NEW f, NEW entries, NEW later, ReadSoFar(f, entries), Kept(entries, later)
    PROVE  ReadSoFar(f, later)
<1>1. RowsOf(f.entries, later)
  BY RowsKept DEF ReadSoFar
<1>2. DOMAIN entries \subseteq DOMAIN later
  BY DEF Kept
<1>3. ASSUME NothingMissing(f, entries) PROVE NothingMissing(f, later)
  <2>1. \A tip, B : Path(entries, tip, B) => Path(later, tip, B)
    BY PathKept
  <2>. QED  BY <1>3, <2>1 DEF NothingMissing
<1>. QED  BY <1>1, <1>2, <1>3 DEF ReadSoFar

\* Once a fork has read everything and does not throw, it may be written.
LEMMA ReadIsCopied ==
    ASSUME NEW f, NEW entries, ReadSoFar(f, entries), AllRead(f),
           f.tips \subseteq RowIds(f.entries)
    PROVE  Copied(f, entries)
BY DEF ReadSoFar, NothingMissing, Copied

\* The greatest of some numbers up to n.
LEMMA MaxIs ==
    ASSUME NEW n \in Nat, NEW S \in SUBSET (1..n), S # {}
    PROVE  Max(S) \in S
<1>. DEFINE R == OpToRel(<, Nat)
            ages == {n - x : x \in S}
<1>1. IsWellFoundedOn(R, Nat)
  BY NatLessThanWellFounded
<1>2. ages \subseteq Nat /\ ages # {}
  <2>1. \A x \in S : x \in 1..n
    OBVIOUS
  <2>2. \A x \in S : n - x \in Nat
    BY <2>1
  <2>. QED  BY <2>2
<1>3. PICK x \in ages : \A y \in ages : ~ (<<y, x>> \in R)
  <2>. HIDE DEF R, ages
  <2>. QED  BY <1>1, <1>2, WFMin
<1>4. \A y \in ages : ~ (y < x)
  BY <1>2, <1>3 DEF OpToRel
<1>5. PICK m \in S : x = n - m
  OBVIOUS
<1>6. ASSUME NEW y \in S PROVE m >= y
  <2>1. ~ (n - y < n - m)
    BY <1>4, <1>5
  <2>2. m \in Int /\ y \in Int /\ n \in Int
    OBVIOUS
  <2>. QED  BY <2>1, <2>2
<1>. QED  BY <1>6 DEF Max

\* Names and labels read back are those that were written, and only ids that
\* were labelled have a label.
LEMMA FactRead ==
    ASSUME NEW t, t.facts \in Seq(Fact), NEW kind, NEW key
    PROVE  /\ readLatestFact(t, kind, key) \in Values \cup {None}
           /\ readLatestFact(t, kind, key) # None =>
                    \E i \in 1..Len(t.facts) : t.facts[i].key = key
<1>. DEFINE facts == t.facts
            rows == {i \in DOMAIN facts : facts[i].kind = kind /\ facts[i].key = key}
<1>1. Len(facts) \in Nat /\ DOMAIN facts = 1..Len(facts)
  OBVIOUS
<1>2. readLatestFact(t, kind, key) = IF rows = {} THEN None ELSE facts[Max(rows)].value
  BY DEF readLatestFact
<1>3. rows \in SUBSET (1..Len(facts)) /\ \A i \in rows : facts[i].key = key
  BY <1>1
<1>4. \A i \in 1..Len(facts) : facts[i].value \in Values \cup {None}
  <2>1. \A i \in 1..Len(facts) : facts[i] \in Fact
    OBVIOUS
  <2>. QED  BY <2>1 DEF Fact
<1>. HIDE DEF rows, facts
<1>5. CASE rows = {}
  BY <1>2, <1>5
<1>6. CASE rows # {}
  <2>1. Max(rows) \in rows
    BY <1>1, <1>3, <1>6, MaxIs
  <2>. QED  BY <1>2, <1>3, <1>4, <1>6, <2>1 DEF facts
<1>. QED  BY <1>5, <1>6

\* There are finitely many labels.
LEMMA LabelsRead ==
    ASSUME NEW t, t.facts \in Seq(Fact), NEW labels,
           labels = [id \in {id \in Ids : readLatestFact(t, "label", id) # None} |->
                        readLatestFact(t, "label", id)]
    PROVE  /\ IsFiniteSet(DOMAIN labels)
           /\ \A id \in DOMAIN labels : id \in Ids /\ labels[id] \in Values \cup {None}
<1>. DEFINE facts == t.facts
            N == Len(facts)
            key == [i \in 1..N |-> facts[i].key]
            used == {facts[i].key : i \in 1..N}
<1>1. N \in Nat
  OBVIOUS
<1>2. /\ DOMAIN labels = {id \in Ids : readLatestFact(t, "label", id) # None}
      /\ \A id \in DOMAIN labels : labels[id] = readLatestFact(t, "label", id)
  OBVIOUS
<1>3. DOMAIN labels \subseteq used
  BY <1>2, FactRead
<1>4. IsFiniteSet(used)
  <2>1. key \in Surjection(1..N, used)
    BY DEF Surjection
  <2>2. IsFiniteSet(1..N)
    BY <1>1, FS_Interval
  <2>. HIDE DEF key, used, N
  <2>. QED  BY <2>1, <2>2, FS_Surjection
<1>5. IsFiniteSet(DOMAIN labels)
  <2>. HIDE DEF used
  <2>. QED  BY <1>3, <1>4, FS_Subset
<1>6. \A id \in DOMAIN labels : labels[id] \in Values \cup {None}
  BY <1>2, FactRead
<1>. QED  BY <1>2, <1>5, <1>6

\* What the readers of a fork see of the tables.
LEMMA ViewIs ==
    ASSUME NEW t
    PROVE  /\ View(t).lanes = [l \in DOMAIN t.lanes |-> t.lanes[l].leafId]
           /\ View(t).name = readLatestFact(t, "name", None)
           /\ View(t).labels =
                [id \in {id \in Ids : readLatestFact(t, "label", id) # None} |->
                    readLatestFact(t, "label", id)]
           /\ View(t).entriesById = t.entries
           /\ DOMAIN View(t) = {"sequence", "usedIds", "entriesById", "lanes",
                                "openOperationsByLane", "name", "labels"}
BY DEF View

\* The fields that no read of a fork changes, but for the step.
Proceeds(f, g) ==
    g.options = f.options /\ g.session = f.session /\ g.step = f.step + 1

\* The reads of a tree fork before the name and the labels.
LEMMA ReadTree ==
    ASSUME NEW t, GoodTables(t), NEW f, ReadSoFar(f, t.entries),
           f.step \in 1..3, f.options.scope = "tree", NEW g, Proceeds(f, g),
           g.name = f.name, g.labels = f.labels,
           f.step = 1 => g.entries = Rows(t, DOMAIN t.entries) /\ g.lanes = f.lanes,
           f.step = 2 => g.entries = f.entries /\ g.lanes = View(t).lanes,
           f.step = 3 => /\ g.entries = f.entries /\ g.lanes = f.lanes
                         /\ g.tips = Range(t.tips)
    PROVE  ReadSoFar(g, t.entries)
<1>. DEFINE entries == t.entries
            n == t.nextSeq - 1
<1>1. /\ t.nextSeq \in Nat \ {0} /\ n \in Nat /\ Forest(entries, n)
      /\ LanesInto(t.lanes, entries) /\ Cached(entries, t.branches, t.tips)
  BY DEF GoodTables
<1>2. /\ f.options \in ForkOptions /\ RowsOf(f.entries, entries)
      /\ IsFiniteSet(DOMAIN f.lanes)
      /\ \A l \in DOMAIN f.lanes : f.lanes[l] \in DOMAIN entries \cup {None}
      /\ f.name \in Values \cup {None} /\ IsFiniteSet(DOMAIN f.labels)
      /\ \A id \in DOMAIN f.labels : id \in Ids /\ f.labels[id] \in Values \cup {None}
  BY DEF ReadSoFar
<1>3. CASE f.step = 1
  <2>. DEFINE rows == Rows(t, DOMAIN entries)
  <2>1. RowsOf(rows, entries)
    <3>1. \A e \in DOMAIN entries : entries[e].parentId \in DOMAIN entries \cup {None}
      BY <1>1 DEF Forest
    <3>. QED  BY <1>1, <3>1, RowsAre
  <2>3. /\ g.options = f.options /\ g.entries = rows /\ g.lanes = f.lanes /\ g.step = 2
        /\ g.name = f.name /\ g.labels = f.labels
    BY <1>3 DEF Proceeds
  <2>. HIDE DEF rows
  <2>4. ~ AllRead(g)
    BY <2>3 DEF AllRead
  <2>. QED  BY <1>2, <2>1, <2>3, <2>4 DEF ReadSoFar
<1>4. CASE f.step = 2
  <2>. DEFINE lanes == View(t).lanes
  <2>1. lanes = [l \in DOMAIN t.lanes |-> t.lanes[l].leafId]
    BY ViewIs
  <2>3. /\ g.options = f.options /\ g.entries = f.entries /\ g.lanes = lanes /\ g.step = 3
        /\ g.name = f.name /\ g.labels = f.labels
    BY <1>4 DEF Proceeds
  <2>. HIDE DEF lanes
  <2>4. /\ IsFiniteSet(DOMAIN lanes)
        /\ \A l \in DOMAIN lanes : lanes[l] \in DOMAIN entries \cup {None}
    BY <1>1, <2>1 DEF LanesInto
  <2>5. ~ AllRead(g)
    BY <2>3 DEF AllRead
  <2>. QED  BY <1>2, <2>3, <2>4, <2>5 DEF ReadSoFar
<1>5. CASE f.step = 3
  <2>. DEFINE tips == Range(t.tips)
              ids == RowIds(f.entries)
  <2>2. \A b \in DOMAIN t.tips : t.tips[b] \in tips
    BY DEF Range
  <2>3. /\ g.options = f.options /\ g.entries = f.entries /\ g.lanes = f.lanes /\ g.step = 4
        /\ g.name = f.name /\ g.labels = f.labels /\ g.tips = tips
    BY <1>5 DEF Proceeds
  <2>. HIDE DEF tips, ids
  <2>4. \A id \in DOMAIN entries : \E tip \in tips : \E B : id \in B /\ Path(entries, tip, B)
    BY <1>1, <2>2 DEF Cached
  <2>5. ids \subseteq DOMAIN entries /\ \A e \in ids : entries[e].parentId \in ids \cup {None}
    BY <1>2, RowIdsAre DEF ids
  <2>6. ASSUME tips \subseteq ids PROVE DOMAIN entries = ids
    <3>1. ASSUME NEW id \in DOMAIN entries PROVE id \in ids
      <4>1. PICK tip \in tips : \E B : id \in B /\ Path(entries, tip, B)
        BY <2>4
      <4>2. PICK B : id \in B /\ Path(entries, tip, B)
        BY <4>1
      <4>3. tip \in ids /\ \A e \in ids \cap DOMAIN entries :
                                entries[e].parentId \in ids \cup {None}
        BY <2>5, <2>6
      <4>4. B \subseteq ids
        <5>. HIDE DEF entries, n
        <5>. QED  BY <1>1, <4>2, <4>3, PathInside
      <4>. QED  BY <4>2, <4>4
    <3>. QED  BY <2>5, <3>1
  <2>7. NothingMissing(g, entries)
    BY <1>2, <2>3, <2>4, <2>6 DEF NothingMissing, ids
  <2>. QED  BY <1>2, <2>3, <2>7 DEF ReadSoFar
<1>. QED  BY <1>3, <1>4, <1>5

\* The target that the lanes read select in the tables, and the rows of the
\* branch that ends there.
TargetIsValid(f, t) ==
    ValidForkTarget([View(t) EXCEPT !.lanes = f.lanes], f.options)
BranchRows(t, target) ==
    IF target = None THEN <<>>
    ELSE Rows(t, through(t, Min(readBranchesContaining(t, target)), target))

\* The new leaf of a branch fork is an entry of its source.
LEMMA ReadTargetIs ==
    ASSUME NEW t, GoodTables(t), NEW f, f.options \in ForkOptions,
           f.options.scope # "tree", "main" \in DOMAIN f.lanes,
           f.lanes["main"] \in DOMAIN t.entries \cup {None},
           TargetIsValid(f, t)
    PROVE  readTarget(f, t) \in DOMAIN t.entries \cup {None}
<1>. DEFINE s == [View(t) EXCEPT !.lanes = f.lanes]
            o == f.options
            selected == SelectedEntry(s, o)
            entries == t.entries
<1>1. s.lanes = f.lanes /\ s.entriesById = entries
  <2>. DEFINE v == View(t)
  <2>1. /\ v.entriesById = entries
        /\ DOMAIN v = {"sequence", "usedIds", "entriesById", "lanes",
                       "openOperationsByLane", "name", "labels"}
    BY ViewIs
  <2>. HIDE DEF v
  <2>. QED  BY <2>1 DEF v
<1>2. \A e \in DOMAIN entries : entries[e].parentId \in DOMAIN entries \cup {None}
  <2>1. Forest(entries, t.nextSeq - 1)
    BY DEF GoodTables
  <2>. QED  BY <2>1 DEF Forest
<1>3. readTarget(f, t) = ForkTarget(s, o) /\ ValidForkTarget(s, o) /\ o.scope # "tree"
  BY DEF readTarget, TargetIsValid
<1>. HIDE DEF s, o, entries
<1>4. selected = None \/ selected \in DOMAIN entries
  BY <1>1, <1>3 DEF ValidForkTarget
<1>5. \/ ForkTarget(s, o) = selected
      \/ selected # None /\ ForkTarget(s, o) = entries[selected].parentId
  <2>. DEFINE at == o.position = "at" \/ (o.position = None /\ o.entryId = None)
  <2>1. ForkTarget(s, o) = IF selected = None \/ at THEN selected
                           ELSE s.entriesById[selected].parentId
    BY DEF ForkTarget
  <2>. HIDE DEF at, selected
  <2>2. ForkTarget(s, o) = IF selected = None \/ at THEN selected
                           ELSE entries[selected].parentId
    BY <1>1, <2>1
  <2>. QED  BY <2>2
<1>. HIDE DEF selected
<1>. QED  BY <1>2, <1>3, <1>4, <1>5 DEF entries

\* The rows of a branch, read from the cache.
LEMMA ReadBranchRows ==
    ASSUME NEW t, GoodTables(t), NEW target \in DOMAIN t.entries
    PROVE  LET B == through(t, Min(readBranchesContaining(t, target)), target)
           IN  /\ RowsOf(Rows(t, B), t.entries) /\ RowIds(Rows(t, B)) = B
               /\ Path(t.entries, target, B)
<1>. DEFINE entries == t.entries
            n == t.nextSeq - 1
            S == readBranchesContaining(t, target)
            b == Min(S)
            B == through(t, b, target)
<1>1. /\ t.nextSeq \in Nat \ {0} /\ n \in Nat /\ Forest(entries, n)
      /\ Cached(entries, t.branches, t.tips)
  BY DEF GoodTables
<1>2. S \in SUBSET Nat /\ S # {}
  BY <1>1 DEF readBranchesContaining, Cached
<1>3. b \in S
  <2>. HIDE DEF S
  <2>. QED  BY <1>2, MinIs
<1>. HIDE DEF b
<1>4. b \in DOMAIN t.branches /\ target \in t.branches[b]
      /\ Path(entries, t.tips[b], t.branches[b])
  BY <1>1, <1>3 DEF readBranchesContaining, Cached
<1>5. Path(entries, target, {e \in t.branches[b] : entries[e].seq <= entries[target].seq})
  <2>. HIDE DEF entries, n
  <2>. QED  BY <1>1, <1>4, PathThrough
<1>6. Path(entries, target, B)
  BY <1>5 DEF through
<1>. HIDE DEF B
<1>7. B \in SUBSET DOMAIN entries /\ \A e \in B : entries[e].parentId \in B \cup {None}
  BY <1>6 DEF Path
<1>8. RowsOf(Rows(t, B), entries) /\ RowIds(Rows(t, B)) = B
  BY <1>1, <1>7, RowsAre
<1>. QED  BY <1>6, <1>8 DEF B, b

\* The reads of a branch fork before the name and the labels.
LEMMA ReadBranches ==
    ASSUME NEW t, GoodTables(t), NEW f, ReadSoFar(f, t.entries),
           f.step \in 1..2, f.options.scope # "tree", NEW g, Proceeds(f, g),
           g.name = f.name, g.labels = f.labels, DOMAIN g.lanes = {"main"},
           f.step = 1 => /\ "main" \in DOMAIN t.lanes /\ g.entries = f.entries
                         /\ g.lanes["main"] = View(t).lanes["main"],
           NEW target,
           f.step = 2 =>
                /\ TargetIsValid(f, t)
                /\ target = readTarget(f, t)
                /\ g.lanes["main"] = target /\ g.tips = {target} \ {None}
                /\ g.entries = BranchRows(t, target)
    PROVE  ReadSoFar(g, t.entries)
<1>. DEFINE entries == t.entries
<1>1. LanesInto(t.lanes, entries)
  BY DEF GoodTables
<1>2. /\ f.options \in ForkOptions /\ RowsOf(f.entries, entries)
      /\ IsFiniteSet(DOMAIN f.lanes)
      /\ \A l \in DOMAIN f.lanes : f.lanes[l] \in DOMAIN entries \cup {None}
      /\ f.name \in Values \cup {None} /\ IsFiniteSet(DOMAIN f.labels)
      /\ \A id \in DOMAIN f.labels : id \in Ids /\ f.labels[id] \in Values \cup {None}
      /\ f.step > 1 => "main" \in DOMAIN f.lanes
  BY DEF ReadSoFar
<1>3. IsFiniteSet({"main"})
  BY FS_Singleton
<1>4. CASE f.step = 1
  <2>. DEFINE leaf == View(t).lanes["main"]
  <2>1. leaf \in DOMAIN entries \cup {None}
    <3>1. "main" \in DOMAIN t.lanes
      BY <1>4
    <3>2. View(t).lanes = [l \in DOMAIN t.lanes |-> t.lanes[l].leafId]
      BY ViewIs
    <3>3. leaf = t.lanes["main"].leafId
      BY <3>1, <3>2
    <3>. QED  BY <1>1, <3>1, <3>3 DEF LanesInto
  <2>3. DOMAIN g.lanes = {"main"} /\ g.lanes["main"] = leaf
    BY <1>4
  <2>. HIDE DEF leaf
  <2>4. /\ g.options = f.options /\ g.entries = f.entries /\ g.step = 2
        /\ g.name = f.name /\ g.labels = f.labels
    BY <1>4 DEF Proceeds
  <2>5. ~ AllRead(g)
    BY <2>4 DEF AllRead
  <2>6. /\ IsFiniteSet(DOMAIN g.lanes) /\ "main" \in DOMAIN g.lanes
        /\ \A l \in DOMAIN g.lanes : g.lanes[l] \in DOMAIN entries \cup {None}
    BY <1>3, <2>1, <2>3
  <2>. QED  BY <1>2, <2>4, <2>5, <2>6 DEF ReadSoFar
<1>5. CASE f.step = 2
  <2>. DEFINE B == through(t, Min(readBranchesContaining(t, target)), target)
              rows == BranchRows(t, target)
              tips == {target} \ {None}
  <2>1. target \in DOMAIN entries \cup {None}
    <3>1. "main" \in DOMAIN f.lanes
      BY <1>2, <1>5
    <3>2. f.lanes["main"] \in DOMAIN entries \cup {None}
      BY <1>2, <3>1
    <3>3. TargetIsValid(f, t)
      BY <1>5
    <3>4. readTarget(f, t) \in DOMAIN entries \cup {None}
      BY <1>2, <3>1, <3>2, <3>3, ReadTargetIs
    <3>. QED  BY <1>5, <3>4
  <2>3. DOMAIN g.lanes = {"main"} /\ g.lanes["main"] = target
    BY <1>5
  <2>4. /\ RowsOf(rows, entries)
        /\ target \in RowIds(rows) \cup {None}
        /\ \A id \in RowIds(rows) : target # None /\ \E P : id \in P /\ Path(entries, target, P)
    <3>1. CASE target = None
      <4>1. rows = <<>>
        BY <3>1 DEF BranchRows
      <4>. HIDE DEF rows
      <4>2. rows \in Seq(Row) /\ Len(rows) = 0 /\ 1..0 = {} /\ DOMAIN rows = {}
        BY <4>1
      <4>3. RowsOf(rows, entries) /\ RowIds(rows) = {}
        BY <4>2 DEF RowsOf, RowIds
      <4>. QED  BY <3>1, <4>3
    <3>2. CASE target # None
      <4>1. rows = Rows(t, B) /\ target \in DOMAIN entries
        BY <2>1, <3>2 DEF BranchRows
      <4>2. /\ RowsOf(Rows(t, B), entries) /\ RowIds(Rows(t, B)) = B
            /\ Path(entries, target, B)
        BY <4>1, ReadBranchRows
      <4>. HIDE DEF rows, B
      <4>. QED  BY <3>2, <4>1, <4>2 DEF Path
    <3>. QED  BY <3>1, <3>2
  <2>5. /\ g.options = f.options /\ g.entries = rows /\ g.step = 3
        /\ g.name = f.name /\ g.labels = f.labels /\ g.tips = tips
    BY <1>5 DEF Proceeds
  <2>. HIDE DEF rows, B
  <2>6. NothingMissing(g, entries)
    BY <2>3, <2>4, <2>5 DEF NothingMissing
  <2>7. /\ IsFiniteSet(DOMAIN g.lanes) /\ "main" \in DOMAIN g.lanes
        /\ \A l \in DOMAIN g.lanes : g.lanes[l] \in DOMAIN entries \cup {None}
    BY <1>3, <2>1, <2>3
  <2>. QED  BY <1>2, <2>4, <2>5, <2>6, <2>7 DEF ReadSoFar
<1>. QED  BY <1>4, <1>5

\* The name and the labels.
LEMMA ReadFacts ==
    ASSUME NEW t, GoodTables(t), NEW f, ReadSoFar(f, t.entries),
           f.step \in Nat, AllRead(f), NEW g, Proceeds(f, g),
           g.entries = f.entries, g.lanes = f.lanes, g.tips = f.tips,
           g.name = f.name \/ g.name = View(t).name,
           g.labels = f.labels \/ g.labels = View(t).labels
    PROVE  ReadSoFar(g, t.entries)
<1>. DEFINE entries == t.entries
            name == View(t).name
            labels == View(t).labels
<1>1. t.facts \in Seq(Fact)
  BY DEF GoodTables
<1>2. name \in Values \cup {None}
  <2>1. name = readLatestFact(t, "name", None)
    BY ViewIs
  <2>. QED  BY <1>1, <2>1, FactRead
<1>3. /\ IsFiniteSet(DOMAIN labels)
      /\ \A id \in DOMAIN labels : id \in Ids /\ labels[id] \in Values \cup {None}
  <2>1. labels = [id \in {id \in Ids : readLatestFact(t, "label", id) # None} |->
                    readLatestFact(t, "label", id)]
    BY ViewIs
  <2>. HIDE DEF labels
  <2>. QED  BY <1>1, <2>1, LabelsRead
<1>4. g.name \in {f.name, name} /\ g.labels \in {f.labels, labels}
  OBVIOUS
<1>. HIDE DEF name, labels
<1>5. g.options = f.options /\ g.step = f.step + 1
  BY DEF Proceeds
<1>6. f.options.scope # "tree" => "main" \in DOMAIN f.lanes
  BY DEF ReadSoFar, AllRead
<1>7. NothingMissing(g, entries)
  BY DEF ReadSoFar, NothingMissing
<1>. QED  BY <1>2, <1>3, <1>4, <1>5, <1>6, <1>7 DEF ReadSoFar

\* What a read changes of f, and in h.
ReadChanges(f, h, t, what) ==
    /\ DOMAIN h = ForkFields /\ h.step = f.step /\ h.session = f.session
    /\ h.options = f.options /\ h.op = f.op
    /\ what # "name" => h.name = f.name
    /\ what # "labels" => h.labels = f.labels
    /\ what \notin {"entries", "branch"} => h.entries = f.entries
    /\ what \notin {"lanes", "main", "branch"} => h.lanes = f.lanes
    /\ what \notin {"tips", "branch"} => h.tips = f.tips
    /\ what = "entries" => h.entries = Rows(t, DOMAIN t.entries)
    /\ what = "lanes" => h.lanes = View(t).lanes
    /\ what = "tips" => h.tips = Range(t.tips)
    /\ what = "main" => /\ DOMAIN h.lanes = {"main"}
                        /\ h.lanes["main"] = View(t).lanes["main"]
    /\ what = "branch" =>
        /\ DOMAIN h.lanes = {"main"} /\ h.lanes["main"] = readTarget(f, t)
        /\ h.tips = {readTarget(f, t)} \ {None}
        /\ h.entries = BranchRows(t, readTarget(f, t))
    /\ what = "name" => h.name = View(t).name
    /\ what = "labels" => h.labels = View(t).labels

\* It does.
LEMMA ForkReadChanges ==
    ASSUME NEW t, NEW f, DOMAIN f = ForkFields, NEW what, NEW h,
           h = ForkRead(f, t, what),
           what \in {"entries", "lanes", "tips", "main", "branch", "name", "labels"}
    PROVE  ReadChanges(f, h, t, what)
<1>. DEFINE rows == Rows(t, DOMAIN t.entries)
            v == View(t)
            lanes == v.lanes
            name == v.name
            labels == v.labels
            tips == Range(t.tips)
            main == [l \in {"main"} |-> lanes["main"]]
            target == readTarget(f, t)
            branch == [l \in {"main"} |-> target]
            copied == BranchRows(t, target)
            end == {target} \ {None}
<1>1. CASE what = "entries"
  <2>1. h = [f EXCEPT !.entries = rows]
    BY <1>1 DEF ForkRead
  <2>. HIDE DEF rows
  <2>. QED  BY <1>1, <2>1 DEF ReadChanges, ForkFields, rows
<1>2. CASE what = "lanes"
  <2>1. h = [f EXCEPT !.lanes = lanes]
    BY <1>2 DEF ForkRead
  <2>. HIDE DEF lanes
  <2>2. /\ DOMAIN h = ForkFields /\ h.lanes = lanes
        /\ \A x \in ForkFields \ {"lanes"} : h[x] = f[x]
    BY <2>1 DEF ForkFields
  <2>. QED  BY <1>2, <2>2 DEF ReadChanges, ForkFields, lanes
<1>3. CASE what = "tips"
  <2>1. h = [f EXCEPT !.tips = tips]
    BY <1>3 DEF ForkRead
  <2>. HIDE DEF tips
  <2>. QED  BY <1>3, <2>1 DEF ReadChanges, ForkFields, tips
<1>4. CASE what = "main"
  <2>1. h = [f EXCEPT !.lanes = main]
    BY <1>4 DEF ForkRead
  <2>2. DOMAIN main = {"main"} /\ main["main"] = View(t).lanes["main"]
    OBVIOUS
  <2>. HIDE DEF main
  <2>. QED  BY <1>4, <2>1, <2>2 DEF ReadChanges, ForkFields
<1>5. CASE what = "branch"
  <2>1. h = [f EXCEPT !.lanes = branch, !.entries = copied, !.tips = end]
    BY <1>5 DEF ForkRead, readBranch, BranchRows
  <2>2. DOMAIN branch = {"main"} /\ branch["main"] = target
    OBVIOUS
  <2>. HIDE DEF branch, copied, end
  <2>3. /\ DOMAIN h = ForkFields /\ h.lanes = branch /\ h.entries = copied /\ h.tips = end
        /\ h.step = f.step /\ h.session = f.session /\ h.options = f.options
        /\ h.op = f.op /\ h.name = f.name /\ h.labels = f.labels
    BY <2>1 DEF ForkFields
  <2>. QED  BY <1>5, <2>2, <2>3 DEF ReadChanges, copied, end
<1>6. CASE what = "name"
  <2>1. h = [f EXCEPT !.name = name]
    BY <1>6 DEF ForkRead
  <2>. HIDE DEF name
  <2>. QED  BY <1>6, <2>1 DEF ReadChanges, ForkFields, name
<1>7. CASE what = "labels"
  <2>1. h = [f EXCEPT !.labels = labels]
    BY <1>7 DEF ForkRead
  <2>. HIDE DEF labels
  <2>. QED  BY <1>7, <2>1 DEF ReadChanges, ForkFields, labels
<1>. QED  BY <1>1, <1>2, <1>3, <1>4, <1>5, <1>6, <1>7

Stepped(g, h) == g = [h EXCEPT !.step = @ + 1]

\* Every read of a fork.
LEMMA ForkReadKeeps ==
    ASSUME NEW t, GoodTables(t), NEW f, ReadSoFar(f, t.entries), DOMAIN f = ForkFields,
           f.step \in Nat \ {0}, f.step <= Len(ForkReads(f.options)), NEW what,
           what = ForkReads(f.options)[f.step], ~ ReadThrows(f, t, what), NEW h,
           h = ForkRead(f, t, what), NEW g, Stepped(g, h)
    PROVE  ReadSoFar(g, t.entries) /\ g.session = f.session /\ g.op = f.op
<1>1. \/ /\ f.options.scope = "tree" /\ f.step \in 1..5
         /\ \/ f.step = 1 /\ what = "entries"
            \/ f.step = 2 /\ what = "lanes"
            \/ f.step = 3 /\ what = "tips"
            \/ f.step = 4 /\ what = "name"
            \/ f.step = 5 /\ what = "labels"
      \/ /\ f.options.scope # "tree" /\ f.step \in 1..4
         /\ \/ f.step = 1 /\ what = "main"
            \/ f.step = 2 /\ what = "branch"
            \/ f.step = 3 /\ what = "name"
            \/ f.step = 4 /\ what = "labels"
  <2>1. CASE f.options.scope = "tree"
    <3>1. ForkReads(f.options) = <<"entries", "lanes", "tips", "name", "labels">>
      BY <2>1 DEF ForkReads
    <3>2. f.step \in 1..5
      BY <3>1
    <3>. QED  BY <2>1, <3>1, <3>2
  <2>2. CASE f.options.scope # "tree"
    <3>1. ForkReads(f.options) = <<"main", "branch", "name", "labels">>
      BY <2>2 DEF ForkReads
    <3>2. f.step \in 1..4
      BY <3>1
    <3>. QED  BY <2>2, <3>1, <3>2
  <2>. QED  BY <2>1, <2>2
<1>2. what \in {"entries", "lanes", "tips", "main", "branch", "name", "labels"}
  BY <1>1
<1>3. ReadChanges(f, h, t, what)
  BY <1>2, ForkReadChanges
<1>4. DOMAIN h = ForkFields /\ h.step = f.step /\ h.session = f.session
      /\ h.options = f.options /\ h.op = f.op
  BY <1>3 DEF ReadChanges
<1>5. /\ g.options = h.options /\ g.session = h.session /\ g.step = h.step + 1
      /\ g.entries = h.entries /\ g.lanes = h.lanes /\ g.tips = h.tips
      /\ g.name = h.name /\ g.labels = h.labels /\ g.op = f.op
  BY <1>4 DEF ForkFields, Stepped
<1>6. Proceeds(f, g) /\ g.session = f.session /\ g.op = f.op
  BY <1>4, <1>5 DEF Proceeds
<1>7. CASE what \in {"entries", "lanes", "tips"}
  <2>1. f.options.scope = "tree" /\ f.step \in 1..3
    BY <1>1, <1>7
  <2>2. g.name = f.name /\ g.labels = f.labels
    BY <1>5, <1>7, <1>3 DEF ReadChanges
  <2>3. f.step = 1 => g.entries = Rows(t, DOMAIN t.entries) /\ g.lanes = f.lanes
    <3>1. f.step = 1 => what = "entries"
      BY <1>1, <2>1
    <3>. QED  BY <1>5, <1>3, <3>1 DEF ReadChanges
  <2>4. f.step = 2 => g.entries = f.entries /\ g.lanes = View(t).lanes
    <3>1. f.step = 2 => what = "lanes"
      BY <1>1, <2>1
    <3>. QED  BY <1>5, <1>3, <3>1 DEF ReadChanges
  <2>5. f.step = 3 => /\ g.entries = f.entries /\ g.lanes = f.lanes
                      /\ g.tips = Range(t.tips)
    <3>1. f.step = 3 => what = "tips"
      BY <1>1, <2>1
    <3>. QED  BY <1>5, <1>3, <3>1 DEF ReadChanges
  <2>6. ReadSoFar(g, t.entries)
    BY <1>6, <2>1, <2>2, <2>3, <2>4, <2>5, ReadTree
  <2>. QED  BY <1>6, <2>6
<1>8. CASE what \in {"main", "branch"}
  <2>. DEFINE target == readTarget(f, t)
  <2>1. f.options.scope # "tree" /\ f.step \in 1..2
    BY <1>1, <1>8
  <2>2. g.name = f.name /\ g.labels = f.labels /\ DOMAIN g.lanes = {"main"}
    BY <1>5, <1>8, <1>3 DEF ReadChanges
  <2>3. f.step = 1 => /\ "main" \in DOMAIN t.lanes /\ g.entries = f.entries
                      /\ g.lanes["main"] = View(t).lanes["main"]
    <3>1. f.step = 1 => what = "main" /\ "main" \in DOMAIN t.lanes
      BY <1>1, <2>1 DEF ReadThrows
    <3>. QED  BY <1>5, <1>3, <3>1 DEF ReadChanges
  <2>4. f.step = 2 =>
            /\ TargetIsValid(f, t)
            /\ target = readTarget(f, t)
            /\ g.lanes["main"] = target /\ g.tips = {target} \ {None}
            /\ g.entries = BranchRows(t, target)
    <3>1. f.step = 2 => what = "branch"
      BY <1>1, <2>1
    <3>2. f.step = 2 => TargetIsValid(f, t)
      BY <3>1 DEF ReadThrows, TargetIsValid
    <3>3. f.step = 2 =>
            /\ g.lanes["main"] = target /\ g.tips = {target} \ {None}
            /\ g.entries = BranchRows(t, target)
      BY <1>5, <1>3, <3>1 DEF ReadChanges
    <3>. QED  BY <3>2, <3>3
  <2>. HIDE DEF target
  <2>5. ReadSoFar(g, t.entries)
    BY <1>6, <2>1, <2>2, <2>3, <2>4, ReadBranches
  <2>. QED  BY <1>6, <2>5
<1>9. CASE what \in {"name", "labels"}
  <2>1. AllRead(f) /\ f.step \in Nat
    BY <1>1, <1>9 DEF AllRead
  <2>2. g.entries = f.entries /\ g.lanes = f.lanes /\ g.tips = f.tips
    BY <1>5, <1>9, <1>3 DEF ReadChanges
  <2>3. /\ g.name = f.name \/ g.name = View(t).name
        /\ g.labels = f.labels \/ g.labels = View(t).labels
    BY <1>5, <1>9, <1>3 DEF ReadChanges
  <2>4. ReadSoFar(g, t.entries)
    BY <1>6, <2>1, <2>2, <2>3, ReadFacts
  <2>. QED  BY <1>6, <2>4
<1>. QED  BY <1>2, <1>7, <1>8, <1>9

-----------------------------------------------------------------------------
(* The content of the database.                                            *)

\* The tables of every session.
TablesAreGood == \A s \in DOMAIN db : GoodTables(db[s])

\* What the running forks have read, of sources that nobody deletes.
ForksReadSoFar ==
    \A r \in Repositories :
        (task[r] # None /\ task[r].op = "fork") =>
            /\ task[r].session \in DOMAIN db \ Deletable
            /\ ReadSoFar(task[r], db[task[r].session].entries)

\* Only sessions that callers delete are being deleted.
DeletesAreAsked ==
    \A r \in Repositories :
        (task[r] # None /\ task[r].op = "delete") => task[r].session \in Deletable

ContentInv == TablesAreGood /\ ForksReadSoFar /\ DeletesAreAsked

\* What every step does to the sessions nobody deletes: it keeps their
\* entries.
EntriesAreKept ==
    \A s \in DOMAIN db \ Deletable :
        s \in DOMAIN db' /\ Kept(db[s].entries, db'[s].entries)

\* A fork that does not read in this step.
LEMMA ForksStay ==
    ASSUME ForksReadSoFar, EntriesAreKept, NEW r \in Repositories,
           task[r] # None, task[r].op = "fork", task'[r] = task[r]
    PROVE  /\ task'[r].session \in DOMAIN db' \ Deletable
           /\ ReadSoFar(task'[r], db'[task'[r].session].entries)
<1>. DEFINE f == task[r]
            entries == db[f.session].entries
            later == db'[f.session].entries
<1>1. f.session \in DOMAIN db \ Deletable /\ ReadSoFar(f, entries)
  BY DEF ForksReadSoFar
<1>2. f.session \in DOMAIN db' /\ Kept(entries, later)
  BY <1>1 DEF EntriesAreKept
<1>. HIDE DEF entries, later
<1>3. ReadSoFar(f, later)
  BY <1>1, <1>2, ReadSoFarKept
<1>. QED  BY <1>1, <1>2, <1>3 DEF later

\* A step that leaves the database alone, and the tasks but for starting,
\* finishing or dropping one.
LEMMA QuietContent ==
    ASSUME ContentInv, db' = db,
           \A r \in Repositories :
                \/ task'[r] = task[r] \/ task'[r] = None
                \/ task'[r].op \notin {"fork", "delete"}
                \/ task'[r].op = "delete" /\ task'[r].session \in Deletable
    PROVE  ContentInv'
<1>1. EntriesAreKept
  BY DEF EntriesAreKept, Kept
<1>2. TablesAreGood' /\ DeletesAreAsked'
  BY DEF ContentInv, TablesAreGood, DeletesAreAsked
<1>3. ASSUME NEW r \in Repositories, task'[r] # None, task'[r].op = "fork"
      PROVE  /\ task'[r].session \in DOMAIN db' \ Deletable
             /\ ReadSoFar(task'[r], db'[task'[r].session].entries)
  <2>1. task'[r] = task[r]
    BY <1>3
  <2>. QED  BY <1>1, <1>3, <2>1, ForksStay DEF ContentInv
<1>4. ForksReadSoFar'
  BY <1>3 DEF ForksReadSoFar
<1>. QED  BY <1>2, <1>4 DEF ContentInv

\* A step that changes the database and at most finishes tasks.
LEMMA WriteContent ==
    ASSUME ContentInv, TablesAreGood', EntriesAreKept,
           \A r \in Repositories : task'[r] = task[r] \/ task'[r] = None
    PROVE  ContentInv'
<1>1. DeletesAreAsked'
  BY DEF ContentInv, DeletesAreAsked
<1>2. ASSUME NEW r \in Repositories, task'[r] # None, task'[r].op = "fork"
      PROVE  /\ task'[r].session \in DOMAIN db' \ Deletable
             /\ ReadSoFar(task'[r], db'[task'[r].session].entries)
  <2>1. task'[r] = task[r]
    BY <1>2
  <2>. QED  BY <1>2, <2>1, ForksStay DEF ContentInv
<1>3. ForksReadSoFar'
  BY <1>2 DEF ForksReadSoFar
<1>. QED  BY <1>1, <1>3 DEF ContentInv

\* A committed write changes the tables of its session, which exists because
\* the lease row does.
LEMMA WriteKeepsContent ==
    ASSUME IndInv, ContentInv, NEW o \in DOMAIN storages, writeCommits(o)
    PROVE  ContentInv'
<1>. DEFINE s == storages[o].session
            r == Head1(o)
            t == db[s]
<1>1. /\ db' = [db EXCEPT ![s] = Written(t, r)] /\ Accepts(t, r)
      /\ r.op \notin {"heartbeat", "release"} /\ canRenew(o)
      /\ storages[o].queue # <<>> /\ task' = task
  BY DEF writeCommits, IsWrite
<1>2. storages[o] \in Storage /\ s \in Sessions
  BY DEF IndInv, SqliteTyped, Storage
<1>3. s \in DOMAIN db
  BY <1>1, <1>2 DEF IndInv, RowsHaveSessions, canRenew, ownsLease
<1>4. r \in Requests
  <2>1. storages[o].queue \in Seq(Queued)
    BY <1>2 DEF Storage
  <2>2. r \in Queued
    BY <1>1, <2>1 DEF Head1
  <2>. QED  BY <1>1, <2>2 DEF Queued
<1>. HIDE DEF s, r
<1>5. GoodTables(t)
  BY <1>3 DEF ContentInv, TablesAreGood
<1>6. GoodTables(Written(t, r)) /\ Kept(t.entries, Written(t, r).entries)
  BY <1>1, <1>4, <1>5, WritesKeepTables
<1>. DEFINE u == Written(t, r)
<1>7. DOMAIN db' = DOMAIN db /\ \A x \in DOMAIN db : db'[x] = IF x = s THEN u ELSE db[x]
  BY <1>1
<1>. HIDE DEF u
<1>8. TablesAreGood'
  BY <1>6, <1>7 DEF ContentInv, TablesAreGood, u
<1>9. EntriesAreKept
  BY <1>6, <1>7 DEF EntriesAreKept, Kept, u
<1>. QED  BY <1>1, <1>8, <1>9, WriteContent

\* A new session, empty or a fork's.
LEMMA NewSession ==
    ASSUME ContentInv, NEW s, s \notin DOMAIN db, NEW t, GoodTables(t),
           db' = With(db, s, t)
    PROVE  TablesAreGood' /\ EntriesAreKept
<1>1. /\ DOMAIN db' = DOMAIN db \cup {s}
      /\ \A x \in DOMAIN db' : db'[x] = IF x = s THEN t ELSE db[x]
  BY DEF With
<1>. QED  BY <1>1 DEF ContentInv, TablesAreGood, EntriesAreKept, Kept

\* Deleting a session takes no other's tables, and repairing one rebuilds the
\* cache of its entries.
LEMMA DropKeepsContent ==
    ASSUME ContentInv, NEW r \in Repositories, DOMAIN task = Repositories,
           delete(r) \/ repairBranchCache(r)
    PROVE  ContentInv'
<1>. DEFINE s == task[r].session
<1>1. \A x \in Repositories : task'[x] = task[x] \/ task'[x] = None
  BY DEF delete, repairBranchCache, Run
<1>2. CASE delete(r)
  <2>1. s \in Deletable
    BY <1>2 DEF delete, Released, Idle, ContentInv, DeletesAreAsked
  <2>2. db' = Without(db, s) \/ db' = db
    BY <1>2 DEF delete
  <2>. HIDE DEF s
  <2>3. /\ DOMAIN db' \subseteq DOMAIN db /\ DOMAIN db \ {s} \subseteq DOMAIN db'
        /\ \A x \in DOMAIN db' : db'[x] = db[x]
    BY <2>2 DEF Without
  <2>4. TablesAreGood'
    BY <2>3 DEF ContentInv, TablesAreGood
  <2>5. EntriesAreKept
    BY <2>1, <2>3 DEF EntriesAreKept, Kept
  <2>. QED  BY <1>1, <2>4, <2>5, WriteContent
<1>3. CASE repairBranchCache(r)
  <2>1. \/ db' = db
        \/ s \in DOMAIN db /\ db' = [db EXCEPT ![s] = rebuildBranchCache(db[s])]
    BY <1>3 DEF repairBranchCache
  <2>. HIDE DEF s
  <2>2. CASE db' = db
    <3>1. TablesAreGood' /\ EntriesAreKept
      BY <2>2 DEF ContentInv, TablesAreGood, EntriesAreKept, Kept
    <3>. QED  BY <1>1, <3>1, WriteContent
  <2>3. CASE s \in DOMAIN db /\ db' = [db EXCEPT ![s] = rebuildBranchCache(db[s])]
    <3>. DEFINE u == rebuildBranchCache(db[s])
    <3>1. GoodTables(db[s])
      BY <2>3 DEF ContentInv, TablesAreGood
    <3>2. GoodTables(u) /\ Kept(db[s].entries, u.entries)
      BY <3>1, RebuildKeepsTables
    <3>. HIDE DEF u
    <3>3. /\ DOMAIN db' = DOMAIN db
          /\ \A x \in DOMAIN db : db'[x] = IF x = s THEN u ELSE db[x]
      BY <2>3 DEF u
    <3>4. TablesAreGood'
      BY <3>2, <3>3 DEF ContentInv, TablesAreGood
    <3>5. EntriesAreKept
      BY <3>2, <3>3 DEF EntriesAreKept, Kept
    <3>. QED  BY <1>1, <3>4, <3>5, WriteContent
  <2>. QED  BY <2>1, <2>2, <2>3
<1>. QED  BY <1>2, <1>3

\* The transaction of a fork.
LEMMA ForkKeepsContent ==
    ASSUME IndInv, ContentInv, NEW r \in Repositories, fork(r)
    PROVE  ContentInv'
<1>. DEFINE f == task[r]
            source == db[f.session]
            n == source.nextSeq - 1
<1>1. \A x \in Repositories : task'[x] = task[x] \/ task'[x] = None
  BY DEF fork, Run, IndInv, SqliteTyped
<1>2. f # None /\ f.op = "fork" /\ f.step > Len(ForkReads(f.options))
  BY DEF fork, Idle
<1>3. /\ f.session \in DOMAIN db /\ ReadSoFar(f, source.entries)
      /\ f.step \in Nat /\ GoodTables(source)
  <2>1. f.session \in DOMAIN db /\ ReadSoFar(f, source.entries)
    BY <1>2 DEF ContentInv, ForksReadSoFar
  <2>2. f.step \in Nat
    BY <1>2 DEF IndInv, ForksAreSound
  <2>. QED  BY <2>1, <2>2 DEF ContentInv, TablesAreGood
<1>4. CASE ForkThrows(f)
  <2>1. db' = db
    BY <1>4 DEF fork
  <2>2. TablesAreGood' /\ EntriesAreKept
    BY <2>1 DEF ContentInv, TablesAreGood, EntriesAreKept, Kept
  <2>. QED  BY <1>1, <2>2, WriteContent
<1>5. CASE ~ ForkThrows(f)
  <2>1. /\ db' = With(db, f.target, Forked(f)) /\ f.target \notin DOMAIN db
        /\ f.tips \subseteq RowIds(f.entries)
    BY <1>5 DEF fork, ForkThrows, RowIds
  <2>2. AllRead(f)
    <3>1. CASE f.options.scope = "tree"
      <4>1. Len(ForkReads(f.options)) = 5
        BY <3>1 DEF ForkReads
      <4>. QED  BY <1>2, <1>3, <3>1, <4>1 DEF AllRead
    <3>2. CASE f.options.scope # "tree"
      <4>1. Len(ForkReads(f.options)) = 4
        BY <3>2 DEF ForkReads
      <4>. QED  BY <1>2, <1>3, <3>2, <4>1 DEF AllRead
    <3>. QED  BY <3>1, <3>2
  <2>3. Copied(f, source.entries)
    BY <1>3, <2>1, <2>2, ReadIsCopied
  <2>4. n \in Nat /\ Forest(source.entries, n)
    BY <1>3 DEF GoodTables
  <2>. HIDE DEF n, source, f
  <2>5. GoodTables(Forked(f))
    BY <2>3, <2>4, ForkedGood
  <2>6. TablesAreGood' /\ EntriesAreKept
    BY <2>1, <2>5, NewSession
  <2>. QED  BY <1>1, <2>6, WriteContent
<1>. QED  BY <1>4, <1>5

\* A read of a fork.
LEMMA ForkReadContent ==
    ASSUME IndInv, ContentInv, NEW r \in Repositories, forkReads(r)
    PROVE  ContentInv'
<1>. DEFINE f == task[r]
            t == db[f.session]
            what == ForkReads(f.options)[f.step]
            h == ForkRead(f, t, what)
            g == [h EXCEPT !.step = @ + 1]
<1>1. /\ f # None /\ f.op = "fork" /\ f.step <= Len(ForkReads(f.options))
      /\ db' = db
  BY DEF forkReads, Idle
<1>2. /\ f.session \in DOMAIN db \ Deletable /\ ReadSoFar(f, t.entries) /\ GoodTables(t)
      /\ DOMAIN f = ForkFields /\ f.step \in Nat \ {0}
  BY <1>1 DEF ContentInv, ForksReadSoFar, TablesAreGood, IndInv, ForksAreSound
<1>3. Source(r) = t
  BY <1>2 DEF Source
<1>4. DOMAIN task = Repositories
  BY DEF IndInv, SqliteTyped
<1>5. CASE task' = [task EXCEPT ![r] = None]
  <2>1. \A x \in Repositories : task'[x] = task[x] \/ task'[x] = None
    BY <1>4, <1>5
  <2>. QED  BY <1>1, <2>1, QuietContent
<1>6. CASE ~ ReadThrows(f, t, what) /\ task' = [task EXCEPT ![r] = g]
  <2>1. task' = [task EXCEPT ![r] = g]
    BY <1>6
  <2>2. ReadSoFar(g, t.entries) /\ g.session = f.session /\ g.op = f.op
    <3>1. h = ForkRead(f, t, what) /\ what = ForkReads(f.options)[f.step]
          /\ Stepped(g, h)
      BY DEF Stepped
    <3>. HIDE DEF f, t, what, h, g
    <3>. QED  BY <1>1, <1>2, <1>6, <3>1, ForkReadKeeps
  <2>. HIDE DEF g, h, what
  <2>3. task'[r] = g /\ \A x \in Repositories \ {r} : task'[x] = task[x]
    BY <1>4, <2>1
  <2>4. TablesAreGood' /\ EntriesAreKept
    BY <1>1 DEF ContentInv, TablesAreGood, EntriesAreKept, Kept
  <2>5. DeletesAreAsked'
    BY <1>1, <2>2, <2>3 DEF ContentInv, DeletesAreAsked
  <2>6. ASSUME NEW x \in Repositories, task'[x] # None, task'[x].op = "fork"
        PROVE  /\ task'[x].session \in DOMAIN db' \ Deletable
               /\ ReadSoFar(task'[x], db'[task'[x].session].entries)
    <3>1. CASE x = r
      BY <1>1, <1>2, <2>2, <2>3, <3>1
    <3>2. CASE x # r
      <4>1. task'[x] = task[x]
        BY <2>3, <3>2
      <4>. QED  BY <2>4, <2>6, <4>1, ForksStay DEF ContentInv
    <3>. QED  BY <3>1, <3>2
  <2>7. ForksReadSoFar'
    BY <2>6 DEF ForksReadSoFar
  <2>. QED  BY <2>4, <2>5, <2>7 DEF ContentInv
<1>7. \/ task' = [task EXCEPT ![r] = None]
      \/ ~ ReadThrows(f, t, what) /\ task' = [task EXCEPT ![r] = g]
  BY <1>3 DEF forkReads, Run
<1>. QED  BY <1>5, <1>6, <1>7

\* A fork that begins has read nothing.
LEMMA BeginForkContent ==
    ASSUME IndInv, ContentInv, NEW r \in Repositories, NEW f \in Forks,
           f.source \notin Deletable, beginFork(r, f)
    PROVE  ContentInv'
<1>. DEFINE g == [op |-> "fork", session |-> f.source, target |-> f.target,
                  options |-> f.options, step |-> 1, entries |-> <<>>,
                  lanes |-> <<>>, tips |-> {}, name |-> None, labels |-> <<>>]
            entries == db[f.source].entries
<1>1. task' = [task EXCEPT ![r] = g] /\ db' = db /\ f.source \in DOMAIN db
  BY DEF beginFork, Run
<1>2. f.options \in ForkOptions /\ DOMAIN task = Repositories
  BY SqliteBoundsAssumption DEF IndInv, SqliteTyped
<1>3. /\ g.options = f.options /\ g.step = 1 /\ g.entries = <<>> /\ g.lanes = <<>>
      /\ g.name = None /\ g.labels = <<>> /\ g.session = f.source /\ g.op = "fork"
  OBVIOUS
<1>. HIDE DEF g, entries
<1>4. DOMAIN <<>> = {} /\ IsFiniteSet({})
  BY FS_EmptySet
<1>5. RowsOf(<<>>, entries)
  <2>1. <<>> \in Seq(Row) /\ Len(<<>>) = 0 /\ 1..0 = {}
    OBVIOUS
  <2>. QED  BY <2>1 DEF RowsOf
<1>6. ~ AllRead(g)
  BY <1>3 DEF AllRead
<1>7. ReadSoFar(g, entries)
  BY <1>2, <1>3, <1>4, <1>5, <1>6 DEF ReadSoFar
<1>8. task'[r] = g /\ \A x \in Repositories \ {r} : task'[x] = task[x]
  BY <1>1, <1>2
<1>9. TablesAreGood' /\ EntriesAreKept
  BY <1>1 DEF ContentInv, TablesAreGood, EntriesAreKept, Kept
<1>10. DeletesAreAsked'
  BY <1>3, <1>8 DEF ContentInv, DeletesAreAsked
<1>11. ASSUME NEW x \in Repositories, task'[x] # None, task'[x].op = "fork"
       PROVE  /\ task'[x].session \in DOMAIN db' \ Deletable
              /\ ReadSoFar(task'[x], db'[task'[x].session].entries)
  <2>1. CASE x = r
    BY <1>1, <1>3, <1>7, <1>8, <2>1 DEF entries
  <2>2. CASE x # r
    <3>1. task'[x] = task[x]
      BY <1>8, <2>2
    <3>. QED  BY <1>9, <1>11, <3>1, ForksStay DEF ContentInv
  <2>. QED  BY <2>1, <2>2
<1>12. ForksReadSoFar'
  BY <1>11 DEF ForksReadSoFar
<1>. QED  BY <1>9, <1>10, <1>12 DEF ContentInv

\* Every step keeps the tables and what the forks have read.
LEMMA ContentStep ==
    ASSUME \A f \in Forks : f.source \notin Deletable
    PROVE  IndInv /\ ContentInv /\ [Next]_vars => ContentInv'
<1>. SUFFICES ASSUME IndInv, ContentInv, [Next]_vars PROVE ContentInv'
  OBVIOUS
<1>1. DOMAIN task = Repositories
  BY DEF IndInv, SqliteTyped
<1>2. ASSUME NEW o \in DOMAIN storages, StorageStep(o) PROVE ContentInv'
  <2>1. CASE writeCommits(o)
    BY <2>1, WriteKeepsContent
  <2>2. CASE ~ writeCommits(o)
    <3>1. db' = db /\ \A r \in Repositories : task'[r] = task[r] \/ task'[r] = None
      BY <1>1, <1>2, <2>2 DEF StorageStep, enqueueWrite, heartbeatFires, leaseIsLost,
         writeFails, heartbeatRuns, heartbeatFails, releaseRuns, releaseFails
    <3>. QED  BY <3>1, QuietContent
  <2>. QED  BY <2>1, <2>2
<1>3. ASSUME NEW r \in Repositories, RepositoryStep(r) PROVE ContentInv'
  <2>1. ASSUME NEW s \in Creatable, create(r, s) PROVE ContentInv'
    <3>1. s \notin DOMAIN db /\ db' = With(db, s, NoTables) /\ task' = task
      BY <2>1 DEF create
    <3>2. TablesAreGood' /\ EntriesAreKept
      BY <3>1, NoTablesGood, NewSession
    <3>. QED  BY <3>1, <3>2, WriteContent
  <2>2. ASSUME NEW s \in Sessions, open(r, s) PROVE ContentInv'
    <3>1. db' = db /\ task' = task
      BY <2>2 DEF open
    <3>. QED  BY <3>1, QuietContent
  <2>3. ASSUME NEW op, NEW s, beginTask(r, op, s), op # "fork",
               op = "delete" => s \in Deletable
        PROVE  ContentInv'
    <3>. DEFINE new == [op |-> op, session |-> s]
    <3>1. db' = db /\ task' = [task EXCEPT ![r] = new]
      BY <2>3 DEF beginTask, Run
    <3>2. new.op = op /\ new.session = s
      OBVIOUS
    <3>. HIDE DEF new
    <3>3. task'[r] = new /\ \A x \in Repositories \ {r} : task'[x] = task[x]
      BY <1>1, <3>1
    <3>4. \A x \in Repositories :
            \/ task'[x] = task[x] \/ task'[x] = None
            \/ task'[x].op \notin {"fork", "delete"}
            \/ task'[x].op = "delete" /\ task'[x].session \in Deletable
      BY <2>3, <3>2, <3>3
    <3>. QED  BY <3>1, <3>4, QuietContent
  <2>4. ASSUME NEW f \in Forks, beginFork(r, f) PROVE ContentInv'
    BY <2>4, BeginForkContent
  <2>5. ASSUME release(r) \/ close(r) \/ crash(r) PROVE ContentInv'
    <3>1. db' = db /\ \A x \in Repositories : task'[x] = task[x] \/ task'[x] = None
      BY <1>1, <2>5 DEF release, close, crash, Run
    <3>. QED  BY <3>1, QuietContent
  <2>6. ASSUME delete(r) \/ repairBranchCache(r) PROVE ContentInv'
    BY <1>1, <2>6, DropKeepsContent
  <2>7. ASSUME forkReads(r) PROVE ContentInv'
    BY <2>7, ForkReadContent
  <2>8. ASSUME fork(r) PROVE ContentInv'
    BY <2>8, ForkKeepsContent
  <2>9. ASSUME \/ \E s \in Deletable : beginTask(r, "delete", s)
               \/ \E s \in Repairable : beginTask(r, "repair", s)
               \/ beginTask(r, "close", None)
        PROVE  ContentInv'
    <3>1. ASSUME NEW s \in Deletable, beginTask(r, "delete", s) PROVE ContentInv'
      <4>1. "delete" # "fork"
        OBVIOUS
      <4>. QED  BY <2>3, <3>1, <4>1
    <3>2. ASSUME NEW s, beginTask(r, "repair", s) PROVE ContentInv'
      <4>1. "repair" # "fork" /\ "repair" # "delete"
        OBVIOUS
      <4>. QED  BY <2>3, <3>2, <4>1
    <3>3. ASSUME beginTask(r, "close", None) PROVE ContentInv'
      <4>1. "close" # "fork" /\ "close" # "delete"
        OBVIOUS
      <4>. QED  BY <2>3, <3>3, <4>1
    <3>. QED  BY <2>9, <3>1, <3>2, <3>3
  <2>. QED  BY <1>3, <2>1, <2>2, <2>4, <2>5, <2>6, <2>7, <2>8, <2>9 DEF RepositoryStep
<1>4. ASSUME tick PROVE ContentInv'
  BY <1>4, QuietContent DEF tick
<1>5. ASSUME UNCHANGED vars PROVE ContentInv'
  BY <1>5, QuietContent DEF vars
<1>. QED  BY <1>2, <1>3, <1>4, <1>5 DEF Next

\* In every reachable state.
LEMMA ContentAlways ==
    ASSUME \A f \in Forks : f.source \notin Deletable
    PROVE  Spec => []ContentInv
<1>1. Init => ContentInv
  BY DEF Init, ContentInv, TablesAreGood, ForksReadSoFar, DeletesAreAsked
<1>2. IndInv /\ ContentInv /\ [Next]_vars => ContentInv'
  BY ContentStep
<1>. QED  BY <1>1, <1>2, IndInvAlways, PTL DEF Spec

\* For any number of processes, sessions and writes, as long as no session
\* that callers fork is also deleted (a tree fork of a session deleted between
\* its reads copies entries its tips do not reach): the branch cache of every
\* session, whether extended write by write, rebuilt by a repair or built by a
\* fork of a source that others wrote meanwhile, is the walk over the parents
\* of its entries; every entry a lane, a parent or a fork can name is on a
\* cached branch; and message_count is the number of messages
\* (appendEntryToBranchCache, rebuildBranchCache, fork).
THEOREM DerivedAlwaysMatch ==
    ASSUME \A f \in Forks : f.source \notin Deletable
    PROVE  Spec => []DerivedTablesMatch
<1>1. ContentInv => DerivedTablesMatch
  <2>. SUFFICES ASSUME ContentInv, NEW s \in DOMAIN db
                PROVE  LET t == db[s]
                       IN  /\ DOMAIN t.tips = DOMAIN t.branches
                           /\ \A b \in DOMAIN t.branches :
                                t.branches[b] = Range(Branch(Tree(t), t.tips[b]))
                           /\ \A id \in DOMAIN t.entries :
                                readBranchesContaining(t, id) # {}
                           /\ \A l \in DOMAIN t.lanes : entryExists(t, t.lanes[l].leafId)
                           /\ t.messages = Cardinality({id \in DOMAIN t.entries :
                                                t.entries[id].type = "message"})
    BY DEF DerivedTablesMatch
  <2>1. GoodTables(db[s])
    BY DEF ContentInv, TablesAreGood
  <2>. QED  BY <2>1, GoodTablesMatch, Zenon
<1>. QED  BY <1>1, ContentAlways, PTL

-----------------------------------------------------------------------------
(* One session of the database beside the in-memory storage.  Sources of   *)
(* forks may be deleted here: only the shapes of the tables matter.        *)

\* The shapes of a session's tables that its readers rely on.
ShapedLanes(lanes) ==
    IsFiniteSet(DOMAIN lanes) /\ \A l \in DOMAIN lanes : IsLane(lanes[l])
ShapedTables(t) ==
    /\ IsRecordOfTables(t)
    /\ t.nextSeq \in Nat \ {0}
    /\ ShapedLanes(t.lanes)
    /\ t.facts \in Seq(Fact)

\* What a write makes of the tables that readers look at, with the next
\* sequence number taken.
Becomes(t, u, E, R, L, F) ==
    /\ IsRecordOfTables(u) /\ u.nextSeq = t.nextSeq + 1
    /\ u.entries = E /\ u.records = R /\ u.lanes = L /\ u.facts = F

\* A record of tables with the columns that readers look at and message_count
\* replaced.
Columns(t, E, R, L, F, M) ==
    [nextSeq |-> t.nextSeq, entries |-> E, records |-> R, lanes |-> L, facts |-> F,
     branches |-> t.branches, tips |-> t.tips, messages |-> M]

\* Such a record is one of tables, and its columns are the ones given.
LEMMA ColumnsAre ==
    ASSUME NEW t, NEW E, NEW R, NEW L, NEW F, NEW M, NEW w, w = Columns(t, E, R, L, F, M)
    PROVE  /\ IsRecordOfTables(w) /\ w.nextSeq = t.nextSeq
           /\ w.entries = E /\ w.records = R /\ w.lanes = L /\ w.facts = F
BY DEF Columns, IsRecordOfTables

\* The cache and the sequence number are columns of their own.
LEMMA CacheColumns ==
    ASSUME NEW t, IsRecordOfTables(t), NEW b, NEW ids, NEW tip
    PROVE  LET u == addToCache(t, b, ids, tip)
           IN  /\ IsRecordOfTables(u) /\ u.nextSeq = t.nextSeq
               /\ u.entries = t.entries /\ u.records = t.records
               /\ u.lanes = t.lanes /\ u.facts = t.facts
<1>. DEFINE B == With(t.branches, b, ids)
            T == With(t.tips, b, tip)
            u == addToCache(t, b, ids, tip)
<1>1. u = [t EXCEPT !.branches = B, !.tips = T]
  BY DEF addToCache
<1>. HIDE DEF B, T, u
<1>2. u = [nextSeq |-> t.nextSeq, entries |-> t.entries, records |-> t.records,
           lanes |-> t.lanes, facts |-> t.facts, branches |-> B, tips |-> T,
           messages |-> t.messages]
  BY <1>1 DEF IsRecordOfTables
<1>3. /\ IsRecordOfTables(u) /\ u.nextSeq = t.nextSeq
      /\ u.entries = t.entries /\ u.records = t.records
      /\ u.lanes = t.lanes /\ u.facts = t.facts
  BY <1>2 DEF IsRecordOfTables
<1>. QED  BY <1>3 DEF u

\* Taking the next sequence number changes no other column.
LEMMA NumberColumn ==
    ASSUME NEW t, NEW w, IsRecordOfTables(w), w.nextSeq = t.nextSeq
    PROVE  Becomes(t, advanceSequence(w), w.entries, w.records, w.lanes, w.facts)
<1>. DEFINE u == advanceSequence(w)
<1>1. u = [nextSeq |-> w.nextSeq + 1, entries |-> w.entries, records |-> w.records,
           lanes |-> w.lanes, facts |-> w.facts, branches |-> w.branches,
           tips |-> w.tips, messages |-> w.messages]
  BY DEF advanceSequence, IsRecordOfTables
<1>. HIDE DEF u
<1>2. Becomes(t, u, w.entries, w.records, w.lanes, w.facts)
  BY <1>1 DEF Becomes, IsRecordOfTables
<1>. QED  BY <1>2 DEF u

\* createLane and moveLane write the lane.
LEMMA LaneWritten ==
    ASSUME NEW t, IsRecordOfTables(t), NEW r, r.op \in {"createLane", "moveLane"}
    PROVE  Becomes(t, Written(t, r), t.entries, t.records,
                   IF r.op = "createLane"
                   THEN With(t.lanes, r.lane, [leafId |-> r.at, open |-> None])
                   ELSE [t.lanes EXCEPT ![r.lane].leafId = r.to], t.facts)
<1>. DEFINE lanes == t.lanes
            L == IF r.op = "createLane"
                 THEN With(lanes, r.lane, [leafId |-> r.at, open |-> None])
                 ELSE [lanes EXCEPT ![r.lane].leafId = r.to]
            w == [t EXCEPT !.lanes = L]
<1>1. Written(t, r) = advanceSequence(w)
  <2>1. CASE r.op = "createLane"
    BY <2>1 DEF Written, writeCreateLane
  <2>2. CASE r.op = "moveLane"
    BY <2>2 DEF Written, writeMoveLane
  <2>. QED  BY <2>1, <2>2
<1>. HIDE DEF w, L
<1>3. w = Columns(t, t.entries, t.records, L, t.facts, t.messages)
  <2>. DEFINE a == t.nextSeq  en == t.entries  re == t.records  la == t.lanes
              fa == t.facts  br == t.branches  ti == t.tips  me == t.messages
  <2>1. t = [nextSeq |-> a, entries |-> en, records |-> re, lanes |-> la,
             facts |-> fa, branches |-> br, tips |-> ti, messages |-> me]
    BY DEF IsRecordOfTables
  <2>2. w = [t EXCEPT !.lanes = L]
    BY DEF w
  <2>. HIDE DEF a, en, re, la, fa, br, ti, me
  <2>3. w = [nextSeq |-> a, entries |-> en, records |-> re, lanes |-> L,
             facts |-> fa, branches |-> br, tips |-> ti, messages |-> me]
    BY <2>1, <2>2
  <2>. QED  BY <2>3 DEF Columns, a, en, re, la, fa, br, ti, me
<1>4. /\ IsRecordOfTables(w) /\ w.nextSeq = t.nextSeq /\ w.entries = t.entries
      /\ w.records = t.records /\ w.lanes = L /\ w.facts = t.facts
  BY <1>3, ColumnsAre
<1>5. Becomes(t, advanceSequence(w), t.entries, t.records, L, t.facts)
  BY <1>4, NumberColumn
<1>. QED  BY <1>1, <1>5, Zenon DEF L

\* appendRecord stores the record and opens or closes the lane's operation.
LEMMA RecordWritten ==
    ASSUME NEW t, IsRecordOfTables(t), NEW r, r.op = "appendRecord"
    PROVE  Becomes(t, Written(t, r), t.entries, t.records \cup {r.id},
                   [t.lanes EXCEPT ![r.lane].open =
                        CASE r.type = "operation_started"  -> r.id
                          [] r.type = "operation_finished" ->
                                finishLaneOperation(t.lanes[r.lane].open, r)
                          [] OTHER -> t.lanes[r.lane].open], t.facts)
<1>. DEFINE lanes == t.lanes
            after == CASE r.type = "operation_started"  -> r.id
                       [] r.type = "operation_finished" ->
                            finishLaneOperation(lanes[r.lane].open, r)
                       [] OTHER -> lanes[r.lane].open
            L == [lanes EXCEPT ![r.lane].open = after]
            R == t.records \cup {r.id}
            w == [t EXCEPT !.records = R, !.lanes = L]
<1>1. Written(t, r) = advanceSequence(writeRecord(t, r))
  BY DEF Written
<1>2. writeRecord(t, r) = w
  BY DEF writeRecord, IsRecordOfTables
<1>. HIDE DEF w, L, R
<1>3. w = Columns(t, t.entries, R, L, t.facts, t.messages)
  <2>. DEFINE a == t.nextSeq  en == t.entries  re == t.records  la == t.lanes
              fa == t.facts  br == t.branches  ti == t.tips  me == t.messages
  <2>1. t = [nextSeq |-> a, entries |-> en, records |-> re, lanes |-> la,
             facts |-> fa, branches |-> br, tips |-> ti, messages |-> me]
    BY DEF IsRecordOfTables
  <2>2. w = [t EXCEPT !.records = R, !.lanes = L]
    BY DEF w
  <2>. HIDE DEF a, en, re, la, fa, br, ti, me
  <2>3. w = [nextSeq |-> a, entries |-> en, records |-> R, lanes |-> L,
             facts |-> fa, branches |-> br, tips |-> ti, messages |-> me]
    BY <2>1, <2>2
  <2>. QED  BY <2>3 DEF Columns, a, en, re, la, fa, br, ti, me
<1>4. /\ IsRecordOfTables(w) /\ w.nextSeq = t.nextSeq /\ w.entries = t.entries
      /\ w.records = R /\ w.lanes = L /\ w.facts = t.facts
  BY <1>3, ColumnsAre
<1>5. Becomes(t, advanceSequence(w), t.entries, R, L, t.facts)
  BY <1>4, NumberColumn
<1>. QED  BY <1>1, <1>2, <1>5, Zenon DEF L, R

\* setName and setLabel append a fact.
LEMMA FactWritten ==
    ASSUME NEW t, IsRecordOfTables(t), NEW r, r.op \in {"setName", "setLabel"}
    PROVE  Becomes(t, Written(t, r), t.entries, t.records, t.lanes,
                   IF r.op = "setName" THEN appendFact(t, "name", None, r.name)
                   ELSE appendFact(t, "label", r.id, r.label))
<1>. DEFINE F == IF r.op = "setName" THEN appendFact(t, "name", None, r.name)
                 ELSE appendFact(t, "label", r.id, r.label)
            w == [t EXCEPT !.facts = F]
<1>1. Written(t, r) = advanceSequence(w)
  BY DEF Written
<1>. HIDE DEF w, F
<1>3. w = Columns(t, t.entries, t.records, t.lanes, F, t.messages)
  <2>. DEFINE a == t.nextSeq  en == t.entries  re == t.records  la == t.lanes
              fa == t.facts  br == t.branches  ti == t.tips  me == t.messages
  <2>1. t = [nextSeq |-> a, entries |-> en, records |-> re, lanes |-> la,
             facts |-> fa, branches |-> br, tips |-> ti, messages |-> me]
    BY DEF IsRecordOfTables
  <2>2. w = [t EXCEPT !.facts = F]
    BY DEF w
  <2>. HIDE DEF a, en, re, la, fa, br, ti, me
  <2>3. w = [nextSeq |-> a, entries |-> en, records |-> re, lanes |-> la,
             facts |-> F, branches |-> br, tips |-> ti, messages |-> me]
    BY <2>1, <2>2
  <2>. QED  BY <2>3 DEF Columns, a, en, re, la, fa, br, ti, me
<1>4. /\ IsRecordOfTables(w) /\ w.nextSeq = t.nextSeq /\ w.entries = t.entries
      /\ w.records = t.records /\ w.lanes = t.lanes /\ w.facts = F
  BY <1>3, ColumnsAre
<1>5. Becomes(t, advanceSequence(w), t.entries, t.records, t.lanes, F)
  BY <1>4, NumberColumn
<1>. QED  BY <1>1, <1>5, Zenon DEF F

\* appendEntry stores the entry below the lane's leaf and moves the lane.
LEMMA EntryWritten ==
    ASSUME NEW t, IsRecordOfTables(t), NEW r, r.op = "appendEntry"
    PROVE  Becomes(t, Written(t, r),
                   With(t.entries, r.id, [parentId |-> t.lanes[r.lane].leafId,
                                          type |-> r.type, seq |-> t.nextSeq]),
                   t.records, [t.lanes EXCEPT ![r.lane].leafId = r.id], t.facts)
<1>. DEFINE lanes == t.lanes
            parent == lanes[r.lane].leafId
            E == With(t.entries, r.id,
                      [parentId |-> parent, type |-> r.type, seq |-> t.nextSeq])
            L == [lanes EXCEPT ![r.lane].leafId = r.id]
            M == IF r.type = "message" THEN t.messages + 1 ELSE t.messages
            w == [t EXCEPT !.entries = E, !.lanes = L, !.messages = M]
            u == appendEntryToBranchCache(w, r.id, parent)
<1>1. Written(t, r) = advanceSequence(writeEntry(t, r))
  BY DEF Written
<1>2. writeEntry(t, r) = u
  BY DEF writeEntry
<1>. HIDE DEF w, L, E, M, parent
<1>3. w = Columns(t, E, t.records, L, t.facts, M)
  <2>. DEFINE a == t.nextSeq  en == t.entries  re == t.records  la == t.lanes
              fa == t.facts  br == t.branches  ti == t.tips  me == t.messages
  <2>1. t = [nextSeq |-> a, entries |-> en, records |-> re, lanes |-> la,
             facts |-> fa, branches |-> br, tips |-> ti, messages |-> me]
    BY DEF IsRecordOfTables
  <2>2. w = [t EXCEPT !.entries = E, !.lanes = L, !.messages = M]
    BY DEF w
  <2>. HIDE DEF a, en, re, la, fa, br, ti, me
  <2>3. w = [nextSeq |-> a, entries |-> E, records |-> re, lanes |-> L,
             facts |-> fa, branches |-> br, tips |-> ti, messages |-> M]
    BY <2>1, <2>2
  <2>. QED  BY <2>3 DEF Columns, a, en, re, la, fa, br, ti, me
<1>4. /\ IsRecordOfTables(w) /\ w.nextSeq = t.nextSeq /\ w.entries = E
      /\ w.records = t.records /\ w.lanes = L /\ w.facts = t.facts
  BY <1>3, ColumnsAre
<1>5. \E b, ids, tip : u = addToCache(w, b, ids, tip)
  BY DEF appendEntryToBranchCache
<1>. HIDE DEF u
<1>6. /\ IsRecordOfTables(u) /\ u.nextSeq = t.nextSeq /\ u.entries = E
      /\ u.records = t.records /\ u.lanes = L /\ u.facts = t.facts
  BY <1>4, <1>5, CacheColumns
<1>7. Becomes(t, advanceSequence(u), E, t.records, L, t.facts)
  BY <1>6, NumberColumn
<1>. QED  BY <1>1, <1>2, <1>7, Zenon DEF E, L, parent

-----------------------------------------------------------------------------
(* What readers see of a write.                                            *)

\* The latest fact after one more was appended.
LEMMA LatestFact ==
    ASSUME NEW t, t.facts \in Seq(Fact), NEW fact \in Fact, NEW u,
           u.facts = Append(t.facts, fact), NEW kind, NEW key
    PROVE  readLatestFact(u, kind, key) =
            IF fact.kind = kind /\ fact.key = key THEN fact.value
            ELSE readLatestFact(t, kind, key)
<1>. DEFINE facts == t.facts
            more == u.facts
            n == Len(facts)
            rows == {i \in DOMAIN facts : facts[i].kind = kind /\ facts[i].key = key}
            later == {i \in DOMAIN more : more[i].kind = kind /\ more[i].key = key}
<1>1. /\ n \in Nat /\ DOMAIN facts = 1..n /\ DOMAIN more = 1..(n + 1)
      /\ more[n + 1] = fact /\ \A i \in 1..n : more[i] = facts[i]
  OBVIOUS
<1>2. /\ readLatestFact(t, kind, key) = IF rows = {} THEN None ELSE facts[Max(rows)].value
      /\ readLatestFact(u, kind, key) = IF later = {} THEN None ELSE more[Max(later)].value
  BY DEF readLatestFact
<1>3. \A i : i \in 1..(n + 1) <=> i \in 1..n \/ i = n + 1
  BY <1>1
<1>. HIDE DEF facts, more, n
<1>4. CASE fact.kind = kind /\ fact.key = key
  <2>1. n + 1 \in later /\ later \subseteq 1..(n + 1)
    BY <1>1, <1>3, <1>4
  <2>2. \A y \in later : n + 1 >= y
    BY <1>1, <2>1
  <2>3. \A x \in later : (\A y \in later : x >= y) => x = n + 1
    BY <1>1, <2>1
  <2>. HIDE DEF later
  <2>4. Max(later) = n + 1
    BY <2>1, <2>2, <2>3 DEF Max
  <2>. QED  BY <1>1, <1>2, <1>4, <2>1, <2>4
<1>5. CASE ~ (fact.kind = kind /\ fact.key = key)
  <2>1. later = rows
    BY <1>1, <1>3, <1>5
  <2>2. rows \in SUBSET (1..n)
    BY <1>1
  <2>. HIDE DEF later, rows
  <2>3. CASE rows = {}
    BY <1>2, <1>5, <2>1, <2>3
  <2>4. CASE rows # {}
    <3>1. Max(rows) \in 1..n
      BY <1>1, <2>2, <2>4, MaxIs
    <3>. QED  BY <1>1, <1>2, <1>5, <2>1, <3>1
  <2>. QED  BY <2>3, <2>4
<1>. QED  BY <1>4, <1>5

\* A session state by its fields, and the fields the tables give.
StateOf(q, U, E, L, O, N, B) ==
    [sequence |-> q, usedIds |-> U, entriesById |-> E, lanes |-> L,
     openOperationsByLane |-> O, name |-> N, labels |-> B]
Leaves(lanes) == [l \in DOMAIN lanes |-> lanes[l].leafId]
Opens(lanes) == [l \in Lanes |-> IF l \in DOMAIN lanes
                                 THEN {lanes[l].open} \ {None} ELSE {}]
Labelled(t) == [id \in {id \in Ids : readLatestFact(t, "label", id) # None} |->
                    readLatestFact(t, "label", id)]

\* What readers of the tables see, by its fields.
LEMMA ViewFields ==
    ASSUME NEW t
    PROVE  View(t) = StateOf(t.nextSeq - 1, DOMAIN t.entries \cup t.records, t.entries,
                             Leaves(t.lanes), Opens(t.lanes),
                             readLatestFact(t, "name", None), Labelled(t))
BY DEF View, StateOf, Leaves, Opens, Labelled

\* What each mutation does to a state, by its fields: a lane's leaf moves.
LEMMA LaneFields ==
    ASSUME NEW q, NEW U, NEW E, NEW L, NEW O, NEW N, NEW B, NEW n, NEW l, NEW leaf
    PROVE  applyMutation(StateOf(q, U, E, L, O, N, B), LaneMutation(n, l, leaf))
                = StateOf(n, U, E, With(L, l, leaf), O, N, B)
BY DEF applyMutation, LaneMutation, ApplyLane, StateOf

\* An entry is added, its id used and the lane's leaf moved to it.
LEMMA EntryFields ==
    ASSUME NEW q, NEW U, NEW E, NEW L, NEW O, NEW N, NEW B, NEW n, NEW l, NEW id,
           NEW p, NEW type, l # None
    PROVE  applyMutation(StateOf(q, U, E, L, O, N, B), EntryMutation(n, l, id, p, type))
                = StateOf(n, U \cup {id},
                          With(E, id, [parentId |-> p, type |-> type, seq |-> n]),
                          With(L, l, id), O, N, B)
BY DEF applyMutation, EntryMutation, ApplyEntry, StateOf

\* A record's id is used, and the operations open on its lane change.
LEMMA RecordFields ==
    ASSUME NEW q, NEW U, NEW E, NEW L, NEW O, NEW N, NEW B, NEW n, NEW l, NEW id,
           NEW type, NEW runId
    PROVE  applyMutation(StateOf(q, U, E, L, O, N, B),
                         RecordMutation(n, l, id, type, runId))
                = StateOf(n, U \cup {id}, E, L,
                          [O EXCEPT ![l] = OpenOperations(O[l],
                                RecordMutation(n, l, id, type, runId))], N, B)
BY DEF applyMutation, RecordMutation, ApplyRecord, StateOf

\* A name fact replaces the name.
LEMMA NameFields ==
    ASSUME NEW q, NEW U, NEW E, NEW L, NEW O, NEW N, NEW B, NEW n, NEW name
    PROVE  applyMutation(StateOf(q, U, E, L, O, N, B), NameMutation(n, name))
                = StateOf(n, U, E, L, O, name, B)
BY DEF applyMutation, NameMutation, ApplyFact, StateOf

\* A label fact replaces an entry's label, or removes it.
LEMMA LabelFields ==
    ASSUME NEW q, NEW U, NEW E, NEW L, NEW O, NEW N, NEW B, NEW n, NEW id, NEW label
    PROVE  applyMutation(StateOf(q, U, E, L, O, N, B), LabelMutation(n, id, label))
                = StateOf(n, U, E, L, O, N,
                          IF label = None THEN Without(B, id) ELSE With(B, id, label))
BY DEF applyMutation, LabelMutation, ApplyFact, StateOf

\* The mutation the in-memory storage makes of a call, and when it accepts it.
MutationFor(v, r) ==
    CASE r.op = "createLane"   -> LaneMutation(nextSequence(v), r.lane, r.at)
      [] r.op = "moveLane"     -> LaneMutation(nextSequence(v), r.lane, r.to)
      [] r.op = "appendEntry"  -> EntryMutation(nextSequence(v), r.lane, r.id,
                                                v.lanes[r.lane], r.type)
      [] r.op = "appendRecord" -> RecordMutation(nextSequence(v), r.lane, r.id,
                                                 r.type, r.runId)
      [] r.op = "setName"      -> NameMutation(nextSequence(v), r.name)
      [] r.op = "setLabel"     -> LabelMutation(nextSequence(v), r.id, r.label)
Permits(v, r) ==
    /\ r.op = "createLane" => validateNewLane(v, r.lane) /\ validateTarget(v, r.at)
    /\ r.op = "moveLane" => requireLane(v, r.lane) /\ validateTarget(v, r.to)
    /\ r.op = "appendEntry" => requireLane(v, r.lane) /\ validateUnusedId(v, r.id)
    /\ r.op = "appendRecord" =>
        /\ requireLane(v, r.lane) /\ validateUnusedId(v, r.id)
        /\ r.type = "operation_started" => findOpenOperations(v, r.lane) = {}
    /\ r.op = "setLabel" => validateTarget(v, r.id)

\* What the database accepts, the in-memory storage accepts.
LEMMA AcceptsPermits ==
    ASSUME NEW t, NEW r \in Requests, Accepts(t, r)
    PROVE  Permits(View(t), r)
<1>. DEFINE v == View(t)
<1>1. /\ v.entriesById = t.entries /\ v.usedIds = DOMAIN t.entries \cup t.records
      /\ DOMAIN v.lanes = DOMAIN t.lanes
      /\ \A l \in Lanes : l \in DOMAIN t.lanes =>
            v.openOperationsByLane[l] = {t.lanes[l].open} \ {None}
  BY ViewFields DEF StateOf, Leaves, Opens
<1>. HIDE DEF v
<1>2. r \in CreateLanes \cup MoveLanes \cup AppendEntries \cup AppendRecords
            \cup SetNames \cup SetLabels
  BY RequestsAssumption
<1>3. CASE r \in CreateLanes
  BY <1>1, <1>3 DEF CreateLanes, Accepts, Permits, entryExists, validateNewLane,
     validateTarget, v
<1>4. CASE r \in MoveLanes
  BY <1>1, <1>4 DEF MoveLanes, Accepts, Permits, entryExists, requireLane,
     validateTarget, v
<1>5. CASE r \in AppendEntries
  BY <1>1, <1>5 DEF AppendEntries, Accepts, Permits, idExists, requireLane,
     validateUnusedId, v
<1>6. CASE r \in AppendRecords
  BY <1>1, <1>6 DEF AppendRecords, Accepts, Permits, idExists, requireLane,
     validateUnusedId, findOpenOperations, startLaneOperation, v
<1>7. CASE r \in SetNames
  BY <1>7 DEF SetNames, Permits, v
<1>8. CASE r \in SetLabels
  BY <1>1, <1>8 DEF SetLabels, Accepts, Permits, entryExists, validateTarget, v
<1>. QED  BY <1>2, <1>3, <1>4, <1>5, <1>6, <1>7, <1>8

\* What the in-memory storage accepts is a mutation its applyMutation accepts
\* too: the lane's leaf, which becomes the entry's parent, is an entry.
LEMMA PermitsValid ==
    ASSUME NEW t, LanesInto(t.lanes, t.entries), NEW r \in Requests, Permits(View(t), r)
    PROVE  ValidMutation(View(t), MutationFor(View(t), r))
<1>. DEFINE v == View(t)
            m == MutationFor(v, r)
<1>1. /\ v.entriesById = t.entries /\ DOMAIN v.lanes = DOMAIN t.lanes
      /\ \A l \in DOMAIN t.lanes : v.lanes[l] = t.lanes[l].leafId
  BY ViewFields DEF StateOf, Leaves
<1>2. \A l \in DOMAIN v.lanes : v.lanes[l] # None => v.lanes[l] \in DOMAIN v.entriesById
  BY <1>1 DEF LanesInto
<1>3. r \in CreateLanes \cup MoveLanes \cup AppendEntries \cup AppendRecords
            \cup SetNames \cup SetLabels /\ Permits(v, r)
  BY RequestsAssumption
<1>. HIDE DEF v
<1>. SUFFICES ValidMutation(v, m)
  BY DEF v
<1>4. nextSequence(v) = v.sequence + 1
  BY DEF nextSequence
<1>5. CASE r \in CreateLanes
  <2>1. m = LaneMutation(nextSequence(v), r.lane, r.at) /\ validateTarget(v, r.at)
    BY <1>3, <1>5 DEF CreateLanes, MutationFor, Permits
  <2>. QED  BY <1>4, <2>1 DEF LaneMutation, ValidMutation, validateTarget
<1>6. CASE r \in MoveLanes
  <2>1. m = LaneMutation(nextSequence(v), r.lane, r.to) /\ validateTarget(v, r.to)
    BY <1>3, <1>6 DEF MoveLanes, MutationFor, Permits
  <2>. QED  BY <1>4, <2>1 DEF LaneMutation, ValidMutation, validateTarget
<1>7. CASE r \in AppendEntries
  <2>1. /\ m = EntryMutation(nextSequence(v), r.lane, r.id, v.lanes[r.lane], r.type)
        /\ requireLane(v, r.lane) /\ validateUnusedId(v, r.id)
    BY <1>3, <1>7 DEF AppendEntries, MutationFor, Permits
  <2>. QED  BY <1>2, <1>4, <2>1
            DEF EntryMutation, ValidMutation, requireLane, validateUnusedId
<1>8. CASE r \in AppendRecords
  <2>1. /\ m = RecordMutation(nextSequence(v), r.lane, r.id, r.type, r.runId)
        /\ requireLane(v, r.lane) /\ validateUnusedId(v, r.id)
    BY <1>3, <1>8 DEF AppendRecords, MutationFor, Permits
  <2>. QED  BY <1>4, <2>1 DEF RecordMutation, ValidMutation, requireLane, validateUnusedId
<1>9. CASE r \in SetNames
  <2>1. m = NameMutation(nextSequence(v), r.name)
    BY <1>9 DEF SetNames, MutationFor
  <2>. QED  BY <1>4, <2>1 DEF NameMutation, ValidMutation
<1>10. CASE r \in SetLabels
  <2>1. /\ m = LabelMutation(nextSequence(v), r.id, r.label)
        /\ validateTarget(v, r.id) /\ r.id # None
    BY <1>3, <1>10, IdsAssumption DEF SetLabels, MutationFor, Permits
  <2>. QED  BY <1>4, <2>1 DEF LabelMutation, ValidMutation, validateTarget
<1>. QED  BY <1>3, <1>5, <1>6, <1>7, <1>8, <1>9, <1>10

\* The numbers of the two.
LEMMA NextNumber ==
    ASSUME NEW t, t.nextSeq \in Nat \ {0}
    PROVE  /\ nextSequence(View(t)) = t.nextSeq /\ (t.nextSeq + 1) - 1 = t.nextSeq
           /\ \A m \in Nat : t.nextSeq <= m => View(t).sequence < m
<1>1. View(t).sequence = t.nextSeq - 1
  BY ViewFields DEF StateOf
<1>. QED  BY <1>1 DEF nextSequence

\* Facts that were not written are read as before.
LEMMA SameFacts ==
    ASSUME NEW t, NEW u, u.facts = t.facts
    PROVE  /\ readLatestFact(u, "name", None) = readLatestFact(t, "name", None)
           /\ Labelled(u) = Labelled(t)
<1>1. \A kind, key : readLatestFact(u, kind, key) = readLatestFact(t, kind, key)
  BY DEF readLatestFact
<1>. QED  BY <1>1 DEF Labelled

\* createLane and moveLane, as readers see them.
LEMMA LaneSeen ==
    ASSUME NEW t, ShapedTables(t), NEW r \in CreateLanes \cup MoveLanes, Accepts(t, r)
    PROVE  View(Written(t, r)) = applyMutation(View(t), MutationFor(View(t), r))
<1>. DEFINE u == Written(t, r)
            lanes == t.lanes
            lane == r.lane
            leaf == IF r.op = "createLane" THEN r.at ELSE r.to
            L == IF r.op = "createLane"
                 THEN With(lanes, lane, [leafId |-> r.at, open |-> None])
                 ELSE [lanes EXCEPT ![lane].leafId = r.to]
<1>1. r.op \in {"createLane", "moveLane"}
  BY DEF CreateLanes, MoveLanes
<1>2. /\ r.op = "createLane" => lane \notin DOMAIN lanes
      /\ r.op = "moveLane" => lane \in DOMAIN lanes
  BY DEF Accepts
<1>3. Becomes(t, u, t.entries, t.records, L, t.facts)
  BY <1>1, LaneWritten DEF ShapedTables
<1>. HIDE DEF u, lane, lanes
<1>4. Leaves(L) = With(Leaves(lanes), lane, leaf) /\ Opens(L) = Opens(lanes)
  <2>1. \A l \in DOMAIN lanes : IsLane(lanes[l])
    BY DEF ShapedTables, ShapedLanes, lanes
  <2>2. CASE r.op = "createLane"
    <3>. DEFINE M == With(lanes, lane, [leafId |-> r.at, open |-> None])
    <3>1. /\ DOMAIN M = DOMAIN lanes \cup {lane} /\ M[lane].leafId = r.at /\ M[lane].open = None
          /\ \A l \in DOMAIN lanes : M[l] = lanes[l]
      BY <1>2, <2>2 DEF With
    <3>. HIDE DEF M
    <3>2. Leaves(M) = With(Leaves(lanes), lane, r.at)
      BY <1>2, <2>2, <3>1 DEF Leaves, With
    <3>3. Opens(M) = Opens(lanes)
      BY <1>2, <2>2, <3>1 DEF Opens
    <3>. QED  BY <2>2, <3>2, <3>3 DEF M
  <2>3. CASE r.op = "moveLane"
    <3>. DEFINE M == [lanes EXCEPT ![lane].leafId = r.to]
    <3>1. /\ DOMAIN M = DOMAIN lanes
          /\ \A l \in DOMAIN lanes : l # lane => M[l] = lanes[l]
          /\ M[lane].leafId = r.to /\ M[lane].open = lanes[lane].open
      BY <1>2, <2>1, <2>3 DEF IsLane
    <3>. HIDE DEF M
    <3>2. Leaves(M) = With(Leaves(lanes), lane, r.to)
      BY <1>2, <2>3, <3>1 DEF Leaves, With
    <3>3. Opens(M) = Opens(lanes)
      BY <1>2, <2>3, <3>1 DEF Opens
    <3>. QED  BY <2>3, <3>2, <3>3 DEF M
  <2>. QED  BY <1>1, <2>2, <2>3
<1>. HIDE DEF L
<1>. DEFINE n == t.nextSeq
            N == readLatestFact(t, "name", None)
            B == Labelled(t)
            E == t.entries
            U == DOMAIN t.entries \cup t.records
<1>5. View(u) = StateOf(n, U, E, With(Leaves(lanes), lane, leaf), Opens(lanes), N, B)
  <2>1. /\ u.nextSeq - 1 = n /\ u.entries = E /\ u.records = t.records /\ u.lanes = L
        /\ u.facts = t.facts
    BY <1>3, NextNumber DEF Becomes, ShapedTables
  <2>2. readLatestFact(u, "name", None) = N /\ Labelled(u) = B
    BY <2>1, SameFacts
  <2>. QED  BY <1>4, <2>1, <2>2, ViewFields
<1>6. MutationFor(View(t), r) = LaneMutation(n, lane, leaf)
  BY <1>1, NextNumber DEF MutationFor, ShapedTables, lane
<1>7. View(t) = StateOf(n - 1, U, E, Leaves(lanes), Opens(lanes), N, B)
  BY ViewFields DEF lanes
<1>. HIDE DEF n, N, B, E, U, leaf
<1>8. applyMutation(StateOf(n - 1, U, E, Leaves(lanes), Opens(lanes), N, B),
                    LaneMutation(n, lane, leaf))
        = StateOf(n, U, E, With(Leaves(lanes), lane, leaf), Opens(lanes), N, B)
  BY LaneFields
<1>. QED  BY <1>5, <1>6, <1>7, <1>8 DEF u

\* appendEntry, as readers see it.
LEMMA EntrySeen ==
    ASSUME NEW t, ShapedTables(t), NEW r \in AppendEntries, Accepts(t, r)
    PROVE  View(Written(t, r)) = applyMutation(View(t), MutationFor(View(t), r))
<1>. DEFINE u == Written(t, r)
            lanes == t.lanes
            lane == r.lane
            id == r.id
            parent == lanes[lane].leafId
            n == t.nextSeq
            N == readLatestFact(t, "name", None)
            B == Labelled(t)
            E == t.entries
            U == DOMAIN t.entries \cup t.records
            later == With(E, id, [parentId |-> parent, type |-> r.type, seq |-> n])
            L == [lanes EXCEPT ![lane].leafId = id]
<1>1. r.op = "appendEntry" /\ lane \in DOMAIN lanes /\ lane \in Lanes /\ lane # None
  BY IdsAssumption DEF AppendEntries, Accepts
<1>2. Becomes(t, u, later, t.records, L, t.facts)
  BY <1>1, EntryWritten DEF ShapedTables
<1>3. Leaves(L) = With(Leaves(lanes), lane, id) /\ Opens(L) = Opens(lanes)
      /\ Leaves(lanes)[lane] = parent
  <2>1. \A l \in DOMAIN lanes : IsLane(lanes[l])
    BY DEF ShapedTables, ShapedLanes
  <2>. HIDE DEF lanes, lane, id
  <2>2. /\ DOMAIN L = DOMAIN lanes
        /\ \A l \in DOMAIN lanes : l # lane => L[l] = lanes[l]
        /\ L[lane].leafId = id /\ L[lane].open = lanes[lane].open
    BY <1>1, <2>1 DEF IsLane
  <2>. HIDE DEF L
  <2>. QED  BY <1>1, <2>2 DEF Leaves, Opens, With
<1>. HIDE DEF u, L
<1>4. View(u) = StateOf(n, U \cup {id}, later, With(Leaves(lanes), lane, id),
                        Opens(lanes), N, B)
  <2>1. /\ u.nextSeq - 1 = n /\ u.entries = later /\ u.records = t.records /\ u.lanes = L
        /\ u.facts = t.facts
    BY <1>2, NextNumber DEF Becomes, ShapedTables
  <2>2. readLatestFact(u, "name", None) = N /\ Labelled(u) = B
    BY <2>1, SameFacts
  <2>3. DOMAIN later \cup t.records = U \cup {id}
    BY DEF With
  <2>. HIDE DEF N, B, U, later, n, lanes
  <2>. QED  BY <1>3, <2>1, <2>2, <2>3, ViewFields
<1>5. MutationFor(View(t), r) = EntryMutation(n, lane, id, parent, r.type)
  <2>1. View(t).lanes = Leaves(lanes)
    BY ViewFields DEF StateOf
  <2>. QED  BY <1>1, <1>3, <2>1, NextNumber DEF MutationFor, ShapedTables
<1>6. View(t) = StateOf(n - 1, U, E, Leaves(lanes), Opens(lanes), N, B)
  BY ViewFields
<1>7. applyMutation(StateOf(n - 1, U, E, Leaves(lanes), Opens(lanes), N, B),
                    EntryMutation(n, lane, id, parent, r.type))
        = StateOf(n, U \cup {id}, later, With(Leaves(lanes), lane, id), Opens(lanes), N, B)
  <2>. DEFINE type == r.type
  <2>. HIDE DEF n, N, B, E, U, lanes, lane, id, parent, type
  <2>. QED  BY <1>1, EntryFields DEF type
<1>. QED  BY <1>4, <1>5, <1>6, <1>7 DEF u

\* appendRecord, as readers see it.
LEMMA RecordSeen ==
    ASSUME NEW t, ShapedTables(t), NEW r \in AppendRecords, Accepts(t, r)
    PROVE  View(Written(t, r)) = applyMutation(View(t), MutationFor(View(t), r))
<1>. DEFINE u == Written(t, r)
            lanes == t.lanes
            lane == r.lane
            id == r.id
            type == r.type
            runId == r.runId
            n == t.nextSeq
            N == readLatestFact(t, "name", None)
            B == Labelled(t)
            E == t.entries
            U == DOMAIN t.entries \cup t.records
            started == lanes[lane].open
            after == CASE type = "operation_started"  -> id
                       [] type = "operation_finished" ->
                            finishLaneOperation(lanes[lane].open, r)
                       [] OTHER -> lanes[lane].open
            L == [lanes EXCEPT ![lane].open = after]
            m == RecordMutation(n, lane, id, type, runId)
            O == [Opens(lanes) EXCEPT ![lane] = OpenOperations(Opens(lanes)[lane], m)]
<1>1. /\ r.op = "appendRecord" /\ lane \in DOMAIN lanes /\ lane \in Lanes
      /\ id \in Ids /\ id # None /\ type \in RecordTypes
      /\ type = "operation_started" => started = None
  BY IdsAssumption DEF AppendRecords, Accepts, startLaneOperation
<1>2. Becomes(t, u, t.entries, t.records \cup {id}, L, t.facts)
  BY <1>1, RecordWritten, Zenon DEF ShapedTables
<1>3. {after} \ {None} = OpenOperations({started} \ {None}, m)
  <2>1. m.type = type /\ m.id = id /\ m.runId = runId
    BY DEF RecordMutation
  <2>2. CASE type = "operation_started"
    BY <1>1, <2>1, <2>2 DEF OpenOperations
  <2>3. CASE type = "operation_finished"
    <3>1. after = IF started = runId THEN None ELSE started
      BY <2>3 DEF finishLaneOperation
    <3>2. OpenOperations({started} \ {None}, m) = ({started} \ {None}) \ {runId}
      BY <2>1, <2>3 DEF OpenOperations
    <3>. HIDE DEF after, m, started, runId
    <3>. QED  BY <3>1, <3>2
  <2>4. CASE type \notin {"operation_started", "operation_finished"}
    BY <2>1, <2>4 DEF OpenOperations
  <2>. QED  BY <2>2, <2>3, <2>4
<1>. HIDE DEF after, m
<1>4. Leaves(L) = Leaves(lanes) /\ Opens(L) = O
  <2>1. \A l \in DOMAIN lanes : IsLane(lanes[l])
    BY DEF ShapedTables, ShapedLanes
  <2>. HIDE DEF lanes, lane
  <2>2. /\ DOMAIN L = DOMAIN lanes
        /\ \A l \in DOMAIN lanes : l # lane => L[l] = lanes[l]
        /\ L[lane].leafId = lanes[lane].leafId /\ L[lane].open = after
    BY <1>1, <2>1 DEF IsLane
  <2>. HIDE DEF L
  <2>3. Leaves(L) = Leaves(lanes)
    BY <1>1, <2>2 DEF Leaves
  <2>4. Opens(L) = O
    BY <1>1, <1>3, <2>2 DEF Opens
  <2>. QED  BY <2>3, <2>4
<1>. HIDE DEF u, L
<1>5. View(u) = StateOf(n, U \cup {id}, E, Leaves(lanes), O, N, B)
  <2>1. /\ u.nextSeq - 1 = n /\ u.entries = E /\ u.records = t.records \cup {id}
        /\ u.lanes = L /\ u.facts = t.facts
    BY <1>2, NextNumber DEF Becomes, ShapedTables
  <2>2. readLatestFact(u, "name", None) = N /\ Labelled(u) = B
    BY <2>1, SameFacts
  <2>3. DOMAIN E \cup (t.records \cup {id}) = U \cup {id}
    OBVIOUS
  <2>. HIDE DEF N, B, U, E, n, lanes, O
  <2>. QED  BY <1>4, <2>1, <2>2, <2>3, ViewFields
<1>6. MutationFor(View(t), r) = m
  BY <1>1, NextNumber DEF MutationFor, ShapedTables, m
<1>7. View(t) = StateOf(n - 1, U, E, Leaves(lanes), Opens(lanes), N, B)
  BY ViewFields
<1>8. applyMutation(StateOf(n - 1, U, E, Leaves(lanes), Opens(lanes), N, B), m)
        = StateOf(n, U \cup {id}, E, Leaves(lanes), O, N, B)
  <2>. HIDE DEF n, N, B, E, U, lanes, lane, id, type, runId
  <2>. QED  BY RecordFields DEF m
<1>. HIDE DEF O
<1>. QED  BY <1>5, <1>6, <1>7, <1>8 DEF u

\* setName and setLabel, as readers see them.
LEMMA FactSeen ==
    ASSUME NEW t, ShapedTables(t), NEW r \in SetNames \cup SetLabels
    PROVE  View(Written(t, r)) = applyMutation(View(t), MutationFor(View(t), r))
<1>. DEFINE u == Written(t, r)
            lanes == t.lanes
            n == t.nextSeq
            N == readLatestFact(t, "name", None)
            B == Labelled(t)
            E == t.entries
            U == DOMAIN t.entries \cup t.records
            fact == IF r.op = "setName" THEN [kind |-> "name", key |-> None, value |-> r.name]
                    ELSE [kind |-> "label", key |-> r.id, value |-> r.label]
            F == Append(t.facts, fact)
<1>1. r.op \in {"setName", "setLabel"} /\ fact \in Fact /\ t.facts \in Seq(Fact)
  BY DEF SetNames, SetLabels, Fact, ShapedTables
<1>2. Becomes(t, u, t.entries, t.records, t.lanes, F)
  <2>1. F = IF r.op = "setName" THEN appendFact(t, "name", None, r.name)
            ELSE appendFact(t, "label", r.id, r.label)
    BY DEF appendFact
  <2>2. Becomes(t, u, t.entries, t.records, t.lanes,
                IF r.op = "setName" THEN appendFact(t, "name", None, r.name)
                ELSE appendFact(t, "label", r.id, r.label))
    <3>1. IsRecordOfTables(t) /\ r.op \in {"setName", "setLabel"}
      BY <1>1 DEF ShapedTables
    <3>. QED  BY <3>1, FactWritten
  <2>. HIDE DEF F, u
  <2>. QED  BY <2>1, <2>2
<1>. HIDE DEF u
<1>3. View(u) = StateOf(n, U, E, Leaves(lanes), Opens(lanes),
                        readLatestFact(u, "name", None), Labelled(u))
  <2>1. /\ u.nextSeq - 1 = n /\ u.entries = E /\ u.records = t.records /\ u.lanes = lanes
    BY <1>2, NextNumber DEF Becomes, ShapedTables
  <2>. HIDE DEF U, E, n, lanes
  <2>. QED  BY <2>1, ViewFields DEF U, E
<1>4. View(t) = StateOf(n - 1, U, E, Leaves(lanes), Opens(lanes), N, B)
  BY ViewFields
<1>5. ASSUME NEW kind, NEW key
      PROVE  readLatestFact(u, kind, key) =
                IF fact.kind = kind /\ fact.key = key THEN fact.value
                ELSE readLatestFact(t, kind, key)
  <2>1. u.facts = Append(t.facts, fact)
    BY <1>2 DEF Becomes
  <2>. HIDE DEF fact
  <2>. QED  BY <1>1, <2>1, LatestFact
<1>6. CASE r.op = "setName"
  <2>1. fact.kind = "name" /\ fact.key = None /\ fact.value = r.name
    BY <1>6
  <2>. HIDE DEF fact
  <2>2. readLatestFact(u, "name", None) = r.name /\ Labelled(u) = B
    <3>1. \A id : readLatestFact(u, "label", id) = readLatestFact(t, "label", id)
      BY <1>5, <2>1
    <3>. QED  BY <1>5, <2>1, <3>1 DEF Labelled
  <2>3. MutationFor(View(t), r) = NameMutation(n, r.name)
    BY <1>6, NextNumber DEF MutationFor, ShapedTables
  <2>. DEFINE name == r.name
  <2>. HIDE DEF n, N, B, E, U, lanes, name
  <2>4. applyMutation(StateOf(n - 1, U, E, Leaves(lanes), Opens(lanes), N, B),
                      NameMutation(n, name))
          = StateOf(n, U, E, Leaves(lanes), Opens(lanes), name, B)
    BY NameFields
  <2>. QED  BY <1>3, <1>4, <2>2, <2>3, <2>4 DEF u, name
<1>7. CASE r.op = "setLabel"
  <2>. DEFINE id == r.id
              label == r.label
              labels == IF label = None THEN Without(B, id) ELSE With(B, id, label)
  <2>1. fact.kind = "label" /\ fact.key = id /\ fact.value = label /\ id \in Ids
    BY <1>7 DEF SetNames, SetLabels
  <2>. HIDE DEF fact, id, label
  <2>2. readLatestFact(u, "name", None) = N /\ Labelled(u) = labels
    <3>1. readLatestFact(u, "label", id) = label
          /\ \A x : x # id => readLatestFact(u, "label", x) = readLatestFact(t, "label", x)
      BY <1>5, <2>1
    <3>2. readLatestFact(u, "name", None) = N
      BY <1>5, <2>1
    <3>3. DOMAIN Labelled(u) = DOMAIN labels
      BY <2>1, <3>1 DEF Labelled, With, Without
    <3>4. \A x \in DOMAIN Labelled(u) : Labelled(u)[x] = labels[x]
      BY <2>1, <3>1, <3>3 DEF Labelled, With, Without
    <3>5. Labelled(u) = labels
      <4>1. \A x : x \in {y \in Ids : readLatestFact(u, "label", y) # None}
                    <=> x \in DOMAIN labels
        BY <3>3 DEF Labelled
      <4>. QED  BY <3>3, <3>4, <4>1 DEF Labelled, With, Without
    <3>. QED  BY <3>2, <3>5
  <2>3. MutationFor(View(t), r) = LabelMutation(n, id, label)
    BY <1>7, NextNumber DEF MutationFor, ShapedTables, id, label
  <2>. HIDE DEF n, N, B, E, U, lanes
  <2>4. applyMutation(StateOf(n - 1, U, E, Leaves(lanes), Opens(lanes), N, B),
                      LabelMutation(n, id, label))
          = StateOf(n, U, E, Leaves(lanes), Opens(lanes), N, labels)
    BY LabelFields
  <2>. HIDE DEF labels
  <2>. QED  BY <1>3, <1>4, <2>2, <2>3, <2>4 DEF u
<1>. QED  BY <1>1, <1>6, <1>7

\* Every write that is accepted, as readers see it.
LEMMA WriteSeen ==
    ASSUME NEW t, ShapedTables(t), NEW r \in Requests, Accepts(t, r)
    PROVE  View(Written(t, r)) = applyMutation(View(t), MutationFor(View(t), r))
<1>1. r \in CreateLanes \cup MoveLanes \cup AppendEntries \cup AppendRecords
            \cup SetNames \cup SetLabels
  BY RequestsAssumption
<1>. QED  BY <1>1, LaneSeen, EntrySeen, RecordSeen, FactSeen

\* Lanes and facts of the right shapes make tables of the right shape.
LEMMA BecomesShaped ==
    ASSUME NEW t, ShapedTables(t), NEW u, NEW E, NEW R, NEW L, NEW F,
           Becomes(t, u, E, R, L, F), F \in Seq(Fact), ShapedLanes(L)
    PROVE  ShapedTables(u)
BY DEF Becomes, ShapedTables

\* An accepted write keeps the shapes.
LEMMA WriteShaped ==
    ASSUME NEW t, ShapedTables(t), NEW r \in Requests, Accepts(t, r)
    PROVE  ShapedTables(Written(t, r))
<1>. DEFINE u == Written(t, r)
            lanes == t.lanes
            lane == r.lane
<1>1. \/ r \in CreateLanes \cup MoveLanes \/ r \in AppendEntries
      \/ r \in AppendRecords \/ r \in SetNames \cup SetLabels
  BY RequestsAssumption
<1>2. /\ IsRecordOfTables(t) /\ t.nextSeq \in Nat \ {0} /\ t.facts \in Seq(Fact)
      /\ ShapedLanes(lanes)
  BY DEF ShapedTables
<1>. HIDE DEF u
<1>3. SUFFICES ShapedTables(u)
  BY DEF u
<1>4. CASE r \in CreateLanes \cup MoveLanes
  <2>. DEFINE L == IF r.op = "createLane"
                   THEN With(lanes, lane, [leafId |-> r.at, open |-> None])
                   ELSE [lanes EXCEPT ![lane].leafId = r.to]
  <2>1. r.op \in {"createLane", "moveLane"} /\ (r.op = "moveLane" => lane \in DOMAIN lanes)
    BY <1>4 DEF CreateLanes, MoveLanes, Accepts
  <2>2. Becomes(t, u, t.entries, t.records, L, t.facts)
    BY <1>2, <2>1, LaneWritten DEF u
  <2>3. ShapedLanes(L)
    <3>. HIDE DEF lanes, lane
    <3>1. CASE r.op = "createLane"
      <4>1. DOMAIN L = DOMAIN lanes \cup {lane} /\ \A l \in DOMAIN L : IsLane(L[l])
        BY <1>2, <3>1 DEF With, IsLane, ShapedLanes
      <4>2. IsFiniteSet(DOMAIN L)
        BY <1>2, <4>1, FS_AddElement DEF ShapedLanes
      <4>. QED  BY <4>1, <4>2 DEF ShapedLanes
    <3>2. CASE r.op = "moveLane"
      BY <1>2, <2>1, <3>2 DEF IsLane, ShapedLanes
    <3>. QED  BY <2>1, <3>1, <3>2
  <2>. HIDE DEF L
  <2>. QED  BY <1>2, <2>2, <2>3, BecomesShaped
<1>5. CASE r \in AppendEntries
  <2>. DEFINE id == r.id
              L == [lanes EXCEPT ![lane].leafId = id]
              E == With(t.entries, r.id, [parentId |-> t.lanes[r.lane].leafId,
                                          type |-> r.type, seq |-> t.nextSeq])
  <2>1. r.op = "appendEntry" /\ lane \in DOMAIN lanes
    BY <1>5 DEF AppendEntries, Accepts
  <2>2. Becomes(t, u, E, t.records, L, t.facts)
    BY <1>2, <2>1, EntryWritten DEF u
  <2>3. ShapedLanes(L)
    <3>. HIDE DEF lanes, lane, id
    <3>. QED  BY <1>2, <2>1 DEF IsLane, ShapedLanes
  <2>. HIDE DEF L, E
  <2>. QED  BY <1>2, <2>2, <2>3, BecomesShaped
<1>6. CASE r \in AppendRecords
  <2>. DEFINE after == CASE r.type = "operation_started"  -> r.id
                         [] r.type = "operation_finished" ->
                                finishLaneOperation(lanes[lane].open, r)
                         [] OTHER -> lanes[lane].open
              L == [lanes EXCEPT ![lane].open = after]
              R == t.records \cup {r.id}
  <2>1. r.op = "appendRecord" /\ lane \in DOMAIN lanes
    BY <1>6 DEF AppendRecords, Accepts
  <2>2. Becomes(t, u, t.entries, R, L, t.facts)
    BY <1>2, <2>1, RecordWritten, Zenon DEF u
  <2>3. ShapedLanes(L)
    <3>. HIDE DEF lanes, lane, after
    <3>. QED  BY <1>2, <2>1 DEF IsLane, ShapedLanes
  <2>. HIDE DEF L, R
  <2>. QED  BY <1>2, <2>2, <2>3, BecomesShaped
<1>7. CASE r \in SetNames \cup SetLabels
  <2>. DEFINE F == IF r.op = "setName" THEN appendFact(t, "name", None, r.name)
                   ELSE appendFact(t, "label", r.id, r.label)
              fact == IF r.op = "setName"
                      THEN [kind |-> "name", key |-> None, value |-> r.name]
                      ELSE [kind |-> "label", key |-> r.id, value |-> r.label]
  <2>1. r.op \in {"setName", "setLabel"} /\ fact \in Fact
    BY <1>7 DEF SetNames, SetLabels, Fact
  <2>2. F = Append(t.facts, fact)
    BY DEF appendFact
  <2>3. Becomes(t, u, t.entries, t.records, t.lanes, F)
    BY <1>2, <2>1, FactWritten DEF u
  <2>. HIDE DEF F, fact
  <2>4. F \in Seq(Fact)
    BY <1>2, <2>1, <2>2
  <2>. QED  BY <1>2, <2>3, <2>4, BecomesShaped
<1>. QED  BY <1>1, <1>4, <1>5, <1>6, <1>7

\* Rebuilding the cache changes nothing that readers see.
LEMMA RebuildSeen ==
    ASSUME NEW t, ShapedTables(t)
    PROVE  LET u == rebuildBranchCache(t) IN ShapedTables(u) /\ View(u) = View(t)
<1>. DEFINE u == rebuildBranchCache(t)
<1>1. \E B, T : u = [t EXCEPT !.branches = B, !.tips = T]
  BY DEF rebuildBranchCache, withBranches
<1>. HIDE DEF u
<1>2. PICK B, T : u = [t EXCEPT !.branches = B, !.tips = T]
  BY <1>1
<1>3. u = [nextSeq |-> t.nextSeq, entries |-> t.entries, records |-> t.records,
           lanes |-> t.lanes, facts |-> t.facts, branches |-> B, tips |-> T,
           messages |-> t.messages]
  BY <1>2 DEF ShapedTables, ShapedLanes, IsRecordOfTables
<1>4. /\ u.nextSeq = t.nextSeq /\ u.entries = t.entries /\ u.records = t.records
      /\ u.lanes = t.lanes /\ u.facts = t.facts /\ IsRecordOfTables(u)
  BY <1>3 DEF IsRecordOfTables
<1>5. ShapedTables(u)
  BY <1>4 DEF ShapedTables
<1>6. View(u) = View(t)
  BY <1>4, SameFacts, ViewFields
<1>. QED  BY <1>5, <1>6 DEF u

\* The tables a session is created with, and those a fork fills, are shaped.
LEMMA NoTablesShaped ==
    ShapedTables(NoTables) /\ ShapedTables([NoTables EXCEPT !.lanes = <<>>])
<1>1. IsFiniteSet({}) /\ IsFiniteSet({"main"})
  BY FS_EmptySet, FS_Singleton
<1>. DEFINE t == NoTables
            none == <<>>
            main == [l \in {"main"} |-> [leafId |-> None, open |-> None]]
            u == [t EXCEPT !.lanes = none]
<1>2. t = [nextSeq |-> 1, entries |-> none, records |-> {}, lanes |-> main,
           facts |-> none, branches |-> none, tips |-> none, messages |-> 0]
  BY DEF NoTables
<1>3. /\ DOMAIN main = {"main"} /\ \A l \in DOMAIN main : IsLane(main[l])
      /\ none \in Seq(Fact) /\ DOMAIN none = {}
  BY DEF IsLane
<1>. HIDE DEF t, main, none
<1>4. u = [nextSeq |-> 1, entries |-> none, records |-> {}, lanes |-> none,
           facts |-> none, branches |-> none, tips |-> none, messages |-> 0]
  BY <1>2
<1>. HIDE DEF u
<1>5. ShapedTables(t)
  BY <1>1, <1>2, <1>3 DEF ShapedTables, ShapedLanes, IsRecordOfTables
<1>6. ShapedTables(u)
  BY <1>1, <1>3, <1>4 DEF ShapedTables, ShapedLanes, IsRecordOfTables
<1>. QED  BY <1>5, <1>6 DEF t, u, none

\* What a running fork has read, whatever became of its source.
ForkShaped(f) ==
    /\ IsFiniteSet(DOMAIN f.entries) /\ IsFiniteSet(DOMAIN f.lanes)
    /\ f.name \in Values \cup {None} /\ IsFiniteSet(DOMAIN f.labels)
    /\ \A id \in DOMAIN f.labels : id \in Ids /\ f.labels[id] \in Values \cup {None}

\* Rows are finitely many.
LEMMA RowsFinite ==
    ASSUME NEW t, t.nextSeq \in Nat \ {0}, NEW ids
    PROVE  IsFiniteSet(DOMAIN Rows(t, ids))
<1>. DEFINE q == t.nextSeq - 1
            s == Tree(t)
            counted == [n \in 1..q |-> n]
            S == {s.entriesById[id].seq : id \in DOMAIN s.entriesById}
            numbers == Among(counted, S)
            all == InSequenceOrder(s)
            sorted == Among(all, ids)
<1>1. q \in Nat /\ s.sequence = q
  BY DEF Tree
<1>. HIDE DEF q
<1>2. counted \in Seq(Nat)
  BY <1>1
<1>3. all = [i \in 1..Len(numbers) |->
                CHOOSE id \in DOMAIN s.entriesById : s.entriesById[id].seq = numbers[i]]
  BY <1>1 DEF InSequenceOrder
<1>. HIDE DEF counted, S, s, all
<1>4. numbers \in Seq(Nat)
  BY <1>2, AmongRange
<1>5. Len(numbers) \in Nat
  BY <1>4
<1>. HIDE DEF numbers
<1>. DEFINE P == {all[i] : i \in 1..Len(numbers)}
<1>6. all \in Seq(P)
  <2>1. all \in [1..Len(numbers) -> P]
    BY <1>3
  <2>. HIDE DEF P
  <2>. QED  BY <1>5, <2>1
<1>. HIDE DEF P
<1>7. sorted \in Seq(P)
  BY <1>6, AmongRange
<1>. HIDE DEF sorted
<1>8. Len(sorted) \in Nat /\ DOMAIN sorted = 1..Len(sorted)
  BY <1>7
<1>9. DOMAIN Rows(t, ids) = DOMAIN sorted
  BY DEF Rows, sorted, all, s
<1>. QED  BY <1>8, <1>9, FS_Interval

\* A read of a fork keeps its shape.
LEMMA ForkReadShaped ==
    ASSUME NEW t, ShapedTables(t), NEW f, DOMAIN f = ForkFields, ForkShaped(f), NEW what,
           what \in {"entries", "lanes", "tips", "main", "branch", "name", "labels"},
           NEW h, h = ForkRead(f, t, what), NEW g, Stepped(g, h)
    PROVE  ForkShaped(g)
<1>1. ReadChanges(f, h, t, what)
  BY ForkReadChanges
<1>2. /\ t.nextSeq \in Nat \ {0} /\ ShapedLanes(t.lanes) /\ t.facts \in Seq(Fact)
  BY DEF ShapedTables
<1>. DEFINE v == View(t)
<1>3. /\ IsFiniteSet(DOMAIN v.lanes) /\ v.name \in Values \cup {None}
      /\ IsFiniteSet(DOMAIN v.labels)
      /\ \A id \in DOMAIN v.labels : id \in Ids /\ v.labels[id] \in Values \cup {None}
  <2>1. DOMAIN v.lanes = DOMAIN t.lanes /\ v.name = readLatestFact(t, "name", None)
    BY ViewIs
  <2>2. v.labels = [id \in {id \in Ids : readLatestFact(t, "label", id) # None} |->
                        readLatestFact(t, "label", id)]
    BY ViewIs
  <2>. HIDE DEF v
  <2>3. v.name \in Values \cup {None}
    BY <1>2, <2>1, FactRead
  <2>4. /\ IsFiniteSet(DOMAIN v.labels)
        /\ \A id \in DOMAIN v.labels : id \in Ids /\ v.labels[id] \in Values \cup {None}
    BY <1>2, <2>2, LabelsRead
  <2>. QED  BY <1>2, <2>1, <2>3, <2>4 DEF ShapedLanes
<1>4. /\ IsFiniteSet(DOMAIN Rows(t, DOMAIN t.entries)) /\ IsFiniteSet({"main"})
      /\ IsFiniteSet(DOMAIN BranchRows(t, readTarget(f, t)))
  <2>1. IsFiniteSet(DOMAIN Rows(t, DOMAIN t.entries)) /\ IsFiniteSet({"main"})
    BY <1>2, RowsFinite, FS_Singleton
  <2>2. IsFiniteSet(DOMAIN <<>>)
    BY FS_EmptySet
  <2>. QED  BY <1>2, <2>1, <2>2, RowsFinite DEF BranchRows
<1>5. /\ DOMAIN h = ForkFields
      /\ g.entries = h.entries /\ g.lanes = h.lanes /\ g.name = h.name
      /\ g.labels = h.labels
  <2>1. DOMAIN h = ForkFields
    BY <1>1 DEF ReadChanges
  <2>. QED  BY <2>1 DEF Stepped, ForkFields
<1>. HIDE DEF v
<1>6. ForkShaped(h)
  BY <1>1, <1>3, <1>4 DEF ReadChanges, ForkShaped, v
<1>. QED  BY <1>5, <1>6 DEF ForkShaped

\* The tables that a fork writes have the shape of a session's, whatever it
\* read.
LEMMA ForkedShaped ==
    ASSUME NEW f, ForkShaped(f)
    PROVE  ShapedTables(Forked(f))
<1>. DEFINE ids == {f.entries[i].id : i \in DOMAIN f.entries}
            row == [id \in ids |-> CHOOSE i \in DOMAIN f.entries :
                                      f.entries[i].id = id]
            K == {id \in DOMAIN f.labels : f.options.scope = "tree" \/ id \in ids}
            keys == SetToSeq(K)
            fact == [kind |-> "name", key |-> None, value |-> f.name]
            names == IF f.name = None THEN <<>> ELSE <<fact>>
            lanes == IF f.options.scope = "tree"
                     THEN Cardinality(DOMAIN f.lanes) ELSE 0
            E == [id \in ids |->
                    [parentId |-> f.entries[row[id]].parentId,
                     type |-> f.entries[row[id]].type, seq |-> row[id]]]
            L == [l \in DOMAIN f.lanes |-> [leafId |-> f.lanes[l], open |-> None]]
            labels == [i \in DOMAIN keys |->
                        [kind |-> "label", key |-> keys[i], value |-> f.labels[keys[i]]]]
            F == names \o labels
            M == Cardinality({i \in DOMAIN f.entries : f.entries[i].type = "message"})
            Q == 1 + Cardinality(ids) + lanes + Len(names) + Len(keys)
            tips == SetToSeq(f.tips)
            tables == [NoTables EXCEPT !.entries = E, !.lanes = L, !.facts = F,
                                       !.messages = M, !.nextSeq = Q]
<1>1. Forked(f) = withBranches(tables, tips)
  BY DEF Forked
<1>2. /\ IsFiniteSet(DOMAIN f.entries) /\ IsFiniteSet(DOMAIN f.lanes)
      /\ f.name \in Values \cup {None} /\ IsFiniteSet(DOMAIN f.labels)
      /\ \A id \in DOMAIN f.labels : id \in Ids /\ f.labels[id] \in Values \cup {None}
  BY DEF ForkShaped
<1>3. Cardinality(ids) \in Nat
  <2>. DEFINE D == DOMAIN f.entries
              pick == [i \in D |-> f.entries[i].id]
  <2>1. pick \in Surjection(D, ids)
    BY DEF Surjection
  <2>. HIDE DEF pick, ids, D
  <2>2. IsFiniteSet(ids)
    BY <1>2, <2>1, FS_Surjection DEF D
  <2>. QED  BY <2>2, FS_CardinalityType
<1>4. ShapedLanes(L)
  <2>1. DOMAIN L = DOMAIN f.lanes /\ \A l \in DOMAIN L : IsLane(L[l])
    BY DEF IsLane
  <2>. HIDE DEF L
  <2>. QED  BY <1>2, <2>1 DEF ShapedLanes
<1>5. /\ Len(keys) \in Nat /\ DOMAIN keys = 1..Len(keys)
      /\ \A i \in 1..Len(keys) : keys[i] \in DOMAIN f.labels
  <2>1. K \subseteq DOMAIN f.labels
    OBVIOUS
  <2>. HIDE DEF K
  <2>2. IsFiniteSet(K)
    BY <1>2, <2>1, FS_Subset
  <2>3. keys \in Seq(K)
    BY <2>2, SetToSeqIs
  <2>. HIDE DEF keys
  <2>. QED  BY <2>1, <2>3
<1>. HIDE DEF keys
<1>6. names \in Seq(Fact) /\ Len(names) \in Nat
  <2>1. fact \in Fact
    BY <1>2 DEF Fact
  <2>. HIDE DEF fact
  <2>2. <<fact>> \in Seq(Fact) /\ Len(<<fact>>) = 1
    BY <2>1
  <2>3. <<>> \in Seq(Fact) /\ Len(<<>>) = 0
    OBVIOUS
  <2>. QED  BY <2>2, <2>3
<1>7. labels \in Seq(Fact)
  <2>1. \A i \in 1..Len(keys) :
            [kind |-> "label", key |-> keys[i], value |-> f.labels[keys[i]]] \in Fact
    BY <1>2, <1>5 DEF Fact
  <2>2. /\ labels = [i \in 1..Len(keys) |-> labels[i]]
        /\ \A i \in 1..Len(keys) : labels[i] \in Fact
    BY <1>5, <2>1
  <2>. HIDE DEF labels
  <2>. QED  BY <1>5, <2>2
<1>. HIDE DEF names, labels
<1>8. F \in Seq(Fact)
  BY <1>6, <1>7
<1>9. lanes \in Nat
  BY <1>2, FS_CardinalityType
<1>. HIDE DEF lanes, ids, F
<1>10. Q \in Nat \ {0}
  <2>. DEFINE a == Cardinality(ids)
              b == Len(names)
              c == Len(keys)
  <2>1. a \in Nat /\ b \in Nat /\ c \in Nat /\ Q = 1 + a + lanes + b + c
    BY <1>3, <1>5, <1>6
  <2>. HIDE DEF a, b, c, Q
  <2>. QED  BY <1>9, <2>1
<1>. HIDE DEF Q, E, L, M, row, tips
<1>11. tables = [nextSeq |-> Q, entries |-> E, records |-> {}, lanes |-> L, facts |-> F,
                 branches |-> <<>>, tips |-> <<>>, messages |-> M]
  <2>. DEFINE empty == NoTables
              main == [l \in {"main"} |-> [leafId |-> None, open |-> None]]
  <2>1. empty = [nextSeq |-> 1, entries |-> <<>>, records |-> {}, lanes |-> main,
                 facts |-> <<>>, branches |-> <<>>, tips |-> <<>>, messages |-> 0]
    BY DEF NoTables
  <2>2. tables = [empty EXCEPT !.entries = E, !.lanes = L, !.facts = F,
                               !.messages = M, !.nextSeq = Q]
    OBVIOUS
  <2>. HIDE DEF empty, main, tables
  <2>. QED  BY <2>1, <2>2
<1>. HIDE DEF tables
<1>. DEFINE branches == [i \in DOMAIN tips |-> Range(Branch(Tree(tables), tips[i]))]
            u == withBranches(tables, tips)
<1>12. u = [tables EXCEPT !.branches = branches, !.tips = tips]
  BY DEF withBranches
<1>. HIDE DEF branches, u
<1>13. u = [nextSeq |-> Q, entries |-> E, records |-> {}, lanes |-> L, facts |-> F,
            branches |-> branches, tips |-> tips, messages |-> M]
  BY <1>11, <1>12
<1>14. /\ u.nextSeq = Q /\ u.lanes = L /\ u.facts = F /\ IsRecordOfTables(u)
  BY <1>13 DEF IsRecordOfTables
<1>15. ShapedTables(u)
  BY <1>4, <1>8, <1>10, <1>14 DEF ShapedTables
<1>. QED  BY <1>1, <1>15 DEF u

-----------------------------------------------------------------------------
(* Every step of every process.                                            *)

\* The tables of every session and what every running fork has read.
ShapeInv ==
    /\ \A s \in DOMAIN db : ShapedTables(db[s])
    /\ \A r \in Repositories :
        (task[r] # None /\ task[r].op = "fork") => ForkShaped(task[r])

\* A session's step: none, or a call of the in-memory storage.
MemoryStep ==
    (session \in DOMAIN db /\ session \in DOMAIN db') =>
        View(db'[session]) = View(db[session]) \/ Memory!Next

\* A call of the in-memory storage.
LEMMA MemoryCall ==
    ASSUME session \in DOMAIN db, session \in DOMAIN db', NEW r \in Requests,
           Permits(View(db[session]), r), View(db[session]).sequence < MaxSequence,
           ValidMutation(View(db[session]), MutationFor(View(db[session]), r)),
           View(db'[session])
                = applyMutation(View(db[session]), MutationFor(View(db[session]), r))
    PROVE  Memory!Next
<1>. DEFINE before == IF session \in DOMAIN db THEN View(db[session]) ELSE InitialState
            after == IF session \in DOMAIN db' THEN View(db'[session]) ELSE InitialState
            v == View(db[session])
            w == View(db'[session])
            n == nextSequence(v)
<1>1. before = v /\ after = w /\ v.sequence < MaxSequence
      /\ w = applyMutation(v, MutationFor(v, r)) /\ Permits(v, r)
      /\ ValidMutation(v, MutationFor(v, r))
  OBVIOUS
<1>2. \A m : Memory!applyMutation(before, m) = applyMutation(before, m)
  BY DEF applyMutation, Memory!applyMutation, ApplyEntry, Memory!ApplyEntry, ApplyRecord,
     Memory!ApplyRecord, ApplyLane, Memory!ApplyLane, ApplyFact, Memory!ApplyFact,
     With, Memory!With, Without, Memory!Without, OpenOperations, Memory!OpenOperations
<1>3. Memory!nextSequence(before) = n
  BY <1>1 DEF Memory!nextSequence, nextSequence
<1>4. r \in CreateLanes \cup MoveLanes \cup AppendEntries \cup AppendRecords
            \cup SetNames \cup SetLabels
  BY RequestsAssumption
<1>5. \A m : m = MutationFor(v, r) => Memory!Apply(m)
  <2>1. \A m : Memory!Apply(m) <=> /\ before.sequence < MaxSequence
                                   /\ Memory!ValidMutation(before, m)
                                   /\ after = Memory!applyMutation(before, m)
    BY DEF Memory!Apply
  <2>2. \A m : Memory!ValidMutation(before, m) <=> ValidMutation(before, m)
    BY DEF Memory!ValidMutation, ValidMutation
  <2>. HIDE DEF before, after, v, w
  <2>. QED  BY <1>1, <1>2, <2>1, <2>2
<1>6. CASE r \in CreateLanes
  <2>1. r.op = "createLane"
    BY <1>6 DEF CreateLanes
  <2>2. MutationFor(v, r) = Memory!LaneMutation(n, r.lane, r.at)
    BY <2>1 DEF MutationFor, LaneMutation, Memory!LaneMutation
  <2>3. Memory!validateNewLane(before, r.lane) /\ Memory!validateTarget(before, r.at)
    BY <1>1, <2>1 DEF Permits, validateNewLane, validateTarget,
       Memory!validateNewLane, Memory!validateTarget
  <2>4. Memory!createLane(r.lane, r.at)
    BY <1>3, <1>5, <2>2, <2>3 DEF Memory!createLane
  <2>. QED  BY <2>1, <2>4 DEF Memory!Next, Memory!Call
<1>7. CASE r \in MoveLanes
  <2>1. r.op = "moveLane"
    BY <1>7 DEF MoveLanes
  <2>2. MutationFor(v, r) = Memory!LaneMutation(n, r.lane, r.to)
    BY <2>1 DEF MutationFor, LaneMutation, Memory!LaneMutation
  <2>3. Memory!requireLane(before, r.lane) /\ Memory!validateTarget(before, r.to)
    BY <1>1, <2>1 DEF Permits, requireLane, validateTarget,
       Memory!requireLane, Memory!validateTarget
  <2>4. Memory!moveLane(r.lane, r.to)
    BY <1>3, <1>5, <2>2, <2>3 DEF Memory!moveLane
  <2>. QED  BY <2>1, <2>4 DEF Memory!Next, Memory!Call
<1>8. CASE r \in AppendEntries
  <2>1. r.op = "appendEntry"
    BY <1>8 DEF AppendEntries
  <2>2. MutationFor(v, r)
            = Memory!EntryMutation(n, r.lane, r.id, v.lanes[r.lane], r.type)
    BY <2>1 DEF MutationFor, EntryMutation, Memory!EntryMutation
  <2>3. Memory!requireLane(before, r.lane) /\ Memory!validateUnusedId(before, r.id)
    BY <1>1, <2>1 DEF Permits, requireLane, validateUnusedId,
       Memory!requireLane, Memory!validateUnusedId
  <2>4. Memory!appendEntry(r.id, r.type, r.lane)
    BY <1>1, <1>3, <1>5, <2>2, <2>3 DEF Memory!appendEntry
  <2>. QED  BY <2>1, <2>4 DEF Memory!Next, Memory!Call
<1>9. CASE r \in AppendRecords
  <2>1. r.op = "appendRecord"
    BY <1>9 DEF AppendRecords
  <2>2. MutationFor(v, r) = Memory!RecordMutation(n, r.lane, r.id, r.type, r.runId)
    BY <2>1 DEF MutationFor, RecordMutation, Memory!RecordMutation
  <2>3. /\ Memory!requireLane(before, r.lane) /\ Memory!validateUnusedId(before, r.id)
        /\ r.type = "operation_started" => Memory!findOpenOperations(before, r.lane) = {}
    BY <1>1, <2>1 DEF Permits, requireLane, validateUnusedId, findOpenOperations,
       Memory!requireLane, Memory!validateUnusedId, Memory!findOpenOperations
  <2>4. Memory!appendRecord(r.id, r.type, r.lane, r.runId)
    BY <1>3, <1>5, <2>2, <2>3 DEF Memory!appendRecord
  <2>. QED  BY <2>1, <2>4 DEF Memory!Next, Memory!Call
<1>10. CASE r \in SetNames
  <2>1. r.op = "setName"
    BY <1>10 DEF SetNames
  <2>2. MutationFor(v, r) = Memory!NameMutation(n, r.name)
    BY <2>1 DEF MutationFor, NameMutation, Memory!NameMutation
  <2>3. Memory!setName(r.name)
    BY <1>3, <1>5, <2>2 DEF Memory!setName
  <2>. QED  BY <2>1, <2>3 DEF Memory!Next, Memory!Call
<1>11. CASE r \in SetLabels
  <2>1. r.op = "setLabel"
    BY <1>11 DEF SetLabels
  <2>2. MutationFor(v, r) = Memory!LabelMutation(n, r.id, r.label)
    BY <2>1 DEF MutationFor, LabelMutation, Memory!LabelMutation
  <2>3. Memory!validateTarget(before, r.id)
    BY <1>1, <2>1 DEF Permits, validateTarget, Memory!validateTarget
  <2>4. Memory!setLabel(r.id, r.label)
    BY <1>3, <1>5, <2>2, <2>3 DEF Memory!setLabel
  <2>. QED  BY <2>1, <2>4 DEF Memory!Next, Memory!Call
<1>. QED  BY <1>4, <1>6, <1>7, <1>8, <1>9, <1>10, <1>11

\* Tasks that begin, end or stay as they are read nothing.
QuietTasks ==
    \A r \in Repositories :
        task'[r] = task[r] \/ task'[r] = None \/ task'[r].op # "fork"
            \/ ForkShaped(task'[r])

\* A step that keeps the tables of every session it does not create.
LEMMA QuietShape ==
    ASSUME ShapeInv, QuietTasks,
           \A s \in DOMAIN db' : \/ s \in DOMAIN db /\ db'[s] = db[s]
                                 \/ s \notin DOMAIN db /\ ShapedTables(db'[s])
    PROVE  ShapeInv' /\ MemoryStep
<1>1. \A s \in DOMAIN db' : ShapedTables(db'[s])
  BY DEF ShapeInv
<1>2. ASSUME NEW r \in Repositories, task'[r] # None, task'[r].op = "fork"
      PROVE  ForkShaped(task'[r])
  BY <1>2 DEF ShapeInv, QuietTasks
<1>3. ShapeInv'
  BY <1>1, <1>2 DEF ShapeInv
<1>4. MemoryStep
  BY DEF MemoryStep
<1>. QED  BY <1>3, <1>4

\* A step that changes one session, to tables that readers see the same way or
\* as after a call of the in-memory storage.
LEMMA ChangeShape ==
    ASSUME ShapeInv, QuietTasks, NEW s \in DOMAIN db, NEW u, ShapedTables(u),
           db' = [db EXCEPT ![s] = u],
           s = session => View(u) = View(db[s]) \/ Memory!Next
    PROVE  ShapeInv' /\ MemoryStep
<1>1. DOMAIN db' = DOMAIN db /\ db'[s] = u /\ \A x \in DOMAIN db \ {s} : db'[x] = db[x]
  OBVIOUS
<1>2. \A x \in DOMAIN db' : ShapedTables(db'[x])
  BY <1>1 DEF ShapeInv
<1>3. ASSUME NEW r \in Repositories, task'[r] # None, task'[r].op = "fork"
      PROVE  ForkShaped(task'[r])
  BY <1>3 DEF ShapeInv, QuietTasks
<1>4. ShapeInv'
  BY <1>2, <1>3 DEF ShapeInv
<1>5. MemoryStep
  <2>1. CASE s = session
    BY <1>1, <2>1 DEF MemoryStep
  <2>2. CASE s # session
    BY <1>1, <2>2 DEF MemoryStep
  <2>. QED  BY <2>1, <2>2
<1>. QED  BY <1>4, <1>5

\* A committed write is a call of the in-memory storage of its session.
LEMMA WriteIsCall ==
    ASSUME IndInv, ContentInv, ShapeInv, NEW o \in DOMAIN storages, writeCommits(o)
    PROVE  ShapeInv' /\ MemoryStep
<1>. DEFINE s == storages[o].session
            r == Head1(o)
            t == db[s]
            u == Written(t, r)
<1>1. /\ db' = [db EXCEPT ![s] = u] /\ Accepts(t, r) /\ t.nextSeq <= MaxSequence
      /\ r.op \notin {"heartbeat", "release"} /\ canRenew(o)
      /\ storages[o].queue # <<>> /\ task' = task
  BY DEF writeCommits, IsWrite
<1>2. storages[o] \in Storage /\ s \in Sessions
  BY DEF IndInv, SqliteTyped, Storage
<1>3. s \in DOMAIN db
  BY <1>1, <1>2 DEF IndInv, RowsHaveSessions, canRenew, ownsLease
<1>4. r \in Requests
  <2>1. storages[o].queue \in Seq(Queued)
    BY <1>2 DEF Storage
  <2>2. r \in Queued
    BY <1>1, <2>1 DEF Head1
  <2>. QED  BY <1>1, <2>2 DEF Queued
<1>. HIDE DEF s, r
<1>5. ShapedTables(t) /\ ShapedTables(u)
  <2>1. ShapedTables(t)
    BY <1>3 DEF ShapeInv
  <2>. QED  BY <1>1, <1>4, <2>1, WriteShaped
<1>6. View(u) = applyMutation(View(t), MutationFor(View(t), r)) /\ Permits(View(t), r)
  BY <1>1, <1>4, <1>5, WriteSeen, AcceptsPermits
<1>7. View(t).sequence < MaxSequence
  BY <1>1, <1>5, NextNumber, SqliteBoundsAssumption DEF ShapedTables
<1>10. ValidMutation(View(t), MutationFor(View(t), r))
  <2>1. LanesInto(t.lanes, t.entries)
    BY <1>3 DEF ContentInv, TablesAreGood, GoodTables
  <2>. QED  BY <1>4, <1>6, <2>1, PermitsValid
<1>. HIDE DEF u
<1>8. ASSUME s = session PROVE Memory!Next
  <2>1. session \in DOMAIN db /\ session \in DOMAIN db' /\ db'[session] = u
    BY <1>1, <1>3, <1>8
  <2>. QED  BY <1>4, <1>6, <1>7, <1>8, <1>10, <2>1, MemoryCall
<1>9. QuietTasks
  BY <1>1 DEF QuietTasks
<1>. QED  BY <1>1, <1>3, <1>5, <1>8, <1>9, ChangeShape

\* A read of a fork, of the source or of what is left of it.
LEMMA ReadIsQuiet ==
    ASSUME IndInv, ShapeInv, NEW r \in Repositories, forkReads(r)
    PROVE  ShapeInv' /\ MemoryStep
<1>. DEFINE f == task[r]
            t == Source(r)
            what == ForkReads(f.options)[f.step]
            h == ForkRead(f, t, what)
            g == [h EXCEPT !.step = @ + 1]
<1>1. /\ f # None /\ f.op = "fork" /\ f.step <= Len(ForkReads(f.options))
      /\ db' = db /\ DOMAIN f = ForkFields /\ f.step \in Nat \ {0} /\ ForkShaped(f)
      /\ DOMAIN task = Repositories
  BY DEF forkReads, Idle, IndInv, ForksAreSound, ShapeInv, SqliteTyped
<1>2. ShapedTables(t)
  BY NoTablesShaped DEF Source, ShapeInv
<1>3. what \in {"entries", "lanes", "tips", "main", "branch", "name", "labels"}
  BY <1>1 DEF ForkReads
<1>4. ForkShaped(g)
  <2>1. h = ForkRead(f, t, what) /\ Stepped(g, h)
    BY DEF Stepped
  <2>. HIDE DEF f, t, what, h, g
  <2>. QED  BY <1>1, <1>2, <1>3, <2>1, ForkReadShaped
<1>5. task' = [task EXCEPT ![r] = None] \/ task' = [task EXCEPT ![r] = g]
  BY DEF forkReads, Run
<1>. HIDE DEF g, h, what, t
<1>6. QuietTasks
  BY <1>1, <1>4, <1>5 DEF QuietTasks
<1>. QED  BY <1>1, <1>6, QuietShape

\* The transaction of a fork makes a session or throws.
LEMMA ForkIsNew ==
    ASSUME IndInv, ShapeInv, NEW r \in Repositories, fork(r)
    PROVE  ShapeInv' /\ MemoryStep
<1>. DEFINE f == task[r]
            u == Forked(f)
<1>1. f # None /\ f.op = "fork" /\ ForkShaped(f)
  BY DEF fork, Idle, ShapeInv
<1>2. QuietTasks
  BY DEF fork, Run, IndInv, SqliteTyped, QuietTasks
<1>3. \/ db' = db
      \/ db' = With(db, f.target, u) /\ f.target \notin DOMAIN db
  BY DEF fork, ForkThrows
<1>4. ShapedTables(u)
  BY <1>1, ForkedShaped
<1>. HIDE DEF u, f
<1>5. \A s \in DOMAIN db' : \/ s \in DOMAIN db /\ db'[s] = db[s]
                            \/ s \notin DOMAIN db /\ ShapedTables(db'[s])
  BY <1>3, <1>4 DEF With
<1>. QED  BY <1>2, <1>5, QuietShape

\* Deleting and repairing a session.
LEMMA DropIsQuiet ==
    ASSUME IndInv, ShapeInv, NEW r \in Repositories, delete(r) \/ repairBranchCache(r)
    PROVE  ShapeInv' /\ MemoryStep
<1>. DEFINE s == task[r].session
<1>1. QuietTasks
  BY DEF delete, repairBranchCache, Run, IndInv, SqliteTyped, QuietTasks
<1>2. CASE delete(r)
  <2>1. db' = Without(db, s) \/ db' = db
    BY <1>2 DEF delete
  <2>. HIDE DEF s
  <2>2. \A x \in DOMAIN db' : x \in DOMAIN db /\ db'[x] = db[x]
    BY <2>1 DEF Without
  <2>. QED  BY <1>1, <2>2, QuietShape
<1>3. CASE repairBranchCache(r)
  <2>1. \/ db' = db
        \/ s \in DOMAIN db /\ db' = [db EXCEPT ![s] = rebuildBranchCache(db[s])]
    BY <1>3 DEF repairBranchCache
  <2>. HIDE DEF s
  <2>2. CASE db' = db
    BY <1>1, <2>2, QuietShape
  <2>3. CASE s \in DOMAIN db /\ db' = [db EXCEPT ![s] = rebuildBranchCache(db[s])]
    <3>. DEFINE u == rebuildBranchCache(db[s])
    <3>1. ShapedTables(u) /\ View(u) = View(db[s])
      BY <2>3, RebuildSeen DEF ShapeInv
    <3>2. db' = [db EXCEPT ![s] = u] /\ s \in DOMAIN db
      BY <2>3
    <3>. HIDE DEF u
    <3>. QED  BY <1>1, <3>1, <3>2, ChangeShape
  <2>. QED  BY <2>1, <2>2, <2>3
<1>. QED  BY <1>2, <1>3

\* Every step.
LEMMA ShapeStep ==
    IndInv /\ ContentInv /\ ShapeInv /\ [Next]_vars => ShapeInv' /\ MemoryStep
<1>. SUFFICES ASSUME IndInv, ContentInv, ShapeInv, [Next]_vars PROVE ShapeInv' /\ MemoryStep
  OBVIOUS
<1>1. DOMAIN task = Repositories
  BY DEF IndInv, SqliteTyped
<1>2. ASSUME db' = db, QuietTasks PROVE ShapeInv' /\ MemoryStep
  BY <1>2, QuietShape
<1>3. ASSUME NEW o \in DOMAIN storages, StorageStep(o) PROVE ShapeInv' /\ MemoryStep
  <2>1. CASE writeCommits(o)
    BY <2>1, WriteIsCall
  <2>2. CASE ~ writeCommits(o)
    <3>1. db' = db /\ QuietTasks
      BY <1>1, <1>3, <2>2 DEF StorageStep, enqueueWrite, heartbeatFires, leaseIsLost,
         writeFails, heartbeatRuns, heartbeatFails, releaseRuns, releaseFails, QuietTasks
    <3>. QED  BY <1>2, <3>1
  <2>. QED  BY <2>1, <2>2
<1>4. ASSUME NEW r \in Repositories, RepositoryStep(r) PROVE ShapeInv' /\ MemoryStep
  <2>1. ASSUME NEW s \in Creatable, create(r, s) PROVE ShapeInv' /\ MemoryStep
    <3>1. s \notin DOMAIN db /\ db' = With(db, s, NoTables) /\ task' = task
      BY <2>1 DEF create
    <3>2. \A x \in DOMAIN db' : \/ x \in DOMAIN db /\ db'[x] = db[x]
                                \/ x \notin DOMAIN db /\ ShapedTables(db'[x])
      BY <3>1, NoTablesShaped DEF With
    <3>3. QuietTasks
      BY <3>1 DEF QuietTasks
    <3>. QED  BY <3>2, <3>3, QuietShape
  <2>2. ASSUME NEW s \in Sessions, open(r, s) PROVE ShapeInv' /\ MemoryStep
    BY <1>2, <2>2 DEF open, QuietTasks
  <2>3. ASSUME NEW op, NEW s, beginTask(r, op, s), op # "fork"
        PROVE  ShapeInv' /\ MemoryStep
    <3>. DEFINE new == [op |-> op, session |-> s]
    <3>1. db' = db /\ task' = [task EXCEPT ![r] = new] /\ new.op = op
      BY <2>3 DEF beginTask, Run
    <3>. HIDE DEF new
    <3>2. QuietTasks
      BY <1>1, <2>3, <3>1 DEF QuietTasks
    <3>. QED  BY <1>2, <3>1, <3>2
  <2>4. ASSUME NEW f \in Forks, beginFork(r, f) PROVE ShapeInv' /\ MemoryStep
    <3>. DEFINE g == [op |-> "fork", session |-> f.source, target |-> f.target,
                      options |-> f.options, step |-> 1, entries |-> <<>>,
                      lanes |-> <<>>, tips |-> {}, name |-> None, labels |-> <<>>]
    <3>1. task' = [task EXCEPT ![r] = g] /\ db' = db
      BY <2>4 DEF beginFork, Run
    <3>2. g.entries = <<>> /\ g.lanes = <<>> /\ g.name = None /\ g.labels = <<>>
      OBVIOUS
    <3>. HIDE DEF g
    <3>3. DOMAIN <<>> = {} /\ IsFiniteSet({})
      BY FS_EmptySet
    <3>4. ForkShaped(g)
      BY <3>2, <3>3 DEF ForkShaped
    <3>5. QuietTasks
      BY <1>1, <3>1, <3>4 DEF QuietTasks
    <3>. QED  BY <1>2, <3>1, <3>5
  <2>5. ASSUME release(r) \/ close(r) \/ crash(r) PROVE ShapeInv' /\ MemoryStep
    <3>1. db' = db /\ QuietTasks
      BY <1>1, <2>5 DEF release, close, crash, Run, QuietTasks
    <3>. QED  BY <1>2, <3>1
  <2>6. ASSUME \/ \E s \in Deletable : beginTask(r, "delete", s)
               \/ \E s \in Repairable : beginTask(r, "repair", s)
               \/ beginTask(r, "close", None)
        PROVE  ShapeInv' /\ MemoryStep
    <3>1. "delete" # "fork" /\ "repair" # "fork" /\ "close" # "fork"
      OBVIOUS
    <3>. QED  BY <2>3, <2>6, <3>1
  <2>. QED  BY <1>4, <2>1, <2>2, <2>4, <2>5, <2>6, DropIsQuiet, ReadIsQuiet, ForkIsNew
            DEF RepositoryStep
<1>5. ASSUME tick PROVE ShapeInv' /\ MemoryStep
  BY <1>2, <1>5 DEF tick, QuietTasks
<1>6. ASSUME UNCHANGED vars PROVE ShapeInv' /\ MemoryStep
  BY <1>2, <1>6 DEF vars, QuietTasks
<1>. QED  BY <1>3, <1>4, <1>5, <1>6 DEF Next

\* For any session of the database, any number of processes that write, fork,
\* repair, delete, lose their lease or die, and any writes, as long as no
\* session that callers fork is also deleted (the copy could have a lane at an
\* entry it lacks, which no MemoryStorage appends to): while the session
\* exists, its readers see only what a MemoryStorage could show them.  Every
\* committed write is one call of the in-memory storage that both its
\* validation and applyMutation accept, from the state the readers saw
\* before, and nothing else changes what they see
\* (appendEntry, appendRecord, createLane, moveLane, setName, setLabel and
\* repairBranchCache of the two storages).
THEOREM SqliteImplementsMemory ==
    ASSUME \A f \in Forks : f.source \notin Deletable
    PROVE  Spec => ImplementsMemory
<1>1. Init => ShapeInv
  BY DEF Init, ShapeInv
<1>2. IndInv /\ ContentInv /\ ShapeInv /\ [Next]_vars => ShapeInv' /\ [MemoryStep]_vars
  BY ShapeStep
<1>3. [MemoryStep]_vars =>
        [(session \in DOMAIN db /\ session \in DOMAIN db') =>
            \/ View(db'[session]) = View(db[session])
            \/ Memory!Next]_vars
  BY DEF MemoryStep
<1>. QED  BY <1>1, <1>2, <1>3, IndInvAlways, ContentAlways, PTL
          DEF Spec, ImplementsMemory
=============================================================================
