---------------------------- MODULE SqliteStorage ----------------------------
(***************************************************************************)
(* The SQLite session backend (packages/session-backends/sqlite-node):     *)
(* repositories, each in a process of its own, that share one database.    *)
(* A repository keeps its open storages; a storage writes only under a     *)
(* writer lease, a row of the database with an expiry, which every write   *)
(* and a heartbeat renew.  Every transaction is BEGIN IMMEDIATE and        *)
(* synchronous, so it is one step; a fork's reads are statements of their  *)
(* own, between which another process may commit.                          *)
(*                                                                         *)
(* A session's tables are a record; branch_entries and branch_tips are the *)
(* cache of root-to-tip paths.  lane_moves and the contents of records are *)
(* only read back by queries and are left out; lease.expiresAtMs in memory *)
(* is never read, and is set even when the transaction rolls back, so the  *)
(* committed expiry (validUntil) is kept for the properties instead.       *)
(***************************************************************************)
EXTENDS SessionState

CONSTANTS
    Repositories,
    Sessions,
    Ttl,               \* writerLease.ttlMs
    HeartbeatInterval, \* writerLease.heartbeatIntervalMs
    Forks,             \* what callers ask for: forks,
    Creatable,         \*   sessions created,
    Deletable,         \*   sessions deleted
    Writable,          \*   sessions written to
    Repairable,        \*   and sessions whose cache is rebuilt
    MaxSequence,       \* bounds: writes of a session,
    MaxTime,           \*   ticks of the clock,
    MaxClaims,         \*   storages ever opened,
    MaxQueue           \*   calls waiting in a storage's queue

ASSUME LeaseAssumption ==
    /\ Ttl \in Nat /\ HeartbeatInterval \in Nat
    /\ 0 < HeartbeatInterval /\ HeartbeatInterval < Ttl
ASSUME SqliteBoundsAssumption ==
    /\ MaxSequence \in Nat /\ MaxTime \in Nat
    /\ MaxClaims \in Nat /\ MaxQueue \in Nat \ {0}
    /\ None \notin Sessions /\ None \notin Repositories
    /\ Creatable \subseteq Sessions /\ Deletable \subseteq Sessions
    /\ Writable \subseteq Sessions /\ Repairable \subseteq Sessions
    /\ Forks \subseteq [by : Repositories, source : Sessions,
                        target : Sessions, options : ForkOptions]

VARIABLES
    now,      \* Date.now(), one clock for all processes of the machine
    db,       \* db[s]: the tables of session s, for the sessions that exist
    leases,   \* writer_leases: leases[s] is its row or None
    storages, \* the active storages, by the owner id of their claim
    task,     \* task[r]: what repository r's operation queue is running
    claims,   \* number of owner ids drawn: uuidv7() never repeats
    lastClaim, \* history: the owner that last claimed each session
    lastWrite  \* history: owner and sequence of its last committed write

vars == <<now, db, leases, storages, task, claims, lastClaim, lastWrite>>

-----------------------------------------------------------------------------
(* The tables of one session.                                              *)

NoTables ==
    [nextSeq |-> 1, entries |-> <<>>, records |-> {},
     lanes |-> [l \in {"main"} |-> [leafId |-> None, open |-> None]],
     facts |-> <<>>, branches |-> <<>>, tips |-> <<>>, messages |-> 0]

readLatestFact(t, kind, key) ==
    LET rows == {i \in DOMAIN t.facts :
                    t.facts[i].kind = kind /\ t.facts[i].key = key}
    IN  IF rows = {} THEN None ELSE t.facts[Max(rows)].value
appendFact(t, kind, key, value) ==
    Append(t.facts, [kind |-> kind, key |-> key, value |-> value])

\* The session the tables stand for, as the readers of the storage see it.
View(t) ==
    LET labelled == {id \in Ids : readLatestFact(t, "label", id) # None}
    IN  [sequence |-> t.nextSeq - 1,
         usedIds |-> DOMAIN t.entries \cup t.records,
         entriesById |-> t.entries,
         lanes |-> [l \in DOMAIN t.lanes |-> t.lanes[l].leafId],
         openOperationsByLane |->
            [l \in Lanes |-> IF l \in DOMAIN t.lanes
                             THEN {t.lanes[l].open} \ {None} ELSE {}],
         name |-> readLatestFact(t, "name", None),
         labels |-> [id \in labelled |-> readLatestFact(t, "label", id)]]

\* The entries alone, for walks over their parents.
Tree(t) == [entriesById |-> t.entries, sequence |-> t.nextSeq - 1]

\* Branch ids are uuidv7: time-ordered, so the least is the oldest.
newBranchId(t) == Cardinality(DOMAIN t.branches) + 1
readBranchesContaining(t, id) ==
    {b \in DOMAIN t.branches : id \in t.branches[b]}
through(t, b, id) ==
    {e \in t.branches[b] : t.entries[e].seq <= t.entries[id].seq}
\* Mutant: the copy misses the parent itself.
throughExclusive(t, b, id) ==
    {e \in t.branches[b] : t.entries[e].seq < t.entries[id].seq}
copyBranchEntriesThroughSeq(t, b, id) == through(t, b, id)

\* appendEntryToBranchCache: a root starts a branch, a child of a tip extends
\* that branch, any other child copies a branch that holds its parent.
addToCache(t, branchId, ids, tip) ==
    [t EXCEPT !.branches = With(@, branchId, ids),
              !.tips = With(@, branchId, tip)]
tipBranches(t, id) == {b \in DOMAIN t.tips : t.tips[b] = id}
appendEntryToBranchCache(t, id, parentId) ==
    IF parentId = None THEN addToCache(t, newBranchId(t), {id}, id)
    ELSE IF tipBranches(t, parentId) # {}
    THEN LET b == CHOOSE x \in tipBranches(t, parentId) : TRUE
         IN  addToCache(t, b, t.branches[b] \cup {id}, id)
    ELSE LET b == Min(readBranchesContaining(t, parentId))
         IN  addToCache(t, newBranchId(t),
                copyBranchEntriesThroughSeq(t, b, parentId) \cup {id}, id)

\* Building the cache from the entries' parents, one branch per tip.
withBranches(t, tips) ==
    [t EXCEPT !.branches =
                [i \in DOMAIN tips |-> Range(Branch(Tree(t), tips[i]))],
              !.tips = tips]
rebuildBranchCache(t) ==
    LET parents == {t.entries[e].parentId : e \in DOMAIN t.entries}
    IN  withBranches(t, Among(InSequenceOrder(Tree(t)),
                              DOMAIN t.entries \ parents))

-----------------------------------------------------------------------------
(* The writes of the storage: when their transaction throws and what it    *)
(* commits.                                                                *)

advanceSequence(t) == [t EXCEPT !.nextSeq = @ + 1]
entryExists(t, id) == id = None \/ id \in DOMAIN t.entries
\* Mutant: ids of records may be used again.
idExistsInEntries(t, id) == id \in DOMAIN t.entries
idExists(t, id) == id \in DOMAIN t.entries \cup t.records

writeCreateLane(t, r) ==
    [t EXCEPT !.lanes = With(@, r.lane, [leafId |-> r.at, open |-> None])]
writeMoveLane(t, r) == [t EXCEPT !.lanes[r.lane].leafId = r.to]
writeEntry(t, r) ==
    LET parent == t.lanes[r.lane].leafId
        stored == [t EXCEPT
            !.entries = With(@, r.id, [parentId |-> parent, type |-> r.type,
                                       seq |-> t.nextSeq]),
            !.lanes[r.lane].leafId = r.id,
            !.messages = IF r.type = "message" THEN @ + 1 ELSE @]
    IN  appendEntryToBranchCache(stored, r.id, parent)
startLaneOperation(t, r) == t.lanes[r.lane].open = None
finishLaneOperation(open, r) == IF open = r.runId THEN None ELSE open
writeRecord(t, r) ==
    [t EXCEPT !.records = @ \cup {r.id},
              !.lanes[r.lane].open =
                CASE r.type = "operation_started"  -> r.id
                  [] r.type = "operation_finished" -> finishLaneOperation(@, r)
                  [] OTHER -> @]

\* The writes that do not throw.
Accepts(t, r) ==
    CASE r.op = "createLane"   -> /\ r.lane \notin DOMAIN t.lanes
                                  /\ entryExists(t, r.at)
      [] r.op = "moveLane"     -> /\ r.lane \in DOMAIN t.lanes
                                  /\ entryExists(t, r.to)
      [] r.op = "appendEntry"  ->
            /\ r.lane \in DOMAIN t.lanes
            /\ ~idExists(t, r.id)
            /\ LET parent == t.lanes[r.lane].leafId
               IN  parent # None => /\ entryExists(t, parent)
                                    /\ readBranchesContaining(t, parent) # {}
      [] r.op = "appendRecord" ->
            /\ r.lane \in DOMAIN t.lanes
            /\ ~idExists(t, r.id)
            /\ r.type = "operation_started" => startLaneOperation(t, r)
      [] r.op = "setName"      -> TRUE
      [] r.op = "setLabel"     -> entryExists(t, r.id)

Written(t, r) ==
    advanceSequence(
        CASE r.op = "createLane"   -> writeCreateLane(t, r)
          [] r.op = "moveLane"     -> writeMoveLane(t, r)
          [] r.op = "appendEntry"  -> writeEntry(t, r)
          [] r.op = "appendRecord" -> writeRecord(t, r)
          [] r.op = "setName"      ->
                [t EXCEPT !.facts = appendFact(t, "name", None, r.name)]
          [] r.op = "setLabel"     ->
                [t EXCEPT !.facts = appendFact(t, "label", r.id, r.label)])

-----------------------------------------------------------------------------
(* Writer leases.                                                          *)

\* A row of writer_leases; None, the absence of one, is not a row.
LeaseRow == [owner : Nat \ {0}, fence : Nat \ {0}, expiresAt : Nat]
ASSUME LeaseRowAssumption == None \notin LeaseRow

\* The row acquireWriterLease may take: none, or an expired one.
canAcquire(s) == leases[s] # None => leases[s].expiresAt <= now
\* Mutant: the fence counts takeovers from 0.
acquireFromZero(s, owner) ==
    [owner |-> owner, expiresAt |-> now + Ttl,
     fence |-> IF leases[s] = None THEN 0 ELSE leases[s].fence + 1]
acquireWriterLease(s, owner) ==
    [owner |-> owner, expiresAt |-> now + Ttl,
     fence |-> IF leases[s] = None THEN 1 ELSE leases[s].fence + 1]

\* The row is this storage's and has not expired.
ownsLease(row, o, st) ==
    row # None /\ row.owner = o /\ row.fence = st.fence
\* Mutant: the fence alone tells the owners apart.
renewByFence(o) ==
    LET row == leases[storages[o].session]
    IN  row # None /\ row.fence = storages[o].fence /\ row.expiresAt > now
canRenew(o) ==
    LET row == leases[storages[o].session]
    IN  ownsLease(row, o, storages[o]) /\ row.expiresAt > now

\* A claim of session s by repository r: a new owner, its storage with the
\* heartbeat scheduled.
claimWriterLease(r, s) ==
    LET owner == claims + 1
        row   == acquireWriterLease(s, owner)
    IN  /\ claims < MaxClaims
        /\ canAcquire(s)
        /\ claims' = owner
        /\ leases' = [leases EXCEPT ![s] = row]
        /\ lastClaim' = [lastClaim EXCEPT ![s] = owner]
        /\ storages' = With(storages, owner,
                [repo |-> r, session |-> s, fence |-> row.fence,
                 queue |-> <<>>, closing |-> FALSE, leaseError |-> FALSE,
                 timer |-> now + HeartbeatInterval,
                 validUntil |-> row.expiresAt])

\* A repository's storages; claimSession and create add to it.
activeStorages(r) == {o \in DOMAIN storages : storages[o].repo = r}
activeFor(r, s) == {o \in activeStorages(r) : storages[o].session = s}

-----------------------------------------------------------------------------
(* A storage: calls are queued, and each runs as one transaction.          *)

\* enqueueWrite; a closing storage rejects at once.
enqueueWrite(o, request) ==
    /\ storages[o].session \in Writable
    /\ ~storages[o].closing
    /\ Len(storages[o].queue) < MaxQueue
    /\ storages[o].session \in DOMAIN db
        => db[storages[o].session].nextSeq <= MaxSequence
    /\ storages' = [storages EXCEPT ![o].queue = Append(@, request)]
    /\ UNCHANGED <<now, db, leases, task, claims, lastClaim, lastWrite>>

\* The heartbeat timer fires, any time after it is due.
heartbeatFires(o) ==
    /\ storages[o].timer # None
    /\ storages[o].timer <= now
    /\ storages' = [storages EXCEPT ![o].timer = None,
                                    ![o].queue = Append(@, [op |-> "heartbeat"])]
    /\ UNCHANGED <<now, db, leases, task, claims, lastClaim, lastWrite>>

Head1(o) == Head(storages[o].queue)
Dequeued(o) == [storages[o] EXCEPT !.queue = Tail(@)]
Renewed(o) ==
    [leases EXCEPT ![storages[o].session].expiresAt = now + Ttl]
IsWrite(o) == Head1(o).op \notin {"heartbeat", "release"}

\* A write whose transaction renews the lease and commits.
writeCommits(o) ==
    LET s == storages[o].session
    IN  /\ storages[o].queue # <<>> /\ IsWrite(o)
        /\ ~storages[o].leaseError
        /\ canRenew(o)
        /\ db[s].nextSeq <= MaxSequence
        /\ Accepts(db[s], Head1(o))
        /\ db' = [db EXCEPT ![s] = Written(db[s], Head1(o))]
        /\ leases' = Renewed(o)
        /\ lastWrite' = [lastWrite EXCEPT ![s] = <<o, db[s].nextSeq>>]
        /\ storages' = [storages EXCEPT ![o] =
                [Dequeued(o) EXCEPT !.validUntil = now + Ttl]]
        /\ UNCHANGED <<now, task, claims, lastClaim>>

\* A write that finds its lease gone: the storage never writes again.
leaseIsLost(o) ==
    /\ storages[o].queue # <<>> /\ IsWrite(o)
    /\ ~storages[o].leaseError
    /\ ~canRenew(o)
    /\ storages' = [storages EXCEPT ![o] =
            [Dequeued(o) EXCEPT !.leaseError = TRUE, !.timer = None]]
    /\ UNCHANGED <<now, db, leases, task, claims, lastClaim, lastWrite>>

\* A write that throws: the lease was lost before, the write is refused, or
\* the database fails.  The transaction, renewal included, is rolled back.
writeFails(o) ==
    /\ storages[o].queue # <<>> /\ IsWrite(o)
    /\ storages' = [storages EXCEPT ![o] = Dequeued(o)]
    /\ UNCHANGED <<now, db, leases, task, claims, lastClaim, lastWrite>>

\* scheduleHeartbeat, after the heartbeat of a storage ran or failed.
scheduleHeartbeat(st) ==
    IF st.closing \/ st.leaseError THEN st
    ELSE [st EXCEPT !.timer = now + HeartbeatInterval]

heartbeatRuns(o) ==
    LET st == storages[o]
    IN  /\ st.queue # <<>> /\ Head1(o).op = "heartbeat"
        /\ IF st.closing \/ st.leaseError
           THEN /\ leases' = leases
                /\ storages' = [storages EXCEPT ![o] = Dequeued(o)]
           ELSE IF canRenew(o)
           THEN /\ leases' = Renewed(o)
                /\ storages' = [storages EXCEPT ![o] = scheduleHeartbeat(
                        [Dequeued(o) EXCEPT !.validUntil = now + Ttl])]
           ELSE /\ leases' = leases
                /\ storages' = [storages EXCEPT ![o] =
                        [Dequeued(o) EXCEPT !.leaseError = TRUE]]
        /\ UNCHANGED <<now, db, task, claims, lastClaim, lastWrite>>

\* The database is busy: the failure is swallowed and the timer set again.
heartbeatFails(o) ==
    /\ storages[o].queue # <<>> /\ Head1(o).op = "heartbeat"
    /\ ~storages[o].closing /\ ~storages[o].leaseError
    /\ storages' = [storages EXCEPT ![o] = scheduleHeartbeat(Dequeued(o))]
    /\ UNCHANGED <<now, db, leases, task, claims, lastClaim, lastWrite>>

\* releaseWriterLease: the row goes only if it is still this owner's.
\* Mutant: whoever holds the row.
releaseAnyLease(o) == [leases EXCEPT ![storages[o].session] = None]
releaseWriterLease(o) ==
    LET s == storages[o].session
    IN  IF ownsLease(leases[s], o, storages[o])
        THEN [leases EXCEPT ![s] = None] ELSE leases

\* The queued release: the storage is dropped whether it succeeds or not.
releaseRuns(o) ==
    /\ storages[o].queue # <<>> /\ Head1(o).op = "release"
    /\ leases' = releaseWriterLease(o)
    /\ storages' = Without(storages, o)
    /\ UNCHANGED <<now, db, task, claims, lastClaim, lastWrite>>

\* It throws: the lease stays until it expires and the call that awaits the
\* release is rejected.
releaseFails(o) ==
    /\ storages[o].queue # <<>> /\ Head1(o).op = "release"
    /\ storages' = Without(storages, o)
    /\ task' = [task EXCEPT ![storages[o].repo] = None]
    /\ UNCHANGED <<now, db, leases, claims, lastClaim, lastWrite>>

-----------------------------------------------------------------------------
(* A repository: create, open, delete, repair, fork and close, one at a    *)
(* time.  (close only waits for the queue; callers are taken not to open   *)
(* sessions while they close.)                                             *)

Idle(r) == task[r] = None
Run(r, t) == task' = [task EXCEPT ![r] = t]

create(r, s) ==
    /\ Idle(r) /\ s \notin DOMAIN db
    /\ claimWriterLease(r, s)
    /\ db' = With(db, s, NoTables)
    /\ UNCHANGED <<now, task, lastWrite>>

\* claimSession; a session the repository has open is handed out again,
\* which changes nothing.
open(r, s) ==
    /\ Idle(r) /\ activeFor(r, s) = {}
    /\ s \in DOMAIN db
    /\ claimWriterLease(r, s)
    /\ UNCHANGED <<now, db, task, lastWrite>>

beginTask(r, op, s) ==
    /\ Idle(r)
    /\ Run(r, [op |-> op, session |-> s])
    /\ UNCHANGED <<now, db, leases, storages, claims, lastClaim, lastWrite>>

\* The storages a delete, repair or close releases first, one by one.
Releasing(r) ==
    CASE task[r].op = "close" -> activeStorages(r)
      [] task[r].op \in {"delete", "repair"} -> activeFor(r, task[r].session)
      [] OTHER -> {}

\* finishRelease: no more writes or heartbeats, and the release is queued
\* behind the writes already accepted.
release(r) ==
    /\ ~Idle(r) /\ Releasing(r) # {}
    /\ LET o == Min(Releasing(r))
       IN  /\ ~storages[o].closing
           /\ storages' = [storages EXCEPT
                ![o].closing = TRUE, ![o].timer = None,
                ![o].queue = Append(@, [op |-> "release"])]
    /\ UNCHANGED <<now, db, leases, task, claims, lastClaim, lastWrite>>

Released(r, op) == ~Idle(r) /\ task[r].op = op /\ Releasing(r) = {}

\* delete claims the session in the transaction that removes it; with another
\* writer active it throws.
delete(r) ==
    /\ Released(r, "delete")
    /\ LET s == task[r].session
       IN  IF s \notin DOMAIN db \/ canAcquire(s)
           THEN /\ db' = Without(db, s)
                /\ leases' = [leases EXCEPT ![s] = None]
           ELSE UNCHANGED <<db, leases>>
    /\ Run(r, None)
    /\ UNCHANGED <<now, storages, claims, lastClaim, lastWrite>>

repairBranchCache(r) ==
    /\ Released(r, "repair")
    /\ LET s == task[r].session
       IN  IF canAcquire(s) /\ s \in DOMAIN db
           THEN /\ db' = [db EXCEPT ![s] = rebuildBranchCache(@)]
                /\ leases' = [leases EXCEPT ![s] = None]
           ELSE UNCHANGED <<db, leases>>
    /\ Run(r, None)
    /\ UNCHANGED <<now, storages, claims, lastClaim, lastWrite>>

close(r) ==
    /\ Released(r, "close")
    /\ Run(r, None)
    /\ UNCHANGED <<now, db, leases, storages, claims, lastClaim, lastWrite>>

\* fork reads the source statement by statement, without a lease.
beginFork(r, f) ==
    /\ f.by = r /\ Idle(r)
    /\ f.source \in DOMAIN db /\ f.target \notin DOMAIN db
    /\ Run(r, [op |-> "fork", session |-> f.source, target |-> f.target,
               options |-> f.options, step |-> 1, entries |-> <<>>,
               lanes |-> <<>>, tips |-> {}, name |-> None, labels |-> <<>>])
    /\ UNCHANGED <<now, db, leases, storages, claims, lastClaim, lastWrite>>

ForkReads(o) ==
    IF o.scope = "tree" THEN <<"entries", "lanes", "tips", "name", "labels">>
    ELSE <<"main", "branch", "name", "labels">>

\* Rows of entries, oldest first.
Rows(t, ids) ==
    LET sorted == Among(InSequenceOrder(Tree(t)), ids)
    IN  [i \in DOMAIN sorted |->
            [id |-> sorted[i], type |-> t.entries[sorted[i]].type,
             parentId |-> t.entries[sorted[i]].parentId]]

\* The rows of the branch that ends at the target, from the cache: the entry,
\* the cached branch it is on and the rows of that branch.  The three reads are
\* one step, since no row they look at ever changes; a row they look for may be
\* gone (BranchIsLost).
readBranch(f, t, target) ==
    [f EXCEPT !.lanes = [l \in {"main"} |-> target],
              !.entries = IF target = None THEN <<>>
                          ELSE Rows(t, through(t,
                                Min(readBranchesContaining(t, target)), target)),
              !.tips = {target} \ {None}]
readTarget(f, t) ==
    ForkTarget([View(t) EXCEPT !.lanes = f.lanes], f.options)
ReadThrows(f, t, what) ==
    \/ what = "main" /\ "main" \notin DOMAIN t.lanes
    \/ /\ what = "branch"
       /\ \/ ~ValidForkTarget([View(t) EXCEPT !.lanes = f.lanes], f.options)
          \/ LET target == readTarget(f, t)
             IN  target # None /\ readBranchesContaining(t, target) = {}

\* A session deleted meanwhile reads as empty tables.
Source(r) ==
    IF task[r].session \in DOMAIN db
    THEN db[task[r].session] ELSE [NoTables EXCEPT !.lanes = <<>>]

\* Between the reads of a branch another process repairs the session, which
\* gives its branches new ids, or deletes it: the read that follows finds no
\* rows, and the fork throws then or for want of its tip.
BranchIsLost(r, what) ==
    /\ what = "branch" /\ readTarget(task[r], Source(r)) # None
    /\ task[r].session \in Repairable \cup Deletable
    /\ Repositories # {r}

\* The fork f after one more read of the tables t.
ForkRead(f, t, what) ==
    LET v == View(t)
    IN  CASE what = "entries" -> [f EXCEPT !.entries = Rows(t, DOMAIN t.entries)]
          [] what = "lanes"   -> [f EXCEPT !.lanes = v.lanes]
          [] what = "tips"    -> [f EXCEPT !.tips = Range(t.tips)]
          [] what = "main"    ->
                [f EXCEPT !.lanes = [l \in {"main"} |-> v.lanes["main"]]]
          [] what = "branch"  -> readBranch(f, t, readTarget(f, t))
          [] what = "name"    -> [f EXCEPT !.name = v.name]
          [] what = "labels"  -> [f EXCEPT !.labels = v.labels]

forkReads(r) ==
    /\ ~Idle(r) /\ task[r].op = "fork"
    /\ task[r].step <= Len(ForkReads(task[r].options))
    /\ LET what == ForkReads(task[r].options)[task[r].step]
       IN  \/ /\ ReadThrows(task[r], Source(r), what) \/ BranchIsLost(r, what)
              /\ Run(r, None)
           \/ /\ ~ReadThrows(task[r], Source(r), what)
              /\ Run(r, [ForkRead(task[r], Source(r), what) EXCEPT !.step = @ + 1])
    /\ UNCHANGED <<now, db, leases, storages, claims, lastClaim, lastWrite>>

\* The tables of the fork: the rows renumbered, then lanes (those of a tree
\* take sequence numbers, the initial lane of a branch does not), name and
\* labels (of a branch, those of copied entries), and the branch cache.
Forked(f) ==
    LET ids    == {f.entries[i].id : i \in DOMAIN f.entries}
        row    == [id \in ids |-> CHOOSE i \in DOMAIN f.entries :
                                     f.entries[i].id = id]
        keys   == SetToSeq({id \in DOMAIN f.labels :
                                f.options.scope = "tree" \/ id \in ids})
        names  == IF f.name = None THEN <<>>
                  ELSE <<[kind |-> "name", key |-> None, value |-> f.name]>>
        lanes  == IF f.options.scope = "tree"
                  THEN Cardinality(DOMAIN f.lanes) ELSE 0
        tables == [NoTables EXCEPT
            !.entries = [id \in ids |->
                [parentId |-> f.entries[row[id]].parentId,
                 type |-> f.entries[row[id]].type, seq |-> row[id]]],
            !.lanes = [l \in DOMAIN f.lanes |->
                [leafId |-> f.lanes[l], open |-> None]],
            !.facts = names \o [i \in DOMAIN keys |->
                [kind |-> "label", key |-> keys[i],
                 value |-> f.labels[keys[i]]]],
            !.messages = Cardinality({i \in DOMAIN f.entries :
                                        f.entries[i].type = "message"}),
            !.nextSeq = 1 + Cardinality(ids) + lanes + Len(names) + Len(keys)]
    IN  withBranches(tables, SetToSeq(f.tips))

\* The transaction throws when the id was taken meanwhile or a tip is not
\* among the copied entries.
ForkThrows(f) ==
    \/ f.target \in DOMAIN db
    \/ ~(f.tips \subseteq {f.entries[i].id : i \in DOMAIN f.entries})

fork(r) ==
    /\ ~Idle(r) /\ task[r].op = "fork"
    /\ task[r].step > Len(ForkReads(task[r].options))
    /\ IF ForkThrows(task[r])
       THEN UNCHANGED <<db, leases, storages, claims, lastClaim>>
       ELSE /\ claimWriterLease(r, task[r].target)
            /\ db' = With(db, task[r].target, Forked(task[r]))
    /\ Run(r, None)
    /\ UNCHANGED <<now, lastWrite>>

-----------------------------------------------------------------------------
(* The processes and the clock.                                            *)

\* A process dies: its memory is gone, its leases stay until they expire.
\* The next operation of the repository is a restarted process's.
crash(r) ==
    /\ storages' = [o \in DOMAIN storages \ activeStorages(r) |-> storages[o]]
    /\ Run(r, None)
    /\ ~Idle(r) \/ activeStorages(r) # {}
    /\ UNCHANGED <<now, db, leases, claims, lastClaim, lastWrite>>

tick ==
    /\ now < MaxTime
    /\ now' = now + 1
    /\ UNCHANGED <<db, leases, storages, task, claims, lastClaim, lastWrite>>

Init ==
    /\ now = 0
    /\ db = <<>>
    /\ leases = [s \in Sessions |-> None]
    /\ storages = <<>>
    /\ task = [r \in Repositories |-> None]
    /\ claims = 0
    /\ lastClaim = [s \in Sessions |-> 0]
    /\ lastWrite = [s \in Sessions |-> <<0, 0>>]

StorageStep(o) ==
    \/ \E request \in Requests : enqueueWrite(o, request)
    \/ heartbeatFires(o)
    \/ writeCommits(o)
    \/ leaseIsLost(o)
    \/ writeFails(o)
    \/ heartbeatRuns(o)
    \/ heartbeatFails(o)
    \/ releaseRuns(o)
    \/ releaseFails(o)

RepositoryStep(r) ==
    \/ \E s \in Creatable : create(r, s)
    \/ \E s \in Sessions : open(r, s)
    \/ \E s \in Deletable : beginTask(r, "delete", s)
    \/ \E s \in Repairable : beginTask(r, "repair", s)
    \/ beginTask(r, "close", None)
    \/ \E f \in Forks : beginFork(r, f)
    \/ release(r)
    \/ delete(r)
    \/ repairBranchCache(r)
    \/ close(r)
    \/ forkReads(r)
    \/ fork(r)
    \/ crash(r)

Next ==
    \/ \E o \in DOMAIN storages : StorageStep(o)
    \/ \E r \in Repositories : RepositoryStep(r)
    \/ tick

Spec == Init /\ [][Next]_vars

-----------------------------------------------------------------------------
(* Properties.                                                             *)

Queued == Requests \cup [op : {"heartbeat", "release"}]
Storage == [repo : Repositories, session : Sessions, fence : Nat \ {0},
            queue : Seq(Queued), closing : BOOLEAN, leaseError : BOOLEAN,
            timer : Nat \cup {None}, validUntil : Nat]

\* The shapes of the lease rows and of the storages in memory.
SqliteTyped ==
    /\ now \in 0..MaxTime /\ claims \in 0..MaxClaims
    /\ \A s \in Sessions : leases[s] \in LeaseRow \cup {None}
    /\ DOMAIN storages \subseteq 1..claims
    /\ \A o \in DOMAIN storages : storages[o] \in Storage
    /\ DOMAIN task = Repositories

\* Until the expiry its owner last committed has passed, the session and the
\* lease row of an open storage are its own: no claim, takeover, repair,
\* deletion, stale release or restart of another process takes them away.
LeaseIsKept ==
    \A o \in DOMAIN storages :
        LET st == storages[o]
        IN  now < st.validUntil =>
                /\ st.session \in DOMAIN db
                /\ ownsLease(leases[st.session], o, st)
                /\ leases[st.session].expiresAt = st.validUntil

\* Once a later owner has claimed a session, no write of an earlier one is
\* ever committed to it, however late its queued calls and heartbeats run and
\* although releasing a lease lets the fence start again at 1.
WritesAreFenced ==
    [][\A s \in Sessions :
        lastWrite'[s] # lastWrite[s] => lastWrite'[s][1] >= lastClaim[s]]_vars

\* The tables that only repeat what the entries say agree with them: the
\* cached branch of every tip is the walk over its parents, every entry a
\* lane, parent or fork can name is on a cached branch, and message_count is
\* the number of messages.
DerivedTablesMatch ==
    \A s \in DOMAIN db :
        LET t == db[s]
        IN  /\ DOMAIN t.tips = DOMAIN t.branches
            /\ \A b \in DOMAIN t.branches :
                t.branches[b] = Range(Branch(Tree(t), t.tips[b]))
            /\ \A id \in DOMAIN t.entries : readBranchesContaining(t, id) # {}
            /\ \A l \in DOMAIN t.lanes : entryExists(t, t.lanes[l].leafId)
            /\ t.messages = Cardinality({id \in DOMAIN t.entries :
                                            t.entries[id].type = "message"})
=============================================================================
