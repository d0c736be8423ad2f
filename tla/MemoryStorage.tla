---------------------------- MODULE MemoryStorage ----------------------------
(***************************************************************************)
(* InMemorySessionStorage (packages/agent/src/harness/session/memory.ts):  *)
(* every write of the SessionStorage interface checks and applies in one   *)
(* synchronous step.  It is also what a durable storage promises: the      *)
(* specification JsonlStorage is shown to implement.                       *)
(***************************************************************************)
EXTENDS SessionState

CONSTANT MaxSequence \* bound on the mutations of a session

ASSUME MaxSequenceAssumption == MaxSequence \in Nat

VARIABLE state

Init == state = InitialState

\* applyMutation checks the mutation once more before it changes anything.
Apply(m) == /\ state.sequence < MaxSequence
            /\ ValidMutation(state, m)
            /\ state' = applyMutation(state, m)

createLane(lane, at) ==
    /\ validateNewLane(state, lane)
    /\ validateTarget(state, at)
    /\ Apply(LaneMutation(nextSequence(state), lane, at))

moveLane(lane, to) ==
    /\ requireLane(state, lane)
    /\ validateTarget(state, to)
    /\ Apply(LaneMutation(nextSequence(state), lane, to))

appendEntry(id, type, lane) ==
    /\ requireLane(state, lane)
    /\ validateUnusedId(state, id)
    /\ Apply(EntryMutation(nextSequence(state), lane, id,
                           state.lanes[lane], type))

\* Mutant: any open operation is accepted, not only none.
appendRecordAnyway(id, type, lane, runId) ==
    /\ requireLane(state, lane)
    /\ validateUnusedId(state, id)
    /\ Apply(RecordMutation(nextSequence(state), lane, id, type, runId))
appendRecord(id, type, lane, runId) ==
    /\ requireLane(state, lane)
    /\ validateUnusedId(state, id)
    /\ type = "operation_started" => findOpenOperations(state, lane) = {}
    /\ Apply(RecordMutation(nextSequence(state), lane, id, type, runId))

setName(name) == Apply(NameMutation(nextSequence(state), name))

setLabel(id, label) ==
    /\ validateTarget(state, id)
    /\ Apply(LabelMutation(nextSequence(state), id, label))

Call(r) ==
    \/ r.op = "createLane"   /\ createLane(r.lane, r.at)
    \/ r.op = "moveLane"     /\ moveLane(r.lane, r.to)
    \/ r.op = "appendEntry"  /\ appendEntry(r.id, r.type, r.lane)
    \/ r.op = "appendRecord" /\ appendRecord(r.id, r.type, r.lane, r.runId)
    \/ r.op = "setName"      /\ setName(r.name)
    \/ r.op = "setLabel"     /\ setLabel(r.id, r.label)

Next == \E r \in Requests : Call(r)

Spec == Init /\ [][Next]_state

-----------------------------------------------------------------------------
(* Properties.                                                             *)

Entry == [parentId : Ids \cup {None}, type : EntryTypes,
          seq : Nat \ {0}]

\* The SessionState object has its declared shape.
StateTyped ==
    /\ state.sequence \in Nat
    /\ state.usedIds \subseteq Ids
    /\ DOMAIN state.entriesById \subseteq Ids
    /\ \A id \in DOMAIN state.entriesById : state.entriesById[id] \in Entry
    /\ "main" \in DOMAIN state.lanes /\ DOMAIN state.lanes \subseteq Lanes
    /\ \A l \in DOMAIN state.lanes : state.lanes[l] \in Ids \cup {None}
    /\ state.openOperationsByLane \in [Lanes -> SUBSET Ids]
    /\ state.name \in Values \cup {None}
    /\ DOMAIN state.labels \subseteq Ids
    /\ \A id \in DOMAIN state.labels : state.labels[id] \in Values

\* The entries form a forest whose parents are older than their children,
\* and lanes and labels point into it, whatever order lanes are created,
\* moved and written in (walkToRoot can neither dangle nor cycle).
TreeIsSound ==
    LET entries == state.entriesById
    IN  /\ \A id \in DOMAIN entries :
            LET p == entries[id].parentId
            IN  p # None => /\ p \in DOMAIN entries
                            /\ entries[p].seq < entries[id].seq
        /\ \A l \in DOMAIN state.lanes :
            state.lanes[l] \in DOMAIN entries \cup {None}
        /\ DOMAIN state.labels \subseteq DOMAIN entries

\* Two operations are never open on one lane: recovery reads two open starts
\* as corruption (findOpenOperations in types.ts).
OneOpenOperation ==
    \A l \in Lanes : \A a, b \in findOpenOperations(state, l) : a = b

\* The leaf a branch fork is asked for: without an entry that of "main", with
\* one its parent, unless the position says otherwise.
AskedLeaf(o) ==
    LET parent(id) == IF id = None THEN None ELSE state.entriesById[id].parentId
    IN  CASE o.entryId = None /\ o.position # "before" -> state.lanes["main"]
          [] o.entryId = None /\ o.position = "before" -> parent(state.lanes["main"])
          [] o.entryId # None /\ o.position = "at" -> o.entryId
          [] o.entryId # None /\ o.position # "at" -> parent(o.entryId)

\* fork is what o asks for.
Reproduces(o, fork) ==
    /\ o.scope = "tree" =>
        /\ DOMAIN fork.entriesById = DOMAIN state.entriesById
        /\ DOMAIN fork.lanes = DOMAIN state.lanes
        /\ \A l \in DOMAIN fork.lanes : fork.lanes[l] = state.lanes[l]
    /\ o.scope = "branch" =>
        /\ DOMAIN fork.entriesById = Range(Branch(state, AskedLeaf(o)))
        /\ DOMAIN fork.lanes = {"main"}
        /\ fork.lanes["main"] = AskedLeaf(o)
    /\ \A id \in DOMAIN fork.entriesById :
        /\ fork.entriesById[id].parentId = state.entriesById[id].parentId
        /\ fork.entriesById[id].type = state.entriesById[id].type
    /\ DOMAIN fork.labels = DOMAIN state.labels \cap DOMAIN fork.entriesById
    /\ \A id \in DOMAIN fork.labels : fork.labels[id] = state.labels[id]
    /\ fork.name = state.name
    /\ \A l \in Lanes : findOpenOperations(fork, l) = {}

\* A fork, for every option the repository accepts, is a valid session and
\* what was asked for.  A tree fork has every entry and every lane of its
\* source; a branch fork has the lane "main" alone, at the leaf asked for, and
\* the entries from the root to that leaf.  Both keep the parent, the type and
\* the label of every entry they copy and the name, with no operation open.
ForkReproducesBranch ==
    \A o \in ForkOptions :
        ValidForkTarget(state, o) =>
            LET fork == Replay(createForkMutations(state, o))
            IN  fork.ok /\ Reproduces(o, fork.state)

\* Entries are immutable and their ids are never used again.
EntriesAreImmutable ==
    [][\A id \in DOMAIN state.entriesById :
        /\ id \in DOMAIN state'.entriesById
        /\ state'.entriesById[id] = state.entriesById[id]]_state
=============================================================================
