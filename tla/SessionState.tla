---------------------------- MODULE SessionState ----------------------------
(***************************************************************************)
(* The in-memory model of one session                                      *)
(* (packages/agent/src/harness/session/state.ts): an immutable tree of     *)
(* entries, lanes that point at entries, lane records with the operations  *)
(* they open and close, and the name and label facts.  Every change is a   *)
(* mutation with the next sequence number.  This module has no variables:  *)
(* both storages keep a SessionState and change it only through it.        *)
(*                                                                         *)
(* Payloads, timestamps and token statistics are left out; a record's type *)
(* is kept where it opens or closes an operation.                          *)
(***************************************************************************)
EXTENDS Naturals, Sequences, FiniteSets, SequencesExt

CONSTANTS
    Ids,     \* ids of entries and records, one namespace
    Lanes,   \* lane names, "main" among them
    Values,  \* names and labels
    None,    \* null and undefined
    Requests \* the writes callers make of a storage

ASSUME IdsAssumption ==
    /\ None \notin Ids /\ None \notin Values /\ None \notin Lanes
    /\ None \notin {"before", "at"}
    /\ "main" \in Lanes

EntryTypes == {"message", "custom"}
RecordTypes == {"operation_started", "operation_finished", "usage"}

\* The calls of the SessionStorage interface that write.
IdOrNone == Ids \cup {None}
CreateLanes == [op : {"createLane"}, lane : Lanes, at : IdOrNone]
MoveLanes == [op : {"moveLane"}, lane : Lanes, to : IdOrNone]
AppendEntries == [op : {"appendEntry"}, id : Ids, type : EntryTypes,
                  lane : Lanes]
AppendRecords == [op : {"appendRecord"}, id : Ids, type : RecordTypes,
                  lane : Lanes, runId : IdOrNone]
SetNames == [op : {"setName"}, name : Values \cup {None}]
SetLabels == [op : {"setLabel"}, id : Ids, label : Values \cup {None}]

ASSUME RequestsAssumption ==
    Requests \subseteq CreateLanes \cup MoveLanes \cup AppendEntries
                    \cup AppendRecords \cup SetNames \cup SetLabels

\* new SessionState(): only the empty lane "main".
InitialState ==
    [sequence |-> 0, usedIds |-> {},
     entriesById |-> [id \in {} |-> None],
     lanes |-> [l \in {"main"} |-> None],
     openOperationsByLane |-> [l \in Lanes |-> {}],
     name |-> None, labels |-> [id \in {} |-> None]]

nextSequence(s) == s.sequence + 1

-----------------------------------------------------------------------------
(* The checks the storages make before they write.                         *)

requireLane(s, lane) == lane \in DOMAIN s.lanes
validateNewLane(s, lane) == lane \notin DOMAIN s.lanes
validateTarget(s, id) == id = None \/ id \in DOMAIN s.entriesById
validateUnusedId(s, id) == id \notin s.usedIds

\* The code returns them newest first; the callers modelled here ask only
\* whether there are any.
findOpenOperations(s, lane) == s.openOperationsByLane[lane]

-----------------------------------------------------------------------------
(* Mutations.                                                              *)

EntryMutation(seq, lane, id, parentId, type) ==
    [kind |-> "entry", seq |-> seq, lane |-> lane, id |-> id,
     parentId |-> parentId, type |-> type]
RecordMutation(seq, lane, id, type, runId) ==
    [kind |-> "record", seq |-> seq, lane |-> lane, id |-> id,
     type |-> type, runId |-> runId]
LaneMutation(seq, lane, leafId) ==
    [kind |-> "lane", seq |-> seq, lane |-> lane, leafId |-> leafId]
NameMutation(seq, name) ==
    [kind |-> "fact", fact |-> "name", seq |-> seq, name |-> name]
LabelMutation(seq, targetId, label) ==
    [kind |-> "fact", fact |-> "label", seq |-> seq,
     targetId |-> targetId, label |-> label]

\* f with x mapped to v; Map.set and Map.delete.
With(f, x, v) == [y \in DOMAIN f \cup {x} |-> IF y = x THEN v ELSE f[y]]
Without(f, x) == [y \in DOMAIN f \ {x} |-> f[y]]

\* applyMutation throws invalid_entry unless this holds.  An entry without a
\* lane is an imported one: it need not chain to a leaf and moves no lane.
ValidMutation(s, m) ==
    /\ m.seq = s.sequence + 1
    /\ \/ /\ m.kind = "entry"
          /\ m.id \notin s.usedIds
          /\ m.lane # None => /\ m.lane \in DOMAIN s.lanes
                              /\ m.parentId = s.lanes[m.lane]
          /\ m.parentId # None => m.parentId \in DOMAIN s.entriesById
       \/ /\ m.kind = "record"
          /\ m.lane \in DOMAIN s.lanes
          /\ m.id \notin s.usedIds
       \/ /\ m.kind = "lane"
          /\ m.leafId # None => m.leafId \in DOMAIN s.entriesById
       \/ /\ m.kind = "fact"
          /\ m.fact = "label" => m.targetId \in DOMAIN s.entriesById

\* Mutant: the id of an entry is not noted as used.
ApplyEntryUnnoted(s, m) ==
    [s EXCEPT !.sequence = m.seq,
              !.entriesById = With(@, m.id, [parentId |-> m.parentId,
                                             type |-> m.type, seq |-> m.seq]),
              !.lanes = IF m.lane = None THEN @ ELSE With(@, m.lane, m.id)]
ApplyEntry(s, m) ==
    [s EXCEPT !.sequence = m.seq,
              !.usedIds = @ \cup {m.id},
              !.entriesById = With(@, m.id, [parentId |-> m.parentId,
                                             type |-> m.type, seq |-> m.seq]),
              !.lanes = IF m.lane = None THEN @ ELSE With(@, m.lane, m.id)]

OpenOperations(open, m) ==
    CASE m.type = "operation_started"  -> open \cup {m.id}
      [] m.type = "operation_finished" -> open \ {m.runId}
      [] OTHER -> open

\* Mutant: a record becomes the leaf of its lane, as an entry does.
ApplyRecordAsLeaf(s, m) ==
    [s EXCEPT !.sequence = m.seq,
              !.usedIds = @ \cup {m.id},
              !.lanes = With(@, m.lane, m.id),
              !.openOperationsByLane[m.lane] = OpenOperations(@, m)]
ApplyRecord(s, m) ==
    [s EXCEPT !.sequence = m.seq,
              !.usedIds = @ \cup {m.id},
              !.openOperationsByLane[m.lane] = OpenOperations(@, m)]

ApplyLane(s, m) ==
    [s EXCEPT !.sequence = m.seq, !.lanes = With(@, m.lane, m.leafId)]

\* Mutant: clearing a label stores it instead of deleting it.
ApplyFactStored(s, m) ==
    IF m.fact = "name" THEN [s EXCEPT !.sequence = m.seq, !.name = m.name]
    ELSE [s EXCEPT !.sequence = m.seq,
                   !.labels = With(@, m.targetId, m.label)]
ApplyFact(s, m) ==
    IF m.fact = "name" THEN [s EXCEPT !.sequence = m.seq, !.name = m.name]
    ELSE [s EXCEPT !.sequence = m.seq,
                   !.labels = IF m.label = None THEN Without(@, m.targetId)
                              ELSE With(@, m.targetId, m.label)]

applyMutation(s, m) ==
    CASE m.kind = "entry"  -> ApplyEntry(s, m)
      [] m.kind = "record" -> ApplyRecord(s, m)
      [] m.kind = "lane"   -> ApplyLane(s, m)
      [] m.kind = "fact"   -> ApplyFact(s, m)

\* The element of a singleton.  Naming a recursive function's value through
\* it keeps TLC from computing the value again at every use.
Only(S) == CHOOSE x \in S : TRUE

\* Applying mutations one after another to a fresh state; ok is FALSE once
\* one of them is invalid.
ReplayStep(acc, m) ==
    IF acc.ok /\ ValidMutation(acc.state, m)
    THEN [ok |-> TRUE, state |-> applyMutation(acc.state, m)]
    ELSE [acc EXCEPT !.ok = FALSE]
Replay(mutations) ==
    LET after[n \in 0..Len(mutations)] ==
            IF n = 0 THEN [ok |-> TRUE, state |-> InitialState]
            ELSE Only({ReplayStep(acc, m) : acc \in {after[n - 1]},
                                            m \in {mutations[n]}})
    IN  after[Len(mutations)]

-----------------------------------------------------------------------------
(* Forking: the mutations that rebuild a branch or the whole tree.         *)

\* The ids from the root to start, by parentId (walkToRoot, oldest first).  A
\* parent is older than its children, so the walk takes at most as many steps
\* as there were mutations.
WalkStep(s, walk) ==
    IF walk.next = None THEN walk
    ELSE [next |-> s.entriesById[walk.next].parentId,
          ids  |-> <<walk.next>> \o walk.ids]
Branch(s, start) ==
    LET walk[n \in 0..s.sequence] ==
            IF n = 0 THEN [next |-> start, ids |-> <<>>]
            ELSE Only({WalkStep(s, w) : w \in {walk[n - 1]}})
    IN  walk[s.sequence].ids

\* The elements of seq that are in S, in their order: SelectSeq for a set,
\* which can be reasoned about where a test cannot.
Among(seq, S) ==
    LET upTo[n \in 0..Len(seq)] ==
            IF n = 0 THEN <<>>
            ELSE IF seq[n] \in S THEN Append(upTo[n - 1], seq[n])
                 ELSE upTo[n - 1]
    IN  upTo[Len(seq)]

\* findEntries({ order: "oldestFirst" }).
InSequenceOrder(s) ==
    LET ids     == DOMAIN s.entriesById
        numbers == Among([n \in 1..s.sequence |-> n],
                         {s.entriesById[id].seq : id \in ids})
    IN  [i \in 1..Len(numbers) |->
            CHOOSE id \in ids : s.entriesById[id].seq = numbers[i]]

ForkOptions ==
    [scope : {"tree"}]
        \cup [scope : {"branch"}, entryId : Ids \cup {None},
              position : {"before", "at", None}]

SelectedEntry(s, o) == IF o.entryId = None THEN s.lanes["main"] ELSE o.entryId

\* The options that do not throw invalid_fork_target.
ValidForkTarget(s, o) ==
    \/ o.scope = "tree"
    \/ SelectedEntry(s, o) = None
    \/ /\ SelectedEntry(s, o) \in DOMAIN s.entriesById
       /\ s.entriesById[SelectedEntry(s, o)].type = "message"

\* Mutant: an entry named without a position is copied too.
ForkTargetAt(s, o) ==
    LET selected == SelectedEntry(s, o)
    IN  IF selected = None \/ o.position # "before" THEN selected
        ELSE s.entriesById[selected].parentId
\* The new leaf of "main" in a branch fork.
ForkTarget(s, o) ==
    LET selected == SelectedEntry(s, o)
        at == o.position = "at" \/ (o.position = None /\ o.entryId = None)
    IN  IF selected = None \/ at THEN selected
        ELSE s.entriesById[selected].parentId

CopiedEntries(s, o) ==
    CASE o.scope = "tree" -> InSequenceOrder(s)
      [] OTHER -> Branch(s, ForkTarget(s, o))

\* The lanes of the fork; a Map's insertion order is some fixed order here.
ForkLanes(s, o) ==
    IF o.scope = "tree" THEN s.lanes
    ELSE [l \in {"main"} |-> ForkTarget(s, o)]

ForkLabels(s, o) ==
    Among(CopiedEntries(s, o), DOMAIN s.labels)

createForkMutations(s, o) ==
    LET ids    == CopiedEntries(s, o)
        lanes  == ForkLanes(s, o)
        names  == SetToSeq(DOMAIN lanes)
        labels == ForkLabels(s, o)
        n      == Len(ids) + Len(names)
        named  == IF s.name = None THEN 0 ELSE 1
    IN  [i \in 1..Len(ids) |->
            EntryMutation(i, None, ids[i], s.entriesById[ids[i]].parentId,
                          s.entriesById[ids[i]].type)]
        \o [i \in 1..Len(names) |->
            LaneMutation(Len(ids) + i, names[i], lanes[names[i]])]
        \o [i \in 1..named |-> NameMutation(n + 1, s.name)]
        \o [i \in 1..Len(labels) |->
            LabelMutation(n + named + i, labels[i], s.labels[labels[i]])]
=============================================================================
