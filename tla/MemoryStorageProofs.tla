------------------------ MODULE MemoryStorageProofs ------------------------
(***************************************************************************)
(* Proofs about MemoryStorage, for every set of ids, lanes and requests    *)
(* and every number of mutations: the session tree is sound, at most one   *)
(* operation is open on a lane, entries never change, and a fork           *)
(* reproduces what it was asked for.  TreeIsSound is not inductive: that a *)
(* new entry is younger than its parent needs every entry to be no younger *)
(* than the session's sequence number, and that it replaces no entry needs *)
(* every entry's id to be a used one.  Good, of SessionStateProofs, says   *)
(* that and the rest of what a session satisfies; a storage only has to    *)
(* show that what it writes are mutations applyMutation accepts.           *)
(***************************************************************************)
EXTENDS MemoryStorage, SessionStateProofs

\* The inductive invariant.
IndInv == Good(state) /\ OneOpenOperation

\* A new session satisfies it.
LEMMA IndInvInit == Init => IndInv
<1>. SUFFICES ASSUME Init PROVE IndInv
  OBVIOUS
<1>1. Good(state)
  BY GoodInit DEF Init
<1>2. OneOpenOperation
  BY DEF Init, InitialState, OneOpenOperation, findOpenOperations
<1>. QED  BY <1>1, <1>2 DEF IndInv

\* A request of one of the six kinds has the arguments of that kind.
LEMMA RequestTyped ==
    ASSUME NEW r \in Requests
    PROVE  /\ r.op = "createLane" => r.lane \in Lanes /\ r.at \in IdOrNone
           /\ r.op = "moveLane" => r.lane \in Lanes /\ r.to \in IdOrNone
           /\ r.op = "appendEntry" => /\ r.id \in Ids /\ r.type \in EntryTypes
                                      /\ r.lane \in Lanes
           /\ r.op = "appendRecord" => /\ r.id \in Ids /\ r.type \in RecordTypes
                                       /\ r.lane \in Lanes /\ r.runId \in IdOrNone
           /\ r.op = "setName" => r.name \in Values \cup {None}
           /\ r.op = "setLabel" => r.id \in Ids /\ r.label \in Values \cup {None}
BY RequestsAssumption DEF CreateLanes, MoveLanes, AppendEntries, AppendRecords,
   SetNames, SetLabels

\* m is written: applyMutation accepts it, and a record that starts an
\* operation finds none open.
Written(m) ==
    /\ m \in Mutation /\ ValidMutation(state, m)
    /\ state' = applyMutation(state, m)
    /\ m.kind = "record" /\ m.type = "operation_started" =>
            findOpenOperations(state, m.lane) = {}

\* A lane is created or moved (createLane, moveLane).
LEMMA LaneWritten ==
    ASSUME Good(state), NEW lane \in Lanes, NEW leaf \in IdOrNone,
           validateTarget(state, leaf),
           Apply(LaneMutation(nextSequence(state), lane, leaf))
    PROVE  \E m : Written(m)
<1>. DEFINE n == state.sequence + 1
            m == LaneMutation(n, lane, leaf)
<1>1. n \in Nat /\ state' = applyMutation(state, m)
  BY DEF Good, Apply, nextSequence
<1>2. m = [kind |-> "lane", seq |-> n, lane |-> lane, leafId |-> leaf]
  BY DEF LaneMutation
<1>. HIDE DEF m
<1>3. ValidMutation(state, m)
  BY <1>2 DEF ValidMutation, validateTarget
<1>. HIDE DEF n
<1>4. m \in Mutation /\ m.kind = "lane"
  BY <1>1, <1>2 DEF Mutation
<1>. QED  BY <1>1, <1>3, <1>4 DEF Written

\* An entry is appended under a lane's leaf (appendEntry).
LEMMA EntryWritten ==
    ASSUME Good(state), NEW id \in Ids, NEW type \in EntryTypes, NEW lane \in Lanes,
           appendEntry(id, type, lane)
    PROVE  \E m : Written(m)
<1>. DEFINE n == state.sequence + 1
            parent == state.lanes[lane]
            m == EntryMutation(n, lane, id, parent, type)
<1>1. /\ n \in Nat /\ state' = applyMutation(state, m)
      /\ lane \in DOMAIN state.lanes /\ id \notin state.usedIds
  BY DEF Good, appendEntry, Apply, nextSequence, requireLane, validateUnusedId
<1>2. m = [kind |-> "entry", seq |-> n, lane |-> lane, id |-> id,
           parentId |-> parent, type |-> type]
  BY DEF EntryMutation
<1>3. parent \in DOMAIN state.entriesById \cup {None} /\ parent \in IdOrNone
  BY <1>1 DEF Good, PointsInto, Forest, IdOrNone
<1>. HIDE DEF m
<1>4. ValidMutation(state, m)
  BY <1>1, <1>2, <1>3 DEF ValidMutation
<1>. HIDE DEF n, parent
<1>5. m \in Mutation /\ m.kind = "entry"
  BY <1>1, <1>2, <1>3 DEF Mutation
<1>. QED  BY <1>1, <1>4, <1>5 DEF Written

\* A record is appended (appendRecord).
LEMMA RecordWritten ==
    ASSUME Good(state), NEW id \in Ids, NEW type \in RecordTypes, NEW lane \in Lanes,
           NEW runId \in IdOrNone, appendRecord(id, type, lane, runId)
    PROVE  \E m : Written(m)
<1>. DEFINE n == state.sequence + 1
            m == RecordMutation(n, lane, id, type, runId)
<1>1. /\ n \in Nat /\ state' = applyMutation(state, m)
      /\ lane \in DOMAIN state.lanes /\ id \notin state.usedIds
      /\ type = "operation_started" => findOpenOperations(state, lane) = {}
  BY DEF Good, appendRecord, Apply, nextSequence, requireLane, validateUnusedId
<1>2. m = [kind |-> "record", seq |-> n, lane |-> lane, id |-> id,
           type |-> type, runId |-> runId]
  BY DEF RecordMutation
<1>. HIDE DEF m
<1>3. ValidMutation(state, m)
  BY <1>1, <1>2 DEF ValidMutation
<1>. HIDE DEF n
<1>4. m \in Mutation /\ m.lane = lane /\ m.type = type
  BY <1>1, <1>2 DEF Mutation
<1>. QED  BY <1>1, <1>3, <1>4 DEF Written

\* The session is named (setName).
LEMMA NameWritten ==
    ASSUME Good(state), NEW name \in Values \cup {None}, setName(name)
    PROVE  \E m : Written(m)
<1>. DEFINE n == state.sequence + 1
            m == NameMutation(n, name)
<1>1. n \in Nat /\ state' = applyMutation(state, m)
  BY DEF Good, setName, Apply, nextSequence
<1>2. m = [kind |-> "fact", fact |-> "name", seq |-> n, name |-> name]
  BY DEF NameMutation
<1>. HIDE DEF m
<1>3. ValidMutation(state, m)
  BY <1>2 DEF ValidMutation
<1>. HIDE DEF n
<1>4. m \in Mutation /\ m.kind = "fact"
  BY <1>1, <1>2 DEF Mutation
<1>. QED  BY <1>1, <1>3, <1>4 DEF Written

\* An entry is labelled, or its label cleared (setLabel).
LEMMA LabelWritten ==
    ASSUME Good(state), NEW id \in Ids, NEW label \in Values \cup {None},
           setLabel(id, label)
    PROVE  \E m : Written(m)
<1>. DEFINE n == state.sequence + 1
            m == LabelMutation(n, id, label)
<1>1. n \in Nat /\ state' = applyMutation(state, m) /\ id \in DOMAIN state.entriesById
  BY IdsAssumption DEF Good, setLabel, Apply, nextSequence, validateTarget
<1>2. m = [kind |-> "fact", fact |-> "label", seq |-> n, targetId |-> id,
           label |-> label]
  BY DEF LabelMutation
<1>. HIDE DEF m
<1>3. ValidMutation(state, m)
  BY <1>1, <1>2 DEF ValidMutation
<1>. HIDE DEF n
<1>4. m \in Mutation /\ m.kind = "fact"
  BY <1>1, <1>2 DEF Mutation
<1>. QED  BY <1>1, <1>3, <1>4 DEF Written

\* Every write is a mutation that applyMutation accepts.
LEMMA CallWrites ==
    ASSUME Good(state), NEW r \in Requests, Call(r)
    PROVE  \E m : Written(m)
<1>1. CASE r.op = "createLane" /\ createLane(r.lane, r.at)
  BY <1>1, RequestTyped, LaneWritten DEF createLane
<1>2. CASE r.op = "moveLane" /\ moveLane(r.lane, r.to)
  BY <1>2, RequestTyped, LaneWritten DEF moveLane
<1>3. CASE r.op = "appendEntry" /\ appendEntry(r.id, r.type, r.lane)
  BY <1>3, RequestTyped, EntryWritten
<1>4. CASE r.op = "appendRecord" /\ appendRecord(r.id, r.type, r.lane, r.runId)
  BY <1>4, RequestTyped, RecordWritten
<1>5. CASE r.op = "setName" /\ setName(r.name)
  BY <1>5, RequestTyped, NameWritten
<1>6. CASE r.op = "setLabel" /\ setLabel(r.id, r.label)
  BY <1>6, RequestTyped, LabelWritten
<1>. QED  BY <1>1, <1>2, <1>3, <1>4, <1>5, <1>6 DEF Call

\* What is written leaves at most one operation open.
LEMMA OneStaysOpen ==
    ASSUME IndInv, NEW m, Written(m)
    PROVE  OneOpenOperation'
<1>1. /\ Shaped(state) /\ state.openOperationsByLane \in [Lanes -> SUBSET Ids]
      /\ \A l \in Lanes : \A a, b \in state.openOperationsByLane[l] : a = b
      /\ m \in Mutation /\ state' = applyMutation(state, m)
      /\ m.kind = "record" /\ m.type = "operation_started" =>
            state.openOperationsByLane[m.lane] = {}
  BY DEF IndInv, Good, OneOpenOperation, Written, findOpenOperations
<1>2. CASE m.kind = "record"
  <2>. DEFINE open == state.openOperationsByLane
              left == OpenOperations(open[m.lane], m)
  <2>1. m.lane \in Lanes /\ m.type \in RecordTypes
    BY <1>1, <1>2 DEF Mutation
  <2>2. state'.openOperationsByLane = [open EXCEPT ![m.lane] = left]
    <3>1. state' = ApplyRecord(state, m)
      BY <1>1, <1>2 DEF applyMutation
    <3>. QED  BY <3>1, <1>1 DEF ApplyRecord, Shaped
  <2>3. \A a, b \in left : a = b
    BY <1>1, <1>2, <2>1 DEF OpenOperations, RecordTypes
  <2>. HIDE DEF left
  <2>4. \A l \in Lanes : \A a, b \in state'.openOperationsByLane[l] : a = b
    BY <1>1, <2>1, <2>2, <2>3
  <2>. QED  BY <2>4 DEF OneOpenOperation, findOpenOperations
<1>3. CASE m.kind # "record"
  <2>1. m.kind \in {"entry", "lane", "fact"}
    BY <1>1, <1>3 DEF Mutation
  <2>2. state'.openOperationsByLane = state.openOperationsByLane
    BY <1>1, <2>1 DEF applyMutation, ApplyEntry, ApplyLane, ApplyFact, Shaped
  <2>. QED  BY <1>1, <2>2 DEF OneOpenOperation, findOpenOperations
<1>. QED  BY <1>2, <1>3

\* Every step of the storage preserves the invariant.
LEMMA IndInvStep == IndInv /\ [Next]_state => IndInv'
<1>1. ASSUME IndInv, NEW r \in Requests, Call(r)
      PROVE  IndInv'
  <2>1. PICK m : Written(m)
    BY <1>1, CallWrites DEF IndInv
  <2>2. Good(state')
    BY <1>1, <2>1, GoodApply DEF IndInv, Written
  <2>. QED  BY <1>1, <2>1, <2>2, OneStaysOpen DEF IndInv
<1>2. CASE UNCHANGED state
  BY <1>2 DEF IndInv, OneOpenOperation, findOpenOperations
<1>. QED  BY <1>1, <1>2 DEF Next

\* The invariant holds in every reachable state.
LEMMA IndInvAlways == Spec => []IndInv
BY IndInvInit, IndInvStep, PTL DEF Spec

(* The fields of a session keep their types, whatever is written.          *)
THEOREM StateAlwaysTyped == Spec => []StateTyped
<1>1. IndInv => StateTyped
  <2>. SUFFICES ASSUME Good(state) PROVE StateTyped
    BY DEF IndInv
  <2>1. /\ Forest(state.entriesById, state.sequence)
        /\ PointsInto(state.lanes, state.entriesById)
        /\ LabelsOf(state.labels, state.entriesById) /\ state.sequence \in Nat
    BY DEF Good
  <2>2. \A id \in DOMAIN state.entriesById : state.entriesById[id] \in Entry
    <3>1. SUFFICES ASSUME NEW id \in DOMAIN state.entriesById
                   PROVE  state.entriesById[id] \in Entry
      OBVIOUS
    <3>. DEFINE e == state.entriesById[id]
    <3>2. /\ e = [parentId |-> e.parentId, type |-> e.type, seq |-> e.seq]
          /\ e.parentId \in Ids \cup {None} /\ e.type \in EntryTypes
          /\ e.seq \in Nat \ {0}
      BY <2>1 DEF Forest, IdOrNone
    <3>. HIDE DEF e
    <3>3. e \in Entry
      BY <3>2 DEF Entry
    <3>. QED  BY <3>3 DEF e
  <2>3. \A l \in DOMAIN state.lanes : state.lanes[l] \in Ids \cup {None}
    BY <2>1 DEF PointsInto, Forest
  <2>4. /\ DOMAIN state.entriesById \subseteq Ids /\ DOMAIN state.labels \subseteq Ids
        /\ \A id \in DOMAIN state.labels : state.labels[id] \in Values
    BY <2>1 DEF Forest, LabelsOf
  <2>5. "main" \in DOMAIN state.lanes /\ DOMAIN state.lanes \subseteq Lanes
    BY <2>1 DEF PointsInto
  <2>. QED  BY <2>1, <2>2, <2>3, <2>4, <2>5 DEF StateTyped, Good
<1>. QED  BY <1>1, IndInvAlways, PTL

(* The session tree of InMemorySessionStorage never dangles or cycles, for *)
(* every sequence of writes: parents exist and are older than their        *)
(* children, and lanes and labels point at entries.                        *)
THEOREM TreeAlwaysSound == Spec => []TreeIsSound
<1>1. IndInv => TreeIsSound
  BY DEF IndInv, Good, Forest, PointsInto, LabelsOf, TreeIsSound
<1>. QED  BY <1>1, IndInvAlways, PTL

(* appendRecord never leaves two operations open on one lane.              *)
THEOREM AtMostOneOperation == Spec => []OneOpenOperation
<1>1. IndInv => OneOpenOperation
  BY DEF IndInv
<1>. QED  BY <1>1, IndInvAlways, PTL

(* No write changes or removes an entry: the ids appendEntry accepts are   *)
(* not those of entries.                                                   *)
THEOREM EntriesNeverChange == Spec => EntriesAreImmutable
<1>. DEFINE Same == \A id \in DOMAIN state.entriesById :
                        /\ id \in DOMAIN state'.entriesById
                        /\ state'.entriesById[id] = state.entriesById[id]
<1>1. IndInv /\ [Next]_state => [Same]_state
  <2>. SUFFICES ASSUME IndInv, NEW r \in Requests, Call(r)
                PROVE  Same
    BY DEF Next
  <2>1. PICK m : Written(m)
    BY CallWrites DEF IndInv
  <2>2. Kept(state.entriesById, state'.entriesById)
    BY <2>1, GoodApply DEF IndInv, Written
  <2>. QED  BY <2>2 DEF Kept
<1>. QED  BY <1>1, IndInvAlways, PTL DEF Spec, EntriesAreImmutable

(* Forking a session, at any time and with any options that are accepted,  *)
(* gives a session that replays without an error: the whole tree with all  *)
(* its lanes, or the lane "main" at the leaf the options ask for with the  *)
(* branch that ends there, every entry with its parent, type and label,    *)
(* the name, and nothing open.                                             *)
THEOREM ForkAlwaysReproduces == Spec => []ForkReproducesBranch
<1>1. ASSUME NEW o \in ForkOptions, o.scope = "branch"
      PROVE  ForkTarget(state, o) = AskedLeaf(o)
  <2>1. o.position = None \/ o.position = "before" \/ o.position = "at"
    BY <1>1 DEF ForkOptions
  <2>. QED  BY <2>1, IdsAssumption DEF ForkTarget, SelectedEntry, AskedLeaf
<1>2. ASSUME Good(state), NEW o \in ForkOptions, ValidForkTarget(state, o),
             NEW replayed, replayed = Replay(createForkMutations(state, o))
      PROVE  replayed.ok /\ Reproduces(o, replayed.state)
  <2>. DEFINE fork == replayed.state
  <2>1. /\ Copies(state, o)
        /\ o.scope = "tree" => Range(CopiedEntries(state, o)) = DOMAIN state.entriesById
        /\ o.scope # "tree" => CopiedEntries(state, o) = Branch(state, ForkTarget(state, o))
    BY <1>2, ForkCopies
  <2>2. replayed.ok = TRUE /\ ForkOf(state, o, fork)
    BY <1>2, <2>1, ForkIs
  <2>. HIDE DEF fork
  <2>3. /\ o.scope = "tree" => ForkLanes(state, o) = state.lanes
        /\ o.scope # "tree" => ForkLanes(state, o) = [l \in {"main"} |-> ForkTarget(state, o)]
    BY DEF ForkLanes
  <2>4. /\ DOMAIN fork.entriesById = Range(CopiedEntries(state, o))
        /\ DOMAIN fork.lanes = DOMAIN ForkLanes(state, o)
        /\ \A l \in DOMAIN fork.lanes : fork.lanes[l] = ForkLanes(state, o)[l]
    BY <2>2 DEF ForkOf
  <2>5. o.scope = "branch" =>
            /\ DOMAIN fork.entriesById = Range(Branch(state, AskedLeaf(o)))
            /\ DOMAIN fork.lanes = {"main"}
            /\ fork.lanes["main"] = AskedLeaf(o)
    BY <1>1, <2>1, <2>3, <2>4
  <2>6. o.scope = "tree" =>
            /\ DOMAIN fork.entriesById = DOMAIN state.entriesById
            /\ DOMAIN fork.lanes = DOMAIN state.lanes
            /\ \A l \in DOMAIN fork.lanes : fork.lanes[l] = state.lanes[l]
    BY <2>1, <2>3, <2>4
  <2>7. Reproduces(o, fork)
    BY <2>2, <2>5, <2>6 DEF Reproduces, ForkOf, findOpenOperations
  <2>. QED  BY <2>2, <2>7 DEF fork
<1>3. IndInv => ForkReproducesBranch
  BY <1>2 DEF IndInv, ForkReproducesBranch
<1>. QED  BY <1>3, IndInvAlways, PTL
=============================================================================
