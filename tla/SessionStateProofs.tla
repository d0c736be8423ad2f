------------------------- MODULE SessionStateProofs -------------------------
(***************************************************************************)
(* Facts about the operators of SessionState that the proofs about its     *)
(* storages rest on: what a mutation keeps of a session, what Replay makes *)
(* of one mutation more, that Branch is the walk from the root, and that   *)
(* the mutations of a fork rebuild the branch or the tree they were made   *)
(* from.                                                                   *)
(*                                                                         *)
(* Replay, Branch and Among are recursive functions of a sequence or a     *)
(* number.  For each, the induction is done once, on the function it is    *)
(* the last value of; the rest uses the resulting equations only.          *)
(***************************************************************************)
EXTENDS SessionState, FiniteSetTheorems, WellFoundedInduction, TLAPS

Mutation ==
    [kind : {"entry"}, seq : Nat, lane : Lanes \cup {None}, id : Ids,
     parentId : IdOrNone, type : EntryTypes]
    \cup [kind : {"record"}, seq : Nat, lane : Lanes, id : Ids,
          type : RecordTypes, runId : IdOrNone]
    \cup [kind : {"lane"}, seq : Nat, lane : Lanes, leafId : IdOrNone]
    \cup [kind : {"fact"}, fact : {"name"}, seq : Nat, name : Values \cup {None}]
    \cup [kind : {"fact"}, fact : {"label"}, seq : Nat, targetId : Ids,
          label : Values \cup {None}]

\* The state is a SessionState object with all of its fields.
Shaped(s) ==
    s = [sequence |-> s.sequence, usedIds |-> s.usedIds,
         entriesById |-> s.entriesById, lanes |-> s.lanes,
         openOperationsByLane |-> s.openOperationsByLane,
         name |-> s.name, labels |-> s.labels]

\* The entries of a session with n mutations: a forest whose parents are
\* older than their children, each entry with a number of its own.
Forest(entries, n) ==
    /\ DOMAIN entries \subseteq Ids
    /\ \A id \in DOMAIN entries :
        /\ entries[id] = [parentId |-> entries[id].parentId,
                          type |-> entries[id].type, seq |-> entries[id].seq]
        /\ entries[id].parentId \in IdOrNone /\ entries[id].type \in EntryTypes
        /\ entries[id].seq \in 1..n
        /\ entries[id].parentId # None =>
                /\ entries[id].parentId \in DOMAIN entries
                /\ entries[entries[id].parentId].seq < entries[id].seq
    /\ \A a, b \in DOMAIN entries : entries[a].seq = entries[b].seq => a = b

PointsInto(lanes, entries) ==
    /\ "main" \in DOMAIN lanes /\ DOMAIN lanes \subseteq Lanes
    /\ IsFiniteSet(DOMAIN lanes)
    /\ \A l \in DOMAIN lanes : lanes[l] \in DOMAIN entries \cup {None}

LabelsOf(labels, entries) ==
    /\ DOMAIN labels \subseteq DOMAIN entries
    /\ \A id \in DOMAIN labels : labels[id] \in Values

\* What every session satisfies.
Good(s) ==
    /\ Shaped(s)
    /\ s.sequence \in Nat
    /\ s.usedIds \subseteq Ids /\ DOMAIN s.entriesById \subseteq s.usedIds
    /\ Forest(s.entriesById, s.sequence)
    /\ PointsInto(s.lanes, s.entriesById)
    /\ s.openOperationsByLane \in [Lanes -> SUBSET Ids]
    /\ s.name \in Values \cup {None}
    /\ LabelsOf(s.labels, s.entriesById)

\* All that a walk over its parents needs of a session.
IsTree(s) == s.sequence \in Nat /\ Forest(s.entriesById, s.sequence)

\* Every entry of entries is one of later.
Kept(entries, later) ==
    \A id \in DOMAIN entries : id \in DOMAIN later /\ later[id] = entries[id]

-----------------------------------------------------------------------------
(* Induction, and recursive functions of a sequence.                       *)

\* A set of numbers with 0 and, with each number, the next one has them all.
LEMMA Induction ==
    ASSUME NEW S \in SUBSET Nat, 0 \in S, \A n \in S : n + 1 \in S
    PROVE  \A n \in Nat : n \in S
<1>. DEFINE T == Nat \ S
            R == OpToRel(<, Nat)
<1>1. SUFFICES ASSUME T # {} PROVE FALSE
  OBVIOUS
<1>2. IsWellFoundedOn(R, Nat) /\ T \subseteq Nat
  BY NatLessThanWellFounded
<1>3. PICK x \in T : \A y \in T : ~ (<<y, x>> \in R)
  <2>. HIDE DEF R, T
  <2>. QED  BY <1>1, <1>2, WFMin
<1>4. \A y \in T : ~ (y < x)
  BY <1>3 DEF OpToRel
<1>5. x \in Nat /\ x # 0 /\ x - 1 \in Nat
  OBVIOUS
<1>6. x - 1 \in S
  BY <1>4, <1>5
<1>. QED  BY <1>5, <1>6

\* The element of a singleton.
LEMMA OnlyIs == ASSUME NEW x PROVE Only({x}) = x
BY DEF Only

Fresh == [ok |-> TRUE, state |-> InitialState]

\* f is what Replay computes for the prefixes of ms up to length N.
IsReplay(ms, N, f) ==
    f = [n \in 0..N |->
            IF n = 0 THEN Fresh
            ELSE Only({ReplayStep(acc, m) : acc \in {f[n - 1]}, m \in {ms[n]}})]

\* The same, one prefix after another.
LEMMA ReplayFcn ==
    ASSUME NEW ms, NEW N \in Nat, NEW f
    PROVE  IsReplay(ms, N, f) <=>
              /\ f = [n \in 0..N |-> f[n]]
              /\ f[0] = Fresh
              /\ \A n \in 1..N : f[n] = ReplayStep(f[n - 1], ms[n])
<1>. DEFINE G(n) == Only({ReplayStep(acc, m) : acc \in {f[n - 1]}, m \in {ms[n]}})
            H(n) == IF n = 0 THEN Fresh ELSE G(n)
<1>1. ASSUME NEW n PROVE G(n) = ReplayStep(f[n - 1], ms[n])
  <2>. DEFINE Z == {ReplayStep(acc, m) : acc \in {f[n - 1]}, m \in {ms[n]}}
  <2>1. Z = {ReplayStep(f[n - 1], ms[n])}
    OBVIOUS
  <2>2. Only(Z) = ReplayStep(f[n - 1], ms[n])
    <3>. HIDE DEF Z
    <3>. QED  BY <2>1, OnlyIs
  <2>. QED  BY <2>2
<1>2. IsReplay(ms, N, f) <=> f = [n \in 0..N |-> H(n)]
  BY DEF IsReplay
<1>. HIDE DEF G
<1>3. \A n \in 0..N : n = 0 \/ n \in 1..N
  OBVIOUS
<1>4. 0 \in 0..N /\ \A n \in 1..N : n \in 0..N /\ n # 0
  OBVIOUS
<1>5. f = [n \in 0..N |-> H(n)] <=>
            /\ f = [n \in 0..N |-> f[n]] /\ \A n \in 0..N : f[n] = H(n)
  <2>. HIDE DEF H
  <2>. QED  OBVIOUS
<1>6. (\A n \in 0..N : f[n] = H(n)) <=>
            f[0] = Fresh /\ \A n \in 1..N : f[n] = G(n)
  BY <1>3, <1>4
<1>. QED  BY <1>1, <1>2, <1>5, <1>6

\* There is such a function for every length.
LEMMA ReplayExists ==
    ASSUME NEW ms
    PROVE  \A N \in Nat : \E f : IsReplay(ms, N, f)
<1>. DEFINE S == {N \in Nat : \E f : IsReplay(ms, N, f)}
<1>1. 0 \in S
  <2>. DEFINE f == [n \in 0..0 |-> Fresh]
  <2>1. f = [n \in 0..0 |-> f[n]] /\ f[0] = Fresh /\ \A n \in 1..0 : FALSE
    OBVIOUS
  <2>2. IsReplay(ms, 0, f)
    <3>. HIDE DEF f
    <3>. QED  BY <2>1, ReplayFcn
  <2>. QED  BY <2>2
<1>2. ASSUME NEW N \in S PROVE N + 1 \in S
  <2>1. PICK f : IsReplay(ms, N, f)
    OBVIOUS
  <2>0. N \in Nat
    OBVIOUS
  <2>2. /\ f = [n \in 0..N |-> f[n]]
        /\ f[0] = Fresh
        /\ \A n \in 1..N : f[n] = ReplayStep(f[n - 1], ms[n])
    BY <2>0, <2>1, ReplayFcn, ZenonT(40)
  <2>. DEFINE g == [n \in 0..(N + 1) |-> IF n = N + 1 THEN ReplayStep(f[N], ms[N + 1]) ELSE f[n]]
  <2>3. \A n \in 0..N : g[n] = f[n]
    BY <2>0
  <2>4. g[N + 1] = ReplayStep(f[N], ms[N + 1])
    BY <2>0
  <2>5. g = [n \in 0..(N + 1) |-> g[n]]
    OBVIOUS
  <2>. HIDE DEF g
  <2>6. g[0] = Fresh
    BY <2>0, <2>2, <2>3
  <2>7. ASSUME NEW n \in 1..(N + 1) PROVE g[n] = ReplayStep(g[n - 1], ms[n])
    <3>1. CASE n = N + 1
      <4>1. n - 1 = N /\ N \in 0..N
        BY <3>1, <2>0
      <4>2. g[n - 1] = f[N]
        BY <4>1, <2>3
      <4>. QED  BY <4>2, <2>4, <3>1
    <3>2. CASE n # N + 1
      <4>1. n \in 1..N /\ n \in 0..N /\ n - 1 \in 0..N
        BY <3>2, <2>0
      <4>2. g[n] = f[n] /\ g[n - 1] = f[n - 1]
        BY <4>1, <2>3
      <4>. QED  BY <4>1, <4>2, <2>2
    <3>. QED  BY <3>1, <3>2
  <2>8. IsReplay(ms, N + 1, g)
    <3>1. N + 1 \in Nat
      BY <2>0
    <3>. QED  BY <3>1, <2>5, <2>6, <2>7, ReplayFcn
  <2>. QED  BY <2>0, <2>8
<1>3. S \in SUBSET Nat
  OBVIOUS
<1>4. \A N \in Nat : N \in S
  <2>. HIDE DEF S
  <2>. QED  BY <1>1, <1>2, <1>3, Induction
<1>. QED  BY <1>4

\* Two of them agree on the prefixes both cover, if the mutations do.
LEMMA ReplayAgrees ==
    ASSUME NEW ms, NEW longer, NEW N \in Nat, NEW M \in Nat, NEW f, NEW g,
           N <= M, IsReplay(ms, N, f), IsReplay(longer, M, g),
           \A n \in 1..N : ms[n] = longer[n]
    PROVE  \A n \in 0..N : f[n] = g[n]
<1>. DEFINE S == {n \in Nat : n \in 0..N => f[n] = g[n]}
<1>0. /\ f[0] = Fresh /\ g[0] = Fresh
      /\ \A n \in 1..N : f[n] = ReplayStep(f[n - 1], ms[n])
      /\ \A n \in 1..M : g[n] = ReplayStep(g[n - 1], longer[n])
  BY ReplayFcn
<1>1. 0 \in S
  BY <1>0
<1>2. ASSUME NEW n \in S PROVE n + 1 \in S
  <2>1. SUFFICES ASSUME n + 1 \in 0..N PROVE f[n + 1] = g[n + 1]
    OBVIOUS
  <2>2. n \in 0..N /\ n + 1 \in 1..N /\ n + 1 \in 1..M /\ (n + 1) - 1 = n
    BY <2>1
  <2>3. f[n] = g[n]
    BY <2>2
  <2>4. f[n + 1] = ReplayStep(f[n], ms[n + 1]) /\ g[n + 1] = ReplayStep(g[n], longer[n + 1])
    BY <1>0, <2>2
  <2>. QED  BY <2>2, <2>3, <2>4
<1>3. S \in SUBSET Nat
  OBVIOUS
<1>4. \A n \in Nat : n \in S
  <2>. HIDE DEF S
  <2>. QED  BY <1>1, <1>2, <1>3, Induction
<1>. QED  BY <1>4

\* Replay(ms) is the last value of such a function.
LEMMA ReplayIs ==
    ASSUME NEW ms, Len(ms) \in Nat, NEW f, IsReplay(ms, Len(ms), f)
    PROVE  Replay(ms) = f[Len(ms)]
<1>. DEFINE h == CHOOSE h : IsReplay(ms, Len(ms), h)
<1>1. Replay(ms) = h[Len(ms)]
  BY DEF Replay, IsReplay, Fresh
<1>2. IsReplay(ms, Len(ms), h)
  OBVIOUS
<1>. HIDE DEF h
<1>3. \A n \in 0..Len(ms) : f[n] = h[n]
  BY <1>2, ReplayAgrees
<1>. QED  BY <1>1, <1>3

\* Nothing was applied.
LEMMA ReplayEmpty == Replay(<<>>) = Fresh
<1>1. Len(<<>>) = 0
  OBVIOUS
<1>2. PICK f : IsReplay(<<>>, 0, f)
  BY ReplayExists
<1>3. f[0] = Fresh
  BY <1>2, ReplayFcn
<1>. QED  BY <1>1, <1>2, <1>3, ReplayIs

\* One more mutation is applied.
LEMMA ReplayAppend ==
    ASSUME NEW P, NEW ms \in Seq(P), NEW m \in P
    PROVE  Replay(Append(ms, m)) = ReplayStep(Replay(ms), m)
<1>. DEFINE longer == Append(ms, m)
            N == Len(ms)
<1>1. /\ N \in Nat /\ Len(longer) = N + 1 /\ longer[N + 1] = m
      /\ \A n \in 1..N : ms[n] = longer[n]
  OBVIOUS
<1>. HIDE DEF longer
<1>2. PICK f : IsReplay(ms, N, f)
  BY <1>1, ReplayExists
<1>3. PICK g : IsReplay(longer, N + 1, g)
  BY <1>1, ReplayExists
<1>4. Replay(ms) = f[N] /\ Replay(longer) = g[N + 1]
  BY <1>1, <1>2, <1>3, ReplayIs
<1>. HIDE DEF N
<1>5. \A n \in 0..N : f[n] = g[n]
  <2>1. N \in Nat /\ N + 1 \in Nat /\ N <= N + 1
    BY <1>1
  <2>. QED  BY <2>1, <1>1, <1>2, <1>3, ReplayAgrees
<1>6. g[N + 1] = ReplayStep(g[N], longer[N + 1])
  <2>1. N + 1 \in Nat /\ N + 1 \in 1..(N + 1) /\ (N + 1) - 1 = N
    BY <1>1
  <2>. QED  BY <2>1, <1>3, ReplayFcn
<1>7. f[N] = g[N]
  BY <1>1, <1>5
<1>. QED  BY <1>1, <1>4, <1>6, <1>7 DEF longer

-----------------------------------------------------------------------------
(* What a mutation keeps of a session.                                     *)

\* A new session.
LEMMA GoodInit == Good(InitialState) /\ InitialState.sequence = 0
<1>. DEFINE s == InitialState
<1>1. /\ s.sequence = 0 /\ s.usedIds = {} /\ DOMAIN s.entriesById = {}
      /\ DOMAIN s.lanes = {"main"} /\ s.lanes["main"] = None
      /\ s.openOperationsByLane \in [Lanes -> SUBSET Ids]
      /\ s.name = None /\ DOMAIN s.labels = {}
  BY DEF InitialState
<1>2. Shaped(s)
  BY DEF InitialState, Shaped
<1>3. IsFiniteSet({"main"})
  BY FS_Singleton
<1>. HIDE DEF s
<1>4. Forest(s.entriesById, s.sequence) /\ LabelsOf(s.labels, s.entriesById)
  BY <1>1 DEF Forest, LabelsOf
<1>5. PointsInto(s.lanes, s.entriesById)
  BY <1>1, <1>3, IdsAssumption DEF PointsInto
<1>6. Good(s)
  BY <1>1, <1>2, <1>4, <1>5 DEF Good
<1>. QED  BY <1>1, <1>6 DEF s

\* A forest stays one when time passes.
LEMMA ForestAges ==
    ASSUME NEW entries, NEW n \in Nat, Forest(entries, n)
    PROVE  Forest(entries, n + 1)
BY DEF Forest

\* A new entry under an old one, or under none, makes a forest.
LEMMA ForestGrows ==
    ASSUME NEW entries, NEW n \in Nat, Forest(entries, n), NEW id \in Ids,
           id \notin DOMAIN entries, NEW parent \in DOMAIN entries \cup {None},
           NEW type \in EntryTypes, NEW e,
           e = [parentId |-> parent, type |-> type, seq |-> n + 1]
    PROVE  /\ Forest(With(entries, id, e), n + 1)
           /\ Kept(entries, With(entries, id, e))
           /\ DOMAIN With(entries, id, e) = DOMAIN entries \cup {id}
           /\ With(entries, id, e)[id] = e
<1>. DEFINE more == With(entries, id, e)
<1>1. /\ DOMAIN more = DOMAIN entries \cup {id} /\ more[id] = e
      /\ \A x \in DOMAIN entries : more[x] = entries[x]
  BY DEF With
<1>2. /\ e.parentId = parent /\ e.type = type /\ e.seq = n + 1
      /\ e = [parentId |-> e.parentId, type |-> e.type, seq |-> e.seq]
  OBVIOUS
<1>. HIDE DEF more
<1>3. DOMAIN more \subseteq Ids
  BY <1>1 DEF Forest
<1>4. ASSUME NEW x \in DOMAIN more
      PROVE  /\ more[x] = [parentId |-> more[x].parentId, type |-> more[x].type,
                           seq |-> more[x].seq]
             /\ more[x].parentId \in IdOrNone /\ more[x].type \in EntryTypes
             /\ more[x].seq \in 1..(n + 1)
             /\ more[x].parentId # None =>
                    /\ more[x].parentId \in DOMAIN more
                    /\ more[more[x].parentId].seq < more[x].seq
  <2>1. CASE x = id
    <3>1. more[x].parentId = parent /\ parent \in IdOrNone
      BY <2>1, <1>1, <1>2 DEF Forest, IdOrNone
    <3>2. parent # None => /\ parent \in DOMAIN more
                           /\ more[parent].seq \in 1..n
      BY <1>1 DEF Forest
    <3>. QED  BY <2>1, <1>1, <1>2, <3>1, <3>2
  <2>2. CASE x \in DOMAIN entries
    <3>1. more[x] = entries[x]
      BY <2>2, <1>1
    <3>2. /\ entries[x] = [parentId |-> entries[x].parentId,
                           type |-> entries[x].type, seq |-> entries[x].seq]
          /\ entries[x].parentId \in IdOrNone /\ entries[x].type \in EntryTypes
          /\ entries[x].seq \in 1..n
      BY <2>2 DEF Forest
    <3>3. entries[x].parentId # None =>
                /\ entries[x].parentId \in DOMAIN entries
                /\ entries[entries[x].parentId].seq < entries[x].seq
      BY <2>2 DEF Forest
    <3>. QED  BY <3>1, <3>2, <3>3, <1>1
  <2>. QED  BY <2>1, <2>2, <1>1
<1>5. ASSUME NEW a \in DOMAIN more, NEW b \in DOMAIN more, more[a].seq = more[b].seq
      PROVE  a = b
  <2>1. \A x \in DOMAIN entries : entries[x].seq \in 1..n
    BY DEF Forest
  <2>2. \A x, y \in DOMAIN entries : entries[x].seq = entries[y].seq => x = y
    BY DEF Forest
  <2>. QED  BY <1>1, <1>2, <1>5, <2>1, <2>2
<1>6. Forest(more, n + 1)
  BY <1>3, <1>4, <1>5 DEF Forest
<1>7. Kept(entries, more)
  BY <1>1 DEF Kept
<1>. QED  BY <1>1, <1>6, <1>7 DEF more

\* A lane that is added or pointed elsewhere.
LEMMA PointsOn ==
    ASSUME NEW lanes, NEW entries, NEW later, PointsInto(lanes, entries),
           DOMAIN entries \subseteq DOMAIN later,
           NEW lane \in Lanes, NEW leaf \in DOMAIN later \cup {None}
    PROVE  PointsInto(With(lanes, lane, leaf), later)
<1>1. IsFiniteSet(DOMAIN lanes \cup {lane})
  BY FS_AddElement DEF PointsInto
<1>2. DOMAIN With(lanes, lane, leaf) = DOMAIN lanes \cup {lane}
  BY DEF With
<1>3. \A l \in DOMAIN lanes \cup {lane} :
            With(lanes, lane, leaf)[l] = IF l = lane THEN leaf ELSE lanes[l]
  BY DEF With
<1>. QED  BY <1>1, <1>2, <1>3 DEF PointsInto

\* What a mutation makes of a session.
Applied(s, m) ==
    /\ Good(applyMutation(s, m))
    /\ applyMutation(s, m).sequence = s.sequence + 1
    /\ Kept(s.entriesById, applyMutation(s, m).entriesById)

\* An entry, appended to a lane or imported.
LEMMA GoodEntry ==
    ASSUME NEW s, Good(s), NEW m \in Mutation, ValidMutation(s, m), m.kind = "entry"
    PROVE  Applied(s, m)
<1>. DEFINE e == [parentId |-> m.parentId, type |-> m.type, seq |-> s.sequence + 1]
            more == With(s.entriesById, m.id, e)
            lanes == IF m.lane = None THEN s.lanes ELSE With(s.lanes, m.lane, m.id)
            t == [sequence |-> s.sequence + 1, usedIds |-> s.usedIds \cup {m.id},
                  entriesById |-> more, lanes |-> lanes,
                  openOperationsByLane |-> s.openOperationsByLane,
                  name |-> s.name, labels |-> s.labels]
<1>1. /\ m.seq = s.sequence + 1 /\ m.lane \in Lanes \cup {None} /\ m.id \in Ids
      /\ m.id \notin s.usedIds /\ m.type \in EntryTypes
      /\ m.parentId \in DOMAIN s.entriesById \cup {None}
  BY DEF ValidMutation, Mutation
<1>2. applyMutation(s, m) = t
  <2>1. applyMutation(s, m) = ApplyEntry(s, m)
    BY DEF applyMutation
  <2>2. /\ DOMAIN s = {"sequence", "usedIds", "entriesById", "lanes",
                      "openOperationsByLane", "name", "labels"}
        /\ Shaped(s)
    BY DEF Good, Shaped
  <2>3. ApplyEntry(s, m) =
            [s EXCEPT !.sequence = s.sequence + 1, !.usedIds = s.usedIds \cup {m.id},
                      !.entriesById = more, !.lanes = lanes]
    BY <1>1 DEF ApplyEntry
  <2>. HIDE DEF more, lanes
  <2>. QED  BY <2>1, <2>2, <2>3 DEF Shaped
<1>3. /\ Forest(more, s.sequence + 1) /\ Kept(s.entriesById, more)
      /\ DOMAIN more = DOMAIN s.entriesById \cup {m.id}
  <2>1. m.id \notin DOMAIN s.entriesById /\ s.sequence \in Nat /\ Forest(s.entriesById, s.sequence)
    BY <1>1 DEF Good
  <2>2. e = [parentId |-> m.parentId, type |-> m.type, seq |-> s.sequence + 1]
    OBVIOUS
  <2>. HIDE DEF e
  <2>. QED  BY <1>1, <2>1, <2>2, ForestGrows
<1>. HIDE DEF more
<1>4. PointsInto(lanes, more)
  <2>1. PointsInto(s.lanes, s.entriesById)
    BY DEF Good
  <2>2. CASE m.lane = None
    BY <2>1, <2>2, <1>3 DEF PointsInto
  <2>3. CASE m.lane # None
    BY <2>1, <2>3, <1>1, <1>3, PointsOn
  <2>. QED  BY <2>2, <2>3
<1>5. LabelsOf(s.labels, more)
  BY <1>3 DEF Good, LabelsOf
<1>. HIDE DEF lanes
<1>6. Good(t)
  <2>1. /\ t.sequence = s.sequence + 1 /\ t.usedIds = s.usedIds \cup {m.id}
        /\ t.entriesById = more /\ t.lanes = lanes
        /\ t.openOperationsByLane = s.openOperationsByLane
        /\ t.name = s.name /\ t.labels = s.labels /\ Shaped(t)
    BY DEF Shaped
  <2>. HIDE DEF t
  <2>2. /\ s.sequence \in Nat /\ s.usedIds \subseteq Ids
        /\ DOMAIN s.entriesById \subseteq s.usedIds
        /\ s.openOperationsByLane \in [Lanes -> SUBSET Ids]
        /\ s.name \in Values \cup {None}
    BY DEF Good
  <2>3. t.sequence \in Nat /\ Forest(t.entriesById, t.sequence)
    BY <2>1, <2>2, <1>3
  <2>4. t.usedIds \subseteq Ids /\ DOMAIN t.entriesById \subseteq t.usedIds
    BY <2>1, <2>2, <1>1, <1>3
  <2>. QED  BY <2>1, <2>2, <2>3, <2>4, <1>4, <1>5 DEF Good
<1>. QED  BY <1>2, <1>3, <1>6 DEF Applied

\* A record.
LEMMA GoodRecord ==
    ASSUME NEW s, Good(s), NEW m \in Mutation, ValidMutation(s, m), m.kind = "record"
    PROVE  Applied(s, m)
<1>. DEFINE open == [s.openOperationsByLane EXCEPT ![m.lane] = OpenOperations(@, m)]
            t == [sequence |-> s.sequence + 1, usedIds |-> s.usedIds \cup {m.id},
                  entriesById |-> s.entriesById, lanes |-> s.lanes,
                  openOperationsByLane |-> open,
                  name |-> s.name, labels |-> s.labels]
<1>1. m.seq = s.sequence + 1 /\ m.lane \in Lanes /\ m.id \in Ids
  BY DEF ValidMutation, Mutation
<1>2. applyMutation(s, m) = t
  <2>1. applyMutation(s, m) = ApplyRecord(s, m)
    BY DEF applyMutation
  <2>. QED  BY <1>1, <2>1 DEF ApplyRecord, Good, Shaped
<1>3. open \in [Lanes -> SUBSET Ids]
  <2>1. s.openOperationsByLane \in [Lanes -> SUBSET Ids]
    BY DEF Good
  <2>2. OpenOperations(s.openOperationsByLane[m.lane], m) \in SUBSET Ids
    BY <1>1, <2>1 DEF OpenOperations
  <2>. QED  BY <1>1, <2>1, <2>2
<1>. HIDE DEF open
<1>4. Forest(s.entriesById, s.sequence + 1)
  BY ForestAges DEF Good
<1>5. Good(t)
  BY <1>1, <1>3, <1>4 DEF Good, Shaped
<1>6. Kept(s.entriesById, t.entriesById)
  BY DEF Kept
<1>. QED  BY <1>2, <1>5, <1>6 DEF Applied

\* A lane.
LEMMA GoodLane ==
    ASSUME NEW s, Good(s), NEW m \in Mutation, ValidMutation(s, m), m.kind = "lane"
    PROVE  Applied(s, m)
<1>. DEFINE lanes == With(s.lanes, m.lane, m.leafId)
            t == [sequence |-> s.sequence + 1, usedIds |-> s.usedIds,
                  entriesById |-> s.entriesById, lanes |-> lanes,
                  openOperationsByLane |-> s.openOperationsByLane,
                  name |-> s.name, labels |-> s.labels]
<1>1. /\ m.seq = s.sequence + 1 /\ m.lane \in Lanes
      /\ m.leafId \in DOMAIN s.entriesById \cup {None}
  BY DEF ValidMutation, Mutation
<1>2. applyMutation(s, m) = t
  <2>1. applyMutation(s, m) = ApplyLane(s, m)
    BY DEF applyMutation
  <2>. QED  BY <1>1, <2>1 DEF ApplyLane, Good, Shaped
<1>3. PointsInto(lanes, s.entriesById)
  BY <1>1, PointsOn DEF Good
<1>. HIDE DEF lanes
<1>4. Forest(s.entriesById, s.sequence + 1)
  BY ForestAges DEF Good
<1>5. Good(t)
  BY <1>3, <1>4 DEF Good, Shaped
<1>6. Kept(s.entriesById, t.entriesById)
  BY DEF Kept
<1>. QED  BY <1>2, <1>5, <1>6 DEF Applied

\* A name or a label.
LEMMA GoodFact ==
    ASSUME NEW s, Good(s), NEW m \in Mutation, ValidMutation(s, m), m.kind = "fact"
    PROVE  Applied(s, m)
<1>. DEFINE name == IF m.fact = "name" THEN m.name ELSE s.name
            labels == IF m.fact = "name" THEN s.labels
                      ELSE IF m.label = None THEN Without(s.labels, m.targetId)
                      ELSE With(s.labels, m.targetId, m.label)
            t == [sequence |-> s.sequence + 1, usedIds |-> s.usedIds,
                  entriesById |-> s.entriesById, lanes |-> s.lanes,
                  openOperationsByLane |-> s.openOperationsByLane,
                  name |-> name, labels |-> labels]
<1>1. /\ m.seq = s.sequence + 1
      /\ m.fact = "name" => m.name \in Values \cup {None}
      /\ m.fact # "name" => /\ m.label \in Values \cup {None}
                            /\ m.targetId \in DOMAIN s.entriesById
  BY DEF ValidMutation, Mutation
<1>2. applyMutation(s, m) = t
  <2>1. applyMutation(s, m) = ApplyFact(s, m)
    BY DEF applyMutation
  <2>. QED  BY <1>1, <2>1 DEF ApplyFact, Good, Shaped
<1>3. name \in Values \cup {None}
  BY <1>1 DEF Good
<1>4. LabelsOf(labels, s.entriesById)
  BY <1>1 DEF Good, LabelsOf, With, Without
<1>. HIDE DEF name, labels
<1>5. Forest(s.entriesById, s.sequence + 1)
  BY ForestAges DEF Good
<1>6. Good(t)
  BY <1>3, <1>4, <1>5 DEF Good, Shaped
<1>7. Kept(s.entriesById, t.entriesById)
  BY DEF Kept
<1>. QED  BY <1>2, <1>6, <1>7 DEF Applied

\* Every mutation that is accepted keeps what a session satisfies, and its
\* entries.
LEMMA GoodApply ==
    ASSUME NEW s, Good(s), NEW m \in Mutation, ValidMutation(s, m)
    PROVE  /\ Good(applyMutation(s, m))
           /\ applyMutation(s, m).sequence = s.sequence + 1
           /\ Kept(s.entriesById, applyMutation(s, m).entriesById)
<1>1. m.kind \in {"entry", "record", "lane", "fact"}
  BY DEF Mutation
<1>2. Applied(s, m)
  BY <1>1, GoodEntry, GoodRecord, GoodLane, GoodFact
<1>. QED  BY <1>2 DEF Applied

\* Entries that are kept twice are kept.
LEMMA KeptTwice ==
    ASSUME NEW a, NEW b, NEW c, Kept(a, b), Kept(b, c)
    PROVE  Kept(a, c)
BY DEF Kept

-----------------------------------------------------------------------------
(* Branch is the walk from the root.                                       *)

WalkFrom(start) == [next |-> start, ids |-> <<>>]

\* f is a function on D.
FcnOn(f, D) == f = [x \in D |-> f[x]]

\* f is how far a walk gets in 0 to N steps.
IsWalk(s, start, N, f) ==
    f = [n \in 0..N |->
            IF n = 0 THEN WalkFrom(start)
            ELSE Only({WalkStep(s, w) : w \in {f[n - 1]}})]

\* The same, one step after another.
LEMMA WalkFcn ==
    ASSUME NEW s, NEW start, NEW N \in Nat, NEW f
    PROVE  IsWalk(s, start, N, f) <=>
              /\ FcnOn(f, 0..N)
              /\ f[0] = WalkFrom(start)
              /\ \A n \in 1..N : f[n] = WalkStep(s, f[n - 1])
<1>. DEFINE G(n) == Only({WalkStep(s, w) : w \in {f[n - 1]}})
            H(n) == IF n = 0 THEN WalkFrom(start) ELSE G(n)
<1>1. ASSUME NEW n PROVE G(n) = WalkStep(s, f[n - 1])
  <2>. DEFINE Z == {WalkStep(s, w) : w \in {f[n - 1]}}
  <2>1. Z = {WalkStep(s, f[n - 1])}
    OBVIOUS
  <2>2. Only(Z) = WalkStep(s, f[n - 1])
    <3>. HIDE DEF Z
    <3>. QED  BY <2>1, OnlyIs
  <2>. QED  BY <2>2
<1>2. IsWalk(s, start, N, f) <=> f = [n \in 0..N |-> H(n)]
  BY DEF IsWalk
<1>. HIDE DEF G
<1>3. \A n \in 0..N : n = 0 \/ n \in 1..N
  OBVIOUS
<1>4. 0 \in 0..N /\ \A n \in 1..N : n \in 0..N /\ n # 0
  OBVIOUS
<1>5. f = [n \in 0..N |-> H(n)] <=>
            FcnOn(f, 0..N) /\ \A n \in 0..N : f[n] = H(n)
  <2>. HIDE DEF H
  <2>. QED  BY DEF FcnOn
<1>6. (\A n \in 0..N : f[n] = H(n)) <=>
            f[0] = WalkFrom(start) /\ \A n \in 1..N : f[n] = G(n)
  BY <1>3, <1>4
<1>. QED  BY <1>1, <1>2, <1>5, <1>6

\* There is such a function for every number of steps.
LEMMA WalkExists ==
    ASSUME NEW s, NEW start
    PROVE  \A N \in Nat : \E f : IsWalk(s, start, N, f)
<1>. DEFINE S == {N \in Nat : \E f : IsWalk(s, start, N, f)}
<1>1. 0 \in S
  <2>. DEFINE f == [n \in 0..0 |-> WalkFrom(start)]
  <2>1. FcnOn(f, 0..0) /\ f[0] = WalkFrom(start) /\ \A n \in 1..0 : FALSE
    BY DEF FcnOn
  <2>2. IsWalk(s, start, 0, f)
    <3>. HIDE DEF f
    <3>. QED  BY <2>1, WalkFcn
  <2>. QED  BY <2>2
<1>2. ASSUME NEW N \in S PROVE N + 1 \in S
  <2>1. PICK f : IsWalk(s, start, N, f)
    OBVIOUS
  <2>0. N \in Nat
    OBVIOUS
  <2>2. /\ f[0] = WalkFrom(start)
        /\ \A n \in 1..N : f[n] = WalkStep(s, f[n - 1])
    BY <2>0, <2>1, WalkFcn, ZenonT(40)
  <2>. DEFINE g == [n \in 0..(N + 1) |-> IF n = N + 1 THEN WalkStep(s, f[N]) ELSE f[n]]
  <2>3. \A n \in 0..N : g[n] = f[n]
    BY <2>0
  <2>4. g[N + 1] = WalkStep(s, f[N])
    BY <2>0
  <2>5. FcnOn(g, 0..(N + 1))
    BY DEF FcnOn
  <2>. HIDE DEF g
  <2>6. g[0] = WalkFrom(start)
    BY <2>0, <2>2, <2>3
  <2>7. ASSUME NEW n \in 1..(N + 1) PROVE g[n] = WalkStep(s, g[n - 1])
    <3>1. CASE n = N + 1
      <4>1. n - 1 = N /\ N \in 0..N
        BY <3>1, <2>0
      <4>2. g[n - 1] = f[N]
        BY <4>1, <2>3
      <4>. QED  BY <4>2, <2>4, <3>1
    <3>2. CASE n # N + 1
      <4>1. n \in 1..N /\ n \in 0..N /\ n - 1 \in 0..N
        BY <3>2, <2>0
      <4>2. g[n] = f[n] /\ g[n - 1] = f[n - 1]
        BY <4>1, <2>3
      <4>. QED  BY <4>1, <4>2, <2>2
    <3>. QED  BY <3>1, <3>2
  <2>8. IsWalk(s, start, N + 1, g)
    <3>1. N + 1 \in Nat
      BY <2>0
    <3>. QED  BY <3>1, <2>5, <2>6, <2>7, WalkFcn
  <2>. QED  BY <2>0, <2>8
<1>3. S \in SUBSET Nat
  OBVIOUS
<1>4. \A N \in Nat : N \in S
  <2>. HIDE DEF S
  <2>. QED  BY <1>1, <1>2, <1>3, Induction
<1>. QED  BY <1>4

\* A branch is what such a walk has found at its end.
LEMMA BranchIsWalk ==
    ASSUME NEW s, NEW start, s.sequence \in Nat
    PROVE  \E f : /\ f[0] = WalkFrom(start)
                  /\ \A n \in 1..s.sequence : f[n] = WalkStep(s, f[n - 1])
                  /\ Branch(s, start) = f[s.sequence].ids
<1>. DEFINE h == CHOOSE h : IsWalk(s, start, s.sequence, h)
<1>1. Branch(s, start) = h[s.sequence].ids
  BY DEF Branch, IsWalk, WalkFrom
<1>2. IsWalk(s, start, s.sequence, h)
  BY WalkExists
<1>. HIDE DEF h
<1>. DEFINE Steps == \A n \in 1..s.sequence : h[n] = WalkStep(s, h[n - 1])
<1>3. IsWalk(s, start, s.sequence, h) <=>
            FcnOn(h, 0..s.sequence) /\ h[0] = WalkFrom(start) /\ Steps
  BY WalkFcn, ZenonT(40)
<1>4. h[0] = WalkFrom(start) /\ Steps
  <2>. HIDE DEF Steps
  <2>. QED  BY <1>2, <1>3
<1>. QED  BY <1>1, <1>4

\* b lists the ids from a root of the entries down to leaf, each the parent
\* of the next; nothing when there is no leaf.
Chain(entries, b, leaf) ==
    /\ b \in Seq(DOMAIN entries)
    /\ leaf = None <=> b = <<>>
    /\ b # <<>> => b[Len(b)] = leaf /\ entries[b[1]].parentId = None
    /\ \A i \in 2..Len(b) : entries[b[i]].parentId = b[i - 1]

\* What a walk has found after n steps: the last ids of a chain, whose first
\* one has the parent that is looked at next.
Found(s, start, w, n) ==
    /\ w = [next |-> w.next, ids |-> w.ids]
    /\ w.ids \in Seq(DOMAIN s.entriesById)
    /\ w.next \in DOMAIN s.entriesById \cup {None}
    /\ w.ids = <<>> => w.next = start
    /\ w.ids # <<>> => /\ start # None /\ w.ids[Len(w.ids)] = start
                       /\ s.entriesById[w.ids[1]].parentId = w.next
    /\ \A i \in 2..Len(w.ids) : s.entriesById[w.ids[i]].parentId = w.ids[i - 1]
    /\ w.next # None => s.entriesById[w.next].seq + n <= s.sequence

\* One element more in front.
LEMMA PrependIs ==
    ASSUME NEW P, NEW t \in Seq(P), NEW x \in P
    PROVE  /\ <<x>> \o t \in Seq(P) /\ <<x>> \o t # <<>>
           /\ Len(<<x>> \o t) = Len(t) + 1 /\ (<<x>> \o t)[1] = x
           /\ \A i \in 1..Len(t) : (<<x>> \o t)[i + 1] = t[i]
OBVIOUS

\* Every session is such a tree.
LEMMA GoodIsTree == ASSUME NEW s, Good(s) PROVE IsTree(s)
BY DEF Good, IsTree

\* A step of the walk.
LEMMA FoundStep ==
    ASSUME NEW s, IsTree(s), NEW start, NEW w, NEW n \in Nat, Found(s, start, w, n)
    PROVE  Found(s, start, WalkStep(s, w), n + 1)
<1>. DEFINE entries == s.entriesById
<1>1. /\ w.ids \in Seq(DOMAIN entries) /\ w.next \in DOMAIN entries \cup {None}
      /\ s.sequence \in Nat
  BY DEF Found, IsTree
<1>2. CASE w.next = None
  <2>1. WalkStep(s, w) = w
    BY <1>2 DEF WalkStep
  <2>. QED  BY <1>2, <2>1 DEF Found
<1>3. CASE w.next # None
  <2>. DEFINE v == WalkStep(s, w)
              longer == <<w.next>> \o w.ids
              parent == entries[w.next].parentId
  <2>1. w.next \in DOMAIN entries
    BY <1>1, <1>3
  <2>2. /\ parent \in DOMAIN entries \cup {None}
        /\ parent # None => entries[parent].seq < entries[w.next].seq
        /\ entries[w.next].seq \in Nat
        /\ parent # None => entries[parent].seq \in Nat
    <3>1. Forest(entries, s.sequence)
      BY DEF IsTree
    <3>. HIDE DEF entries
    <3>2. \A x \in DOMAIN entries : entries[x].seq \in Nat
      BY <3>1, <1>1 DEF Forest
    <3>3. /\ parent \in DOMAIN entries \cup {None}
          /\ parent # None => entries[parent].seq < entries[w.next].seq
      BY <3>1, <2>1 DEF Forest
    <3>. QED  BY <2>1, <3>2, <3>3
  <2>3. /\ longer \in Seq(DOMAIN entries) /\ longer # <<>>
        /\ Len(longer) = Len(w.ids) + 1 /\ longer[1] = w.next
        /\ \A i \in 1..Len(w.ids) : longer[i + 1] = w.ids[i]
    <3>. DEFINE D == DOMAIN entries
                ids == w.ids
                x == w.next
    <3>1. ids \in Seq(D) /\ x \in D
      BY <1>1, <2>1
    <3>. HIDE DEF D, ids, x
    <3>2. /\ <<x>> \o ids \in Seq(D) /\ <<x>> \o ids # <<>>
          /\ Len(<<x>> \o ids) = Len(ids) + 1 /\ (<<x>> \o ids)[1] = x
          /\ \A i \in 1..Len(ids) : (<<x>> \o ids)[i + 1] = ids[i]
      BY <3>1, PrependIs
    <3>. QED  BY <3>2 DEF D, ids, x
  <2>4. v = [next |-> parent, ids |-> longer]
    BY <1>3 DEF WalkStep
  <2>. HIDE DEF longer, parent, v
  <2>5. v.next = parent /\ v.ids = longer /\ v = [next |-> v.next, ids |-> v.ids]
    BY <2>4
  <2>6. start # None /\ longer[Len(longer)] = start
    <3>1. CASE w.ids = <<>>
      <4>1. w.next = start /\ Len(w.ids) = 0
        BY <3>1 DEF Found
      <4>. QED  BY <4>1, <2>3, <1>3
    <3>2. CASE w.ids # <<>>
      <4>1. /\ start # None /\ w.ids[Len(w.ids)] = start
            /\ Len(w.ids) \in 1..Len(w.ids)
        BY <3>2, <1>1 DEF Found
      <4>. QED  BY <4>1, <2>3
    <3>. QED  BY <3>1, <3>2
  <2>7. ASSUME NEW i \in 2..Len(longer) PROVE entries[longer[i]].parentId = longer[i - 1]
    <3>1. /\ Len(w.ids) \in Nat /\ i - 1 \in 1..Len(w.ids)
          /\ longer[i] = w.ids[i - 1]
      <4>1. Len(w.ids) \in Nat /\ i - 1 \in 1..Len(w.ids) /\ (i - 1) + 1 = i
        BY <1>1, <2>3
      <4>. QED  BY <4>1, <2>3
    <3>2. CASE i = 2
      <4>1. w.ids # <<>> /\ i - 1 = 1
        BY <3>1, <3>2
      <4>. QED  BY <3>1, <4>1, <2>3 DEF Found
    <3>3. CASE i # 2
      <4>1. /\ i - 1 \in 2..Len(w.ids) /\ i - 2 \in 1..Len(w.ids)
            /\ (i - 2) + 1 = i - 1 /\ (i - 1) - 1 = i - 2
        BY <3>1, <3>3
      <4>2. longer[i - 1] = w.ids[i - 2]
        BY <4>1, <2>3
      <4>3. entries[w.ids[i - 1]].parentId = w.ids[i - 2]
        BY <4>1 DEF Found
      <4>. QED  BY <4>2, <4>3, <3>1
    <3>. QED  BY <3>2, <3>3
  <2>8. entries[longer[1]].parentId = parent
    BY <2>3 DEF parent
  <2>9. parent # None => entries[parent].seq + (n + 1) <= s.sequence
    <3>1. entries[w.next].seq + n <= s.sequence
      BY <1>3 DEF Found
    <3>. QED  BY <3>1, <2>2, <1>1
  <2>10. Found(s, start, v, n + 1)
    BY <2>2, <2>3, <2>5, <2>6, <2>7, <2>8, <2>9 DEF Found
  <2>. QED  BY <2>10 DEF v
<1>. QED  BY <1>2, <1>3

\* The walk ends at a root: Branch(s, leaf) is the chain to the leaf.
LEMMA BranchIsChain ==
    ASSUME NEW s, IsTree(s), NEW leaf \in DOMAIN s.entriesById \cup {None}
    PROVE  Chain(s.entriesById, Branch(s, leaf), leaf)
<1>. DEFINE entries == s.entriesById
<1>1. s.sequence \in Nat
  BY DEF IsTree
<1>2. PICK f : /\ f[0] = WalkFrom(leaf)
               /\ \A n \in 1..s.sequence : f[n] = WalkStep(s, f[n - 1])
               /\ Branch(s, leaf) = f[s.sequence].ids
  BY <1>1, BranchIsWalk
<1>. DEFINE S == {n \in Nat : n <= s.sequence => Found(s, leaf, f[n], n)}
<1>3. 0 \in S
  <2>1. /\ f[0].next = leaf /\ f[0].ids = <<>>
        /\ f[0] = [next |-> f[0].next, ids |-> f[0].ids]
    BY <1>2 DEF WalkFrom
  <2>2. leaf # None => entries[leaf].seq \in 1..s.sequence
    BY DEF IsTree, Forest
  <2>3. leaf # None => entries[leaf].seq + 0 <= s.sequence
    BY <2>2, <1>1
  <2>. DEFINE w == f[0]
  <2>4. Found(s, leaf, w, 0)
    <3>1. w.next = leaf /\ w.ids = <<>> /\ w = [next |-> w.next, ids |-> w.ids]
      BY <2>1
    <3>. HIDE DEF w
    <3>2. w.ids \in Seq(DOMAIN entries) /\ \A i \in 2..Len(w.ids) : FALSE
      BY <3>1
    <3>. QED  BY <3>1, <3>2, <2>3 DEF Found
  <2>. QED  BY <2>4
<1>4. ASSUME NEW n \in S PROVE n + 1 \in S
  <2>1. SUFFICES ASSUME n + 1 <= s.sequence PROVE Found(s, leaf, f[n + 1], n + 1)
    OBVIOUS
  <2>2. n \in Nat /\ n <= s.sequence /\ n + 1 \in 1..s.sequence /\ (n + 1) - 1 = n
    BY <1>1, <2>1
  <2>3. Found(s, leaf, f[n], n)
    BY <2>2
  <2>4. f[n + 1] = WalkStep(s, f[n])
    BY <1>2, <2>2
  <2>. QED  BY <2>2, <2>3, <2>4, FoundStep
<1>5. S \in SUBSET Nat
  OBVIOUS
<1>6. \A n \in Nat : n \in S
  <2>. HIDE DEF S
  <2>. QED  BY <1>3, <1>4, <1>5, Induction
<1>. DEFINE w == f[s.sequence]
<1>7. Found(s, leaf, w, s.sequence)
  BY <1>1, <1>6
<1>8. w.ids = Branch(s, leaf)
  BY <1>2
<1>. HIDE DEF w
<1>9. w.next = None
  <2>1. SUFFICES ASSUME w.next # None PROVE FALSE
    OBVIOUS
  <2>2. w.next \in DOMAIN entries /\ entries[w.next].seq + s.sequence <= s.sequence
    BY <1>7, <2>1 DEF Found
  <2>3. entries[w.next].seq \in 1..s.sequence
    BY <2>2 DEF IsTree, Forest
  <2>. QED  BY <2>2, <2>3, <1>1
<1>10. Chain(entries, w.ids, leaf)
  BY <1>7, <1>9 DEF Chain, Found
<1>. QED  BY <1>8, <1>10

\* There is one chain to a leaf: from its end, each element is the parent of
\* the one before, and only a root has none.
LEMMA ChainIsOne ==
    ASSUME NEW entries, None \notin DOMAIN entries, NEW leaf, NEW b, NEW c,
           Chain(entries, b, leaf), Chain(entries, c, leaf)
    PROVE  b = c
<1>1. CASE leaf = None
  BY <1>1 DEF Chain
<1>2. CASE leaf # None
  <2>. DEFINE B == Len(b)
              C == Len(c)
  <2>1. /\ b \in Seq(DOMAIN entries) /\ b # <<>> /\ b[B] = leaf
        /\ entries[b[1]].parentId = None
        /\ \A i \in 2..B : entries[b[i]].parentId = b[i - 1]
    BY <1>2 DEF Chain
  <2>2. /\ c \in Seq(DOMAIN entries) /\ c # <<>> /\ c[C] = leaf
        /\ entries[c[1]].parentId = None
        /\ \A i \in 2..C : entries[c[i]].parentId = c[i - 1]
    BY <1>2 DEF Chain
  <2>3. /\ B \in Nat \ {0} /\ C \in Nat \ {0}
        /\ \A i \in 1..B : b[i] \in DOMAIN entries
        /\ \A i \in 1..C : c[i] \in DOMAIN entries
    BY <2>1, <2>2
  <2>4. b = c <=> B = C /\ \A i \in 1..B : b[i] = c[i]
    BY <2>1, <2>2
  <2>. HIDE DEF B, C
  <2>. DEFINE S == {k \in Nat : k < B => k < C /\ b[B - k] = c[C - k]}
  <2>5. 0 \in S
    BY <2>1, <2>2, <2>3
  <2>6. ASSUME NEW k \in S PROVE k + 1 \in S
    <3>1. SUFFICES ASSUME k + 1 < B PROVE k + 1 < C /\ b[B - (k + 1)] = c[C - (k + 1)]
      OBVIOUS
    <3>2. k \in Nat /\ k < B /\ k < C /\ b[B - k] = c[C - k]
      BY <3>1, <2>3
    <3>3. /\ B - k \in 2..B /\ (B - k) - 1 = B - (k + 1) /\ B - (k + 1) \in 1..B
          /\ C - k \in 1..C
      BY <3>1, <3>2, <2>3
    <3>4. entries[b[B - k]].parentId = b[B - (k + 1)] /\ b[B - (k + 1)] # None
      BY <3>3, <2>1, <2>3
    <3>5. C - k # 1
      BY <3>2, <3>4, <2>2
    <3>6. C - k \in 2..C /\ (C - k) - 1 = C - (k + 1) /\ k + 1 < C
      BY <3>2, <3>3, <3>5, <2>3
    <3>7. entries[c[C - k]].parentId = c[C - (k + 1)]
      BY <3>6, <2>2
    <3>. QED  BY <3>2, <3>4, <3>6, <3>7
  <2>7. S \in SUBSET Nat
    OBVIOUS
  <2>8. \A k \in Nat : k \in S
    <3>. HIDE DEF S
    <3>. QED  BY <2>5, <2>6, <2>7, Induction
  <2>9. \A k \in Nat : k < B => k < C /\ b[B - k] = c[C - k]
    BY <2>8
  <2>10. C = B
    <3>1. B - 1 \in Nat /\ B - 1 < B /\ B - (B - 1) = 1
      BY <2>3
    <3>2. B - 1 < C /\ b[1] = c[C - (B - 1)]
      BY <3>1, <2>9
    <3>3. SUFFICES ASSUME C # B PROVE FALSE
      OBVIOUS
    <3>4. C - (B - 1) \in 2..C /\ (C - (B - 1)) - 1 \in 1..C
      BY <3>2, <3>3, <2>3
    <3>5. entries[c[C - (B - 1)]].parentId \in DOMAIN entries
      BY <3>4, <2>2, <2>3
    <3>. QED  BY <3>2, <3>5, <2>1
  <2>11. ASSUME NEW i \in 1..B PROVE b[i] = c[i]
    <3>1. B - i \in Nat /\ B - i < B /\ B - (B - i) = i
      BY <2>3
    <3>. QED  BY <3>1, <2>9, <2>10
  <2>. QED  BY <2>4, <2>10, <2>11
<1>. QED  BY <1>1, <1>2

-----------------------------------------------------------------------------
(* Picking elements of a sequence.                                         *)

\* One element of a sequence is looked at.
Pick(S, picked, x) == IF x \in S THEN Append(picked, x) ELSE picked

\* f is what Among finds in the first 0 to N elements of seq.
IsAmong(seq, S, N, f) ==
    f = [n \in 0..N |->
            IF n = 0 THEN <<>>
            ELSE IF seq[n] \in S THEN Append(f[n - 1], seq[n])
                 ELSE f[n - 1]]

\* The same, one step after another.
LEMMA AmongFcn ==
    ASSUME NEW seq, NEW S, NEW N \in Nat, NEW f
    PROVE  IsAmong(seq, S, N, f) <=>
              /\ FcnOn(f, 0..N)
              /\ f[0] = <<>>
              /\ \A n \in 1..N : f[n] = Pick(S, f[n - 1], seq[n])
<1>. DEFINE G(n) == IF seq[n] \in S THEN Append(f[n - 1], seq[n]) ELSE f[n - 1]
            H(n) == IF n = 0 THEN <<>> ELSE G(n)
<1>1. ASSUME NEW n PROVE G(n) = Pick(S, f[n - 1], seq[n])
  BY DEF Pick
<1>2. IsAmong(seq, S, N, f) <=> f = [n \in 0..N |-> H(n)]
  BY DEF IsAmong
<1>. HIDE DEF G
<1>3. \A n \in 0..N : n = 0 \/ n \in 1..N
  OBVIOUS
<1>4. 0 \in 0..N /\ \A n \in 1..N : n \in 0..N /\ n # 0
  OBVIOUS
<1>5. f = [n \in 0..N |-> H(n)] <=>
            FcnOn(f, 0..N) /\ \A n \in 0..N : f[n] = H(n)
  <2>. HIDE DEF H
  <2>. QED  BY DEF FcnOn
<1>6. (\A n \in 0..N : f[n] = H(n)) <=>
            f[0] = <<>> /\ \A n \in 1..N : f[n] = G(n)
  BY <1>3, <1>4
<1>. QED  BY <1>1, <1>2, <1>5, <1>6

\* There is such a function for every number of steps.
LEMMA AmongExists ==
    ASSUME NEW seq, NEW S
    PROVE  \A N \in Nat : \E f : IsAmong(seq, S, N, f)
<1>. DEFINE T == {N \in Nat : \E f : IsAmong(seq, S, N, f)}
<1>1. 0 \in T
  <2>. DEFINE f == [n \in 0..0 |-> <<>>]
  <2>1. FcnOn(f, 0..0) /\ f[0] = <<>> /\ \A n \in 1..0 : FALSE
    BY DEF FcnOn
  <2>2. IsAmong(seq, S, 0, f)
    <3>. HIDE DEF f
    <3>. QED  BY <2>1, AmongFcn
  <2>. QED  BY <2>2
<1>2. ASSUME NEW N \in T PROVE N + 1 \in T
  <2>1. PICK f : IsAmong(seq, S, N, f)
    OBVIOUS
  <2>0. N \in Nat
    OBVIOUS
  <2>2. /\ f[0] = <<>>
        /\ \A n \in 1..N : f[n] = Pick(S, f[n - 1], seq[n])
    <3>. HIDE DEF T
    <3>. QED  BY <2>0, <2>1, AmongFcn
  <2>. DEFINE g == [n \in 0..(N + 1) |-> IF n = N + 1 THEN Pick(S, f[N], seq[N + 1]) ELSE f[n]]
  <2>3. \A n \in 0..N : g[n] = f[n]
    BY <2>0
  <2>4. g[N + 1] = Pick(S, f[N], seq[N + 1])
    BY <2>0
  <2>5. FcnOn(g, 0..(N + 1))
    BY DEF FcnOn
  <2>. HIDE DEF g
  <2>6. g[0] = <<>>
    BY <2>0, <2>2, <2>3
  <2>7. ASSUME NEW n \in 1..(N + 1) PROVE g[n] = Pick(S, g[n - 1], seq[n])
    <3>1. CASE n = N + 1
      <4>1. n - 1 = N /\ N \in 0..N
        BY <3>1, <2>0
      <4>2. g[n - 1] = f[N]
        BY <4>1, <2>3
      <4>. QED  BY <4>2, <2>4, <3>1
    <3>2. CASE n # N + 1
      <4>1. n \in 1..N /\ n \in 0..N /\ n - 1 \in 0..N
        BY <3>2, <2>0
      <4>2. g[n] = f[n] /\ g[n - 1] = f[n - 1]
        BY <4>1, <2>3
      <4>. QED  BY <4>1, <4>2, <2>2
    <3>. QED  BY <3>1, <3>2
  <2>8. IsAmong(seq, S, N + 1, g)
    <3>1. N + 1 \in Nat
      BY <2>0
    <3>. QED  BY <3>1, <2>5, <2>6, <2>7, AmongFcn
  <2>. QED  BY <2>0, <2>8
<1>3. T \in SUBSET Nat
  OBVIOUS
<1>4. \A N \in Nat : N \in T
  <2>. HIDE DEF T
  <2>. QED  BY <1>1, <1>2, <1>3, Induction
<1>. QED  BY <1>4

\* Among(seq, S) is the last value of such a function.
LEMMA AmongSteps ==
    ASSUME NEW seq, NEW S, Len(seq) \in Nat
    PROVE  \E f : /\ f[0] = <<>>
                  /\ \A n \in 1..Len(seq) : f[n] = Pick(S, f[n - 1], seq[n])
                  /\ Among(seq, S) = f[Len(seq)]
<1>. DEFINE h == CHOOSE h : IsAmong(seq, S, Len(seq), h)
<1>1. Among(seq, S) = h[Len(seq)]
  BY DEF Among, IsAmong
<1>2. IsAmong(seq, S, Len(seq), h)
  BY AmongExists
<1>. HIDE DEF h
<1>. DEFINE N == Len(seq)
<1>3. N \in Nat /\ IsAmong(seq, S, N, h)
  BY <1>2
<1>4. h[0] = <<>> /\ \A n \in 1..N : h[n] = Pick(S, h[n - 1], seq[n])
  <2>. HIDE DEF N
  <2>. QED  BY <1>3, AmongFcn
<1>. QED  BY <1>1, <1>4

\* One element more.
LEMMA AppendIs ==
    ASSUME NEW P, NEW s \in Seq(P), NEW b \in P
    PROVE  /\ Append(s, b) \in Seq(P) /\ Append(s, b) # <<>> /\ Len(s) \in Nat
           /\ Len(Append(s, b)) = Len(s) + 1
           /\ DOMAIN s = 1..Len(s) /\ DOMAIN Append(s, b) = 1..(Len(s) + 1)
           /\ \A k \in 1..Len(s) : Append(s, b)[k] = s[k]
           /\ Append(s, b)[Len(s) + 1] = b
OBVIOUS

\* The same, of a sequence that has a name.
LEMMA AppendOf ==
    ASSUME NEW P, NEW s \in Seq(P), NEW b \in P, NEW t, t = Append(s, b)
    PROVE  /\ t \in Seq(P) /\ Len(s) \in Nat /\ Len(t) = Len(s) + 1
           /\ \A k \in 1..Len(s) : t[k] = s[k]
           /\ t[Len(s) + 1] = b
OBVIOUS

\* The elements of a sequence.
LEMMA RangeIs ==
    ASSUME NEW P, NEW s \in Seq(P)
    PROVE  /\ \A x : x \in Range(s) <=> \E i \in 1..Len(s) : s[i] = x
           /\ Len(s) \in Nat /\ \A i \in 1..Len(s) : s[i] \in P /\ s[i] \in Range(s)
BY DEF Range

\* One element more has one value more.
LEMMA RangeOfAppend ==
    ASSUME NEW P, NEW s \in Seq(P), NEW b \in P
    PROVE  \A x : x \in Range(Append(s, b)) <=> x \in Range(s) \/ x = b
<1>. DEFINE t == Append(s, b)
<1>1. /\ Len(s) \in Nat /\ DOMAIN s = 1..Len(s) /\ DOMAIN t = 1..(Len(s) + 1)
      /\ \A k \in 1..Len(s) : t[k] = s[k]
      /\ t[Len(s) + 1] = b
  BY AppendIs
<1>. HIDE DEF t
<1>2. \A k \in DOMAIN t : k \in DOMAIN s \/ k = Len(s) + 1
  BY <1>1
<1>3. Len(s) + 1 \in DOMAIN t /\ \A k \in DOMAIN s : k \in DOMAIN t /\ t[k] = s[k]
  BY <1>1
<1>4. \A x : x \in Range(t) <=> x \in Range(s) \/ x = b
  BY <1>1, <1>2, <1>3 DEF Range
<1>. QED  BY <1>4 DEF t

\* Among(seq, S) has the elements of seq that are in S.
LEMMA AmongRange ==
    ASSUME NEW P, NEW seq \in Seq(P), NEW S
    PROVE  Among(seq, S) \in Seq(P) /\ Range(Among(seq, S)) = Range(seq) \cap S
<1>. DEFINE N == Len(seq)
<1>1. N \in Nat /\ \A n \in 1..N : seq[n] \in P
  OBVIOUS
<1>2. PICK f : /\ f[0] = <<>>
               /\ \A n \in 1..N : f[n] = Pick(S, f[n - 1], seq[n])
               /\ Among(seq, S) = f[N]
  BY <1>1, AmongSteps
<1>. DEFINE Has(n) == /\ f[n] \in Seq(P)
                      /\ \A x : x \in Range(f[n]) <=> x \in S /\ \E i \in 1..n : seq[i] = x
            T == {n \in Nat : n <= N => Has(n)}
<1>3. 0 \in T
  <2>1. f[0] \in Seq(P) /\ (\A x : x \notin Range(f[0])) /\ \A i \in 1..0 : FALSE
    BY <1>2 DEF Range
  <2>. QED  BY <2>1
<1>4. ASSUME NEW n \in T PROVE n + 1 \in T
  <2>1. SUFFICES ASSUME n + 1 <= N PROVE Has(n + 1)
    OBVIOUS
  <2>2. n \in Nat /\ n <= N /\ n + 1 \in 1..N /\ (n + 1) - 1 = n
    BY <1>1, <2>1
  <2>3. Has(n)
    BY <2>2
  <2>. DEFINE y == seq[n + 1]
              g == f[n]
              h == f[n + 1]
  <2>4. h = Pick(S, g, y) /\ y \in P
    BY <1>1, <1>2, <2>2
  <2>5. g \in Seq(P) /\ \A x : x \in Range(g) <=> x \in S /\ \E i \in 1..n : seq[i] = x
    BY <2>3
  <2>6. \A x : (\E i \in 1..(n + 1) : seq[i] = x) <=> (\E i \in 1..n : seq[i] = x) \/ x = y
    <3>1. \A i \in 1..(n + 1) : i \in 1..n \/ i = n + 1
      BY <2>2
    <3>2. n + 1 \in 1..(n + 1) /\ \A i \in 1..n : i \in 1..(n + 1)
      BY <2>2
    <3>. QED  BY <3>1, <3>2
  <2>. HIDE DEF y, g, h
  <2>7. h \in Seq(P) /\ \A x : x \in Range(h) <=> x \in S /\ ((\E i \in 1..n : seq[i] = x) \/ x = y)
    <3>1. CASE y \in S
      <4>1. h = Append(g, y)
        BY <3>1, <2>4 DEF Pick
      <4>2. \A x : x \in Range(h) <=> x \in Range(g) \/ x = y
        BY <4>1, <2>4, <2>5, RangeOfAppend
      <4>3. h \in Seq(P)
        <5>1. g \in Seq(P) /\ y \in P
          BY <2>4, <2>5
        <5>. QED  BY <4>1, <5>1
      <4>. QED  BY <3>1, <4>2, <4>3, <2>5
    <3>2. CASE y \notin S
      <4>1. h = g
        BY <3>2, <2>4 DEF Pick
      <4>. QED  BY <3>2, <4>1, <2>5
    <3>. QED  BY <3>1, <3>2
  <2>8. h \in Seq(P) /\ \A x : x \in Range(h) <=> x \in S /\ \E i \in 1..(n + 1) : seq[i] = x
    BY <2>6, <2>7
  <2>. QED  BY <2>8 DEF h
<1>5. T \in SUBSET Nat
  OBVIOUS
<1>6. \A n \in Nat : n \in T
  <2>. HIDE DEF T
  <2>. QED  BY <1>3, <1>4, <1>5, Induction
<1>7. Has(N)
  <2>. HIDE DEF Has, N
  <2>. QED  BY <1>1, <1>6
<1>8. \A x : x \in Range(seq) <=> \E i \in 1..N : seq[i] = x
  BY RangeIs
<1>. QED  BY <1>2, <1>7, <1>8

\* What is picked from elements in increasing order is in increasing order.
LEMMA AmongOrder ==
    ASSUME NEW P, NEW seq \in Seq(P), NEW S, NEW key, \A x \in P : key[x] \in Nat,
           \A i, j \in 1..Len(seq) : i < j => key[seq[i]] < key[seq[j]]
    PROVE  \A i, j \in 1..Len(Among(seq, S)) :
                i < j => key[Among(seq, S)[i]] < key[Among(seq, S)[j]]
<1>. DEFINE N == Len(seq)
            r == Among(seq, S)
<1>1. N \in Nat /\ \A n \in 1..N : seq[n] \in P
  OBVIOUS
<1>2. PICK f : /\ f[0] = <<>>
               /\ \A n \in 1..N : f[n] = Pick(S, f[n - 1], seq[n])
               /\ r = f[N]
  BY <1>1, AmongSteps
<1>. HIDE DEF r
<1>. DEFINE Grows(n) == /\ f[n] \in Seq(P)
                        /\ \A i \in 1..Len(f[n]) : \E k \in 1..n : f[n][i] = seq[k]
                        /\ \A i, j \in 1..Len(f[n]) : i < j => key[f[n][i]] < key[f[n][j]]
            T == {n \in Nat : n <= N => Grows(n)}
<1>3. 0 \in T
  <2>1. f[0] \in Seq(P) /\ \A i \in 1..Len(f[0]) : FALSE
    BY <1>2
  <2>. QED  BY <2>1
<1>4. ASSUME NEW n \in T PROVE n + 1 \in T
  <2>1. SUFFICES ASSUME n + 1 <= N PROVE Grows(n + 1)
    OBVIOUS
  <2>2. n \in Nat /\ n <= N /\ n + 1 \in 1..N /\ (n + 1) - 1 = n
    BY <1>1, <2>1
  <2>. DEFINE g == f[n]
              h == f[n + 1]
              y == seq[n + 1]
  <2>3. h = Pick(S, g, y) /\ y \in P
    BY <1>1, <1>2, <2>2
  <2>4. /\ g \in Seq(P)
        /\ \A i \in 1..Len(g) : \E k \in 1..n : g[i] = seq[k]
        /\ \A i, j \in 1..Len(g) : i < j => key[g[i]] < key[g[j]]
    BY <2>2
  <2>5. \A k \in 1..n : k \in 1..(n + 1) /\ key[seq[k]] < key[y]
    <3>1. \A k \in 1..n : k \in 1..N /\ k < n + 1 /\ k \in 1..(n + 1)
      BY <2>2, <1>1
    <3>. QED  BY <3>1, <2>2
  <2>6. n + 1 \in 1..(n + 1) /\ y = seq[n + 1]
    BY <2>2
  <2>. HIDE DEF g, h, y
  <2>7. /\ h \in Seq(P)
        /\ \A i \in 1..Len(h) : \E k \in 1..(n + 1) : h[i] = seq[k]
        /\ \A i, j \in 1..Len(h) : i < j => key[h[i]] < key[h[j]]
    <3>1. CASE y \in S
      <4>1. h = Append(g, y)
        BY <3>1, <2>3 DEF Pick
      <4>2. /\ h \in Seq(P) /\ Len(g) \in Nat /\ Len(h) = Len(g) + 1
            /\ \A k \in 1..Len(g) : h[k] = g[k]
            /\ h[Len(g) + 1] = y
        <5>1. g \in Seq(P) /\ y \in P
          BY <2>3, <2>4
        <5>. QED  BY <4>1, <5>1, AppendOf
      <4>3. \A k \in 1..Len(h) : k \in 1..Len(g) \/ k = Len(g) + 1
        BY <4>2
      <4>4. \A i \in 1..Len(h) : \E k \in 1..(n + 1) : h[i] = seq[k]
        <5>1. \A i \in 1..Len(g) : \E k \in 1..(n + 1) : h[i] = seq[k]
          BY <4>2, <2>4, <2>5
        <5>. QED  BY <5>1, <4>2, <4>3, <2>6
      <4>5. ASSUME NEW i \in 1..Len(h), NEW j \in 1..Len(h), i < j PROVE key[h[i]] < key[h[j]]
        <5>1. i \in 1..Len(g)
          BY <4>2, <4>5
        <5>2. CASE j \in 1..Len(g)
          BY <5>1, <5>2, <4>2, <4>5, <2>4
        <5>3. CASE j = Len(g) + 1
          <6>1. PICK k \in 1..n : g[i] = seq[k]
            BY <5>1, <2>4
          <6>. QED  BY <6>1, <5>1, <5>3, <4>2, <2>5
        <5>. QED  BY <5>2, <5>3, <4>3
      <4>. QED  BY <4>2, <4>4, <4>5
    <3>2. CASE y \notin S
      <4>1. h = g
        BY <3>2, <2>3 DEF Pick
      <4>2. \A i \in 1..Len(g) : \E k \in 1..(n + 1) : g[i] = seq[k]
        BY <2>4, <2>5
      <4>. QED  BY <4>1, <4>2, <2>4
    <3>. QED  BY <3>1, <3>2
  <2>. QED  BY <2>7 DEF h
<1>5. T \in SUBSET Nat
  OBVIOUS
<1>6. \A n \in Nat : n \in T
  <2>. HIDE DEF T
  <2>. QED  BY <1>3, <1>4, <1>5, Induction
<1>7. Grows(N)
  <2>. HIDE DEF Grows, N
  <2>. QED  BY <1>1, <1>6
<1>. QED  BY <1>7, <1>2 DEF r

\* Numbers that are picked from 1 to N come in their order.
LEMMA AmongNumbers ==
    ASSUME NEW N \in Nat, NEW S
    PROVE  LET r == Among([n \in 1..N |-> n], S)
           IN  /\ r \in Seq(1..N) /\ Range(r) = (1..N) \cap S
               /\ \A i, j \in 1..Len(r) : i < j => r[i] < r[j]
<1>. DEFINE seq == [n \in 1..N |-> n]
            r == Among(seq, S)
<1>1. seq \in Seq(1..N) /\ Len(seq) = N /\ \A n \in 1..N : seq[n] = n
  OBVIOUS
<1>2. \A x \in 1..N : seq[x] \in Nat
  BY <1>1
<1>3. \A i, j \in 1..N : i < j => seq[seq[i]] < seq[seq[j]]
  BY <1>1
<1>. HIDE DEF seq
<1>4. r \in Seq(1..N) /\ Range(r) = (1..N) \cap S
  <2>1. Range(seq) = 1..N
    BY <1>1 DEF Range
  <2>. QED  BY <1>1, <2>1, AmongRange
<1>5. \A i, j \in 1..Len(r) : i < j => seq[r[i]] < seq[r[j]]
  BY <1>1, <1>2, <1>3, AmongOrder
<1>. HIDE DEF r
<1>6. \A i \in 1..Len(r) : r[i] \in 1..N
  BY <1>4
<1>7. \A i, j \in 1..Len(r) : i < j => r[i] < r[j]
  BY <1>1, <1>5, <1>6
<1>. QED  BY <1>4, <1>7 DEF r, seq

-----------------------------------------------------------------------------
(* The entries a fork copies, in the order it copies them.                 *)

\* ids lists entries without repeating one, each behind its parent.
CopyOrder(entries, ids) ==
    /\ ids \in Seq(DOMAIN entries)
    /\ \A i, j \in 1..Len(ids) : ids[i] = ids[j] => i = j
    /\ \A i \in 1..Len(ids) :
        \/ entries[ids[i]].parentId = None
        \/ \E j \in 1..(i - 1) : ids[j] = entries[ids[i]].parentId

\* ids lists entries from the oldest to the youngest.
Sorted(entries, ids) ==
    /\ ids \in Seq(DOMAIN entries)
    /\ \A i, j \in 1..Len(ids) : i < j => entries[ids[i]].seq < entries[ids[j]].seq

\* Going down a chain, entries get younger.
LEMMA ChainGetsYounger ==
    ASSUME NEW entries, NEW n, Forest(entries, n), None \notin DOMAIN entries,
           n \in Nat, NEW b, NEW leaf, Chain(entries, b, leaf)
    PROVE  \A i, j \in 1..Len(b) : i < j => entries[b[i]].seq < entries[b[j]].seq
<1>. DEFINE B == Len(b)
            Older(j) == \A i \in 1..B : i < j => entries[b[i]].seq < entries[b[j]].seq
            T == {j \in Nat : j \in 1..B => Older(j)}
<1>1. /\ B \in Nat /\ \A i \in 1..B : b[i] \in DOMAIN entries
      /\ \A i \in 2..B : entries[b[i]].parentId = b[i - 1]
  BY DEF Chain
<1>. HIDE DEF B
<1>2. \A i \in 1..B : entries[b[i]].seq \in Nat
  BY <1>1 DEF Forest
<1>3. 0 \in T
  BY <1>1
<1>4. ASSUME NEW j \in T PROVE j + 1 \in T
  <2>1. SUFFICES ASSUME j + 1 \in 1..B PROVE Older(j + 1)
    OBVIOUS
  <2>2. CASE j = 0
    BY <2>2, <1>1
  <2>3. CASE j # 0
    <3>1. j \in 1..B /\ j + 1 \in 2..B /\ (j + 1) - 1 = j
      BY <2>1, <2>3, <1>1
    <3>2. Older(j)
      BY <3>1
    <3>3. entries[b[j + 1]].parentId = b[j] /\ b[j] \in DOMAIN entries /\ b[j] # None
      BY <3>1, <1>1
    <3>4. entries[b[j]].seq < entries[b[j + 1]].seq
      BY <3>1, <3>3, <1>1 DEF Forest
    <3>5. ASSUME NEW i \in 1..B, i < j + 1 PROVE entries[b[i]].seq < entries[b[j + 1]].seq
      <4>1. i = j \/ i < j
        BY <3>1, <3>5
      <4>2. CASE i < j
        <5>1. /\ entries[b[i]].seq < entries[b[j]].seq
              /\ entries[b[i]].seq \in Nat /\ entries[b[j]].seq \in Nat
              /\ entries[b[j + 1]].seq \in Nat
          BY <4>2, <3>1, <3>2, <1>2, <2>1
        <5>. QED  BY <5>1, <3>4
      <4>. QED  BY <4>1, <4>2, <3>4
    <3>. QED  BY <3>5
  <2>. QED  BY <2>2, <2>3
<1>5. T \in SUBSET Nat
  OBVIOUS
<1>6. \A j \in Nat : j \in T
  <2>. HIDE DEF T
  <2>. QED  BY <1>3, <1>4, <1>5, Induction
<1>7. \A j \in 1..B : Older(j)
  <2>. HIDE DEF Older
  <2>. QED  BY <1>1, <1>6
<1>. QED  BY <1>7 DEF B

\* A chain is an order to copy entries in.
LEMMA ChainIsOrder ==
    ASSUME NEW entries, NEW n \in Nat, Forest(entries, n), NEW b, NEW leaf,
           Chain(entries, b, leaf)
    PROVE  CopyOrder(entries, b) /\ leaf \in Range(b) \cup {None}
<1>0. None \notin DOMAIN entries
  BY IdsAssumption DEF Forest
<1>1. \A i, j \in 1..Len(b) : i < j => entries[b[i]].seq < entries[b[j]].seq
  BY <1>0, ChainGetsYounger
<1>2. /\ b \in Seq(DOMAIN entries) /\ Len(b) \in Nat
      /\ \A i \in 1..Len(b) : b[i] \in DOMAIN entries
  BY DEF Chain
<1>3. \A i \in 1..Len(b) : entries[b[i]].seq \in Nat
  BY <1>2 DEF Forest
<1>4. ASSUME NEW i \in 1..Len(b), NEW j \in 1..Len(b), b[i] = b[j] PROVE i = j
  <2>1. ~ (i < j) /\ ~ (j < i)
    BY <1>1, <1>3, <1>4
  <2>. QED  BY <2>1
<1>5. ASSUME NEW i \in 1..Len(b)
      PROVE  \/ entries[b[i]].parentId = None
             \/ \E j \in 1..(i - 1) : b[j] = entries[b[i]].parentId
  <2>1. CASE i = 1
    <3>1. b # <<>>
      BY <1>2, <2>1
    <3>. QED  BY <2>1, <3>1 DEF Chain
  <2>2. CASE i # 1
    <3>1. i \in 2..Len(b) /\ i - 1 \in 1..(i - 1)
      BY <2>2, <1>2
    <3>2. entries[b[i]].parentId = b[i - 1]
      BY <3>1 DEF Chain
    <3>. QED  BY <3>1, <3>2
  <2>. QED  BY <2>1, <2>2
<1>6. CopyOrder(entries, b)
  BY <1>2, <1>4, <1>5 DEF CopyOrder
<1>7. leaf # None => leaf \in Range(b)
  <2>1. SUFFICES ASSUME leaf # None PROVE leaf \in Range(b)
    OBVIOUS
  <2>2. b # <<>> /\ b[Len(b)] = leaf
    BY <2>1 DEF Chain
  <2>3. Len(b) \in 1..Len(b)
    BY <2>2, <1>2
  <2>. QED  BY <2>2, <2>3, <1>2, RangeIs
<1>. QED  BY <1>6, <1>7

\* All entries, the oldest first, are one too.
LEMMA SequenceOrder ==
    ASSUME NEW s, IsTree(s)
    PROVE  /\ CopyOrder(s.entriesById, InSequenceOrder(s))
           /\ Range(InSequenceOrder(s)) = DOMAIN s.entriesById
           /\ Sorted(s.entriesById, InSequenceOrder(s))
<1>. DEFINE entries == s.entriesById
            D == DOMAIN entries
            used == {entries[id].seq : id \in D}
            numbers == Among([n \in 1..s.sequence |-> n], used)
            L == Len(numbers)
            ids == InSequenceOrder(s)
<1>1. s.sequence \in Nat /\ Forest(entries, s.sequence)
  BY DEF IsTree
<1>2. /\ numbers \in Seq(1..s.sequence) /\ Range(numbers) = (1..s.sequence) \cap used
      /\ \A i, j \in 1..L : i < j => numbers[i] < numbers[j]
  <2>. HIDE DEF used
  <2>. QED  BY <1>1, AmongNumbers
<1>3. ids = [i \in 1..L |-> CHOOSE id \in D : entries[id].seq = numbers[i]]
  BY DEF InSequenceOrder
<1>. HIDE DEF numbers, ids, entries
<1>4. /\ L \in Nat /\ \A i \in 1..L : numbers[i] \in Nat /\ numbers[i] \in Range(numbers)
      /\ \A x : x \in Range(numbers) <=> \E i \in 1..L : numbers[i] = x
  BY <1>2, RangeIs
<1>5. /\ \A id \in D : entries[id].seq \in 1..s.sequence
      /\ \A a, b \in D : entries[a].seq = entries[b].seq => a = b
      /\ \A id \in D : entries[id].parentId # None =>
            /\ entries[id].parentId \in D
            /\ entries[entries[id].parentId].seq < entries[id].seq
  BY <1>1 DEF Forest
<1>. HIDE DEF L, D
<1>6. \A id \in D : entries[id].seq \in Range(numbers)
  BY <1>2, <1>5
<1>7. \A i \in 1..L : \E id \in D : entries[id].seq = numbers[i]
  BY <1>2, <1>4
<1>. HIDE DEF used
<1>8. \A i \in 1..L : ids[i] \in D /\ entries[ids[i]].seq = numbers[i]
  BY <1>3, <1>7
<1>9. ids \in Seq(D) /\ Len(ids) = L
  BY <1>3, <1>4, <1>8
<1>10. \A id \in D : \E i \in 1..L : ids[i] = id
  <2>1. SUFFICES ASSUME NEW id \in D PROVE \E i \in 1..L : ids[i] = id
    OBVIOUS
  <2>2. PICK i \in 1..L : numbers[i] = entries[id].seq
    BY <1>4, <1>6
  <2>. QED  BY <2>2, <1>5, <1>8
<1>11. Range(ids) = D
  <2>1. \A x : x \in Range(ids) <=> \E i \in 1..L : ids[i] = x
    BY <1>9, RangeIs
  <2>. QED  BY <2>1, <1>8, <1>10
<1>12. ASSUME NEW i \in 1..L, NEW j \in 1..L, ids[i] = ids[j] PROVE i = j
  <2>1. numbers[i] = numbers[j]
    BY <1>8, <1>12
  <2>2. ~ (i < j) /\ ~ (j < i)
    BY <2>1, <1>2, <1>4
  <2>. QED  BY <2>2, <1>4
<1>13. ASSUME NEW i \in 1..L, entries[ids[i]].parentId # None
       PROVE  \E j \in 1..(i - 1) : ids[j] = entries[ids[i]].parentId
  <2>. DEFINE p == entries[ids[i]].parentId
  <2>1. p \in D /\ entries[p].seq < numbers[i]
    BY <1>5, <1>8, <1>13
  <2>2. PICK j \in 1..L : ids[j] = p
    BY <2>1, <1>10
  <2>3. numbers[j] < numbers[i]
    BY <2>1, <2>2, <1>8
  <2>4. j < i
    <3>1. ~ (i < j) /\ i # j
      BY <2>3, <1>2, <1>4
    <3>. QED  BY <3>1, <1>4
  <2>5. j \in 1..(i - 1)
    BY <2>4, <1>4
  <2>. QED  BY <2>2, <2>5
<1>14. CopyOrder(entries, ids)
  BY <1>9, <1>12, <1>13 DEF CopyOrder, D
<1>15. Sorted(entries, ids)
  BY <1>2, <1>8, <1>9 DEF Sorted, D
<1>. QED  BY <1>11, <1>14, <1>15 DEF entries, D, ids

\* A finite set is listed whole.
LEMMA SetToSeqIs ==
    ASSUME NEW S, IsFiniteSet(S)
    PROVE  SetToSeq(S) \in Seq(S) /\ Range(SetToSeq(S)) = S
<1>. DEFINE n == Cardinality(S)
            P(f) == f \in [1..n -> S] /\ IsInjective(f)
            f == SetToSeq(S)
<1>1. n \in Nat /\ ExistsBijection(1..n, S)
  BY FS_CardinalityType
<1>2. \E g : P(g)
  BY <1>1 DEF ExistsBijection, Bijection, Injection, Surjection, IsInjective
<1>3. f = CHOOSE g \in [1..n -> S] : IsInjective(g)
  BY DEF SetToSeq
<1>4. f \in [1..n -> S] /\ IsInjective(f)
  BY <1>2, <1>3
<1>. HIDE DEF f, n
<1>5. f \in Injection(1..n, S)
  BY <1>4 DEF Injection, IsInjective
<1>6. IsFiniteSet(1..n) /\ Cardinality(1..n) = Cardinality(S)
  BY <1>1, FS_Interval DEF n
<1>7. f \in Surjection(1..n, S)
  BY <1>5, <1>6, FS_Injection
<1>8. Range(f) = S
  BY <1>4, <1>7 DEF Surjection, Range
<1>9. f \in Seq(S)
  BY <1>1, <1>4
<1>. QED  BY <1>8, <1>9 DEF f

-----------------------------------------------------------------------------
(* Replaying the mutations of a fork.                                      *)

\* The order the lanes of a fork are written in, and where the entries, the
\* lanes, the name and the labels among its mutations end.
ForkNames(s, o) == SetToSeq(DOMAIN ForkLanes(s, o))
EntriesEnd(s, o) == Len(CopiedEntries(s, o))
LanesEnd(s, o) == EntriesEnd(s, o) + Len(ForkNames(s, o))
NameEnd(s, o) == LanesEnd(s, o) + (IF s.name = None THEN 0 ELSE 1)
ForkEnd(s, o) == NameEnd(s, o) + Len(ForkLabels(s, o))

\* What is copied: entries behind their parents, lanes that point at copied
\* entries, labels of copied entries.
Copies(s, o) ==
    /\ CopyOrder(s.entriesById, CopiedEntries(s, o))
    /\ "main" \in DOMAIN ForkLanes(s, o) /\ DOMAIN ForkLanes(s, o) \subseteq Lanes
    /\ \A l \in DOMAIN ForkLanes(s, o) :
            ForkLanes(s, o)[l] \in Range(CopiedEntries(s, o)) \cup {None}
    /\ ForkNames(s, o) \in Seq(Lanes)
    /\ Range(ForkNames(s, o)) = DOMAIN ForkLanes(s, o)
    /\ ForkLabels(s, o) \in Seq(Ids)
    /\ Range(ForkLabels(s, o)) = Range(CopiedEntries(s, o)) \cap DOMAIN s.labels

\* The new leaf of a branch fork is an entry of the source.
LEMMA ForkTargetIs ==
    ASSUME NEW s, Good(s), NEW o \in ForkOptions, ValidForkTarget(s, o), o.scope # "tree"
    PROVE  ForkTarget(s, o) \in DOMAIN s.entriesById \cup {None}
<1>1. SelectedEntry(s, o) \in DOMAIN s.entriesById \cup {None}
  BY DEF ValidForkTarget
<1>2. ASSUME NEW x \in DOMAIN s.entriesById
      PROVE  s.entriesById[x].parentId \in DOMAIN s.entriesById \cup {None}
  BY DEF Good, Forest
<1>. QED  BY <1>1, <1>2 DEF ForkTarget

\* A fork of a session copies such a selection.
LEMMA ForkCopies ==
    ASSUME NEW s, Good(s), NEW o \in ForkOptions, ValidForkTarget(s, o)
    PROVE  /\ Copies(s, o)
           /\ o.scope = "tree" => Range(CopiedEntries(s, o)) = DOMAIN s.entriesById
           /\ o.scope # "tree" => /\ CopiedEntries(s, o) = Branch(s, ForkTarget(s, o))
                                  /\ ForkLanes(s, o)["main"] = ForkTarget(s, o)
<1>. DEFINE ids == CopiedEntries(s, o)
            lanes == ForkLanes(s, o)
            D == DOMAIN s.entriesById
<1>1. /\ s.sequence \in Nat /\ Forest(s.entriesById, s.sequence)
      /\ PointsInto(s.lanes, s.entriesById) /\ LabelsOf(s.labels, s.entriesById)
  BY DEF Good
<1>2. /\ CopyOrder(s.entriesById, ids)
      /\ "main" \in DOMAIN lanes /\ DOMAIN lanes \subseteq Lanes
      /\ IsFiniteSet(DOMAIN lanes)
      /\ \A l \in DOMAIN lanes : lanes[l] \in Range(ids) \cup {None}
      /\ o.scope = "tree" => Range(ids) = D
      /\ o.scope # "tree" => ids = Branch(s, ForkTarget(s, o)) /\ lanes["main"] = ForkTarget(s, o)
  <2>1. CASE o.scope = "tree"
    <3>1. ids = InSequenceOrder(s) /\ lanes = s.lanes
      BY <2>1 DEF CopiedEntries, ForkLanes
    <3>2. CopyOrder(s.entriesById, ids) /\ Range(ids) = D
      BY <3>1, GoodIsTree, SequenceOrder
    <3>. QED  BY <2>1, <3>1, <3>2, <1>1 DEF PointsInto
  <2>2. CASE o.scope # "tree"
    <3>. DEFINE leaf == ForkTarget(s, o)
    <3>1. ids = Branch(s, leaf) /\ lanes = [l \in {"main"} |-> leaf]
      BY <2>2 DEF CopiedEntries, ForkLanes
    <3>2. leaf \in D \cup {None}
      BY <2>2, ForkTargetIs
    <3>. HIDE DEF leaf
    <3>3. Chain(s.entriesById, ids, leaf)
      BY <3>1, <3>2, GoodIsTree, BranchIsChain
    <3>. HIDE DEF ids
    <3>4. CopyOrder(s.entriesById, ids) /\ leaf \in Range(ids) \cup {None}
      BY <3>3, <1>1, ChainIsOrder
    <3>5. IsFiniteSet({"main"})
      BY FS_Singleton
    <3>6. DOMAIN lanes = {"main"} /\ lanes["main"] = leaf
      BY <3>1
    <3>. HIDE DEF lanes
    <3>. QED  BY <2>2, <3>1, <3>4, <3>5, <3>6, IdsAssumption DEF leaf
  <2>. QED  BY <2>1, <2>2
<1>. HIDE DEF lanes, ids
<1>3. ForkNames(s, o) \in Seq(Lanes) /\ Range(ForkNames(s, o)) = DOMAIN lanes
  <2>1. SetToSeq(DOMAIN lanes) \in Seq(DOMAIN lanes) /\ Range(SetToSeq(DOMAIN lanes)) = DOMAIN lanes
    BY <1>2, SetToSeqIs
  <2>2. SetToSeq(DOMAIN lanes) \in Seq(Lanes)
    BY <1>2, <2>1
  <2>. QED  BY <2>1, <2>2 DEF ForkNames, lanes
<1>4. ids \in Seq(Ids)
  BY <1>1, <1>2 DEF CopyOrder, Forest
<1>5. ForkLabels(s, o) \in Seq(Ids) /\ Range(ForkLabels(s, o)) = Range(ids) \cap DOMAIN s.labels
  BY <1>4, AmongRange DEF ForkLabels, ids
<1>6. Copies(s, o)
  BY <1>2, <1>3, <1>5 DEF Copies, ids, lanes
<1>. QED  BY <1>2, <1>6 DEF ids, lanes

\* Where the elements of a concatenation come from.
LEMMA ConcatIs ==
    ASSUME NEW P, NEW a \in Seq(P), NEW b \in Seq(P)
    PROVE  /\ a \o b \in Seq(P) /\ Len(a \o b) = Len(a) + Len(b)
           /\ \A i \in 1..Len(a) : (a \o b)[i] = a[i]
           /\ \A i \in 1..Len(b) : (a \o b)[Len(a) + i] = b[i]
OBVIOUS

EntryCopy(s, o, i) ==
    LET id == CopiedEntries(s, o)[i]
    IN  EntryMutation(i, None, id, s.entriesById[id].parentId, s.entriesById[id].type)
LaneCopy(s, o, j) ==
    LET name == ForkNames(s, o)[j]
    IN  LaneMutation(EntriesEnd(s, o) + j, name, ForkLanes(s, o)[name])
NameCopy(s, o) == NameMutation(LanesEnd(s, o) + 1, s.name)
LabelCopy(s, o, i) ==
    LET id == ForkLabels(s, o)[i]
    IN  LabelMutation(NameEnd(s, o) + i, id, s.labels[id])

\* The mutations of a fork are mutations.
LEMMA ForkMutationsTyped ==
    ASSUME NEW s, Good(s), NEW o, Copies(s, o)
    PROVE  /\ EntriesEnd(s, o) \in Nat /\ LanesEnd(s, o) \in Nat
           /\ NameEnd(s, o) \in Nat /\ ForkEnd(s, o) \in Nat
           /\ Len(ForkNames(s, o)) \in Nat /\ Len(ForkLabels(s, o)) \in Nat
           /\ \A i \in 1..EntriesEnd(s, o) : EntryCopy(s, o, i) \in Mutation
           /\ \A j \in 1..Len(ForkNames(s, o)) : LaneCopy(s, o, j) \in Mutation
           /\ NameCopy(s, o) \in Mutation
           /\ \A i \in 1..Len(ForkLabels(s, o)) : LabelCopy(s, o, i) \in Mutation
<1>. DEFINE ids == CopiedEntries(s, o)
            names == ForkNames(s, o)
            labels == ForkLabels(s, o)
            entries == s.entriesById
            lanes == ForkLanes(s, o)
<1>1. /\ ids \in Seq(DOMAIN entries) /\ DOMAIN entries \subseteq Ids
      /\ \A id \in DOMAIN entries : entries[id].parentId \in IdOrNone /\ entries[id].type \in EntryTypes
  BY DEF Copies, CopyOrder, Good, Forest
<1>2. /\ names \in Seq(Lanes) /\ Range(names) = DOMAIN lanes
      /\ \A l \in DOMAIN lanes : lanes[l] \in Range(ids) \cup {None}
  BY DEF Copies
<1>3. labels \in Seq(Ids) /\ Range(labels) = Range(ids) \cap DOMAIN s.labels
  BY DEF Copies
<1>4. s.name \in Values \cup {None} /\ \A id \in DOMAIN s.labels : s.labels[id] \in Values
  BY DEF Good, LabelsOf
<1>5. /\ Len(ids) \in Nat /\ Len(names) \in Nat /\ Len(labels) \in Nat
      /\ \A i \in 1..Len(ids) : ids[i] \in DOMAIN entries
      /\ \A j \in 1..Len(names) : names[j] \in Lanes /\ names[j] \in Range(names)
      /\ \A i \in 1..Len(labels) : labels[i] \in Ids /\ labels[i] \in Range(labels)
      /\ \A x \in Range(ids) : x \in DOMAIN entries
  <2>1. /\ Len(ids) \in Nat /\ \A i \in 1..Len(ids) : ids[i] \in DOMAIN entries
        /\ \A x \in Range(ids) : \E i \in 1..Len(ids) : ids[i] = x
    <3>. HIDE DEF ids, entries
    <3>. QED  BY <1>1, RangeIs
  <2>2. Len(names) \in Nat /\ \A j \in 1..Len(names) : names[j] \in Lanes /\ names[j] \in Range(names)
    <3>. HIDE DEF names
    <3>. QED  BY <1>2, RangeIs
  <2>3. Len(labels) \in Nat /\ \A i \in 1..Len(labels) : labels[i] \in Ids /\ labels[i] \in Range(labels)
    <3>. HIDE DEF labels
    <3>. QED  BY <1>3, RangeIs
  <2>. HIDE DEF ids, names, labels, entries
  <2>. QED  BY <2>1, <2>2, <2>3
<1>6. /\ EntriesEnd(s, o) = Len(ids) /\ LanesEnd(s, o) = Len(ids) + Len(names)
      /\ NameEnd(s, o) = LanesEnd(s, o) + (IF s.name = None THEN 0 ELSE 1)
      /\ ForkEnd(s, o) = NameEnd(s, o) + Len(labels)
  BY DEF EntriesEnd, LanesEnd, NameEnd, ForkEnd
<1>7. /\ EntriesEnd(s, o) \in Nat /\ LanesEnd(s, o) \in Nat
      /\ NameEnd(s, o) \in Nat /\ ForkEnd(s, o) \in Nat
  BY <1>5, <1>6
<1>8. ASSUME NEW i \in 1..EntriesEnd(s, o) PROVE EntryCopy(s, o, i) \in Mutation
  <2>. DEFINE id == ids[i]
  <2>1. /\ id \in Ids /\ entries[id].parentId \in IdOrNone
        /\ entries[id].type \in EntryTypes /\ i \in Nat
    BY <1>1, <1>5, <1>6
  <2>2. EntryCopy(s, o, i) = EntryMutation(i, None, id, entries[id].parentId, entries[id].type)
    BY DEF EntryCopy
  <2>. HIDE DEF id, entries
  <2>. QED  BY <2>1, <2>2 DEF EntryMutation, Mutation
<1>9. ASSUME NEW j \in 1..Len(names) PROVE LaneCopy(s, o, j) \in Mutation
  <2>. DEFINE name == names[j]
              n == EntriesEnd(s, o) + j
              leaf == lanes[name]
  <2>1. name \in Lanes /\ leaf \in IdOrNone /\ n \in Nat
    <3>1. name \in DOMAIN lanes /\ name \in Lanes
      BY <1>2, <1>5
    <3>2. leaf \in DOMAIN entries \cup {None}
      BY <3>1, <1>2, <1>5
    <3>. QED  BY <3>1, <3>2, <1>1, <1>7 DEF IdOrNone
  <2>2. LaneCopy(s, o, j) = LaneMutation(n, name, leaf)
    BY DEF LaneCopy
  <2>. HIDE DEF name, n, leaf
  <2>. QED  BY <2>1, <2>2 DEF LaneMutation, Mutation
<1>10. NameCopy(s, o) \in Mutation
  <2>. DEFINE n == LanesEnd(s, o) + 1
  <2>1. n \in Nat
    BY <1>7
  <2>. HIDE DEF n
  <2>. QED  BY <2>1, <1>4 DEF NameCopy, NameMutation, Mutation, n
<1>11. ASSUME NEW i \in 1..Len(labels) PROVE LabelCopy(s, o, i) \in Mutation
  <2>. DEFINE id == labels[i]
              n == NameEnd(s, o) + i
              label == s.labels[id]
  <2>1. id \in Ids /\ label \in Values /\ n \in Nat
    BY <1>3, <1>4, <1>5, <1>7
  <2>2. LabelCopy(s, o, i) = LabelMutation(n, id, label)
    BY DEF LabelCopy
  <2>. HIDE DEF id, n, label
  <2>. QED  BY <2>1, <2>2 DEF LabelMutation, Mutation
<1>. QED  BY <1>5, <1>7, <1>8, <1>9, <1>10, <1>11

\* The mutations of a fork, one by one.
LEMMA ForkMutationsAre ==
    ASSUME NEW s, Good(s), NEW o, Copies(s, o)
    PROVE  LET ms == createForkMutations(s, o)
           IN  /\ ms \in Seq(Mutation) /\ Len(ms) = ForkEnd(s, o)
               /\ \A i \in 1..EntriesEnd(s, o) : ms[i] = EntryCopy(s, o, i)
               /\ \A j \in 1..Len(ForkNames(s, o)) :
                        ms[EntriesEnd(s, o) + j] = LaneCopy(s, o, j)
               /\ s.name # None => ms[LanesEnd(s, o) + 1] = NameCopy(s, o)
               /\ \A i \in 1..Len(ForkLabels(s, o)) :
                        ms[NameEnd(s, o) + i] = LabelCopy(s, o, i)
<1>. DEFINE A == EntriesEnd(s, o)
            B == Len(ForkNames(s, o))
            C == IF s.name = None THEN 0 ELSE 1
            D == Len(ForkLabels(s, o))
            a == [i \in 1..A |-> EntryCopy(s, o, i)]
            b == [j \in 1..B |-> LaneCopy(s, o, j)]
            c == [i \in 1..C |-> NameCopy(s, o)]
            d == [i \in 1..D |-> LabelCopy(s, o, i)]
            ms == createForkMutations(s, o)
<1>1. ms = ((a \o b) \o c) \o d
  BY DEF createForkMutations, EntryCopy, LaneCopy, NameCopy, LabelCopy,
     EntriesEnd, LanesEnd, NameEnd, ForkNames
<1>2. /\ A \in Nat /\ B \in Nat /\ C \in Nat /\ D \in Nat
      /\ LanesEnd(s, o) = A + B /\ NameEnd(s, o) = A + B + C
      /\ ForkEnd(s, o) = A + B + C + D
  BY ForkMutationsTyped DEF LanesEnd, NameEnd, ForkEnd
<1>3. /\ \A i \in 1..A : EntryCopy(s, o, i) \in Mutation
      /\ \A j \in 1..B : LaneCopy(s, o, j) \in Mutation
      /\ NameCopy(s, o) \in Mutation
      /\ \A i \in 1..D : LabelCopy(s, o, i) \in Mutation
  BY ForkMutationsTyped
<1>4. s.name # None => C = 1
  OBVIOUS
<1>. HIDE DEF A, B, C, D, ms
<1>5. /\ a \in Seq(Mutation) /\ Len(a) = A /\ \A i \in 1..A : a[i] = EntryCopy(s, o, i)
  BY <1>2, <1>3
<1>6. /\ b \in Seq(Mutation) /\ Len(b) = B /\ \A i \in 1..B : b[i] = LaneCopy(s, o, i)
  BY <1>2, <1>3
<1>7. /\ c \in Seq(Mutation) /\ Len(c) = C /\ \A i \in 1..C : c[i] = NameCopy(s, o)
  BY <1>2, <1>3
<1>8. /\ d \in Seq(Mutation) /\ Len(d) = D /\ \A i \in 1..D : d[i] = LabelCopy(s, o, i)
  BY <1>2, <1>3
<1>. HIDE DEF a, b, c, d
<1>. DEFINE ab == a \o b
            abc == ab \o c
<1>9. /\ ab \in Seq(Mutation) /\ Len(ab) = A + B
      /\ \A i \in 1..A : ab[i] = EntryCopy(s, o, i)
      /\ \A i \in 1..B : ab[A + i] = LaneCopy(s, o, i)
  <2>1. a \in Seq(Mutation) /\ b \in Seq(Mutation)
    BY <1>5, <1>6
  <2>2. /\ a \o b \in Seq(Mutation) /\ Len(a \o b) = Len(a) + Len(b)
        /\ \A i \in 1..Len(a) : (a \o b)[i] = a[i]
        /\ \A i \in 1..Len(b) : (a \o b)[Len(a) + i] = b[i]
    BY <2>1, ConcatIs
  <2>. QED  BY <1>5, <1>6, <2>2
<1>. HIDE DEF ab
<1>10. /\ abc \in Seq(Mutation) /\ Len(abc) = A + B + C
       /\ \A i \in 1..(A + B) : abc[i] = ab[i]
       /\ \A i \in 1..C : abc[A + B + i] = NameCopy(s, o)
  <2>1. ab \in Seq(Mutation) /\ c \in Seq(Mutation)
    BY <1>7, <1>9
  <2>2. /\ ab \o c \in Seq(Mutation) /\ Len(ab \o c) = Len(ab) + Len(c)
        /\ \A i \in 1..Len(ab) : (ab \o c)[i] = ab[i]
        /\ \A i \in 1..Len(c) : (ab \o c)[Len(ab) + i] = c[i]
    BY <2>1, ConcatIs
  <2>. QED  BY <1>7, <1>9, <2>2
<1>. HIDE DEF abc
<1>11. ms = abc \o d
  BY <1>1 DEF ab, abc
<1>12. /\ ms \in Seq(Mutation) /\ Len(ms) = A + B + C + D
       /\ \A i \in 1..(A + B + C) : ms[i] = abc[i]
       /\ \A i \in 1..D : ms[A + B + C + i] = LabelCopy(s, o, i)
  <2>1. abc \in Seq(Mutation) /\ d \in Seq(Mutation)
    BY <1>8, <1>10
  <2>2. /\ abc \o d \in Seq(Mutation) /\ Len(abc \o d) = Len(abc) + Len(d)
        /\ \A i \in 1..Len(abc) : (abc \o d)[i] = abc[i]
        /\ \A i \in 1..Len(d) : (abc \o d)[Len(abc) + i] = d[i]
    BY <2>1, ConcatIs
  <2>. QED  BY <1>8, <1>10, <1>11, <2>2
<1>13. \A i \in 1..A : ms[i] = EntryCopy(s, o, i)
  BY <1>2, <1>9, <1>10, <1>12
<1>14. \A i \in 1..B : ms[A + i] = LaneCopy(s, o, i)
  <2>1. SUFFICES ASSUME NEW i \in 1..B PROVE ms[A + i] = LaneCopy(s, o, i)
    OBVIOUS
  <2>2. A + i \in 1..(A + B) /\ A + i \in 1..(A + B + C)
    BY <1>2
  <2>. QED  BY <2>2, <1>9, <1>10, <1>12
<1>15. s.name # None => ms[A + B + 1] = NameCopy(s, o)
  <2>1. SUFFICES ASSUME s.name # None PROVE ms[A + B + 1] = NameCopy(s, o)
    OBVIOUS
  <2>2. 1 \in 1..C /\ A + B + 1 \in 1..(A + B + C)
    BY <1>2, <1>4, <2>1
  <2>. QED  BY <2>2, <1>10, <1>12
<1>. QED  BY <1>2, <1>12, <1>13, <1>14, <1>15 DEF A, B, D, ms

\* What the first n mutations of a fork have rebuilt.
Rebuilt(s, o, n, st) ==
    LET ids    == CopiedEntries(s, o)
        names  == ForkNames(s, o)
        labels == ForkLabels(s, o)
    IN  /\ Good(st) /\ st.sequence = n
        /\ DOMAIN st.entriesById = st.usedIds
        /\ \A x : x \in st.usedIds <=> \E i \in 1..Len(ids) : i <= n /\ ids[i] = x
        /\ \A x \in DOMAIN st.entriesById :
            /\ st.entriesById[x].parentId = s.entriesById[x].parentId
            /\ st.entriesById[x].type = s.entriesById[x].type
        /\ \A j \in 1..Len(names) : EntriesEnd(s, o) + j <= n =>
            /\ names[j] \in DOMAIN st.lanes
            /\ st.lanes[names[j]] = ForkLanes(s, o)[names[j]]
        /\ DOMAIN st.lanes \subseteq DOMAIN ForkLanes(s, o)
        /\ LanesEnd(s, o) < n \/ s.name = None => st.name = s.name
        /\ \A x : x \in DOMAIN st.labels <=>
                    \E i \in 1..Len(labels) : NameEnd(s, o) + i <= n /\ labels[i] = x
        /\ \A x \in DOMAIN st.labels : st.labels[x] = s.labels[x]
        /\ \A l \in Lanes : st.openOperationsByLane[l] = {}

\* Nothing yet.
LEMMA RebuiltNothing ==
    ASSUME NEW s, Good(s), NEW o, Copies(s, o)
    PROVE  Rebuilt(s, o, 0, InitialState)
<1>1. /\ EntriesEnd(s, o) \in Nat /\ LanesEnd(s, o) \in Nat /\ NameEnd(s, o) \in Nat
      /\ Len(ForkNames(s, o)) \in Nat /\ Len(ForkLabels(s, o)) \in Nat
      /\ Len(CopiedEntries(s, o)) \in Nat
  BY ForkMutationsTyped DEF EntriesEnd
<1>2. Good(InitialState) /\ InitialState.sequence = 0
  BY GoodInit
<1>. DEFINE st == InitialState
<1>3. /\ st.usedIds = {} /\ DOMAIN st.entriesById = {} /\ st.name = None
      /\ DOMAIN st.labels = {} /\ \A l \in Lanes : st.openOperationsByLane[l] = {}
      /\ DOMAIN st.lanes = {"main"}
  BY DEF InitialState
<1>4. Good(st) /\ st.sequence = 0
  BY <1>2
<1>. HIDE DEF st
<1>5. \A i \in 1..Len(CopiedEntries(s, o)) : ~ (i <= 0)
  BY <1>1
<1>6. \A j \in 1..Len(ForkNames(s, o)) : ~ (EntriesEnd(s, o) + j <= 0)
  BY <1>1
<1>7. \A j \in 1..Len(ForkLabels(s, o)) : ~ (NameEnd(s, o) + j <= 0)
  BY <1>1
<1>8. ~ (LanesEnd(s, o) < 0)
  BY <1>1
<1>9. DOMAIN st.lanes \subseteq DOMAIN ForkLanes(s, o)
  BY <1>3 DEF Copies
<1>10. Rebuilt(s, o, 0, st)
  BY <1>3, <1>4, <1>5, <1>6, <1>7, <1>8, <1>9 DEF Rebuilt
<1>. QED  BY <1>10 DEF st

\* The next entry is accepted and copied.
LEMMA RebuildEntry ==
    ASSUME NEW s, Good(s), NEW o, Copies(s, o), NEW n \in Nat, NEW st,
           Rebuilt(s, o, n, st), n + 1 <= EntriesEnd(s, o)
    PROVE  /\ ValidMutation(st, EntryCopy(s, o, n + 1))
           /\ Rebuilt(s, o, n + 1, applyMutation(st, EntryCopy(s, o, n + 1)))
<1>. DEFINE ids == CopiedEntries(s, o)
            names == ForkNames(s, o)
            labels == ForkLabels(s, o)
            entries == s.entriesById
            id == ids[n + 1]
            m == EntryCopy(s, o, n + 1)
            t == applyMutation(st, m)
            e == [parentId |-> entries[id].parentId, type |-> entries[id].type, seq |-> n + 1]
<1>1. /\ EntriesEnd(s, o) \in Nat /\ LanesEnd(s, o) \in Nat /\ NameEnd(s, o) \in Nat
      /\ EntriesEnd(s, o) = Len(ids) /\ LanesEnd(s, o) = Len(ids) + Len(names)
      /\ Len(names) \in Nat /\ Len(labels) \in Nat
      /\ LanesEnd(s, o) <= NameEnd(s, o) /\ m \in Mutation
  BY ForkMutationsTyped DEF EntriesEnd, LanesEnd, NameEnd
<1>2. /\ m.kind = "entry" /\ m.seq = n + 1 /\ m.lane = None /\ m.id = id
      /\ m.parentId = entries[id].parentId /\ m.type = entries[id].type
  BY DEF EntryCopy, EntryMutation
<1>3. /\ Good(st) /\ st.sequence = n /\ DOMAIN st.entriesById = st.usedIds
      /\ \A x : x \in st.usedIds <=> \E i \in 1..Len(ids) : i <= n /\ ids[i] = x
      /\ \A x \in DOMAIN st.entriesById :
            /\ st.entriesById[x].parentId = entries[x].parentId
            /\ st.entriesById[x].type = entries[x].type
      /\ LanesEnd(s, o) < n \/ s.name = None => st.name = s.name
      /\ \A x : x \in DOMAIN st.labels <=>
                    \E i \in 1..Len(labels) : NameEnd(s, o) + i <= n /\ labels[i] = x
      /\ DOMAIN st.lanes \subseteq DOMAIN ForkLanes(s, o)
      /\ \A x \in DOMAIN st.labels : st.labels[x] = s.labels[x]
      /\ \A l \in Lanes : st.openOperationsByLane[l] = {}
  BY DEF Rebuilt
<1>4. n + 1 \in 1..Len(ids)
  BY <1>1
<1>5. /\ \A i, j \in 1..Len(ids) : ids[i] = ids[j] => i = j
      /\ \/ entries[id].parentId = None
         \/ \E j \in 1..((n + 1) - 1) : ids[j] = entries[id].parentId
  BY <1>4 DEF Copies, CopyOrder
<1>. HIDE DEF m, t, ids, names, labels, entries
<1>6. id \notin st.usedIds
  <2>1. \A i \in 1..Len(ids) : i <= n => i # n + 1
    OBVIOUS
  <2>. QED  BY <2>1, <1>3, <1>4, <1>5
<1>7. entries[id].parentId # None => entries[id].parentId \in DOMAIN st.entriesById
  <2>1. \A j \in 1..((n + 1) - 1) : j \in 1..Len(ids) /\ j <= n
    BY <1>1, <1>4
  <2>. QED  BY <2>1, <1>3, <1>5
<1>8. ValidMutation(st, m)
  BY <1>2, <1>3, <1>6, <1>7 DEF ValidMutation
<1>9. Good(t) /\ t.sequence = n + 1
  BY <1>1, <1>3, <1>8, GoodApply DEF t
<1>10. /\ t.usedIds = st.usedIds \cup {id} /\ t.entriesById = With(st.entriesById, id, e)
       /\ t.openOperationsByLane = st.openOperationsByLane
       /\ t.name = st.name /\ t.labels = st.labels /\ t.lanes = st.lanes
  <2>1. t = ApplyEntry(st, m)
    BY <1>2 DEF applyMutation, t
  <2>2. Shaped(st)
    BY <1>3 DEF Good
  <2>. QED  BY <2>1, <2>2, <1>2 DEF ApplyEntry, Shaped
<1>11. \A x : x \in t.usedIds <=> \E i \in 1..Len(ids) : i <= n + 1 /\ ids[i] = x
  <2>1. \A i \in 1..Len(ids) : i <= n + 1 <=> i <= n \/ i = n + 1
    OBVIOUS
  <2>. QED  BY <2>1, <1>3, <1>4, <1>10
<1>12. /\ DOMAIN t.entriesById = t.usedIds
       /\ \A x \in DOMAIN t.entriesById :
            /\ t.entriesById[x].parentId = entries[x].parentId
            /\ t.entriesById[x].type = entries[x].type
  <2>1. /\ DOMAIN t.entriesById = DOMAIN st.entriesById \cup {id}
        /\ t.entriesById[id] = e
        /\ \A x \in DOMAIN st.entriesById : x # id => t.entriesById[x] = st.entriesById[x]
    BY <1>10 DEF With
  <2>2. e.parentId = entries[id].parentId /\ e.type = entries[id].type
    OBVIOUS
  <2>. HIDE DEF e
  <2>. QED  BY <2>1, <2>2, <1>3, <1>10
<1>13. \A j \in 1..Len(names) : ~ (EntriesEnd(s, o) + j <= n + 1)
  BY <1>1
<1>14. \A i \in 1..Len(labels) : ~ (NameEnd(s, o) + i <= n + 1) /\ ~ (NameEnd(s, o) + i <= n)
  BY <1>1
<1>15. /\ LanesEnd(s, o) < n + 1 \/ s.name = None => t.name = s.name
       /\ \A x : x \in DOMAIN t.labels <=>
                    \E i \in 1..Len(labels) : NameEnd(s, o) + i <= n + 1 /\ labels[i] = x
       /\ \A l \in Lanes : t.openOperationsByLane[l] = {}
  <2>1. ~ (LanesEnd(s, o) < n + 1)
    BY <1>1
  <2>. QED  BY <2>1, <1>3, <1>10, <1>14
<1>16. Rebuilt(s, o, n + 1, t)
  BY <1>3, <1>9, <1>10, <1>11, <1>12, <1>13, <1>15 DEF Rebuilt, ids, names, labels, entries
<1>. QED  BY <1>8, <1>16 DEF t, m

\* The next lane is accepted and copied.
LEMMA RebuildLane ==
    ASSUME NEW s, Good(s), NEW o, Copies(s, o), NEW n \in Nat, NEW st,
           Rebuilt(s, o, n, st), NEW k \in 1..Len(ForkNames(s, o)),
           n + 1 = EntriesEnd(s, o) + k
    PROVE  /\ ValidMutation(st, LaneCopy(s, o, k))
           /\ Rebuilt(s, o, n + 1, applyMutation(st, LaneCopy(s, o, k)))
<1>. DEFINE ids == CopiedEntries(s, o)
            names == ForkNames(s, o)
            labels == ForkLabels(s, o)
            lanes == ForkLanes(s, o)
            entries == s.entriesById
            m == LaneCopy(s, o, k)
            t == applyMutation(st, m)
<1>1. /\ EntriesEnd(s, o) \in Nat /\ LanesEnd(s, o) \in Nat /\ NameEnd(s, o) \in Nat
      /\ EntriesEnd(s, o) = Len(ids) /\ LanesEnd(s, o) = Len(ids) + Len(names)
      /\ Len(names) \in Nat /\ Len(labels) \in Nat
      /\ LanesEnd(s, o) <= NameEnd(s, o) /\ m \in Mutation
  BY ForkMutationsTyped DEF EntriesEnd, LanesEnd, NameEnd
<1>2. /\ m.kind = "lane" /\ m.seq = n + 1 /\ m.lane = names[k] /\ m.leafId = lanes[names[k]]
  BY DEF LaneCopy, LaneMutation
<1>3. /\ Good(st) /\ st.sequence = n /\ DOMAIN st.entriesById = st.usedIds
      /\ \A x : x \in st.usedIds <=> \E i \in 1..Len(ids) : i <= n /\ ids[i] = x
      /\ \A x \in DOMAIN st.entriesById :
            /\ st.entriesById[x].parentId = entries[x].parentId
            /\ st.entriesById[x].type = entries[x].type
      /\ \A j \in 1..Len(names) : EntriesEnd(s, o) + j <= n =>
            /\ names[j] \in DOMAIN st.lanes
            /\ st.lanes[names[j]] = lanes[names[j]]
      /\ LanesEnd(s, o) < n \/ s.name = None => st.name = s.name
      /\ \A x : x \in DOMAIN st.labels <=>
                    \E i \in 1..Len(labels) : NameEnd(s, o) + i <= n /\ labels[i] = x
      /\ DOMAIN st.lanes \subseteq DOMAIN ForkLanes(s, o)
      /\ \A x \in DOMAIN st.labels : st.labels[x] = s.labels[x]
      /\ \A l \in Lanes : st.openOperationsByLane[l] = {}
  BY DEF Rebuilt
<1>4. /\ ids \in Seq(DOMAIN entries) /\ names \in Seq(Lanes)
      /\ Range(names) = DOMAIN lanes
      /\ \A l \in DOMAIN lanes : lanes[l] \in Range(ids) \cup {None}
  BY DEF Copies, CopyOrder
<1>. HIDE DEF m, t, ids, names, labels, entries, lanes
<1>5. lanes[names[k]] # None => lanes[names[k]] \in DOMAIN st.entriesById
  <2>1. k \in 1..Len(names)
    BY DEF names
  <2>2. names[k] \in DOMAIN lanes
    BY <2>1, <1>4, RangeIs
  <2>3. \A x \in Range(ids) : \E i \in 1..Len(ids) : ids[i] = x
    BY <1>4, RangeIs
  <2>4. \A i \in 1..Len(ids) : i <= n
    BY <1>1, <2>1
  <2>5. \A i \in 1..Len(ids) : ids[i] \in DOMAIN st.entriesById
    BY <2>4, <1>3
  <2>6. Range(ids) \subseteq DOMAIN st.entriesById
    BY <2>3, <2>5
  <2>. QED  BY <2>2, <2>6, <1>4
<1>6. ValidMutation(st, m)
  BY <1>2, <1>3, <1>5 DEF ValidMutation
<1>7. Good(t) /\ t.sequence = n + 1
  BY <1>1, <1>3, <1>6, GoodApply DEF t
<1>8. /\ t.usedIds = st.usedIds /\ t.entriesById = st.entriesById
      /\ t.openOperationsByLane = st.openOperationsByLane
      /\ t.name = st.name /\ t.labels = st.labels
      /\ t.lanes = With(st.lanes, names[k], lanes[names[k]])
  <2>1. t = ApplyLane(st, m)
    BY <1>2 DEF applyMutation, t
  <2>2. Shaped(st)
    BY <1>3 DEF Good
  <2>. QED  BY <2>1, <2>2, <1>2 DEF ApplyLane, Shaped
<1>9. \A x : x \in t.usedIds <=> \E i \in 1..Len(ids) : i <= n + 1 /\ ids[i] = x
  <2>1. \A i \in 1..Len(ids) : i <= n + 1 /\ i <= n
    BY <1>1
  <2>. QED  BY <2>1, <1>3, <1>8
<1>10. ASSUME NEW j \in 1..Len(names), EntriesEnd(s, o) + j <= n + 1
       PROVE  names[j] \in DOMAIN t.lanes /\ t.lanes[names[j]] = lanes[names[j]]
  <2>1. j = k \/ EntriesEnd(s, o) + j <= n
    BY <1>1, <1>10
  <2>2. CASE names[j] = names[k]
    BY <2>2, <1>8 DEF With
  <2>3. CASE names[j] # names[k]
    BY <2>1, <2>3, <1>3, <1>8 DEF With
  <2>. QED  BY <2>2, <2>3
<1>11. \A i \in 1..Len(labels) : ~ (NameEnd(s, o) + i <= n + 1) /\ ~ (NameEnd(s, o) + i <= n)
  BY <1>1 DEF names
<1>12. /\ LanesEnd(s, o) < n + 1 \/ s.name = None => t.name = s.name
       /\ \A x : x \in DOMAIN t.labels <=>
                    \E i \in 1..Len(labels) : NameEnd(s, o) + i <= n + 1 /\ labels[i] = x
       /\ \A l \in Lanes : t.openOperationsByLane[l] = {}
  <2>1. ~ (LanesEnd(s, o) < n + 1)
    BY <1>1 DEF names
  <2>. QED  BY <2>1, <1>3, <1>8, <1>11
<1>13. DOMAIN t.lanes \subseteq DOMAIN lanes
  <2>1. k \in 1..Len(names)
    BY DEF names
  <2>2. names[k] \in DOMAIN lanes
    BY <2>1, <1>4, RangeIs
  <2>3. DOMAIN st.lanes \subseteq DOMAIN lanes
    BY <1>3 DEF lanes
  <2>4. DOMAIN t.lanes = DOMAIN st.lanes \cup {names[k]}
    BY <1>8 DEF With
  <2>. QED  BY <2>2, <2>3, <2>4
<1>14. Rebuilt(s, o, n + 1, t)
  BY <1>3, <1>7, <1>8, <1>9, <1>10, <1>12, <1>13
     DEF Rebuilt, ids, names, labels, entries, lanes
<1>. QED  BY <1>6, <1>14 DEF t, m

\* The name is copied.
LEMMA RebuildName ==
    ASSUME NEW s, Good(s), NEW o, Copies(s, o), NEW n \in Nat, NEW st,
           Rebuilt(s, o, n, st), s.name # None, n = LanesEnd(s, o)
    PROVE  /\ ValidMutation(st, NameCopy(s, o))
           /\ Rebuilt(s, o, n + 1, applyMutation(st, NameCopy(s, o)))
<1>. DEFINE ids == CopiedEntries(s, o)
            names == ForkNames(s, o)
            labels == ForkLabels(s, o)
            lanes == ForkLanes(s, o)
            entries == s.entriesById
            m == NameCopy(s, o)
            t == applyMutation(st, m)
<1>1. /\ EntriesEnd(s, o) \in Nat /\ LanesEnd(s, o) \in Nat /\ NameEnd(s, o) \in Nat
      /\ EntriesEnd(s, o) = Len(ids) /\ LanesEnd(s, o) = Len(ids) + Len(names)
      /\ Len(names) \in Nat /\ Len(labels) \in Nat
      /\ NameEnd(s, o) = LanesEnd(s, o) + 1 /\ m \in Mutation
  BY ForkMutationsTyped DEF EntriesEnd, LanesEnd, NameEnd
<1>2. m.kind = "fact" /\ m.fact = "name" /\ m.seq = n + 1 /\ m.name = s.name
  BY DEF NameCopy, NameMutation
<1>3. /\ Good(st) /\ st.sequence = n /\ DOMAIN st.entriesById = st.usedIds
      /\ \A x : x \in st.usedIds <=> \E i \in 1..Len(ids) : i <= n /\ ids[i] = x
      /\ \A x \in DOMAIN st.entriesById :
            /\ st.entriesById[x].parentId = entries[x].parentId
            /\ st.entriesById[x].type = entries[x].type
      /\ \A j \in 1..Len(names) : EntriesEnd(s, o) + j <= n =>
            /\ names[j] \in DOMAIN st.lanes
            /\ st.lanes[names[j]] = lanes[names[j]]
      /\ \A x : x \in DOMAIN st.labels <=>
                    \E i \in 1..Len(labels) : NameEnd(s, o) + i <= n /\ labels[i] = x
      /\ DOMAIN st.lanes \subseteq DOMAIN ForkLanes(s, o)
      /\ \A x \in DOMAIN st.labels : st.labels[x] = s.labels[x]
      /\ \A l \in Lanes : st.openOperationsByLane[l] = {}
  BY DEF Rebuilt
<1>. HIDE DEF m, t, ids, names, labels, entries, lanes
<1>6. ValidMutation(st, m)
  BY <1>2, <1>3 DEF ValidMutation
<1>7. Good(t) /\ t.sequence = n + 1
  BY <1>1, <1>3, <1>6, GoodApply DEF t
<1>8. /\ t.usedIds = st.usedIds /\ t.entriesById = st.entriesById
      /\ t.openOperationsByLane = st.openOperationsByLane
      /\ t.name = s.name /\ t.labels = st.labels /\ t.lanes = st.lanes
  <2>1. t = ApplyFact(st, m)
    BY <1>2 DEF applyMutation, t
  <2>2. Shaped(st)
    BY <1>3 DEF Good
  <2>. QED  BY <2>1, <2>2, <1>2 DEF ApplyFact, Shaped
<1>9. \A x : x \in t.usedIds <=> \E i \in 1..Len(ids) : i <= n + 1 /\ ids[i] = x
  <2>1. \A i \in 1..Len(ids) : i <= n + 1 /\ i <= n
    BY <1>1
  <2>. QED  BY <2>1, <1>3, <1>8
<1>10. ASSUME NEW j \in 1..Len(names), EntriesEnd(s, o) + j <= n + 1
       PROVE  names[j] \in DOMAIN t.lanes /\ t.lanes[names[j]] = lanes[names[j]]
  <2>1. EntriesEnd(s, o) + j <= n
    BY <1>1
  <2>. QED  BY <2>1, <1>3, <1>8
<1>11. \A i \in 1..Len(labels) : ~ (NameEnd(s, o) + i <= n + 1) /\ ~ (NameEnd(s, o) + i <= n)
  BY <1>1
<1>12. /\ LanesEnd(s, o) < n + 1 \/ s.name = None => t.name = s.name
       /\ \A x : x \in DOMAIN t.labels <=>
                    \E i \in 1..Len(labels) : NameEnd(s, o) + i <= n + 1 /\ labels[i] = x
       /\ \A l \in Lanes : t.openOperationsByLane[l] = {}
  BY <1>3, <1>8, <1>11
<1>13. Rebuilt(s, o, n + 1, t)
  BY <1>3, <1>7, <1>8, <1>9, <1>10, <1>12 DEF Rebuilt, ids, names, labels, entries, lanes
<1>. QED  BY <1>6, <1>13 DEF t, m

\* The next label is accepted and copied.
LEMMA RebuildLabel ==
    ASSUME NEW s, Good(s), NEW o, Copies(s, o), NEW n \in Nat, NEW st,
           Rebuilt(s, o, n, st), NEW k \in 1..Len(ForkLabels(s, o)),
           n + 1 = NameEnd(s, o) + k
    PROVE  /\ ValidMutation(st, LabelCopy(s, o, k))
           /\ Rebuilt(s, o, n + 1, applyMutation(st, LabelCopy(s, o, k)))
<1>. DEFINE ids == CopiedEntries(s, o)
            names == ForkNames(s, o)
            labels == ForkLabels(s, o)
            lanes == ForkLanes(s, o)
            entries == s.entriesById
            id == labels[k]
            m == LabelCopy(s, o, k)
            t == applyMutation(st, m)
<1>1. /\ EntriesEnd(s, o) \in Nat /\ LanesEnd(s, o) \in Nat /\ NameEnd(s, o) \in Nat
      /\ EntriesEnd(s, o) = Len(ids) /\ LanesEnd(s, o) = Len(ids) + Len(names)
      /\ Len(names) \in Nat /\ Len(labels) \in Nat
      /\ LanesEnd(s, o) <= NameEnd(s, o) /\ m \in Mutation
      /\ s.name # None => NameEnd(s, o) = LanesEnd(s, o) + 1
  BY ForkMutationsTyped DEF EntriesEnd, LanesEnd, NameEnd
<1>2. /\ m.kind = "fact" /\ m.fact = "label" /\ m.seq = n + 1 /\ m.targetId = id
      /\ m.label = s.labels[id]
  BY DEF LabelCopy, LabelMutation
<1>3. /\ Good(st) /\ st.sequence = n /\ DOMAIN st.entriesById = st.usedIds
      /\ \A x : x \in st.usedIds <=> \E i \in 1..Len(ids) : i <= n /\ ids[i] = x
      /\ \A x \in DOMAIN st.entriesById :
            /\ st.entriesById[x].parentId = entries[x].parentId
            /\ st.entriesById[x].type = entries[x].type
      /\ \A j \in 1..Len(names) : EntriesEnd(s, o) + j <= n =>
            /\ names[j] \in DOMAIN st.lanes
            /\ st.lanes[names[j]] = lanes[names[j]]
      /\ LanesEnd(s, o) < n \/ s.name = None => st.name = s.name
      /\ \A x : x \in DOMAIN st.labels <=>
                    \E i \in 1..Len(labels) : NameEnd(s, o) + i <= n /\ labels[i] = x
      /\ DOMAIN st.lanes \subseteq DOMAIN ForkLanes(s, o)
      /\ \A x \in DOMAIN st.labels : st.labels[x] = s.labels[x]
      /\ \A l \in Lanes : st.openOperationsByLane[l] = {}
  BY DEF Rebuilt
<1>4. /\ ids \in Seq(DOMAIN entries) /\ labels \in Seq(Ids)
      /\ Range(labels) = Range(ids) \cap DOMAIN s.labels
      /\ \A x \in DOMAIN s.labels : s.labels[x] \in Values
  BY DEF Copies, CopyOrder, Good, LabelsOf
<1>. HIDE DEF m, t, ids, names, labels, entries, lanes
<1>0. k \in 1..Len(labels)
  BY DEF labels
<1>5. id \in DOMAIN st.entriesById /\ s.labels[id] # None
  <2>1. id \in Range(ids) /\ id \in DOMAIN s.labels
    BY <1>0, <1>4, RangeIs
  <2>2. \A x \in Range(ids) : \E i \in 1..Len(ids) : ids[i] = x
    BY <1>4, RangeIs
  <2>3. \A i \in 1..Len(ids) : i <= n
    BY <1>0, <1>1
  <2>. QED  BY <2>1, <2>2, <2>3, <1>3, <1>4, IdsAssumption
<1>6. ValidMutation(st, m)
  BY <1>2, <1>3, <1>5 DEF ValidMutation
<1>7. Good(t) /\ t.sequence = n + 1
  BY <1>1, <1>3, <1>6, GoodApply DEF t
<1>8. /\ t.usedIds = st.usedIds /\ t.entriesById = st.entriesById
      /\ t.openOperationsByLane = st.openOperationsByLane
      /\ t.name = st.name /\ t.labels = With(st.labels, id, s.labels[id])
      /\ t.lanes = st.lanes
  <2>1. t = ApplyFact(st, m)
    BY <1>2 DEF applyMutation, t
  <2>2. Shaped(st)
    BY <1>3 DEF Good
  <2>. QED  BY <2>1, <2>2, <1>2, <1>5 DEF ApplyFact, Shaped
<1>9. \A x : x \in t.usedIds <=> \E i \in 1..Len(ids) : i <= n + 1 /\ ids[i] = x
  <2>1. \A i \in 1..Len(ids) : i <= n + 1 /\ i <= n
    BY <1>0, <1>1
  <2>. QED  BY <2>1, <1>3, <1>8
<1>10. ASSUME NEW j \in 1..Len(names), EntriesEnd(s, o) + j <= n + 1
       PROVE  names[j] \in DOMAIN t.lanes /\ t.lanes[names[j]] = lanes[names[j]]
  <2>1. EntriesEnd(s, o) + j <= n
    BY <1>0, <1>1
  <2>. QED  BY <2>1, <1>3, <1>8
<1>11. \A x : x \in DOMAIN t.labels <=>
                    \E i \in 1..Len(labels) : NameEnd(s, o) + i <= n + 1 /\ labels[i] = x
  <2>1. \A i \in 1..Len(labels) : NameEnd(s, o) + i <= n + 1 <=> NameEnd(s, o) + i <= n \/ i = k
    BY <1>0, <1>1
  <2>2. DOMAIN t.labels = DOMAIN st.labels \cup {id}
    BY <1>8 DEF With
  <2>. QED  BY <2>1, <2>2, <1>0, <1>3
<1>12. /\ LanesEnd(s, o) < n + 1 \/ s.name = None => t.name = s.name
       /\ \A l \in Lanes : t.openOperationsByLane[l] = {}
  <2>1. LanesEnd(s, o) < n \/ s.name = None
    BY <1>0, <1>1
  <2>. QED  BY <2>1, <1>3, <1>8
<1>13. \A x \in DOMAIN t.labels : t.labels[x] = s.labels[x]
  BY <1>3, <1>8 DEF With
<1>14. Rebuilt(s, o, n + 1, t)
  BY <1>3, <1>7, <1>8, <1>9, <1>10, <1>11, <1>12, <1>13
     DEF Rebuilt, ids, names, labels, entries, lanes
<1>. QED  BY <1>6, <1>14 DEF t, m

\* The n-th mutation of a fork is accepted after those before it.
LEMMA RebuildNext ==
    ASSUME NEW s, Good(s), NEW o, Copies(s, o), NEW n \in Nat, NEW st,
           Rebuilt(s, o, n, st), n + 1 <= ForkEnd(s, o), NEW m,
           m = createForkMutations(s, o)[n + 1]
    PROVE  ValidMutation(st, m) /\ Rebuilt(s, o, n + 1, applyMutation(st, m))
<1>. DEFINE A == EntriesEnd(s, o)
            B == Len(ForkNames(s, o))
            D == Len(ForkLabels(s, o))
            ms == createForkMutations(s, o)
<1>1. /\ A \in Nat /\ B \in Nat /\ D \in Nat /\ LanesEnd(s, o) = A + B
      /\ NameEnd(s, o) = LanesEnd(s, o) + (IF s.name = None THEN 0 ELSE 1)
      /\ ForkEnd(s, o) = NameEnd(s, o) + D
  BY ForkMutationsTyped DEF LanesEnd, NameEnd, ForkEnd
<1>2. /\ \A i \in 1..A : ms[i] = EntryCopy(s, o, i)
      /\ \A j \in 1..B : ms[A + j] = LaneCopy(s, o, j)
      /\ s.name # None => ms[LanesEnd(s, o) + 1] = NameCopy(s, o)
      /\ \A i \in 1..D : ms[NameEnd(s, o) + i] = LabelCopy(s, o, i)
  BY ForkMutationsAre
<1>. HIDE DEF ms
<1>3. CASE n + 1 <= A
  <2>1. n + 1 \in 1..A
    BY <1>1, <1>3
  <2>2. m = EntryCopy(s, o, n + 1)
    BY <2>1, <1>2 DEF ms
  <2>. QED  BY <1>3, <2>2, RebuildEntry
<1>4. CASE A < n + 1 /\ n + 1 <= A + B
  <2>. DEFINE k == (n + 1) - A
  <2>1. k \in 1..B /\ n + 1 = A + k
    BY <1>1, <1>4
  <2>. HIDE DEF k
  <2>2. m = LaneCopy(s, o, k)
    BY <2>1, <1>2 DEF ms
  <2>. QED  BY <2>1, <2>2, RebuildLane
<1>5. CASE A + B < n + 1 /\ n + 1 <= NameEnd(s, o)
  <2>1. s.name # None /\ n = LanesEnd(s, o)
    BY <1>1, <1>5
  <2>2. m = NameCopy(s, o)
    BY <2>1, <1>2 DEF ms
  <2>. QED  BY <2>1, <2>2, RebuildName
<1>6. CASE NameEnd(s, o) < n + 1
  <2>. DEFINE k == (n + 1) - NameEnd(s, o)
  <2>1. k \in 1..D /\ n + 1 = NameEnd(s, o) + k
    BY <1>1, <1>6
  <2>. HIDE DEF k
  <2>2. m = LabelCopy(s, o, k)
    BY <2>1, <1>2 DEF ms
  <2>. QED  BY <2>1, <2>2, RebuildLabel
<1>. QED  BY <1>1, <1>3, <1>4, <1>5, <1>6

\* All mutations of a fork replay.
LEMMA ForkRebuilds ==
    ASSUME NEW s, Good(s), NEW o, Copies(s, o)
    PROVE  /\ Replay(createForkMutations(s, o)).ok = TRUE
           /\ Rebuilt(s, o, ForkEnd(s, o), Replay(createForkMutations(s, o)).state)
<1>. DEFINE ms == createForkMutations(s, o)
            N == ForkEnd(s, o)
<1>1. ms \in Seq(Mutation) /\ Len(ms) = N /\ N \in Nat
  BY ForkMutationsAre, ForkMutationsTyped
<1>. HIDE DEF N
<1>2. PICK f : IsReplay(ms, N, f)
  BY <1>1, ReplayExists
<1>3. Replay(ms) = f[N]
  BY <1>1, <1>2, ReplayIs
<1>4. f[0] = Fresh /\ \A n \in 1..N : f[n] = ReplayStep(f[n - 1], ms[n])
  BY <1>1, <1>2, ReplayFcn
<1>. DEFINE Fine(n) == f[n].ok = TRUE /\ Rebuilt(s, o, n, f[n].state)
            T == {n \in Nat : n <= N => Fine(n)}
<1>5. 0 \in T
  <2>1. f[0].ok = TRUE /\ f[0].state = InitialState
    BY <1>4 DEF Fresh
  <2>. QED  BY <2>1, RebuiltNothing
<1>6. ASSUME NEW n \in T PROVE n + 1 \in T
  <2>1. SUFFICES ASSUME n + 1 <= N PROVE Fine(n + 1)
    <3>. HIDE DEF Fine
    <3>. QED  OBVIOUS
  <2>2. n \in Nat /\ n <= N /\ n + 1 \in 1..N /\ (n + 1) - 1 = n
    BY <1>1, <2>1
  <2>. DEFINE m == ms[n + 1]
              st == f[n].state
  <2>3. f[n].ok = TRUE /\ Rebuilt(s, o, n, st)
    BY <2>2
  <2>4. ValidMutation(st, m) /\ Rebuilt(s, o, n + 1, applyMutation(st, m))
    <3>1. n + 1 <= ForkEnd(s, o)
      BY <2>1 DEF N
    <3>2. m = createForkMutations(s, o)[n + 1]
      OBVIOUS
    <3>. HIDE DEF m, st
    <3>. QED  BY <2>2, <2>3, <3>1, <3>2, RebuildNext
  <2>5. f[n + 1] = ReplayStep(f[n], m)
    BY <1>4, <2>2
  <2>6. f[n + 1] = [ok |-> TRUE, state |-> applyMutation(st, m)]
    <3>1. ValidMutation(f[n].state, m)
      BY <2>4
    <3>. HIDE DEF m, ms
    <3>. QED  BY <2>3, <2>5, <3>1 DEF ReplayStep
  <2>. QED  BY <2>4, <2>6
<1>7. T \in SUBSET Nat
  OBVIOUS
<1>8. \A n \in Nat : n \in T
  <2>. HIDE DEF T
  <2>. QED  BY <1>5, <1>6, <1>7, Induction
<1>9. Fine(N)
  <2>. HIDE DEF Fine
  <2>. QED  BY <1>1, <1>8
<1>. QED  BY <1>3, <1>9 DEF N

\* What a fork is: a session with the entries and lanes asked for, the name
\* and the labels of its entries, and no operation open.
ForkOf(s, o, fork) ==
    /\ Good(fork)
    /\ DOMAIN fork.entriesById = Range(CopiedEntries(s, o))
    /\ DOMAIN fork.entriesById \subseteq DOMAIN s.entriesById
    /\ \A id \in DOMAIN fork.entriesById :
        /\ fork.entriesById[id].parentId = s.entriesById[id].parentId
        /\ fork.entriesById[id].type = s.entriesById[id].type
    /\ DOMAIN fork.labels = DOMAIN s.labels \cap DOMAIN fork.entriesById
    /\ \A id \in DOMAIN fork.labels : fork.labels[id] = s.labels[id]
    /\ "main" \in DOMAIN ForkLanes(s, o) /\ DOMAIN fork.lanes = DOMAIN ForkLanes(s, o)
    /\ \A l \in DOMAIN ForkLanes(s, o) : fork.lanes[l] = ForkLanes(s, o)[l]
    /\ fork.name = s.name
    /\ \A l \in Lanes : fork.openOperationsByLane[l] = {}

\* The mutations of a fork make one.
LEMMA ForkIs ==
    ASSUME NEW s, Good(s), NEW o, Copies(s, o)
    PROVE  /\ Replay(createForkMutations(s, o)).ok = TRUE
           /\ ForkOf(s, o, Replay(createForkMutations(s, o)).state)
<1>. DEFINE ids == CopiedEntries(s, o)
            names == ForkNames(s, o)
            labels == ForkLabels(s, o)
            lanes == ForkLanes(s, o)
            N == ForkEnd(s, o)
            fork == Replay(createForkMutations(s, o)).state
<1>1. Rebuilt(s, o, N, fork) /\ Replay(createForkMutations(s, o)).ok = TRUE
  BY ForkRebuilds
<1>2. /\ EntriesEnd(s, o) \in Nat /\ LanesEnd(s, o) \in Nat /\ NameEnd(s, o) \in Nat
      /\ EntriesEnd(s, o) = Len(ids) /\ LanesEnd(s, o) = Len(ids) + Len(names)
      /\ Len(names) \in Nat /\ Len(labels) \in Nat /\ N = NameEnd(s, o) + Len(labels)
      /\ LanesEnd(s, o) <= NameEnd(s, o)
      /\ s.name # None => NameEnd(s, o) = LanesEnd(s, o) + 1
  BY ForkMutationsTyped DEF EntriesEnd, LanesEnd, NameEnd, ForkEnd
<1>3. /\ ids \in Seq(DOMAIN s.entriesById) /\ labels \in Seq(Ids) /\ names \in Seq(Lanes)
      /\ Range(labels) = Range(ids) \cap DOMAIN s.labels
      /\ Range(names) = DOMAIN lanes /\ "main" \in DOMAIN lanes
  BY DEF Copies, CopyOrder
<1>. HIDE DEF fork, N
<1>4. /\ Good(fork) /\ DOMAIN fork.entriesById = fork.usedIds
      /\ \A x : x \in fork.usedIds <=> \E i \in 1..Len(ids) : i <= N /\ ids[i] = x
      /\ \A x \in DOMAIN fork.entriesById :
            /\ fork.entriesById[x].parentId = s.entriesById[x].parentId
            /\ fork.entriesById[x].type = s.entriesById[x].type
      /\ \A j \in 1..Len(names) : EntriesEnd(s, o) + j <= N =>
            /\ names[j] \in DOMAIN fork.lanes
            /\ fork.lanes[names[j]] = lanes[names[j]]
      /\ LanesEnd(s, o) < N \/ s.name = None => fork.name = s.name
      /\ \A x : x \in DOMAIN fork.labels <=>
                    \E i \in 1..Len(labels) : NameEnd(s, o) + i <= N /\ labels[i] = x
      /\ DOMAIN fork.lanes \subseteq DOMAIN lanes
      /\ \A x \in DOMAIN fork.labels : fork.labels[x] = s.labels[x]
      /\ \A l \in Lanes : fork.openOperationsByLane[l] = {}
  BY <1>1 DEF Rebuilt
<1>. HIDE DEF ids, names, labels, lanes
<1>5. /\ \A x : x \in Range(ids) <=> \E i \in 1..Len(ids) : ids[i] = x
      /\ \A i \in 1..Len(ids) : ids[i] \in DOMAIN s.entriesById
  BY <1>3, RangeIs
<1>6. \A x : x \in Range(labels) <=> \E i \in 1..Len(labels) : labels[i] = x
  BY <1>3, RangeIs
<1>7. \A x : x \in Range(names) <=> \E i \in 1..Len(names) : names[i] = x
  BY <1>3, RangeIs
<1>8. /\ \A i \in 1..Len(ids) : i <= N
      /\ \A j \in 1..Len(names) : EntriesEnd(s, o) + j <= N
      /\ \A i \in 1..Len(labels) : NameEnd(s, o) + i <= N
      /\ LanesEnd(s, o) < N \/ s.name = None
  BY <1>2
<1>9. DOMAIN fork.entriesById = Range(ids)
  <2>1. \A x : x \in fork.usedIds <=> x \in Range(ids)
    <3>1. \A x : x \in fork.usedIds <=> \E i \in 1..Len(ids) : i <= N /\ ids[i] = x
      BY <1>4
    <3>. QED  BY <3>1, <1>5, <1>8
  <2>2. DOMAIN fork.entriesById = fork.usedIds
    BY <1>4
  <2>. QED  BY <2>1, <2>2
<1>10. DOMAIN fork.labels = Range(labels)
  <2>1. \A x : x \in DOMAIN fork.labels <=>
                    \E i \in 1..Len(labels) : NameEnd(s, o) + i <= N /\ labels[i] = x
    BY <1>4
  <2>2. \A x : x \in DOMAIN fork.labels <=> x \in Range(labels)
    BY <2>1, <1>6, <1>8
  <2>. QED  BY <2>2
<1>11. DOMAIN fork.lanes = DOMAIN lanes /\ \A l \in DOMAIN lanes : fork.lanes[l] = lanes[l]
  <2>1. \A l \in DOMAIN lanes : l \in DOMAIN fork.lanes /\ fork.lanes[l] = lanes[l]
    <3>1. \A l \in DOMAIN lanes : \E j \in 1..Len(names) : names[j] = l
      BY <1>3, <1>7
    <3>2. \A j \in 1..Len(names) :
            names[j] \in DOMAIN fork.lanes /\ fork.lanes[names[j]] = lanes[names[j]]
      BY <1>4, <1>8
    <3>. QED  BY <3>1, <3>2
  <2>2. DOMAIN fork.lanes \subseteq DOMAIN lanes
    BY <1>4
  <2>. QED  BY <2>1, <2>2
<1>12. fork.name = s.name
  BY <1>4, <1>8
<1>13. DOMAIN fork.entriesById \subseteq DOMAIN s.entriesById
  BY <1>5, <1>9
<1>14. ForkOf(s, o, fork)
  BY <1>3, <1>4, <1>9, <1>10, <1>11, <1>12, <1>13 DEF ForkOf, ids, labels, lanes
<1>. QED  BY <1>1, <1>14 DEF fork

\* A fork has the branch of its source.
LEMMA ForkHasBranch ==
    ASSUME NEW s, Good(s), NEW o, Copies(s, o), NEW fork, ForkOf(s, o, fork)
    PROVE  Branch(fork, fork.lanes["main"]) = Branch(s, fork.lanes["main"])
<1>. DEFINE leaf == fork.lanes["main"]
            b == Branch(s, leaf)
            c == Branch(fork, leaf)
            D == DOMAIN s.entriesById
            E == DOMAIN fork.entriesById
<1>1. /\ Good(fork) /\ E \subseteq D
      /\ \A id \in E : fork.entriesById[id].parentId = s.entriesById[id].parentId
  BY DEF ForkOf
<1>2. leaf \in E \cup {None}
  <2>1. leaf = ForkLanes(s, o)["main"] /\ "main" \in DOMAIN ForkLanes(s, o)
    BY DEF ForkOf
  <2>. QED  BY <2>1 DEF ForkOf, Copies
<1>3. None \notin D
  BY IdsAssumption DEF Good, Forest
<1>. HIDE DEF leaf
<1>4. Chain(s.entriesById, b, leaf)
  BY <1>1, <1>2, GoodIsTree, BranchIsChain
<1>5. Chain(fork.entriesById, c, leaf)
  BY <1>1, <1>2, GoodIsTree, BranchIsChain
<1>. HIDE DEF b, c
<1>6. Chain(s.entriesById, c, leaf)
  <2>1. /\ c \in Seq(E) /\ (leaf = None <=> c = <<>>)
        /\ c # <<>> => c[Len(c)] = leaf /\ fork.entriesById[c[1]].parentId = None
        /\ \A i \in 2..Len(c) : fork.entriesById[c[i]].parentId = c[i - 1]
    BY <1>5 DEF Chain
  <2>2. /\ c \in Seq(D) /\ \A i \in 1..Len(c) : c[i] \in E
    BY <2>1, <1>1
  <2>3. c # <<>> => 1 \in 1..Len(c)
    BY <2>1
  <2>4. \A i \in 2..Len(c) : i \in 1..Len(c)
    BY <2>1
  <2>5. c # <<>> => s.entriesById[c[1]].parentId = None
    BY <2>1, <2>2, <2>3, <1>1
  <2>6. \A i \in 2..Len(c) : s.entriesById[c[i]].parentId = c[i - 1]
    BY <2>1, <2>2, <2>4, <1>1
  <2>. QED  BY <2>1, <2>2, <2>5, <2>6 DEF Chain
<1>7. b = c
  BY <1>3, <1>4, <1>6, ChainIsOne
<1>. QED  BY <1>7 DEF b, c, leaf
=============================================================================
