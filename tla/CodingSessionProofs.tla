-------------------------- MODULE CodingSessionProofs --------------------------
(***************************************************************************)
(* Proofs about AgentSession (module CodingSession), for any number of     *)
(* prompts, retries, tool calls and other calls.                           *)
(*                                                                         *)
(* The first part is about operators: how the context of a branch changes  *)
(* when entries are appended, when it is compacted at a cut point and when *)
(* it is cut off by a move in the tree.  The inductive invariant then says *)
(* which calls exclude each other (for hosts that do not overlap them),    *)
(* what branch and messages satisfy at every await, and how many attempts  *)
(* are left.  The last part needs nothing of this: whoever waits for idle  *)
(* is woken whatever overlaps.                                             *)
(***************************************************************************)
EXTENDS CodingSession, FiniteSetTheorems, TLAPS

--------------------------------------------------------------------------------
(* Sets of indices in order.                                                     *)

Rank(S, i) == Cardinality({j \in S : j <= i})

\* The ranks of a finite set of numbers are the numbers up to its size, each once
\* and in the order of the set (InOrder).
LEMMA Ranks ==
    ASSUME NEW S \in SUBSET Nat, IsFiniteSet(S)
    PROVE  /\ Cardinality(S) \in Nat
           /\ \A i \in S : Rank(S, i) \in 1..Cardinality(S)
           /\ \A i, j \in S : i < j => Rank(S, i) < Rank(S, j)
           /\ \A i, j \in S : Rank(S, i) = Rank(S, j) => i = j
           /\ \A n \in 1..Cardinality(S) : \E i \in S : Rank(S, i) = n
<1>. DEFINE N == Cardinality(S)
            Below(i) == {j \in S : j <= i}
            f == [i \in S |-> Rank(S, i)]
<1>1. N \in Nat
  BY FS_CardinalityType
<1>2. ASSUME NEW i \in S
      PROVE  IsFiniteSet(Below(i)) /\ Rank(S, i) \in Nat /\ Rank(S, i) <= N
  <2>1. Below(i) \in SUBSET S
    OBVIOUS
  <2>2. IsFiniteSet(Below(i)) /\ Cardinality(Below(i)) <= N
    BY <2>1, FS_Subset
  <2>. QED  BY <2>2, FS_CardinalityType DEF Rank
<1>3. ASSUME NEW i \in S PROVE Rank(S, i) >= 1
  <2>1. {i} \in SUBSET Below(i)
    OBVIOUS
  <2>2. Cardinality({i}) <= Cardinality(Below(i)) /\ Cardinality({i}) = 1
    BY <2>1, <1>2, FS_Subset, FS_Singleton
  <2>. QED  BY <2>2, <1>2 DEF Rank
<1>4. ASSUME NEW i \in S, NEW j \in S, i < j PROVE Rank(S, i) < Rank(S, j)
  <2>0. i \in Nat /\ j \in Nat /\ \A k \in S : k \in Nat
    OBVIOUS
  <2>1. \A k \in S : k <= i => k <= j
    BY <2>0, <1>4
  <2>4. Below(i) \in SUBSET Below(j)
    BY <2>1
  <2>3. j \in Below(j) /\ j \notin Below(i)
    BY <2>0, <1>4
  <2>2. /\ Cardinality(Below(i)) <= Cardinality(Below(j))
        /\ Cardinality(Below(i)) # Cardinality(Below(j))
    BY <2>3, <2>4, <1>2, FS_Subset
  <2>. QED  BY <2>2, <1>2 DEF Rank
<1>5. f \in [S -> 1..N]
  <2>1. ASSUME NEW i \in S PROVE Rank(S, i) \in 1..N
    <3>1. Rank(S, i) \in Nat /\ Rank(S, i) <= N /\ Rank(S, i) >= 1
      BY <1>2, <1>3
    <3>. HIDE DEF N
    <3>. QED  BY <3>1, <1>1
  <2>. HIDE DEF N
  <2>. QED  BY <2>1
<1>6. ASSUME NEW i \in S, NEW j \in S, f[i] = f[j] PROVE i = j
  <2>1. i \in Nat /\ j \in Nat /\ Rank(S, i) \in Nat /\ Rank(S, i) = Rank(S, j)
    BY <1>2, <1>6
  <2>2. ~ (i < j) /\ ~ (j < i)
    BY <2>1, <1>4
  <2>. QED  BY <2>1, <2>2
<1>7. f \in Injection(S, 1..N)
  BY <1>5, <1>6 DEF Injection, IsInjective
<1>8. IsFiniteSet(1..N) /\ Cardinality(1..N) = N
  BY <1>1, FS_Interval
<1>9. f \in Surjection(S, 1..N)
  BY <1>7, <1>8, FS_Injection
<1>10. \A n \in 1..N : \E i \in S : f[i] = n
  BY <1>9 DEF Surjection
<1>. QED  BY <1>1, <1>4, <1>5, <1>6, <1>10

\* InOrder lists every member of a finite set of numbers, in increasing order.
LEMMA InOrderFacts ==
    ASSUME NEW S \in SUBSET Nat, IsFiniteSet(S)
    PROVE  /\ InOrder(S) \in Seq(S)
           /\ Len(InOrder(S)) = Cardinality(S)
           /\ \A x \in S : \E n \in DOMAIN InOrder(S) : InOrder(S)[n] = x
           /\ \A m, n \in DOMAIN InOrder(S) : m < n => InOrder(S)[m] < InOrder(S)[n]
<1>. DEFINE s == InOrder(S)  N == Cardinality(S)
<1>1. N \in Nat
  BY Ranks
<1>2. ASSUME NEW n \in 1..N PROVE s[n] \in S /\ Rank(S, s[n]) = n
  <2>1. \E i \in S : Cardinality({j \in S : j <= i}) = n
    BY Ranks DEF Rank
  <2>. QED  BY <2>1 DEF InOrder, Rank
<1>3. s = [n \in 1..N |-> CHOOSE i \in S : Cardinality({j \in S : j <= i}) = n]
  BY DEF InOrder
<1>. HIDE DEF s, N
<1>4. s \in Seq(S) /\ Len(s) = N /\ DOMAIN s = 1..N
  <2>1. DOMAIN s = 1..N /\ s \in [1..N -> S]
    BY <1>2, <1>3
  <2>. QED  BY <2>1, <1>1
<1>7. \A i, j \in S : i < j => Rank(S, i) < Rank(S, j)
  BY Ranks
<1>8. \A i, j \in S : Rank(S, i) = Rank(S, j) => i = j
  BY Ranks
<1>5. ASSUME NEW x \in S PROVE \E n \in 1..N : s[n] = x
  <2>1. Rank(S, x) \in 1..N
    BY Ranks DEF N
  <2>2. Rank(S, s[Rank(S, x)]) = Rank(S, x) /\ s[Rank(S, x)] \in S
    BY <2>1, <1>2
  <2>3. s[Rank(S, x)] = x
    BY <2>2, <1>8
  <2>. QED  BY <2>1, <2>3
<1>6. ASSUME NEW m \in 1..N, NEW n \in 1..N, m < n PROVE s[m] < s[n]
  <2>1. s[m] \in S /\ s[n] \in S /\ Rank(S, s[m]) = m /\ Rank(S, s[n]) = n
    BY <1>2
  <2>2. s[n] < s[m] => n < m
    <3>1. s[n] < s[m] => Rank(S, s[n]) < Rank(S, s[m])
      BY <2>1, <1>7
    <3>. QED  BY <3>1, <2>1
  <2>3. s[n] # s[m]
    BY <2>1, <1>6, <1>1
  <2>4. m \in Nat /\ n \in Nat
    BY <1>1
  <2>5. s[m] \in Nat /\ s[n] \in Nat
    BY <2>1
  <2>. QED  BY <2>2, <2>3, <2>4, <2>5, <1>6
<1>. QED  BY <1>4, <1>5, <1>6 DEF s, N

\* A finite set of numbers that is not empty has a maximum.
LEMMA HasMax ==
    ASSUME NEW S \in SUBSET Nat, IsFiniteSet(S), S # {}
    PROVE  Max(S) \in S /\ \A y \in S : y <= Max(S)
<1>1. Cardinality(S) \in Nat /\ Cardinality(S) >= 1
  <2>1. PICK i \in S : TRUE
    OBVIOUS
  <2>. QED  BY <2>1, Ranks
<1>2. PICK x \in S : Rank(S, x) = Cardinality(S)
  BY <1>1, Ranks
<1>3. \A y \in S : ~ (x < y)
  BY <1>2, <1>1, Ranks
<1>4. \A y \in S : x >= y
  BY <1>3
<1>5. \E z \in S : \A y \in S : z >= y
  BY <1>4
<1>6. Max(S) \in S /\ \A y \in S : Max(S) >= y
  BY <1>5 DEF Max
<1>. QED  BY <1>6
--------------------------------------------------------------------------------
(* Sequences.                                                                    *)

\* The parts of a concatenation.
LEMMA Concat ==
    ASSUME NEW S, NEW s \in Seq(S), NEW t \in Seq(S)
    PROVE  /\ s \o t \in Seq(S) /\ Len(s \o t) = Len(s) + Len(t)
           /\ DOMAIN (s \o t) = 1..Len(s \o t)
           /\ \A i \in 1..Len(s) : (s \o t)[i] = s[i]
           /\ \A i \in 1..Len(t) : (s \o t)[Len(s) + i] = t[i]
OBVIOUS

\* A sequence over a set is one over a larger set.
LEMMA SeqOver ==
    ASSUME NEW T, NEW S \in SUBSET T, NEW s \in Seq(S)
    PROVE  s \in Seq(T)
<1>1. Len(s) \in Nat /\ s \in [1..Len(s) -> S]
  OBVIOUS
<1>2. s \in [1..Len(s) -> T]
  BY <1>1
<1>. QED  BY <1>1, <1>2

--------------------------------------------------------------------------------
(* Branches and their contexts.                                                  *)

BranchEntry == [kind : Kinds, kept : Nat]

\* cut may be where a compaction of the first n entries of b starts: metadata, then a
\* message that is no tool result.
GoodCut(b, cut, n) ==
    /\ cut \in 1..n
    /\ \E i \in cut..n : /\ b[i].kind \notin {"result", "compaction", "meta"}
                         /\ \A k \in cut..(i - 1) : b[k].kind = "meta"

\* Entry i of b follows a tool call, with at most metadata between.
FollowsCall(b, i) ==
    \E t \in 1..(i - 1) : /\ b[t].kind \in Calling
                          /\ \A k \in (t + 1)..(i - 1) : b[k].kind = "meta"

\* What every branch of the session satisfies.
Sound(b) ==
    /\ b \in Seq(BranchEntry)
    /\ \A c \in DOMAIN b : b[c].kind = "compaction" => GoodCut(b, b[c].kept, c - 1)
    /\ \A c \in DOMAIN b : b[c].kind # "compaction" => b[c].kept = 0
    /\ \A i \in DOMAIN b : b[i].kind = "result" => FollowsCall(b, i)

\* Entry x of b is followed by a tool result, with at most metadata between.
HasResult(b, x) ==
    \E r \in (x + 1)..Len(b) : /\ b[r].kind = "result"
                              /\ \A k \in (x + 1)..(r - 1) : b[k].kind = "meta"

\* Entry x of the context of b is not among the messages.
Missing(b, m, x) == x \in ContextEntries(b) /\ \A i \in DOMAIN m : m[i] # x

\* StateMatchesSession for any branch and messages; and a response that is missing was
\* no tool call with a result.
Matches(b, m) ==
    /\ m \in Seq(Nat)
    /\ \A i \in DOMAIN m : m[i] \in ContextEntries(b)
    /\ \A i, j \in DOMAIN m : i < j => Precedes(b, m[i], m[j])
    /\ \A x : Missing(b, m, x) => b[x].kind \in Failed /\ ~HasResult(b, x)

\* Entry e is the last of b that is no metadata.
LastMessage(b, e) ==
    /\ e \in DOMAIN b
    /\ b[e].kind # "meta"
    /\ \A k \in (e + 1)..Len(b) : b[k].kind = "meta"

\* LatestIn is the greatest index of an entry of these kinds, 0 without one.
LEMMA LatestFacts ==
    ASSUME NEW b \in Seq(BranchEntry), NEW kinds
    PROVE  /\ LatestIn(b, kinds) \in 0..Len(b)
           /\ LatestIn(b, kinds) # 0 => b[LatestIn(b, kinds)].kind \in kinds
           /\ \A i \in DOMAIN b : b[i].kind \in kinds => i <= LatestIn(b, kinds)
<1>. DEFINE at == {i \in DOMAIN b : b[i].kind \in kinds}
<1>1. DOMAIN b = 1..Len(b) /\ Len(b) \in Nat
  OBVIOUS
<1>2. LatestIn(b, kinds) = IF at = {} THEN 0 ELSE Max(at)
  BY DEF LatestIn
<1>3. CASE at = {}
  BY <1>1, <1>2, <1>3
<1>4. CASE at # {}
  <2>1. at \in SUBSET (1..Len(b)) /\ at \in SUBSET Nat
    BY <1>1
  <2>2. IsFiniteSet(at)
    <3>1. IsFiniteSet(1..Len(b))
      BY <1>1, FS_Interval
    <3>. QED  BY <2>1, <3>1, FS_Subset
  <2>3. Max(at) \in at /\ \A y \in at : y <= Max(at)
    BY <2>1, <2>2, <1>4, HasMax
  <2>. QED  BY <1>1, <1>2, <1>4, <2>3
<1>. QED  BY <1>3, <1>4

\* The latest compaction is known by what it is.
LEMMA LatestIs ==
    ASSUME NEW b \in Seq(BranchEntry), NEW c \in 0..Len(b),
           c # 0 => b[c].kind = "compaction",
           \A i \in DOMAIN b : b[i].kind = "compaction" => i <= c
    PROVE  LatestCompaction(b) = c
<1>. DEFINE l == LatestCompaction(b)
<1>1. /\ l \in 0..Len(b)
      /\ l # 0 => b[l].kind = "compaction"
      /\ \A i \in DOMAIN b : b[i].kind = "compaction" => i <= l
  BY LatestFacts DEF LatestCompaction
<1>. HIDE DEF l
<1>2. DOMAIN b = 1..Len(b) /\ Len(b) \in Nat
  OBVIOUS
<1>3. l <= c
  BY <1>1, <1>2
<1>4. c <= l
  BY <1>1, <1>2
<1>. QED  BY <1>1, <1>2, <1>3, <1>4 DEF l

\* The context of a sound branch starts at an entry, at the latest compaction or before it.
LEMMA StartFacts ==
    ASSUME NEW b, Sound(b)
    PROVE  /\ contextStart(b) \in Nat \ {0}
           /\ LatestCompaction(b) \in 0..Len(b)
           /\ LatestCompaction(b) = 0 => contextStart(b) = 1
           /\ LatestCompaction(b) # 0 =>
                 /\ b[LatestCompaction(b)].kind = "compaction"
                 /\ contextStart(b) = b[LatestCompaction(b)].kept
                 /\ contextStart(b) < LatestCompaction(b)
<1>. DEFINE c == LatestCompaction(b)
<1>1. b \in Seq(BranchEntry) /\ DOMAIN b = 1..Len(b) /\ Len(b) \in Nat
  BY DEF Sound
<1>2. c \in 0..Len(b) /\ (c # 0 => b[c].kind = "compaction")
  BY <1>1, LatestFacts DEF LatestCompaction
<1>3. contextStart(b) = IF c = 0 THEN 1 ELSE IF b[c].kept = 0 THEN c ELSE b[c].kept
  BY DEF contextStart
<1>. HIDE DEF c
<1>4. c # 0 => b[c].kept \in 1..(c - 1)
  BY <1>1, <1>2 DEF Sound, GoodCut
<1>. QED  BY <1>1, <1>2, <1>3, <1>4 DEF c
\* A cut point and a tool call depend on the entries up to them only.
LEMMA AgreeUpTo ==
    ASSUME NEW b, NEW u, NEW n \in Nat, \A i \in 1..n : u[i] = b[i]
    PROVE  /\ \A cut, k \in Nat : k <= n /\ GoodCut(b, cut, k) => GoodCut(u, cut, k)
           /\ \A i \in 1..(n + 1) : FollowsCall(b, i) => FollowsCall(u, i)
<1>1. ASSUME NEW cut \in Nat, NEW k \in Nat, k <= n, GoodCut(b, cut, k)
      PROVE  GoodCut(u, cut, k)
  <2>1. cut \in 1..k
    BY <1>1 DEF GoodCut
  <2>2. PICK i \in cut..k : /\ b[i].kind \notin {"result", "compaction", "meta"}
                            /\ \A j \in cut..(i - 1) : b[j].kind = "meta"
    BY <1>1 DEF GoodCut
  <2>3. i \in 1..n /\ \A j \in cut..(i - 1) : j \in 1..n
    BY <2>1, <2>2, <1>1
  <2>. QED  BY <2>1, <2>2, <2>3 DEF GoodCut
<1>2. ASSUME NEW i \in 1..(n + 1), FollowsCall(b, i)
      PROVE  FollowsCall(u, i)
  <2>1. PICK t \in 1..(i - 1) : /\ b[t].kind \in Calling
                                /\ \A k \in (t + 1)..(i - 1) : b[k].kind = "meta"
    BY <1>2 DEF FollowsCall
  <2>2. t \in 1..n /\ \A k \in (t + 1)..(i - 1) : k \in 1..n
    BY <2>1
  <2>. QED  BY <2>1, <2>2 DEF FollowsCall
<1>. QED  BY <1>1, <1>2

\* What is appended joins the context, metadata excepted, unless it is a compaction.
LEMMA ExtendContext ==
    ASSUME NEW b, Sound(b), NEW es \in Seq(BranchEntry),
           \A k \in DOMAIN es : es[k].kind # "compaction"
    PROVE  /\ b \o es \in Seq(BranchEntry)
           /\ Len(b \o es) = Len(b) + Len(es)
           /\ Len(b) \in Nat /\ Len(es) \in Nat
           /\ \A i \in 1..Len(b) : (b \o es)[i] = b[i]
           /\ \A i \in 1..Len(es) : (b \o es)[Len(b) + i] = es[i]
           /\ LatestCompaction(b \o es) = LatestCompaction(b)
           /\ ContextEntries(b \o es) =
                 ContextEntries(b)
                     \cup {i \in (Len(b) + 1)..Len(b \o es) : (b \o es)[i].kind # "meta"}
<1>. DEFINE u == b \o es  c == LatestCompaction(b)
<1>1. b \in Seq(BranchEntry) /\ DOMAIN b = 1..Len(b) /\ Len(b) \in Nat
  BY DEF Sound
<1>2. /\ u \in Seq(BranchEntry) /\ Len(u) = Len(b) + Len(es) /\ Len(es) \in Nat
      /\ DOMAIN u = 1..Len(u) /\ DOMAIN es = 1..Len(es)
      /\ \A i \in 1..Len(b) : u[i] = b[i]
      /\ \A i \in 1..Len(es) : u[Len(b) + i] = es[i]
  BY <1>1
<1>. HIDE DEF u
<1>3. ASSUME NEW i \in 1..Len(u), i > Len(b) PROVE u[i] = es[i - Len(b)] /\ i - Len(b) \in DOMAIN es
  <2>1. i - Len(b) \in 1..Len(es) /\ Len(b) + (i - Len(b)) = i
    BY <1>1, <1>2, <1>3
  <2>. QED  BY <2>1, <1>2
<1>4. /\ contextStart(b) \in Nat \ {0}
      /\ c \in 0..Len(b)
      /\ c # 0 => b[c].kind = "compaction"
      /\ contextStart(b) = IF c = 0 THEN 1 ELSE b[c].kept
      /\ c # 0 => contextStart(b) < c
  BY StartFacts
<1>5. \A i \in DOMAIN b : b[i].kind = "compaction" => i <= c
  BY <1>1, LatestFacts DEF LatestCompaction
<1>. HIDE DEF c
<1>6. LatestCompaction(u) = c
  <2>1. c \in 0..Len(u) /\ (c # 0 => u[c].kind = "compaction")
    BY <1>1, <1>2, <1>4
  <2>2. ASSUME NEW i \in DOMAIN u, u[i].kind = "compaction" PROVE i <= c
    <3>1. i <= Len(b)
      BY <1>1, <1>2, <1>3, <2>2
    <3>2. i \in DOMAIN b /\ u[i] = b[i]
      BY <3>1, <1>1, <1>2
    <3>. QED  BY <3>2, <1>5, <2>2
  <2>. QED  BY <2>1, <2>2, <1>2, LatestIs
<1>7. contextStart(u) = contextStart(b)
  <2>1. contextStart(u) = IF c = 0 THEN 1 ELSE IF u[c].kept = 0 THEN c ELSE u[c].kept
    BY <1>6 DEF contextStart
  <2>2. c # 0 => u[c] = b[c]
    BY <1>1, <1>2, <1>4
  <2>3. c # 0 => b[c].kept # 0
    BY <1>4
  <2>. QED  BY <2>1, <2>2, <2>3, <1>4
<1>8. ContextEntries(u) = ContextEntries(b) \cup {i \in (Len(b) + 1)..Len(u) : u[i].kind # "meta"}
  <2>1. contextStart(b) <= Len(b) + 1
    BY <1>1, <1>4
  <2>. DEFINE from == contextStart(b)
  <2>2. from \in Nat /\ from <= Len(b) + 1
    BY <2>1, <1>4
  <2>3. ContextEntries(u) = {i \in from..Len(u) : u[i].kind # "meta"}
    BY <1>7 DEF ContextEntries
  <2>4. ContextEntries(b) = {i \in from..Len(b) : b[i].kind # "meta"}
    BY DEF ContextEntries
  <2>. HIDE DEF from
  <2>5. from # 0
    BY <1>4 DEF from
  <2>6. \A i \in from..Len(b) : u[i] = b[i]
    BY <2>2, <2>5, <1>1, <1>2
  <2>. QED  BY <2>2, <2>3, <2>4, <2>6, <1>1, <1>2
<1>. QED  BY <1>1, <1>2, <1>6, <1>8 DEF u, c

\* A sound branch stays sound when messages or metadata are appended, a tool result
\* only right after its call.
LEMMA ExtendSound ==
    ASSUME NEW b, Sound(b), NEW es \in Seq(BranchEntry),
           \A k \in DOMAIN es : /\ es[k].kind # "compaction" /\ es[k].kept = 0
                                /\ es[k].kind = "result" => k = 1 /\ FollowsCall(b, Len(b) + 1)
    PROVE  Sound(b \o es)
<1>. DEFINE u == b \o es
<1>1. b \in Seq(BranchEntry) /\ DOMAIN b = 1..Len(b) /\ Len(b) \in Nat
  BY DEF Sound
<1>2. /\ u \in Seq(BranchEntry) /\ Len(u) = Len(b) + Len(es) /\ Len(es) \in Nat
      /\ DOMAIN u = 1..Len(u) /\ DOMAIN es = 1..Len(es)
      /\ \A i \in 1..Len(b) : u[i] = b[i]
      /\ \A i \in 1..Len(es) : u[Len(b) + i] = es[i]
  BY <1>1
<1>. HIDE DEF u
<1>3. ASSUME NEW i \in 1..Len(u), i > Len(b) PROVE u[i] = es[i - Len(b)] /\ i - Len(b) \in DOMAIN es
  <2>1. i - Len(b) \in 1..Len(es) /\ Len(b) + (i - Len(b)) = i
    BY <1>1, <1>2, <1>3
  <2>. QED  BY <2>1, <1>2
<1>4. /\ \A cut, k \in Nat : k <= Len(b) /\ GoodCut(b, cut, k) => GoodCut(u, cut, k)
      /\ \A i \in 1..(Len(b) + 1) : FollowsCall(b, i) => FollowsCall(u, i)
  BY <1>1, <1>2, AgreeUpTo
<1>5. ASSUME NEW i \in DOMAIN u
      PROVE  /\ u[i].kind = "compaction" => GoodCut(u, u[i].kept, i - 1)
             /\ u[i].kind # "compaction" => u[i].kept = 0
             /\ u[i].kind = "result" => FollowsCall(u, i)
  <2>1. CASE i <= Len(b)
    <3>1. i \in 1..Len(b) /\ u[i] = b[i] /\ i - 1 \in Nat /\ i - 1 <= Len(b) /\ i \in 1..(Len(b) + 1)
      BY <2>1, <1>1, <1>2
    <3>2. b[i] \in BranchEntry
      BY <3>1, <1>1
    <3>4. b[i].kept \in Nat
      BY <3>2 DEF BranchEntry
    <3>3. /\ b[i].kind = "compaction" => GoodCut(b, b[i].kept, i - 1)
          /\ b[i].kind # "compaction" => b[i].kept = 0
          /\ b[i].kind = "result" => FollowsCall(b, i)
      BY <3>1, <1>1 DEF Sound
    <3>. QED  BY <3>1, <3>3, <3>4, <1>4
  <2>2. CASE i > Len(b)
    <3>1. u[i] = es[i - Len(b)] /\ i - Len(b) \in DOMAIN es
      BY <2>2, <1>2, <1>3
    <3>2. /\ u[i].kind # "compaction" /\ u[i].kept = 0
          /\ u[i].kind = "result" => i - Len(b) = 1 /\ FollowsCall(b, Len(b) + 1)
      BY <3>1
    <3>3. i - Len(b) = 1 => i = Len(b) + 1
      BY <1>1, <1>2
    <3>4. Len(b) + 1 \in 1..(Len(b) + 1)
      BY <1>1
    <3>. QED  BY <3>2, <3>3, <3>4, <1>4
  <2>. QED  BY <2>1, <2>2, <1>1, <1>2
<1>. QED  BY <1>2, <1>5 DEF Sound, u
\* Messages appended to the branch and to the agent's state still match.
LEMMA MatchesPush ==
    ASSUME NEW b, Sound(b), NEW m, Matches(b, m),
           NEW es \in Seq(BranchEntry), NEW is \in Seq(Nat), Len(is) = Len(es),
           \A k \in DOMAIN es : es[k].kind \notin {"compaction", "meta"},
           \A k \in DOMAIN is : is[k] = Len(b) + k,
           \A k \in DOMAIN es : es[k].kind = "result" => \A x : Missing(b, m, x) => ~LastMessage(b, x)
    PROVE  Matches(b \o es, m \o is)
<1>. DEFINE u == b \o es  n == m \o is  c == LatestCompaction(b)
<1>0. /\ DOMAIN es = 1..Len(es) /\ DOMAIN is = 1..Len(es)
      /\ \A k \in DOMAIN es : es[k].kind # "compaction" /\ es[k].kind # "meta"
  OBVIOUS
<1>1. /\ Len(b) \in Nat /\ Len(es) \in Nat /\ Len(u) = Len(b) + Len(es)
      /\ \A i \in 1..Len(b) : u[i] = b[i]
      /\ \A i \in 1..Len(es) : u[Len(b) + i] = es[i]
      /\ LatestCompaction(u) = c
      /\ ContextEntries(u) = ContextEntries(b) \cup {i \in (Len(b) + 1)..Len(u) : u[i].kind # "meta"}
  <2>1. \A k \in DOMAIN es : es[k].kind # "compaction"
    BY <1>0
  <2>. QED  BY <2>1, ExtendContext, ZenonT(60)
<1>2. /\ m \in Seq(Nat) /\ n \in Seq(Nat) /\ Len(m) \in Nat /\ Len(n) = Len(m) + Len(es)
      /\ DOMAIN m = 1..Len(m) /\ DOMAIN n = 1..Len(n)
      /\ \A i \in 1..Len(m) : n[i] = m[i]
      /\ \A i \in 1..Len(es) : n[Len(m) + i] = is[i]
  <2>1. m \in Seq(Nat) /\ Len(m) \in Nat /\ DOMAIN m = 1..Len(m)
    BY DEF Matches
  <2>2. n \in Seq(Nat) /\ Len(n) = Len(m) + Len(is) /\ DOMAIN n = 1..Len(n)
    <3>1. m \in Seq(Nat)
      BY <2>1
    <3>2. m \o is \in Seq(Nat)
      BY <3>1, Concat
    <3>3. Len(m \o is) = Len(m) + Len(is)
      BY <3>1, Concat
    <3>4. DOMAIN (m \o is) = 1..Len(m \o is)
      BY <3>1, Concat
    <3>. QED  BY <3>2, <3>3, <3>4
  <2>3. \A i \in 1..Len(m) : n[i] = m[i]
    BY <2>1, Concat
  <2>4. \A i \in 1..Len(is) : n[Len(m) + i] = is[i]
    BY <2>1, Concat
  <2>. QED  BY <2>1, <2>2, <2>3, <2>4
<1>. HIDE DEF u, n
<1>3. \A x \in ContextEntries(b) : x \in 1..Len(b)
  <2>1. contextStart(b) \in Nat \ {0}
    BY StartFacts
  <2>. QED  BY <2>1, <1>1 DEF ContextEntries
<1>4. c \in 0..Len(b)
  BY StartFacts
<1>. HIDE DEF c
<1>5. ASSUME NEW i \in 1..Len(n)
      PROVE  \/ i \in DOMAIN m /\ n[i] = m[i]
             \/ i > Len(m) /\ n[i] = Len(b) + (i - Len(m)) /\ i - Len(m) \in 1..Len(es)
  <2>1. CASE i <= Len(m)
    BY <2>1, <1>2
  <2>2. CASE i > Len(m)
    <3>1. i - Len(m) \in 1..Len(es) /\ Len(m) + (i - Len(m)) = i
      BY <2>2, <1>1, <1>2
    <3>2. n[i] = is[i - Len(m)] /\ i - Len(m) \in DOMAIN is
      BY <3>1, <1>2
    <3>. QED  BY <2>2, <3>1, <3>2
  <2>. QED  BY <2>1, <2>2, <1>2
<1>6. \A k \in 1..Len(es) : Len(b) + k \in ContextEntries(u)
  <2>1. ASSUME NEW k \in 1..Len(es)
        PROVE  Len(b) + k \in (Len(b) + 1)..Len(u) /\ u[Len(b) + k].kind # "meta"
    <3>1. k \in DOMAIN es /\ es[k].kind # "meta" /\ u[Len(b) + k] = es[k]
      BY <1>0, <1>1
    <3>2. Len(b) + k \in (Len(b) + 1)..Len(u)
      BY <1>1
    <3>. QED  BY <3>1, <3>2
  <2>. QED  BY <2>1, <1>1
<1>7. ASSUME NEW i \in DOMAIN n PROVE n[i] \in ContextEntries(u)
  <2>1. CASE i \in DOMAIN m /\ n[i] = m[i]
    BY <2>1, <1>1 DEF Matches
  <2>2. CASE n[i] = Len(b) + (i - Len(m)) /\ i - Len(m) \in 1..Len(es)
    BY <2>2, <1>6
  <2>. QED  BY <2>1, <2>2, <1>2, <1>5
<1>8. ASSUME NEW i \in DOMAIN n, NEW j \in DOMAIN n, i < j PROVE Precedes(u, n[i], n[j])
  <2>1. CASE j \in DOMAIN m /\ n[j] = m[j]
    <3>1. i \in DOMAIN m /\ n[i] = m[i]
      BY <2>1, <1>2, <1>8
    <3>2. Precedes(b, m[i], m[j])
      BY <2>1, <3>1, <1>8 DEF Matches
    <3>. QED  BY <2>1, <3>1, <3>2, <1>1 DEF Precedes, c
  <2>2. CASE j > Len(m) /\ n[j] = Len(b) + (j - Len(m)) /\ j - Len(m) \in 1..Len(es)
    <3>1. n[j] # c /\ n[j] > Len(b)
      BY <2>2, <1>1, <1>4
    <3>2. n[i] < n[j]
      <4>1. CASE i \in DOMAIN m /\ n[i] = m[i]
        <5>1. m[i] \in 1..Len(b)
          BY <4>1, <1>3 DEF Matches
        <5>. QED  BY <4>1, <5>1, <3>1, <2>2, <1>1
      <4>2. CASE i > Len(m) /\ n[i] = Len(b) + (i - Len(m)) /\ i - Len(m) \in 1..Len(es)
        BY <4>2, <2>2, <1>1, <1>2, <1>8
      <4>. QED  BY <4>1, <4>2, <1>2, <1>5
    <3>. QED  BY <3>1, <3>2, <1>1 DEF Precedes
  <2>. QED  BY <2>1, <2>2, <1>2, <1>5
<1>9. ASSUME NEW x \in ContextEntries(u), \A i \in DOMAIN n : n[i] # x
      PROVE  u[x].kind \in Failed /\ ~HasResult(u, x)
  <2>1. CASE x \in ContextEntries(b)
    <3>1. Missing(b, m, x)
      BY <1>2, <1>9, <1>1, <2>1 DEF Missing
    <3>2. b[x].kind \in Failed /\ u[x] = b[x] /\ ~HasResult(b, x) /\ x \in 1..Len(b)
      BY <3>1, <2>1, <1>1, <1>3 DEF Matches
    <3>3. ASSUME NEW r \in (x + 1)..Len(u), u[r].kind = "result",
                 \A k \in (x + 1)..(r - 1) : u[k].kind = "meta"
          PROVE  FALSE
      <4>1. CASE r <= Len(b)
        <5>1. r \in (x + 1)..Len(b) /\ \A k \in (x + 1)..r : k \in 1..Len(b)
          BY <4>1, <3>2, <1>1
        <5>2. b[r].kind = "result" /\ \A k \in (x + 1)..(r - 1) : b[k].kind = "meta"
          BY <5>1, <3>2, <3>3, <1>1
        <5>. QED  BY <5>1, <5>2, <3>2 DEF HasResult
      <4>2. CASE r > Len(b)
        <5>1. r - Len(b) \in 1..Len(es) /\ Len(b) + (r - Len(b)) = r
          BY <4>2, <3>2, <3>3, <1>1
        <5>2. es[r - Len(b)].kind = "result" /\ r - Len(b) \in DOMAIN es
          BY <5>1, <3>3, <1>0, <1>1
        <5>3. ~LastMessage(b, x)
          BY <5>2, <3>1
        <5>4. \A k \in (x + 1)..Len(b) : k \in (x + 1)..(r - 1) /\ k \in 1..Len(b)
          BY <4>2, <3>2, <3>3, <1>1
        <5>5. \A k \in (x + 1)..Len(b) : b[k].kind = "meta"
          BY <5>4, <3>3, <1>1
        <5>6. b[x].kind # "meta" /\ x \in DOMAIN b
          BY <2>1, <3>2 DEF ContextEntries, Sound
        <5>. QED  BY <5>3, <5>5, <5>6 DEF LastMessage
      <4>. QED  BY <4>1, <4>2, <3>2, <3>3, <1>1
    <3>. QED  BY <3>2, <3>3 DEF HasResult
  <2>2. CASE x \in (Len(b) + 1)..Len(u)
    <3>1. x - Len(b) \in 1..Len(es) /\ Len(b) + (x - Len(b)) = x
      BY <2>2, <1>1
    <3>2. n[Len(m) + (x - Len(b))] = is[x - Len(b)] /\ is[x - Len(b)] = x
      BY <3>1, <1>0, <1>2
    <3>3. Len(m) + (x - Len(b)) \in DOMAIN n
      <4>1. Len(m) + (x - Len(b)) \in 1..(Len(m) + Len(es))
        <5>1. Len(m) \in Nat /\ Len(es) \in Nat /\ Len(b) \in Nat /\ x - Len(b) \in 1..Len(es)
          BY <3>1, <1>1, <1>2
        <5>. QED  BY <5>1
      <4>. QED  BY <4>1, <1>2
    <3>. QED  BY <3>2, <3>3, <1>9
  <2>. QED  BY <2>1, <2>2, <1>1
<1>10. \A x : Missing(u, n, x) => u[x].kind \in Failed /\ ~HasResult(u, x)
  BY <1>9 DEF Missing
<1>. QED  BY <1>2, <1>7, <1>8, <1>10 DEF Matches, u, n

\* Metadata appended to the branch changes nothing of its context.
LEMMA MatchesMeta ==
    ASSUME NEW b, Sound(b), NEW m, Matches(b, m)
    PROVE  /\ Sound(Append(b, Entry("meta")))
           /\ Matches(Append(b, Entry("meta")), m)
<1>. DEFINE es == <<Entry("meta")>>  u == b \o es
<1>0. b \in Seq(BranchEntry) /\ Append(b, Entry("meta")) = u
  BY DEF Sound
<1>1. Entry("meta") \in BranchEntry /\ Entry("meta").kind = "meta" /\ Entry("meta").kept = 0
  BY DEF Entry, BranchEntry, Kinds
<1>2. es \in Seq(BranchEntry) /\ Len(es) = 1 /\ DOMAIN es = 1..1 /\ es[1] = Entry("meta")
  BY <1>1
<1>3. \A k \in DOMAIN es : es[k].kind = "meta" /\ es[k].kept = 0
  BY <1>1, <1>2
<1>. HIDE DEF es
<1>4. Sound(u)
  BY <1>2, <1>3, ExtendSound
<1>5. /\ Len(b) \in Nat /\ Len(u) = Len(b) + 1
      /\ \A i \in 1..Len(b) : u[i] = b[i]
      /\ u[Len(b) + 1].kind = "meta"
      /\ LatestCompaction(u) = LatestCompaction(b)
      /\ ContextEntries(u) = ContextEntries(b) \cup {i \in (Len(b) + 1)..Len(u) : u[i].kind # "meta"}
  BY <1>2, <1>3, ExtendContext
<1>6. ContextEntries(u) = ContextEntries(b)
  BY <1>5
<1>7. \A x \in ContextEntries(b) : u[x] = b[x]
  <2>1. contextStart(b) \in Nat \ {0}
    BY StartFacts
  <2>. QED  BY <2>1, <1>5 DEF ContextEntries
<1>. HIDE DEF u
<1>9. ASSUME NEW x, Missing(u, m, x) PROVE u[x].kind \in Failed /\ ~HasResult(u, x)
  <2>1. Missing(b, m, x) /\ x \in ContextEntries(b) /\ u[x] = b[x]
    BY <1>6, <1>7, <1>9 DEF Missing
  <2>2. b[x].kind \in Failed /\ ~HasResult(b, x)
    BY <2>1 DEF Matches
  <2>3. x \in 1..Len(b)
    <3>1. contextStart(b) \in Nat \ {0}
      BY StartFacts
    <3>. QED  BY <2>1, <3>1, <1>5 DEF ContextEntries
  <2>4. ASSUME NEW r \in (x + 1)..Len(u), u[r].kind = "result",
               \A k \in (x + 1)..(r - 1) : u[k].kind = "meta"
        PROVE  FALSE
    <3>1. r # Len(b) + 1
      BY <2>4, <1>5
    <3>2. r \in (x + 1)..Len(b) /\ \A k \in (x + 1)..r : k \in 1..Len(b)
      BY <2>3, <2>4, <3>1, <1>5
    <3>3. b[r].kind = "result" /\ \A k \in (x + 1)..(r - 1) : b[k].kind = "meta"
      BY <2>3, <2>4, <3>2, <1>5
    <3>. QED  BY <2>2, <3>2, <3>3 DEF HasResult
  <2>. QED  BY <2>1, <2>2, <2>4 DEF HasResult
<1>8. Matches(u, m)
  BY <1>5, <1>6, <1>9 DEF Matches, Precedes
<1>. QED  BY <1>0, <1>4, <1>8

\* Without the failed response it ends with, the agent's state still matches.
LEMMA MatchesFront ==
    ASSUME NEW b, Sound(b), NEW m, Matches(b, m), m # <<>>, b[Last(m)].kind \in Failed
    PROVE  Matches(b, Front(m))
<1>. DEFINE f == Front(m)
<1>1. m \in Seq(Nat) /\ Len(m) \in Nat /\ Len(m) >= 1 /\ DOMAIN m = 1..Len(m)
  BY DEF Matches
<1>2. /\ f \in Seq(Nat) /\ DOMAIN f = 1..(Len(m) - 1)
      /\ \A i \in DOMAIN f : f[i] = m[i]
  BY <1>1 DEF Front
<1>. HIDE DEF f
<1>3. DOMAIN f \subseteq DOMAIN m
  BY <1>1, <1>2
<1>7. ASSUME HasResult(b, Last(m)) PROVE FALSE
  <2>. DEFINE x == Last(m)
  <2>1. x = m[Len(m)] /\ Len(m) \in DOMAIN m /\ x \in ContextEntries(b)
    BY <1>1 DEF Last, Matches
  <2>2. /\ contextStart(b) \in Nat \ {0} /\ Len(b) \in Nat
        /\ LatestCompaction(b) # 0 => b[LatestCompaction(b)].kind = "compaction"
    BY StartFacts DEF Sound
  <2>3. x \in contextStart(b)..Len(b) /\ x \in Nat
    BY <2>1, <2>2 DEF ContextEntries
  <2>. HIDE DEF x
  <2>4. PICK r \in (x + 1)..Len(b) : b[r].kind = "result"
    BY <1>7 DEF HasResult, x
  <2>5. r \in ContextEntries(b) /\ r \in Nat /\ r > x /\ r # 0
    BY <2>2, <2>3, <2>4 DEF ContextEntries
  <2>6. b[r].kind \notin Failed
    BY <2>4 DEF Failed
  <2>7. PICK i \in DOMAIN m : m[i] = r
    BY <2>5, <2>6 DEF Matches, Missing
  <2>8. i < Len(m)
    BY <1>1, <2>1, <2>3, <2>5, <2>7
  <2>9. Precedes(b, r, x)
    BY <2>1, <2>7, <2>8 DEF Matches
  <2>. QED  BY <2>2, <2>3, <2>4, <2>5, <2>9 DEF Precedes
<1>4. ASSUME NEW x \in ContextEntries(b), \A i \in DOMAIN f : f[i] # x
      PROVE  b[x].kind \in Failed /\ ~HasResult(b, x)
  <2>1. CASE x = m[Len(m)]
    BY <2>1, <1>7 DEF Last
  <2>2. CASE x # m[Len(m)]
    <3>1. \A i \in DOMAIN m : m[i] # x
      <4>1. ASSUME NEW i \in DOMAIN m PROVE i = Len(m) \/ i \in DOMAIN f
        BY <1>1, <1>2
      <4>. QED  BY <4>1, <1>2, <1>4, <2>2
    <3>. QED  BY <3>1, <1>4 DEF Matches, Missing
  <2>. QED  BY <2>1, <2>2
<1>5. \A i \in DOMAIN f : f[i] \in ContextEntries(b)
  BY <1>2, <1>3 DEF Matches
<1>6. \A i, j \in DOMAIN f : i < j => Precedes(b, f[i], f[j])
  BY <1>2, <1>3 DEF Matches
<1>8. \A x : Missing(b, f, x) => b[x].kind \in Failed /\ ~HasResult(b, x)
  BY <1>4 DEF Missing
<1>. QED  BY <1>2, <1>5, <1>6, <1>8 DEF Matches, f
\* The context of a sound branch lies within it, and holds its latest compaction.
LEMMA ContextFacts ==
    ASSUME NEW b, Sound(b)
    PROVE  /\ ContextEntries(b) \in SUBSET (1..Len(b))
           /\ ContextEntries(b) \in SUBSET Nat
           /\ IsFiniteSet(ContextEntries(b))
           /\ \A x \in ContextEntries(b) : b[x].kind # "meta"
           /\ LatestCompaction(b) # 0 => LatestCompaction(b) \in ContextEntries(b)
           /\ Len(b) \in Nat
<1>1. Len(b) \in Nat
  BY DEF Sound
<1>2. /\ contextStart(b) \in Nat \ {0}
      /\ LatestCompaction(b) \in 0..Len(b)
      /\ LatestCompaction(b) # 0 => /\ b[LatestCompaction(b)].kind = "compaction"
                                    /\ contextStart(b) < LatestCompaction(b)
  BY StartFacts
<1>3. ContextEntries(b) \in SUBSET (1..Len(b)) /\ ContextEntries(b) \in SUBSET Nat
  BY <1>1, <1>2 DEF ContextEntries
<1>4. IsFiniteSet(1..Len(b))
  BY <1>1, FS_Interval
<1>5. IsFiniteSet(ContextEntries(b))
  BY <1>3, <1>4, FS_Subset
<1>6. LatestCompaction(b) # 0 => LatestCompaction(b) \in ContextEntries(b)
  BY <1>1, <1>2 DEF ContextEntries
<1>7. \A x \in ContextEntries(b) : b[x].kind # "meta"
  BY DEF ContextEntries
<1>. QED  BY <1>1, <1>3, <1>5, <1>6, <1>7

\* The messages rebuilt from a branch (buildSessionContext) match it, none missing.
LEMMA ContextMatches ==
    ASSUME NEW b, Sound(b)
    PROVE  /\ Matches(b, buildSessionContext(b))
           /\ \A x \in ContextEntries(b) :
                 \E i \in DOMAIN buildSessionContext(b) : buildSessionContext(b)[i] = x
<1>. DEFINE S == ContextEntries(b)  c == LatestCompaction(b)  m == buildSessionContext(b)
<1>1. /\ S \in SUBSET (1..Len(b)) /\ S \in SUBSET Nat /\ IsFiniteSet(S)
      /\ c # 0 => c \in S
      /\ \A x \in S : x # 0
  BY ContextFacts
<1>2. c \in Nat
  BY StartFacts
<1>3. m = IF c = 0 THEN InOrder(S) ELSE <<c>> \o InOrder(S \ {c})
  BY DEF buildSessionContext
<1>4. \A i, j : Precedes(b, i, j) <=> j # c /\ (i = c \/ i < j)
  BY DEF Precedes
<1>. HIDE DEF S, c, m
<1>5. /\ m \in Seq(Nat)
      /\ \A i \in DOMAIN m : m[i] \in S
      /\ \A i, j \in DOMAIN m : i < j => Precedes(b, m[i], m[j])
      /\ \A x \in S : \E i \in DOMAIN m : m[i] = x
  <2>1. CASE c = 0
    <3>1. /\ m \in Seq(S)
          /\ \A x \in S : \E n \in DOMAIN m : m[n] = x
          /\ \A i, j \in DOMAIN m : i < j => m[i] < m[j]
      BY <2>1, <1>1, <1>3, InOrderFacts
    <3>2. \A i \in DOMAIN m : m[i] \in S
      BY <3>1
    <3>3. m \in Seq(Nat)
      BY <3>1, <1>1, SeqOver
    <3>4. \A i, j \in DOMAIN m : i < j => Precedes(b, m[i], m[j])
      BY <3>1, <3>2, <1>1, <1>4, <2>1
    <3>. QED  BY <3>1, <3>2, <3>3, <3>4
  <2>2. CASE c # 0
    <3>. DEFINE T == S \ {c}  w == InOrder(T)
    <3>1. T \in SUBSET Nat /\ IsFiniteSet(T) /\ T \in SUBSET S /\ c \notin T
      BY <1>1, FS_Subset
    <3>2. /\ w \in Seq(T)
          /\ \A x \in T : \E n \in DOMAIN w : w[n] = x
          /\ \A i, j \in DOMAIN w : i < j => w[i] < w[j]
      BY <3>1, InOrderFacts
    <3>3. m = <<c>> \o w
      BY <2>2, <1>3
    <3>4. \A x \in S : x = c \/ x \in T
      OBVIOUS
    <3>. HIDE DEF T, w
    <3>5. \A i \in DOMAIN w : w[i] \in T
      BY <3>2
    <3>6. w \in Seq(Nat) /\ Len(w) \in Nat /\ DOMAIN w = 1..Len(w)
      <4>1. w \in Seq(Nat)
        BY <3>1, <3>2, SeqOver
      <4>. QED  BY <4>1
    <3>7. /\ m \in Seq(Nat) /\ Len(m) = Len(w) + 1 /\ DOMAIN m = 1..Len(m)
      BY <3>3, <3>6, <1>2
    <3>8. m[1] = c /\ \A i \in 1..Len(w) : m[i + 1] = w[i]
      BY <3>3, <3>6, <1>2
    <3>9. ASSUME NEW i \in DOMAIN m, i # 1 PROVE i - 1 \in DOMAIN w /\ m[i] = w[i - 1]
      <4>1. i - 1 \in 1..Len(w) /\ (i - 1) + 1 = i
        BY <3>6, <3>7, <3>9
      <4>. QED  BY <4>1, <3>6, <3>8
    <3>10. \A i \in DOMAIN m : m[i] \in S
      BY <1>1, <2>2, <3>1, <3>5, <3>8, <3>9
    <3>11. ASSUME NEW i \in DOMAIN m, NEW j \in DOMAIN m, i < j PROVE Precedes(b, m[i], m[j])
      <4>1. j # 1 /\ i \in Nat /\ j \in Nat
        BY <3>6, <3>7, <3>11
      <4>2. j - 1 \in DOMAIN w /\ m[j] = w[j - 1] /\ m[j] \in T
        BY <4>1, <3>5, <3>9
      <4>3. CASE i = 1
        BY <4>2, <4>3, <3>1, <3>8, <1>4
      <4>4. CASE i # 1
        <5>1. i - 1 \in DOMAIN w /\ m[i] = w[i - 1]
          BY <4>4, <3>9
        <5>2. i - 1 < j - 1
          BY <4>1, <3>11
        <5>3. m[i] < m[j]
          BY <5>1, <5>2, <4>2, <3>2
        <5>. QED  BY <5>3, <4>2, <3>1, <1>4
      <4>. QED  BY <4>3, <4>4
    <3>12. ASSUME NEW x \in S PROVE \E i \in DOMAIN m : m[i] = x
      <4>1. CASE x = c
        <5>1. 1 \in DOMAIN m
          BY <3>6, <3>7
        <5>. QED  BY <4>1, <5>1, <3>8
      <4>2. CASE x \in T
        <5>1. PICK n \in DOMAIN w : w[n] = x
          BY <4>2, <3>2
        <5>2. n + 1 \in DOMAIN m /\ m[n + 1] = x
          BY <5>1, <3>6, <3>7, <3>8
        <5>. QED  BY <5>2
      <4>. QED  BY <4>1, <4>2, <3>4
    <3>. QED  BY <3>7, <3>10, <3>11, <3>12
  <2>. QED  BY <2>1, <2>2
<1>. QED  BY <1>5 DEF Matches, Missing, S, m

\* The agent's messages end with the last message of the branch, if they hold it.
LEMMA LastOfState ==
    ASSUME NEW b, Sound(b), NEW m, Matches(b, m), NEW e, LastMessage(b, e),
           e # LatestCompaction(b), NEW i \in DOMAIN m, m[i] = e
    PROVE  m # <<>> /\ Last(m) = e
<1>1. m \in Seq(Nat) /\ Len(m) \in Nat /\ DOMAIN m = 1..Len(m) /\ m # <<>> /\ Len(m) \in DOMAIN m
  BY DEF Matches
<1>2. m[Len(m)] \in ContextEntries(b)
  BY <1>1 DEF Matches
<1>3. m[Len(m)] \in 1..Len(b) /\ b[m[Len(m)]].kind # "meta" /\ Len(b) \in Nat
  BY <1>2, ContextFacts
<1>4. CASE i < Len(m)
  <2>1. Precedes(b, e, m[Len(m)])
    BY <1>1, <1>4 DEF Matches
  <2>2. e < m[Len(m)]
    BY <2>1 DEF Precedes
  <2>3. e \in 1..Len(b)
    BY DEF LastMessage, Sound
  <2>4. m[Len(m)] \in (e + 1)..Len(b)
    BY <1>3, <2>2, <2>3
  <2>. QED  BY <2>4, <1>3 DEF LastMessage
<1>. QED  BY <1>1, <1>4 DEF Last

\* A cut point stays one when the branch grows.
LEMMA GoodCutGrows ==
    ASSUME NEW b, NEW cut \in Nat, NEW n \in Nat, NEW k \in Nat, k <= n, GoodCut(b, cut, k)
    PROVE  GoodCut(b, cut, n)
<1>1. PICK i \in cut..k : /\ b[i].kind \notin {"result", "compaction", "meta"}
                          /\ \A j \in cut..(i - 1) : b[j].kind = "meta"
  BY DEF GoodCut
<1>2. cut \in 1..n /\ i \in cut..n
  BY <1>1 DEF GoodCut
<1>. QED  BY <1>1, <1>2 DEF GoodCut

\* Publishing a compaction (Publish) leaves a sound branch whose context matches the
\* rebuilt messages; these end with what was the last message of the branch.
LEMMA Published ==
    ASSUME NEW b, Sound(b), NEW cut \in Nat, GoodCut(b, cut, Len(b)), NEW e, LastMessage(b, e)
    PROVE  LET u == Append(b, [kind |-> "compaction", kept |-> cut])
           IN  /\ Sound(u)
               /\ Matches(u, buildSessionContext(u))
               /\ buildSessionContext(u) # <<>>
               /\ Last(buildSessionContext(u)) = e
<1>. DEFINE x == [kind |-> "compaction", kept |-> cut]
            u == Append(b, x)  m == buildSessionContext(u)  n == Len(b) + 1
<1>1. b \in Seq(BranchEntry) /\ DOMAIN b = 1..Len(b) /\ Len(b) \in Nat
  BY DEF Sound
<1>2. x \in BranchEntry /\ x.kind = "compaction" /\ x.kept = cut
  BY DEF BranchEntry, Kinds
<1>. HIDE DEF x
<1>3. /\ u \in Seq(BranchEntry) /\ Len(u) = n /\ DOMAIN u = 1..n
      /\ u[n] = x /\ \A i \in 1..Len(b) : u[i] = b[i]
  BY <1>1, <1>2
<1>. HIDE DEF u
<1>4. /\ \A c, k \in Nat : k <= Len(b) /\ GoodCut(b, c, k) => GoodCut(u, c, k)
      /\ \A i \in 1..(Len(b) + 1) : FollowsCall(b, i) => FollowsCall(u, i)
  BY <1>1, <1>3, AgreeUpTo
<1>5. Sound(u)
  <2>1. ASSUME NEW i \in DOMAIN u
        PROVE  /\ u[i].kind = "compaction" => GoodCut(u, u[i].kept, i - 1)
               /\ u[i].kind # "compaction" => u[i].kept = 0
               /\ u[i].kind = "result" => FollowsCall(u, i)
    <3>1. CASE i = n
      <4>1. i - 1 = Len(b) /\ u[i] = x
        BY <3>1, <1>1, <1>3
      <4>2. GoodCut(u, cut, Len(b))
        BY <1>1, <1>4
      <4>. QED  BY <4>1, <4>2, <1>2
    <3>2. CASE i # n
      <4>1. i \in DOMAIN b /\ u[i] = b[i] /\ i - 1 \in Nat /\ i - 1 <= Len(b) /\ i \in 1..(Len(b) + 1)
        BY <3>2, <1>1, <1>3
      <4>2. b[i] \in BranchEntry
        BY <4>1, <1>1
      <4>3. b[i].kept \in Nat
        BY <4>2 DEF BranchEntry
      <4>4. /\ b[i].kind = "compaction" => GoodCut(b, b[i].kept, i - 1)
            /\ b[i].kind # "compaction" => b[i].kept = 0
            /\ b[i].kind = "result" => FollowsCall(b, i)
        BY <4>1 DEF Sound
      <4>. QED  BY <4>1, <4>3, <4>4, <1>4
    <3>. QED  BY <3>1, <3>2
  <2>. QED  BY <2>1, <1>3 DEF Sound
<1>6. LatestCompaction(u) = n
  <2>1. n \in 0..Len(u) /\ n # 0 /\ u[n].kind = "compaction"
    BY <1>1, <1>2, <1>3
  <2>2. \A i \in DOMAIN u : i <= n
    BY <1>1, <1>3
  <2>. QED  BY <2>1, <2>2, <1>3, LatestIs
<1>7. contextStart(u) = cut
  <2>1. n # 0 /\ u[n].kept = cut /\ cut # 0
    BY <1>1, <1>2, <1>3 DEF GoodCut
  <2>. QED  BY <2>1, <1>6 DEF contextStart
<1>8. Matches(u, m) /\ \A y \in ContextEntries(u) : \E i \in DOMAIN m : m[i] = y
  BY <1>5, ContextMatches
<1>9. e \in 1..Len(b) /\ cut <= e /\ cut \in Nat
  <2>1. PICK g \in cut..Len(b) : b[g].kind # "meta"
    BY DEF GoodCut
  <2>2. e \in 1..Len(b) /\ \A k \in (e + 1)..Len(b) : b[k].kind = "meta"
    BY <1>1 DEF LastMessage
  <2>3. g <= e
    BY <2>1, <2>2, <1>1
  <2>. QED  BY <2>1, <2>2, <2>3, <1>1
<1>10. e \in ContextEntries(u)
  <2>1. e \in cut..n
    BY <1>1, <1>9
  <2>2. u[e].kind # "meta"
    BY <1>3, <1>9 DEF LastMessage
  <2>. QED  BY <2>1, <2>2, <1>3, <1>7 DEF ContextEntries
<1>11. PICK i \in DOMAIN m : m[i] = e
  BY <1>8, <1>10
<1>. HIDE DEF m
<1>12. m \in Seq(Nat) /\ Len(m) \in Nat /\ DOMAIN m = 1..Len(m) /\ m # <<>> /\ Len(m) \in DOMAIN m
  BY <1>8, <1>11 DEF Matches
<1>13. ASSUME i < Len(m) PROVE FALSE
  <2>1. Precedes(u, e, m[Len(m)])
    BY <1>8, <1>11, <1>12, <1>13 DEF Matches
  <2>2. m[Len(m)] # n /\ (e = n \/ e < m[Len(m)])
    BY <2>1, <1>6 DEF Precedes
  <2>3. m[Len(m)] \in ContextEntries(u)
    BY <1>8, <1>12 DEF Matches
  <2>4. m[Len(m)] \in 1..n /\ u[m[Len(m)]].kind # "meta"
    BY <2>3, <1>3, <1>5, ContextFacts
  <2>5. m[Len(m)] \in (e + 1)..Len(b) /\ m[Len(m)] \in 1..Len(b)
    BY <2>2, <2>4, <1>1, <1>9
  <2>6. b[m[Len(m)]].kind = "meta"
    BY <2>5 DEF LastMessage
  <2>. QED  BY <2>4, <2>5, <2>6, <1>3
<1>14. Last(m) = e
  BY <1>11, <1>12, <1>13 DEF Last
<1>. QED  BY <1>5, <1>8, <1>12, <1>14 DEF u, m, x
\* A branch with a message has a last one.
LEMMA HasLast ==
    ASSUME NEW b, Sound(b), NEW g \in DOMAIN b, b[g].kind # "meta"
    PROVE  \E e \in DOMAIN b : LastMessage(b, e)
<1>. DEFINE at == {i \in DOMAIN b : b[i].kind # "meta"}
<1>1. Len(b) \in Nat /\ DOMAIN b = 1..Len(b)
  BY DEF Sound
<1>2. at \in SUBSET (1..Len(b)) /\ at \in SUBSET Nat /\ at # {}
  BY <1>1
<1>3. IsFiniteSet(1..Len(b))
  BY <1>1, FS_Interval
<1>4. IsFiniteSet(at)
  BY <1>2, <1>3, FS_Subset
<1>5. Max(at) \in at /\ \A y \in at : y <= Max(at)
  BY <1>2, <1>4, HasMax
<1>6. PICK e \in at : \A y \in at : y <= e
  BY <1>5
<1>7. e \in 1..Len(b) /\ b[e].kind # "meta"
  BY <1>1, <1>6
<1>8. ASSUME NEW k \in (e + 1)..Len(b) PROVE b[k].kind = "meta"
  <2>1. k \in 1..Len(b) /\ ~ (k <= e)
    BY <1>1, <1>7
  <2>. QED  BY <2>1, <1>1, <1>6
<1>. QED  BY <1>1, <1>7, <1>8 DEF LastMessage

\* The start of a sound branch is sound (navigateTree).
LEMMA PrefixSound ==
    ASSUME NEW b, Sound(b), NEW n \in 0..Len(b)
    PROVE  Sound(SubSeq(b, 1, n))
<1>. DEFINE u == SubSeq(b, 1, n)
<1>1. b \in Seq(BranchEntry) /\ DOMAIN b = 1..Len(b) /\ Len(b) \in Nat /\ n \in Nat
  BY DEF Sound
<1>2. /\ u \in Seq(BranchEntry) /\ Len(u) = n /\ DOMAIN u = 1..n
      /\ \A i \in 1..n : u[i] = b[i]
  BY <1>1
<1>. HIDE DEF u
<1>3. /\ \A c, k \in Nat : k <= n /\ GoodCut(b, c, k) => GoodCut(u, c, k)
      /\ \A i \in 1..(n + 1) : FollowsCall(b, i) => FollowsCall(u, i)
  BY <1>1, <1>2, AgreeUpTo
<1>4. ASSUME NEW i \in DOMAIN u
      PROVE  /\ u[i].kind = "compaction" => GoodCut(u, u[i].kept, i - 1)
             /\ u[i].kind # "compaction" => u[i].kept = 0
             /\ u[i].kind = "result" => FollowsCall(u, i)
  <2>1. i \in DOMAIN b /\ u[i] = b[i] /\ i - 1 \in Nat /\ i - 1 <= n /\ i \in 1..(n + 1)
    BY <1>1, <1>2
  <2>2. b[i] \in BranchEntry
    BY <2>1, <1>1
  <2>3. b[i].kept \in Nat
    BY <2>2 DEF BranchEntry
  <2>4. /\ b[i].kind = "compaction" => GoodCut(b, b[i].kept, i - 1)
        /\ b[i].kind # "compaction" => b[i].kept = 0
        /\ b[i].kind = "result" => FollowsCall(b, i)
    BY <2>1 DEF Sound
  <2>. QED  BY <2>1, <2>3, <2>4, <1>3
<1>. QED  BY <1>2, <1>4 DEF Sound, u

\* A tool call is in the context whenever its result is: no compaction cuts between them.
LEMMA CallInContext ==
    ASSUME NEW b, Sound(b), NEW r \in ContextEntries(b), NEW t \in 1..(r - 1),
           b[t].kind \in Calling, b[r].kind = "result",
           \A k \in (t + 1)..(r - 1) : b[k].kind = "meta"
    PROVE  t \in ContextEntries(b)
<1>. DEFINE c == LatestCompaction(b)  from == contextStart(b)
<1>1. /\ from \in Nat \ {0} /\ c \in 0..Len(b)
      /\ c = 0 => from = 1
      /\ c # 0 => b[c].kind = "compaction" /\ from = b[c].kept
  BY StartFacts
<1>2. Len(b) \in Nat /\ DOMAIN b = 1..Len(b)
  BY DEF Sound
<1>3. r \in from..Len(b) /\ r \in 1..Len(b)
  BY <1>1, <1>2 DEF ContextEntries
<1>. HIDE DEF c, from
<1>4. t >= from
  <2>1. CASE c = 0
    BY <2>1, <1>1, <1>3
  <2>2. CASE c # 0
    <3>1. c \in DOMAIN b /\ GoodCut(b, from, c - 1)
      BY <2>2, <1>1, <1>2 DEF Sound
    <3>2. PICK g \in from..(c - 1) : /\ b[g].kind \notin {"result", "compaction", "meta"}
                                     /\ \A k \in from..(g - 1) : b[k].kind = "meta"
      BY <3>1 DEF GoodCut
    <3>3. b[g].kind # "meta" /\ b[g].kind # "result"
      BY <3>2
    <3>4. g \notin (t + 1)..(r - 1) /\ g # r /\ r \notin from..(g - 1)
      BY <3>2, <3>3
    <3>5. g \in Nat /\ r \in Nat /\ t \in Nat /\ g >= from /\ r >= from
      BY <3>2, <1>1, <1>3
    <3>. QED  BY <3>4, <3>5, <1>1
  <2>. QED  BY <2>1, <2>2
<1>5. t \in from..Len(b)
  BY <1>1, <1>2, <1>3, <1>4
<1>. QED  BY <1>5 DEF ContextEntries, from, Calling

\* Adjacent for any branch and messages.
AdjacentIn(b, m) ==
    \A i \in DOMAIN m : b[m[i]].kind = "result" => i > 1 /\ b[m[i - 1]].kind \in Calling

\* In messages that match a sound branch every tool result comes right after its call.
LEMMA MatchingIsAdjacent ==
    ASSUME NEW b, Sound(b), NEW m, Matches(b, m)
    PROVE  AdjacentIn(b, m)
<1>. SUFFICES ASSUME NEW i \in DOMAIN m, b[m[i]].kind = "result"
              PROVE  i > 1 /\ b[m[i - 1]].kind \in Calling
  BY DEF AdjacentIn
<1>. DEFINE c == LatestCompaction(b)  r == m[i]
<1>1. m \in Seq(Nat) /\ DOMAIN m = 1..Len(m) /\ Len(m) \in Nat
  BY DEF Matches
<1>2. r \in ContextEntries(b) /\ r \in 1..Len(b) /\ Len(b) \in Nat
  BY ContextFacts DEF Matches
<1>3. FollowsCall(b, r) /\ r \in DOMAIN b
  BY <1>2 DEF Sound
<1>4. PICK t \in 1..(r - 1) : /\ b[t].kind \in Calling
                              /\ \A k \in (t + 1)..(r - 1) : b[k].kind = "meta"
  BY <1>3 DEF FollowsCall
<1>5. t \in ContextEntries(b)
  BY <1>2, <1>4, CallInContext
<1>6. PICK k \in DOMAIN m : m[k] = t
  <2>1. HasResult(b, t)
    <3>1. t \in Nat /\ r \in (t + 1)..Len(b)
      BY <1>2, <1>4
    <3>. QED  BY <1>4, <3>1 DEF HasResult
  <2>. QED  BY <1>5, <2>1 DEF Matches, Missing
<1>7. c # 0 => b[c].kind = "compaction"
  BY StartFacts
<1>8. t # c /\ r # c /\ t < r /\ t \in Nat /\ r \in Nat
  BY <1>2, <1>4, <1>7 DEF Calling
<1>9. k < i
  <2>1. k # i
    BY <1>6, <1>8
  <2>2. ASSUME i < k PROVE FALSE
    <3>1. Precedes(b, r, t)
      BY <1>6, <2>2 DEF Matches
    <3>. QED  BY <3>1, <1>8 DEF Precedes
  <2>. QED  BY <2>1, <2>2, <1>1
<1>10. i > 1 /\ i - 1 \in DOMAIN m
  BY <1>1, <1>9
<1>11. CASE k = i - 1
  BY <1>4, <1>6, <1>10, <1>11
<1>12. ASSUME k # i - 1 PROVE FALSE
  <2>1. k < i - 1 /\ i - 1 < i
    BY <1>1, <1>9, <1>12
  <2>2. Precedes(b, t, m[i - 1]) /\ Precedes(b, m[i - 1], r)
    BY <2>1, <1>6, <1>10 DEF Matches
  <2>3. m[i - 1] # c /\ t < m[i - 1] /\ m[i - 1] < r
    BY <2>2, <1>8 DEF Precedes
  <2>4. m[i - 1] \in ContextEntries(b)
    BY <1>10 DEF Matches
  <2>5. m[i - 1] \in 1..Len(b) /\ b[m[i - 1]].kind # "meta"
    BY <2>4, ContextFacts
  <2>6. m[i - 1] \in (t + 1)..(r - 1)
    BY <2>3, <2>5, <1>2, <1>8
  <2>. QED  BY <2>5, <2>6, <1>4
<1>. QED  BY <1>11, <1>12

\* prepareCompaction only finds good cut points.
LEMMA Cuts ==
    ASSUME NEW b, Sound(b), NEW cut \in prepareCompaction(b)
    PROVE  cut \in Nat /\ GoodCut(b, cut, Len(b))
<1>. DEFINE from == boundaryStart(b)
<1>1. PICK i \in findValidCutPoints(b) : cut = IncludeMetadata(b, i)
  BY DEF prepareCompaction
<1>2. from \in Nat \ {0}
  <2>1. /\ LatestCompaction(b) \in 0..Len(b) /\ contextStart(b) \in Nat \ {0} /\ Len(b) \in Nat
        /\ LatestCompaction(b) # 0 => contextStart(b) = b[LatestCompaction(b)].kept
    BY StartFacts DEF Sound
  <2>. QED  BY <2>1 DEF boundaryStart
<1>3. /\ i \in from..Len(b)
      /\ b[i].kind \notin {"result", "compaction", "meta"}
      /\ Len(b) \in Nat
  BY <1>1 DEF findValidCutPoints, Sound
<1>4. cut = CHOOSE j \in from..i : /\ \A k \in j..(i - 1) : b[k].kind = "meta"
                                   /\ j = from \/ b[j - 1].kind # "meta"
  BY <1>1 DEF IncludeMetadata
<1>. HIDE DEF from
<1>5. \E j \in from..i : /\ \A k \in j..(i - 1) : b[k].kind = "meta"
                         /\ j = from \/ b[j - 1].kind # "meta"
  <2>. DEFINE at == {k \in from..(i - 1) : b[k].kind # "meta"}
  <2>1. CASE at = {}
    <3>1. from \in from..i /\ \A k \in from..(i - 1) : b[k].kind = "meta"
      BY <2>1, <1>2, <1>3
    <3>. QED  BY <3>1
  <2>2. CASE at # {}
    <3>0. i \in Nat
      BY <1>2, <1>3
    <3>1. at \in SUBSET (from..(i - 1)) /\ at \in SUBSET Nat
      BY <1>2, <3>0
    <3>2. IsFiniteSet(from..(i - 1))
      BY <1>2, <3>0, FS_Interval
    <3>3. IsFiniteSet(at)
      BY <3>1, <3>2, FS_Subset
    <3>4. Max(at) \in at /\ \A y \in at : y <= Max(at)
      BY <2>2, <3>1, <3>3, HasMax
    <3>5. PICK g \in at : \A y \in at : y <= g
      BY <3>4
    <3>6. g \in from..(i - 1) /\ b[g].kind # "meta" /\ g \in Nat
      BY <3>1, <3>5
    <3>7. g + 1 \in from..i /\ (g + 1) - 1 = g
      BY <3>0, <3>6, <1>2
    <3>8. ASSUME NEW k \in (g + 1)..(i - 1) PROVE b[k].kind = "meta"
      <4>1. k \in from..(i - 1) /\ ~ (k <= g)
        BY <3>0, <3>6, <1>2
      <4>. QED  BY <4>1, <3>5
    <3>. QED  BY <3>6, <3>7, <3>8
  <2>. QED  BY <2>1, <2>2
<1>6. cut \in from..i /\ \A k \in cut..(i - 1) : b[k].kind = "meta"
  BY <1>4, <1>5
<1>7. cut \in 1..Len(b) /\ i \in cut..Len(b) /\ cut \in Nat
  BY <1>2, <1>3, <1>6
<1>. QED  BY <1>3, <1>6, <1>7 DEF GoodCut
--------------------------------------------------------------------------------
(* The inductive invariant.                                                      *)

Controller == {"none", "live", "aborted"}
Compacting == {"compactAuth", "compactSummary", "compactEvent"}

\* The part of prompt() during which its run holds the session.
InRun(p) ==
    \/ pc[p] \in {"run", "post", "backoff", "resume", "finally"}
    \/ pc[p] \in Compacting /\ local[p].post

Shape ==
    /\ agent \in [phase : {"idle", "turn", "tools", "turnEnd"}, run : Prompts \cup {None},
                  aborting : BOOLEAN]
    /\ steering \in Seq({"user", "custom"}) /\ followUp \in Seq({"user", "custom"})
    /\ pending \in [custom : Nat, bash : Nat, next : Nat]
    /\ pc \in [Prompts -> PromptPhases]
    /\ local \in [Prompts -> [post : BOOLEAN, retry : BOOLEAN, cut : Nat, msg : Nat, carry : Nat]]
    /\ active \in BOOLEAN /\ recovered \in BOOLEAN
    /\ lastAssistant \in Nat
    /\ retryAttempt \in 0..MaxRetries
    /\ ctl \in [retry : Controller, auto : Controller, manual : Controller]
    /\ manual \in [at : {"out", "idle", "ready", "auth", "summary", "event"}, cut : Nat]
    /\ nav \in [to : Nat \cup {None}, summarize : BOOLEAN]
    /\ tries \in [retries : Nat, recoveries : Nat, rejected : BOOLEAN]

\* Only one run holds the session and one call is in preflight, and never both beyond
\* the first step; a manual compaction or a navigation under way has the session alone.
Exclusion ==
    /\ \A p \in Prompts : InRun(p) => active
    /\ \A p, q \in Prompts : InRun(p) /\ InRun(q) => p = q
    /\ \A p, q \in Prompts : InPreflight(p) /\ InPreflight(q) => p = q
    /\ \A p \in Prompts : InPreflight(p) /\ pc[p] # "input" => ~active
    /\ agent.phase # "idle" => agent.run \in Prompts /\ pc[agent.run] = "run"
    /\ manual.at # "out" => \A p \in Prompts : ~InPreflight(p)
    /\ manual.at \notin {"out", "idle"} => ~active
    /\ (ctl.manual = "none") = (manual.at \in {"out", "idle", "ready"})
    /\ nav.to # None => ~active /\ manual.at = "out" /\ \A p \in Prompts : ~InPreflight(p)
    /\ (ctl.retry # "none") = (\E p \in Prompts : pc[p] = "backoff")

\* A run has a response that is not handled yet: lastAssistant.
Answered == agent.phase \in {"tools", "turnEnd"} \/ \E p \in Prompts : pc[p] = "post"

\* That response is the last one of the branch and among the agent's messages.
LastAnswer ==
    /\ lastAssistant \in DOMAIN branch /\ IsAssistant(lastAssistant)
    /\ lastAssistant \in ToSet(messages)
    /\ \A k \in (lastAssistant + 1)..Len(branch) : KindAt(k) \notin Assistant \cup {"compaction"}

\* What the branch and the agent's messages satisfy at each point of a call.
Transcript ==
    /\ Sound(branch) /\ Matches(branch, messages)
    /\ agent.phase = "tools" => FollowsCall(branch, Len(branch) + 1)
    /\ manual.at = "summary" => GoodCut(branch, manual.cut, Len(branch))
    /\ nav.to # None => nav.to <= Len(branch)
    /\ Answered => LastAnswer
    /\ \A p \in Prompts :
        /\ pc[p] = "compactSummary" => GoodCut(branch, local[p].cut, Len(branch))
        /\ pc[p] = "backoff" => local[p].msg \in DOMAIN branch /\ KindAt(local[p].msg) = "error"
        /\ pc[p] \in {"compactAuth", "compactSummary"} /\ local[p].retry =>
               \A e \in DOMAIN branch : LastMessage(branch, e) => KindAt(e) \notin Unrecoverable
        /\ pc[p] = "compactEvent" /\ local[p].retry =>
               messages # <<>> /\ KindAt(Last(messages)) \notin Unrecoverable

\* Truncated responses that call no tool: the attempts they follow are still counted.
CutShort == {"length", "limit"}

\* The retries so far, given what is left of the attempts.
Room == IF tries.recoveries = 0 THEN 0 ELSE MaxRetries
Tight == tries.retries <= retryAttempt + Room
Loose == tries.retries <= MaxRetries + Room

EndsWithResponse == messages # <<>> /\ IsAssistant(Last(messages))
EndsWith(e) == LastMessage(branch, e) /\ IsAssistant(e) /\ messages # <<>> /\ Last(messages) = e

\* A run that goes on without a new message still has an attempt left.
Attempts ==
    /\ tries.recoveries \in 0..1 /\ (tries.recoveries = 1 => recovered) /\ Loose
    /\ agent.phase = "turn" => Tight
    /\ agent.phase = "tools" => tries.retries = 0
    /\ agent.phase = "turnEnd" \/ (\E p \in Prompts : pc[p] = "post") =>
            /\ Tight \/ KindAt(lastAssistant) \in CutShort
            /\ tries.retries = 0 \/ EndsWith(lastAssistant)
    /\ \A p \in Prompts :
        /\ pc[p] = "backoff" => Tight /\ (ctl.retry = "aborted" => tries.retries = 0)
        /\ pc[p] \in Compacting /\ local[p].post /\ local[p].retry => Tight
        /\ pc[p] \in {"compactAuth", "compactSummary"} /\ local[p].post /\ ~local[p].retry =>
               tries.retries = 0 \/ \E e \in DOMAIN branch : EndsWith(e)
        /\ pc[p] = "compactEvent" /\ local[p].post /\ ~local[p].retry =>
               tries.retries = 0 \/ EndsWithResponse
        /\ pc[p] = "resume" => Tight \/ EndsWithResponse

IndInv == Shape /\ Exclusion /\ Transcript /\ Attempts
--------------------------------------------------------------------------------
(* Shape: the types of the variables.                                            *)

\* What is polled from a queue, and what remains.
LEMMA PollFacts ==
    ASSUME NEW X, NEW q \in Seq(X)
    PROVE  /\ Poll(q) \in Seq(X) /\ Polled(q) \in Seq(X)
           /\ Poll(q) = <<>> <=> q = <<>>
BY DEF Poll, Polled

\* Every step keeps the types of the queues.
LEMMA QueuesStep ==
    ASSUME IndInv, [Next]_vars
    PROVE  steering' \in Seq({"user", "custom"}) /\ followUp' \in Seq({"user", "custom"})
<1>. DEFINE X == {"user", "custom"}
<1>1. steering \in Seq(X) /\ followUp \in Seq(X)
  BY DEF IndInv, Shape
<1>2. \A kind \in X : Append(steering, kind) \in Seq(X) /\ Append(followUp, kind) \in Seq(X)
  BY <1>1
<1>3. Polled(steering) \in Seq(X) /\ Polled(followUp) \in Seq(X) /\ <<>> \in Seq(X)
  BY <1>1, PollFacts
<1>4. \A kind \in IF active THEN {"user", "custom"} ELSE {"user"} : kind \in X
  OBVIOUS
<1>. HIDE DEF X
<1>5. "user" \in X
  BY DEF X
<1>6. ASSUME NEW p \in Prompts, PromptStep(p) \/ Prompt(p) \/ TriggerTurn(p)
      PROVE  steering' \in Seq(X) /\ followUp' \in Seq(X)
  <2>1. CASE Submit(p)
    BY <2>1, <1>1, <1>2, <1>5 DEF Submit, queues
  <2>2. CASE TriggerTurn(p) \/ BeforeAgentStart(p)
    BY <2>2, <1>1, <1>3 DEF TriggerTurn, BeforeAgentStart, RunAgentPrompt
  <2>3. CASE EndTurn(p)
    BY <2>3, <1>1, <1>3 DEF EndTurn
  <2>4. CASE Continue(p)
    BY <2>4, <1>1, <1>3 DEF Continue, queues
  <2>5. CASE UNCHANGED queues
    BY <2>5, <1>1 DEF queues
  <2>. QED  BY <1>6, <2>1, <2>2, <2>3, <2>4, <2>5 DEF PromptStep, Prompt, Authorize, CompactAuth,
            CompactSummary, CompactEvent, Build, Respond, ToolResult, HandlePostAgentRun, Backoff,
            Finally, ResolveIdleWaitIfIdle
<1>7. ASSUME ManualStep \/ Navigated \/ HostCall \/ UNCHANGED vars
      PROVE  steering' \in Seq(X) /\ followUp' \in Seq(X)
  <2>1. CASE Queue
    BY <2>1, <1>1, <1>2, <1>4 DEF Queue
  <2>2. CASE clearQueue
    BY <2>2, <1>3 DEF clearQueue
  <2>3. CASE UNCHANGED queues
    BY <2>3, <1>1 DEF queues
  <2>. QED  BY <1>7, <2>1, <2>2, <2>3 DEF ManualStep, HostCall, vars, ManualReady, ManualAuth,
            ManualSummary, ManualEvent, Navigated, sendCustomMessage, recordBashResult,
            setSessionName, WaitForIdle, abortCompaction, Compact, NavigateTree
<1>. QED  BY <1>6, <1>7 DEF Next, X
\* Appending plain messages (Push) to a sound branch extends it by their entries.
LEMMA Pushed ==
    ASSUME Sound(branch), NEW ks \in Seq(Kinds), Push(ks)
    PROVE  /\ branch' \in Seq(BranchEntry) /\ Len(branch) \in Nat /\ Len(ks) \in Nat
           /\ Len(branch') = Len(branch) + Len(ks)
           /\ \A i \in 1..Len(branch) : branch'[i] = branch[i]
           /\ \A i \in 1..Len(ks) : branch'[Len(branch) + i] = Entry(ks[i])
<1>. DEFINE es == [i \in DOMAIN ks |-> Entry(ks[i])]
<1>1. DOMAIN ks = 1..Len(ks) /\ Len(ks) \in Nat
  OBVIOUS
<1>2. \A i \in DOMAIN ks : Entry(ks[i]) \in BranchEntry
  BY DEF Entry, BranchEntry
<1>3. es \in Seq(BranchEntry) /\ Len(es) = Len(ks) /\ \A i \in 1..Len(ks) : es[i] = Entry(ks[i])
  BY <1>1, <1>2
<1>4. branch' = branch \o es
  BY DEF Push
<1>. HIDE DEF es
<1>5. branch \in Seq(BranchEntry) /\ Len(branch) \in Nat
  BY DEF Sound
<1>6. /\ branch' \in Seq(BranchEntry) /\ Len(branch') = Len(branch) + Len(es)
      /\ \A i \in 1..Len(branch) : branch'[i] = branch[i]
      /\ \A i \in 1..Len(es) : branch'[Len(branch) + i] = es[i]
  <2>1. branch \o es \in Seq(BranchEntry)
    BY <1>3, <1>5, Concat
  <2>2. Len(branch \o es) = Len(branch) + Len(es)
    BY <1>3, <1>5, Concat
  <2>3. \A i \in 1..Len(branch) : (branch \o es)[i] = branch[i]
    BY <1>3, <1>5, Concat
  <2>4. \A i \in 1..Len(es) : (branch \o es)[Len(branch) + i] = es[i]
    BY <1>3, <1>5, Concat
  <2>. QED  BY <2>1, <2>2, <2>3, <2>4, <1>4
<1>. QED  BY <1>1, <1>3, <1>5, <1>6

AgentShape == agent \in [phase : {"idle", "turn", "tools", "turnEnd"}, run : Prompts \cup {None},
                         aborting : BOOLEAN]
PendingShape == pending \in [custom : Nat, bash : Nat, next : Nat]
PhaseShape == pc \in [Prompts -> PromptPhases]
Local == [post : BOOLEAN, retry : BOOLEAN, cut : Nat, msg : Nat, carry : Nat]
LocalShape == local \in [Prompts -> Local]
FlagShape == active \in BOOLEAN /\ recovered \in BOOLEAN
AttemptShape == lastAssistant \in Nat /\ retryAttempt \in 0..MaxRetries
ControlShape == ctl \in [retry : Controller, auto : Controller, manual : Controller]
ManualShape == manual \in [at : {"out", "idle", "ready", "auth", "summary", "event"}, cut : Nat]
NavShape == nav \in [to : Nat \cup {None}, summarize : BOOLEAN]
TriesShape == tries \in [retries : Nat, recoveries : Nat, rejected : BOOLEAN]

\* The types of the agent's run.
LEMMA AgentStep ==
    ASSUME IndInv, [Next]_vars
    PROVE  AgentShape'
<1>1. AgentShape
  BY DEF IndInv, Shape, AgentShape
<1>2. ASSUME NEW p \in Prompts, NEW kinds, NEW polled, StartRun(p, kinds, polled)
      PROVE  AgentShape'
  <2>1. agent' = [phase |-> "turn", run |-> p, aborting |-> FALSE]
    BY <1>2 DEF StartRun
  <2>. QED  BY <2>1 DEF AgentShape
<1>3. ASSUME agent' = Idle PROVE AgentShape'
  BY <1>3 DEF AgentShape, Idle
<1>4. ASSUME NEW where \in {"turn", "tools", "turnEnd"}, agent' = [agent EXCEPT !.phase = where]
      PROVE  AgentShape'
  BY <1>1, <1>4 DEF AgentShape
<1>5. ASSUME UNCHANGED agent PROVE AgentShape'
  BY <1>1, <1>5 DEF AgentShape
<1>6. ASSUME NEW p \in Prompts, TriggerTurn(p)
      PROVE  AgentShape'
  BY <1>6, <1>2, <1>5 DEF TriggerTurn, RunAgentPrompt
<1>7. ASSUME NEW p \in Prompts, BeforeAgentStart(p)
      PROVE  AgentShape'
  BY <1>7, <1>2, <1>5 DEF BeforeAgentStart, RunAgentPrompt
<1>8. ASSUME NEW p \in Prompts, Continue(p)
      PROVE  AgentShape'
  BY <1>8, <1>2, <1>5 DEF Continue
<1>9. ASSUME NEW p \in Prompts, Respond(p)
      PROVE  AgentShape'
  BY <1>9, <1>4 DEF Respond
<1>10. ASSUME NEW p \in Prompts, ToolResult(p)
      PROVE  AgentShape'
  BY <1>10, <1>4 DEF ToolResult
<1>11. ASSUME NEW p \in Prompts, EndTurn(p)
      PROVE  AgentShape'
  BY <1>11, <1>3, <1>4 DEF EndTurn
<1>12. ASSUME WaitForIdle(TRUE) \/ WaitForIdle(FALSE) \/ Compact
      PROVE  AgentShape'
  BY <1>12, <1>1 DEF WaitForIdle, Compact, AbortRun, AgentShape
<1>13. CASE UNCHANGED agent
  BY <1>13, <1>1 DEF AgentShape
<1>. QED  BY <1>6, <1>7, <1>8, <1>9, <1>10, <1>11, <1>12, <1>13 DEF Next, PromptStep,
          ManualStep, HostCall, vars, calls, queues, transcript, Prompt, Submit, Authorize,
          CompactAuth, CompactSummary, CompactEvent, Build, HandlePostAgentRun, Backoff,
          Finally, ResolveIdleWaitIfIdle, ManualReady, ManualAuth, ManualSummary, ManualEvent,
          Navigated, Queue, clearQueue, sendCustomMessage, recordBashResult, setSessionName,
          abortCompaction, NavigateTree

\* The types of the deferred messages.
LEMMA PendingStep ==
    ASSUME IndInv, [Next]_vars
    PROVE  PendingShape'
<1>1. PendingShape
  BY DEF IndInv, Shape, PendingShape
<1>2. ASSUME NEW p \in Prompts, Submit(p)
      PROVE  PendingShape'
  <2>1. CASE UNCHANGED pending
    BY <2>1, <1>1 DEF PendingShape
  <2>2. CASE pending' = [pending EXCEPT !.custom = 0, !.bash = 0]
    BY <2>2, <1>1 DEF PendingShape
  <2>. QED  BY <1>2, <2>1, <2>2 DEF Submit
<1>3. ASSUME NEW p \in Prompts, Build(p)
      PROVE  PendingShape'
  BY <1>3, <1>1 DEF Build, PendingShape
<1>4. ASSUME NEW p \in Prompts, EndTurn(p)
      PROVE  PendingShape'
  BY <1>4, <1>1 DEF EndTurn, PendingShape
<1>5. ASSUME NEW p \in Prompts, Finally(p)
      PROVE  PendingShape'
  BY <1>5, <1>1 DEF Finally, PendingShape
<1>6. ASSUME sendCustomMessage \/ recordBashResult
      PROVE  PendingShape'
  BY <1>6, <1>1 DEF sendCustomMessage, recordBashResult, PendingShape
<1>7. CASE UNCHANGED pending
  BY <1>7, <1>1 DEF PendingShape
<1>. QED  BY <1>2, <1>3, <1>4, <1>5, <1>6, <1>7 DEF Next, PromptStep, ManualStep, HostCall,
          vars, calls, queues, transcript, Prompt, TriggerTurn, Authorize, CompactAuth,
          CompactSummary, CompactEvent, BeforeAgentStart, Respond, ToolResult,
          HandlePostAgentRun, Backoff, Continue, ResolveIdleWaitIfIdle, ManualReady, ManualAuth,
          ManualSummary, ManualEvent, Navigated, Queue, clearQueue, setSessionName, WaitForIdle,
          abortCompaction, Compact, NavigateTree

\* The phases of the calls.
LEMMA PhaseStep ==
    ASSUME IndInv, [Next]_vars
    PROVE  PhaseShape'
<1>1. PhaseShape
  BY DEF IndInv, Shape, PhaseShape
<1>2. ASSUME NEW p \in Prompts, NEW where \in PromptPhases, Goto(p, where)
      PROVE  PhaseShape'
  BY <1>1, <1>2 DEF PhaseShape, Goto
<1>3. {"out", "input", "auth", "build", "before", "run", "post", "backoff", "resume", "finally",
       "settled"} \cup Compacting \subseteq PromptPhases
  BY DEF PromptPhases, Compacting
<1>4. ASSUME NEW p \in Prompts, NEW post, NEW again, CheckReturns(p, post, again)
      PROVE  PhaseShape'
  BY <1>2, <1>3, <1>4 DEF CheckReturns
<1>5. ASSUME NEW p \in Prompts, NEW i, NEW post, CheckCompaction(p, i, post)
      PROVE  PhaseShape'
  BY <1>2, <1>3, <1>4, <1>5 DEF CheckCompaction, Compacting
<1>6. ASSUME NEW p \in Prompts, Prompt(p) \/ Submit(p) \/ Build(p) \/ Finally(p) \/
      ResolveIdleWaitIfIdle(p)
      PROVE  PhaseShape'
  BY <1>6, <1>2, <1>3 DEF Prompt, Submit, Build, Finally, ResolveIdleWaitIfIdle
<1>7. ASSUME NEW p \in Prompts, TriggerTurn(p) \/ BeforeAgentStart(p) \/ Continue(p)
      PROVE  PhaseShape'
  BY <1>7, <1>2, <1>3 DEF TriggerTurn, BeforeAgentStart, Continue, RunAgentPrompt, StartRun
<1>8. ASSUME NEW p \in Prompts, Authorize(p) \/ HandlePostAgentRun(p) \/ Backoff(p)
      PROVE  PhaseShape'
  BY <1>8, <1>2, <1>3, <1>5 DEF Authorize, HandlePostAgentRun, Backoff
<1>9. ASSUME NEW p \in Prompts, CompactAuth(p) \/ CompactSummary(p) \/ CompactEvent(p)
      PROVE  PhaseShape'
  BY <1>9, <1>2, <1>3, <1>4 DEF CompactAuth, CompactSummary, CompactEvent, CompactionReturns,
     Compacting
<1>10. ASSUME NEW p \in Prompts, EndTurn(p)
      PROVE  PhaseShape'
  BY <1>10, <1>1, <1>2, <1>3 DEF EndTurn, PhaseShape
<1>11. CASE UNCHANGED pc
  BY <1>11, <1>1 DEF PhaseShape
<1>. QED  BY <1>6, <1>7, <1>8, <1>9, <1>10, <1>11 DEF Next, PromptStep, ManualStep, HostCall,
          vars, calls, queues, transcript, Respond, ToolResult, ManualReady, ManualAuth,
          ManualSummary, ManualEvent, Navigated, Queue, clearQueue, sendCustomMessage,
          recordBashResult, setSessionName, WaitForIdle, abortCompaction, Compact, NavigateTree

\* The types of the local variables of the calls.
LEMMA LocalStep ==
    ASSUME IndInv, [Next]_vars
    PROVE  LocalShape'
<1>1. LocalShape
  BY DEF IndInv, Shape, LocalShape, Local
<1>2. ASSUME NEW p \in Prompts, NEW v \in Local, local' = [local EXCEPT ![p] = v]
      PROVE  LocalShape'
  BY <1>1, <1>2 DEF LocalShape
<1>3. NoLocal \in Local
  BY DEF NoLocal, Local
<1>4. \A p \in Prompts : local[p] \in Local
  BY <1>1 DEF LocalShape
<1>5. ASSUME NEW p \in Prompts, NEW i, NEW post \in BOOLEAN, CheckCompaction(p, i, post)
      PROVE  LocalShape'
  <2>1. \A retry \in BOOLEAN : [local[p] EXCEPT !.post = post, !.retry = retry] \in Local
    BY <1>4 DEF Local
  <2>2. ASSUME NEW retry \in BOOLEAN,
               local' = [local EXCEPT ![p].post = post, ![p].retry = retry]
        PROVE  local' = [local EXCEPT ![p] = [local[p] EXCEPT !.post = post, !.retry = retry]]
    BY <1>1, <2>2 DEF LocalShape
  <2>. QED  BY <1>1, <1>2, <1>5, <2>1, <2>2 DEF CheckCompaction, LocalShape
<1>6. \A cut \in prepareCompaction(branch) : cut \in Nat
  BY Cuts DEF IndInv, Transcript
<1>7. lastAssistant \in Nat /\ pending.next \in Nat
  BY DEF IndInv, Shape
<1>8. ASSUME NEW p \in Prompts, Authorize(p) \/ Backoff(p)
      PROVE  LocalShape'
  BY <1>8, <1>1, <1>5 DEF Authorize, Backoff, LocalShape
<1>9. ASSUME NEW p \in Prompts, HandlePostAgentRun(p)
      PROVE  LocalShape'
  <2>1. CASE local' = [local EXCEPT ![p].msg = lastAssistant]
    <3>1. [local[p] EXCEPT !.msg = lastAssistant] \in Local
      BY <1>4, <1>7 DEF Local
    <3>. QED  BY <2>1, <3>1, <1>1, <1>2 DEF LocalShape
  <2>. QED  BY <1>9, <2>1, <1>1, <1>5 DEF HandlePostAgentRun, LocalShape
<1>10. ASSUME NEW p \in Prompts, CompactAuth(p)
      PROVE  LocalShape'
  <2>1. ASSUME NEW cut \in Nat, local' = [local EXCEPT ![p].cut = cut] PROVE LocalShape'
    <3>1. [local[p] EXCEPT !.cut = cut] \in Local
      BY <1>4 DEF Local
    <3>. QED  BY <2>1, <3>1, <1>1, <1>2 DEF LocalShape
  <2>. QED  BY <1>10, <2>1, <1>2, <1>3, <1>6 DEF CompactAuth, CompactionReturns
<1>11. ASSUME NEW p \in Prompts, Build(p)
      PROVE  LocalShape'
  <2>1. [local[p] EXCEPT !.carry = pending.next] \in Local
    BY <1>4, <1>7 DEF Local
  <2>. QED  BY <1>11, <2>1, <1>1, <1>2 DEF Build, LocalShape
<1>12. ASSUME NEW p \in Prompts, CompactSummary(p) \/ CompactEvent(p) \/ BeforeAgentStart(p) \/
      Continue(p) \/ Finally(p)
      PROVE  LocalShape'
  BY <1>12, <1>1, <1>2, <1>3 DEF CompactSummary, CompactEvent, CompactionReturns,
     BeforeAgentStart, Continue, Finally, LocalShape
<1>13. CASE UNCHANGED local
  BY <1>13, <1>1 DEF LocalShape
<1>. QED  BY <1>8, <1>9, <1>10, <1>11, <1>12, <1>13 DEF Next, PromptStep, ManualStep, HostCall,
          vars, calls, queues, transcript, Prompt, TriggerTurn, Submit, Respond, ToolResult,
          EndTurn, ResolveIdleWaitIfIdle, ManualReady, ManualAuth, ManualSummary, ManualEvent,
          Navigated, Queue, clearQueue, sendCustomMessage, recordBashResult, setSessionName,
          WaitForIdle, abortCompaction, Compact, NavigateTree

\* The types of the flags.
LEMMA FlagStep ==
    ASSUME IndInv, [Next]_vars
    PROVE  FlagShape'
<1>1. FlagShape
  BY DEF IndInv, Shape, FlagShape
<1>2. ASSUME NEW p \in Prompts, TriggerTurn(p) \/ BeforeAgentStart(p) \/ Continue(p)
      PROVE  FlagShape'
  BY <1>2, <1>1 DEF TriggerTurn, BeforeAgentStart, Continue, RunAgentPrompt, StartRun, FlagShape
<1>3. ASSUME NEW p \in Prompts, Authorize(p) \/ HandlePostAgentRun(p) \/ Backoff(p)
      PROVE  FlagShape'
  BY <1>3, <1>1 DEF Authorize, HandlePostAgentRun, Backoff, CheckCompaction, FlagShape
<1>4. ASSUME NEW p \in Prompts, Respond(p) \/ EndTurn(p) \/ Finally(p)
      PROVE  FlagShape'
  BY <1>4, <1>1 DEF Respond, EndTurn, Finally, FlagShape
<1>5. CASE UNCHANGED <<active, recovered>>
  BY <1>5, <1>1 DEF FlagShape
<1>. QED  BY <1>2, <1>3, <1>4, <1>5 DEF Next, PromptStep, ManualStep, HostCall, vars, calls,
          queues, transcript, Prompt, Submit, CompactAuth, CompactSummary, CompactEvent, Build,
          ToolResult, ResolveIdleWaitIfIdle, ManualReady, ManualAuth, ManualSummary,
          ManualEvent, Navigated, Queue, clearQueue, sendCustomMessage, recordBashResult,
          setSessionName, WaitForIdle, abortCompaction, Compact, NavigateTree

\* The types of the last response and of the attempts.
LEMMA AttemptStep ==
    ASSUME IndInv, [Next]_vars
    PROVE  AttemptShape'
<1>1. AttemptShape
  BY DEF IndInv, Shape, AttemptShape
<1>2. MaxRetries \in Nat
  BY BoundsAssumption
<1>3. ASSUME NEW p \in Prompts, Respond(p)
      PROVE  AttemptShape'
  <2>1. PICK kind \in Responses : Push(<<kind>>)
    BY <1>3 DEF Respond
  <2>2. <<kind>> \in Seq(Kinds)
    BY <2>1 DEF Responses, Kinds, Assistant, Failed, Unrecoverable
  <2>3. Len(branch') \in Nat
    BY <2>1, <2>2, Pushed DEF IndInv, Transcript
  <2>. QED  BY <1>3, <2>3, <1>1, <1>2 DEF Respond, AttemptShape
<1>4. ASSUME NEW p \in Prompts, HandlePostAgentRun(p)
      PROVE  AttemptShape'
  <2>1. \/ retryAttempt' \in {retryAttempt, 0}
        \/ retryAttempt < MaxRetries /\ retryAttempt' = retryAttempt + 1
    BY <1>4 DEF HandlePostAgentRun
  <2>2. lastAssistant' = 0
    BY <1>4 DEF HandlePostAgentRun
  <2>. QED  BY <2>1, <2>2, <1>1, <1>2 DEF AttemptShape
<1>5. ASSUME NEW p \in Prompts, Backoff(p)
      PROVE  AttemptShape'
  <2>1. retryAttempt' \in {retryAttempt, 0} /\ UNCHANGED lastAssistant
    BY <1>5 DEF Backoff
  <2>. QED  BY <2>1, <1>1, <1>2 DEF AttemptShape
<1>6. CASE UNCHANGED <<lastAssistant, retryAttempt>>
  BY <1>6, <1>1 DEF AttemptShape
<1>. QED  BY <1>3, <1>4, <1>5, <1>6 DEF Next, PromptStep, ManualStep, HostCall, vars, calls,
          queues, transcript, Prompt, TriggerTurn, Submit, Authorize, CompactAuth,
          CompactSummary, CompactEvent, Build, BeforeAgentStart, ToolResult, EndTurn, Continue,
          Finally, ResolveIdleWaitIfIdle, ManualReady, ManualAuth, ManualSummary, ManualEvent,
          Navigated, Queue, clearQueue, sendCustomMessage, recordBashResult, setSessionName,
          WaitForIdle, abortCompaction, Compact, NavigateTree

\* The types of the abort controllers.
LEMMA ControlStep ==
    ASSUME IndInv, [Next]_vars
    PROVE  ControlShape'
<1>1. ControlShape
  BY DEF IndInv, Shape, ControlShape
<1>2. ASSUME NEW p \in Prompts, CompactAuth(p) \/ CompactSummary(p) \/ CompactEvent(p)
      PROVE  ControlShape'
  BY <1>2, <1>1 DEF CompactAuth, CompactSummary, CompactEvent, CompactionReturns, ControlShape,
     Controller
<1>3. ASSUME NEW p \in Prompts, HandlePostAgentRun(p) \/ Backoff(p)
      PROVE  ControlShape'
  BY <1>3, <1>1 DEF HandlePostAgentRun, Backoff, ControlShape, Controller
<1>4. ASSUME ManualReady \/ ManualAuth \/ ManualSummary \/ ManualEvent
      PROVE  ControlShape'
  BY <1>4, <1>1 DEF ManualReady, ManualAuth, ManualSummary, ManualEvent, ManualOver,
     ControlShape, Controller
<1>5. ASSUME WaitForIdle(TRUE) \/ WaitForIdle(FALSE) \/ Compact
      PROVE  ControlShape'
  BY <1>5, <1>1 DEF WaitForIdle, Compact, AbortRun, ControlShape, Controller
<1>6. ASSUME abortCompaction
      PROVE  ControlShape'
  BY <1>6, <1>1 DEF abortCompaction, ControlShape, Controller
<1>7. CASE UNCHANGED ctl
  BY <1>7, <1>1 DEF ControlShape
<1>. QED  BY <1>2, <1>3, <1>4, <1>5, <1>6, <1>7 DEF Next, PromptStep, ManualStep, HostCall,
          vars, calls, queues, transcript, Prompt, TriggerTurn, Submit, Authorize, Build,
          BeforeAgentStart, Respond, ToolResult, EndTurn, Continue, Finally,
          ResolveIdleWaitIfIdle, Navigated, Queue, clearQueue, sendCustomMessage,
          recordBashResult, setSessionName, NavigateTree

\* The types of compact().
LEMMA ManualTypeStep ==
    ASSUME IndInv, [Next]_vars
    PROVE  ManualShape'
<1>1. ManualShape
  BY DEF IndInv, Shape, ManualShape
<1>2. \A cut \in prepareCompaction(branch) : cut \in Nat
  BY Cuts DEF IndInv, Transcript
<1>3. ASSUME NEW p \in Prompts, ResolveIdleWaitIfIdle(p)
      PROVE  ManualShape'
  BY <1>3, <1>1 DEF ResolveIdleWaitIfIdle, ManualShape
<1>4. ASSUME ManualReady \/ ManualAuth \/ ManualSummary \/ ManualEvent
      PROVE  ManualShape'
  BY <1>4, <1>1, <1>2 DEF ManualReady, ManualAuth, ManualSummary, ManualEvent, ManualOver,
     ManualShape
<1>5. ASSUME Compact
      PROVE  ManualShape'
  BY <1>5, <1>1 DEF Compact, ManualShape
<1>6. CASE UNCHANGED manual
  BY <1>6, <1>1 DEF ManualShape
<1>. QED  BY <1>3, <1>4, <1>5, <1>6 DEF Next, PromptStep, ManualStep, HostCall, vars, calls,
          queues, transcript, Prompt, TriggerTurn, Submit, Authorize, CompactAuth,
          CompactSummary, CompactEvent, Build, BeforeAgentStart, Respond, ToolResult, EndTurn,
          HandlePostAgentRun, Backoff, Continue, Finally, Navigated, Queue, clearQueue,
          sendCustomMessage, recordBashResult, setSessionName, WaitForIdle, abortCompaction,
          NavigateTree

\* The types of navigateTree().
LEMMA NavStep ==
    ASSUME IndInv, [Next]_vars
    PROVE  NavShape'
<1>1. NavShape
  BY DEF IndInv, Shape, NavShape
<1>2. Len(branch) \in Nat
  BY DEF IndInv, Transcript, Sound
<1>3. ASSUME Navigated
      PROVE  NavShape'
  BY <1>3, <1>1, <1>2 DEF Navigated, NavShape
<1>4. ASSUME NavigateTree
      PROVE  NavShape'
  <2>1. PICK target \in 1..(Len(branch) - 1), summarize \in BOOLEAN :
          nav' = [to |-> IF KindAt(target) \in {"user", "custom"} THEN target - 1 ELSE target,
                  summarize |-> summarize]
    BY <1>4 DEF NavigateTree
  <2>2. target \in Nat /\ target - 1 \in Nat
    BY <1>2
  <2>. QED  BY <2>1, <2>2 DEF NavShape
<1>5. CASE UNCHANGED nav
  BY <1>5, <1>1 DEF NavShape
<1>. QED  BY <1>3, <1>4, <1>5 DEF Next, PromptStep, ManualStep, HostCall, vars, calls, queues,
          transcript, Prompt, TriggerTurn, Submit, Authorize, CompactAuth, CompactSummary,
          CompactEvent, Build, BeforeAgentStart, Respond, ToolResult, EndTurn,
          HandlePostAgentRun, Backoff, Continue, Finally, ResolveIdleWaitIfIdle, ManualReady,
          ManualAuth, ManualSummary, ManualEvent, Queue, clearQueue, sendCustomMessage,
          recordBashResult, setSessionName, WaitForIdle, abortCompaction, Compact

\* The types of the counted attempts.
LEMMA TriesStep ==
    ASSUME IndInv, [Next]_vars
    PROVE  TriesShape'
<1>1. TriesShape
  BY DEF IndInv, Shape, TriesShape
<1>2. ASSUME \/ tries' = FreshTries \/ UNCHANGED tries
             \/ tries' = [tries EXCEPT !.recoveries = @ + 1]
             \/ tries' = [tries EXCEPT !.retries = @ + 1]
             \/ tries' = [tries EXCEPT !.retries = 0]
             \/ tries' = [tries EXCEPT !.rejected = TRUE]
      PROVE  TriesShape'
  <2>1. CASE tries' = FreshTries
    BY <2>1, <1>1 DEF TriesShape, FreshTries
  <2>2. CASE tries' = [tries EXCEPT !.recoveries = @ + 1]
    BY <2>2, <1>1 DEF TriesShape
  <2>3. CASE tries' = [tries EXCEPT !.retries = @ + 1]
    BY <2>3, <1>1 DEF TriesShape
  <2>4. CASE tries' = [tries EXCEPT !.retries = 0]
    BY <2>4, <1>1 DEF TriesShape
  <2>5. CASE tries' = [tries EXCEPT !.rejected = TRUE] \/ UNCHANGED tries
    BY <2>5, <1>1 DEF TriesShape
  <2>. QED  BY <1>2, <2>1, <2>2, <2>3, <2>4, <2>5
<1>3. ASSUME NEW p \in Prompts, TriggerTurn(p)
      PROVE  TriesShape'
  BY <1>3, <1>2 DEF TriggerTurn, RunAgentPrompt, StartRun
<1>4. ASSUME NEW p \in Prompts, BeforeAgentStart(p)
      PROVE  TriesShape'
  BY <1>4, <1>2 DEF BeforeAgentStart, RunAgentPrompt, StartRun
<1>5. ASSUME NEW p \in Prompts, Continue(p)
      PROVE  TriesShape'
  BY <1>5, <1>2 DEF Continue, StartRun
<1>6. ASSUME NEW p \in Prompts, Authorize(p)
      PROVE  TriesShape'
  BY <1>6, <1>2 DEF Authorize, CheckCompaction
<1>7. ASSUME NEW p \in Prompts, HandlePostAgentRun(p)
      PROVE  TriesShape'
  BY <1>7, <1>2 DEF HandlePostAgentRun, CheckCompaction
<1>8. ASSUME NEW p \in Prompts, Backoff(p)
      PROVE  TriesShape'
  BY <1>8, <1>2 DEF Backoff, CheckCompaction
<1>9. ASSUME NEW p \in Prompts, Respond(p)
      PROVE  TriesShape'
  <2>1. PICK kind \in Responses :
           tries' = IF kind \notin Errors \cup Truncated THEN FreshTries
                    ELSE [tries EXCEPT !.retries = IF kind \in Calling THEN 0 ELSE @]
    BY <1>9, Zenon DEF Respond
  <2>2. CASE kind \notin Errors \cup Truncated
    BY <2>1, <2>2, <1>2
  <2>3. CASE kind \in Errors \cup Truncated
    <3>1. tries' = [tries EXCEPT !.retries = IF kind \in Calling THEN 0 ELSE @]
      BY <2>1, <2>3
    <3>. QED  BY <3>1, <1>1 DEF TriesShape
  <2>. QED  BY <2>2, <2>3
<1>10. ASSUME NEW p \in Prompts, EndTurn(p)
      PROVE  TriesShape'
  BY <1>10, <1>2 DEF EndTurn
<1>11. ASSUME WaitForIdle(TRUE) \/ WaitForIdle(FALSE) \/ Compact
      PROVE  TriesShape'
  BY <1>11, <1>2 DEF WaitForIdle, Compact, AbortRun
<1>12. CASE UNCHANGED tries
  BY <1>12, <1>1 DEF TriesShape
<1>. QED  BY <1>3, <1>4, <1>5, <1>6, <1>7, <1>8, <1>9, <1>10, <1>11, <1>12 DEF Next, PromptStep,
          ManualStep, HostCall, vars, calls, queues, transcript, Prompt, Submit, CompactAuth,
          CompactSummary, CompactEvent, Build, ToolResult, Finally, ResolveIdleWaitIfIdle,
          ManualReady, ManualAuth, ManualSummary, ManualEvent, Navigated, Queue, clearQueue,
          sendCustomMessage, recordBashResult, setSessionName, abortCompaction, NavigateTree

\* Every step keeps the types.
LEMMA ShapeStep ==
    ASSUME IndInv, [Next]_vars
    PROVE  Shape'
BY QueuesStep, AgentStep, PendingStep, PhaseStep, LocalStep, FlagStep, AttemptStep, ControlStep,
   ManualTypeStep, NavStep, TriesStep
   DEF Shape, AgentShape, PendingShape, PhaseShape, Local, LocalShape, FlagShape, AttemptShape,
       ControlShape, ManualShape, NavShape, TriesShape
--------------------------------------------------------------------------------
(* Exclusion: who holds the session.                                             *)

\* Where a call is: waiting for its input handlers, in preflight, in its run, or neither.
Place(p) ==
    IF pc[p] = "input" THEN "input" ELSE IF InPreflight(p) THEN "preflight"
    ELSE IF InRun(p) THEN "run" ELSE "out"

\* No call is in preflight, and neither compact() nor navigateTree() is under way.
Alone == (\A q \in Prompts : ~InPreflight(q)) /\ nav.to = None /\ manual.at = "out"

\* How a step of call p may change its place and whether a run is active.
Moves(p) ==
    \/ Place(p)' = "input" /\ Alone /\ active' = active
    \/ Place(p)' = "preflight" /\ Place(p) \in {"input", "preflight"} /\ ~active /\ active' = active
    \/ Place(p)' = "out" /\ Place(p) # "run" /\ active' = active
    \/ Place(p)' = "out" /\ Place(p) = "run" /\ active' = FALSE
    \/ Place(p)' = "run" /\ Place(p) \in {"preflight", "run"} /\ active' = TRUE
    \/ Place(p)' = "run" /\ Place(p) = "out" /\ ~active /\ Alone /\ active' = TRUE

\* A step of p leaves the other calls where they are.
Only(p) == \A q \in Prompts \ {p} : pc'[q] = pc[q] /\ local'[q] = local[q]

\* The conjuncts of Exclusion about the places of calls.
Apart ==
    /\ \A p \in Prompts : Place(p) = "run" => active
    /\ \A p, q \in Prompts : Place(p) = "run" /\ Place(q) = "run" => p = q
    /\ \A p, q \in Prompts : Place(p) \in {"input", "preflight"} /\ Place(q) \in {"input", "preflight"}
           => p = q
    /\ \A p \in Prompts : Place(p) = "preflight" => ~active
    /\ manual.at # "out" => \A p \in Prompts : Place(p) \notin {"input", "preflight"}
    /\ manual.at \notin {"out", "idle"} => ~active
    /\ nav.to # None =>
           ~active /\ manual.at = "out" /\ \A p \in Prompts : Place(p) \notin {"input", "preflight"}

\* The place of a call, in the words of Exclusion.
LEMMA Places ==
    ASSUME NEW p \in Prompts
    PROVE  /\ InPreflight(p) <=> Place(p) \in {"input", "preflight"}
           /\ InRun(p) <=> Place(p) = "run"
           /\ Place(p) = "input" <=> pc[p] = "input"
           /\ Place(p) \in {"input", "preflight", "run", "out"}
BY DEF Place, InPreflight, InRun, Compacting

\* The same of the next state.
LEMMA PlacesNext ==
    ASSUME NEW p \in Prompts
    PROVE  /\ InPreflight(p)' <=> Place(p)' \in {"input", "preflight"}
           /\ InRun(p)' <=> Place(p)' = "run"
           /\ Place(p)' = "input" <=> pc'[p] = "input"
           /\ Place(p)' \in {"input", "preflight", "run", "out"}
BY DEF Place, InPreflight, InRun, Compacting

\* A move of one call keeps the calls apart.
LEMMA MoveKeepsApart ==
    ASSUME NEW p \in Prompts, Apart, active \in BOOLEAN, Only(p), Moves(p), nav' = nav,
           manual'.at = manual.at \/ (manual.at = "idle" /\ manual'.at = "ready" /\ ~active /\ ~active')
    PROVE  Apart'
<1>1. \A q \in Prompts \ {p} : Place(q)' = Place(q)
  BY DEF Only, Place, InPreflight, InRun
<1>2. \A q \in Prompts : /\ InPreflight(q) <=> Place(q) \in {"input", "preflight"}
                         /\ Place(q)' \in {"input", "preflight", "run", "out"}
  BY Places, PlacesNext
<1>. QED  BY <1>1, <1>2 DEF Apart, Moves, Alone
\* What the steps below need to know of a state.
LEMMA StateFacts ==
    ASSUME IndInv
    PROVE  /\ PhaseShape /\ LocalShape /\ AgentShape /\ ControlShape /\ ManualShape
           /\ active \in BOOLEAN /\ Exclusion /\ Apart
<1>1. PhaseShape /\ LocalShape /\ active \in BOOLEAN /\ Exclusion
  BY DEF IndInv, Shape, PhaseShape, LocalShape, Local
<1>2. AgentShape /\ ControlShape /\ ManualShape
  BY DEF IndInv, Shape, AgentShape, ControlShape, ManualShape
<1>3. Apart
  BY <1>1, Places DEF Exclusion, Apart
<1>. QED  BY <1>1, <1>2, <1>3

\* How a step of CheckCompaction moves the call, before and after a run.
LEMMA CheckMoves ==
    ASSUME NEW p \in Prompts, NEW i, NEW post \in BOOLEAN, PhaseShape, LocalShape,
           CheckCompaction(p, i, post)
    PROVE  /\ Only(p)
           /\ IF post THEN /\ pc'[p] \in {"resume", "finally", "compactAuth"}
                           /\ pc'[p] = "compactAuth" => local'[p].post
              ELSE /\ pc'[p] \in {"build", "compactAuth"}
                   /\ pc'[p] = "compactAuth" => ~local'[p].post
BY DEF CheckCompaction, CheckReturns, Goto, Only, PhaseShape, LocalShape, Local

\* Where the compaction of a call returns to.
LEMMA ReturnMoves ==
    ASSUME NEW p \in Prompts, NEW again, PhaseShape, LocalShape, CompactionReturns(p, again)
    PROVE  /\ Only(p)
           /\ IF local[p].post THEN pc'[p] \in {"resume", "finally"} ELSE pc'[p] = "build"
BY DEF CompactionReturns, CheckReturns, Goto, Only, PhaseShape, LocalShape, Local

\* Every step of prompt() is one of the moves.
LEMMA PromptMoves ==
    ASSUME Overlap = FALSE, IndInv, NEW p \in Prompts, Prompt(p) \/ TriggerTurn(p) \/ PromptStep(p)
    PROVE  Only(p) /\ Moves(p)
<1>1. PhaseShape /\ LocalShape /\ active \in BOOLEAN /\ Exclusion /\ ManualShape
  BY StateFacts
<1>2. /\ InRun(p) => active
      /\ InPreflight(p) /\ pc[p] # "input" => ~active
      /\ ctl.manual = "none" => manual.at \in {"out", "idle", "ready"}
  BY <1>1 DEF Exclusion
<1>3. CASE Prompt(p)
  BY <1>3, <1>1, <1>2 DEF Prompt, CountPrompt, Goto, Only, Moves, Place, Alone, InRun,
     InPreflight, Compacting, PhaseShape, LocalShape, Local, ManualShape, Quiet, calls
<1>4. CASE TriggerTurn(p)
  BY <1>4, <1>1, <1>2 DEF TriggerTurn, CountPrompt, RunAgentPrompt, StartRun, Goto, FreshTries,
     Only, Moves, Place, Alone, InRun, InPreflight, Compacting, PhaseShape, LocalShape, Local,
     ManualShape, Quiet, calls
<1>5. CASE Submit(p)
  BY <1>5, <1>1, <1>2 DEF Submit, Goto, Only, Moves, Place, Alone, InRun, InPreflight,
     Compacting, PhaseShape, LocalShape, Local, ManualShape, Quiet, calls
<1>6. CASE Authorize(p)
  BY <1>6, <1>1, <1>2, CheckMoves DEF Authorize, Goto, Only, Moves, Place, Alone, InRun,
     InPreflight, Compacting, PhaseShape, LocalShape, Local, ManualShape, Quiet, calls
<1>7. CASE CompactAuth(p)
  <2>1. pc[p] = "compactAuth" /\ UNCHANGED active
    BY <1>7 DEF CompactAuth
  <2>2. CASE CompactionReturns(p, FALSE)
    BY <2>1, <2>2, <1>1, <1>2, ReturnMoves DEF Moves, Place, InRun, InPreflight, Compacting
  <2>3. CASE Goto(p, "compactSummary") /\ \E cut \in prepareCompaction(branch) :
                 local' = [local EXCEPT ![p].cut = cut]
    <3>1. Only(p) /\ pc'[p] = "compactSummary" /\ local'[p].post = local[p].post
      BY <2>3, <1>1 DEF Only, Goto, PhaseShape, LocalShape, Local
    <3>. QED  BY <3>1, <2>1, <1>1, <1>2 DEF Moves, Place, InRun, InPreflight, Compacting
  <2>. QED  BY <1>7, <2>2, <2>3 DEF CompactAuth
<1>8. CASE CompactSummary(p)
  BY <1>8, <1>1, <1>2, ReturnMoves DEF CompactSummary, Goto, Only, Moves, Place, Alone, InRun,
     InPreflight, Compacting, PhaseShape, LocalShape, Local, ManualShape, Quiet, calls
<1>9. CASE CompactEvent(p)
  BY <1>9, <1>1, <1>2, ReturnMoves DEF CompactEvent, Goto, Only, Moves, Place, Alone, InRun,
     InPreflight, Compacting, PhaseShape, LocalShape, Local, ManualShape, Quiet, calls
<1>10. CASE Build(p)
  BY <1>10, <1>1, <1>2 DEF Build, Goto, Only, Moves, Place, Alone, InRun, InPreflight,
     Compacting, PhaseShape, LocalShape, Local, ManualShape, Quiet, calls
<1>11. CASE BeforeAgentStart(p)
  BY <1>11, <1>1, <1>2 DEF BeforeAgentStart, RunAgentPrompt, StartRun, Goto, NoLocal,
     FreshTries, Only, Moves, Place, Alone, InRun, InPreflight, Compacting, PhaseShape,
     LocalShape, Local, ManualShape, Quiet, calls
<1>12. CASE Respond(p)
  BY <1>12, <1>1, <1>2 DEF Respond, FreshTries, Only, Moves, Place, Alone, InRun, InPreflight,
     Compacting, PhaseShape, LocalShape, Local, ManualShape, Quiet, calls
<1>13. CASE ToolResult(p)
  BY <1>13, <1>1, <1>2 DEF ToolResult, Only, Moves, Place, Alone, InRun, InPreflight,
     Compacting, PhaseShape, LocalShape, Local, ManualShape, Quiet, calls
<1>14. CASE EndTurn(p)
  BY <1>14, <1>1, <1>2 DEF EndTurn, Goto, Idle, FreshTries, Only, Moves, Place, Alone, InRun,
     InPreflight, Compacting, PhaseShape, LocalShape, Local, ManualShape, Quiet, calls
<1>15. CASE HandlePostAgentRun(p)
  BY <1>15, <1>1, <1>2, CheckMoves, ZenonT(60) DEF HandlePostAgentRun, Goto, Only, Moves, Place, Alone,
     InRun, InPreflight, Compacting, PhaseShape, LocalShape, Local, ManualShape, Quiet, calls
<1>16. CASE Backoff(p)
  BY <1>16, <1>1, <1>2, CheckMoves DEF Backoff, Goto, Only, Moves, Place, Alone, InRun,
     InPreflight, Compacting, PhaseShape, LocalShape, Local, ManualShape, Quiet, calls
<1>17. CASE Continue(p)
  BY <1>17, <1>1, <1>2 DEF Continue, StartRun, Goto, NoLocal, FreshTries, Only, Moves, Place,
     Alone, InRun, InPreflight, Compacting, PhaseShape, LocalShape, Local, ManualShape, Quiet,
     calls
<1>18. CASE Finally(p)
  BY <1>18, <1>1, <1>2 DEF Finally, Goto, NoLocal, Only, Moves, Place, Alone, InRun,
     InPreflight, Compacting, PhaseShape, LocalShape, Local, ManualShape, Quiet, calls
<1>19. CASE ResolveIdleWaitIfIdle(p)
  BY <1>19, <1>1, <1>2 DEF ResolveIdleWaitIfIdle, Goto, Only, Moves, Place, Alone, InRun,
     InPreflight, Compacting, PhaseShape, LocalShape, Local, ManualShape, Quiet, calls
<1>. QED  BY <1>3, <1>4, <1>5, <1>6, <1>7, <1>8, <1>9, <1>10, <1>11, <1>12, <1>13, <1>14, <1>15,
          <1>16, <1>17, <1>18, <1>19 DEF PromptStep
\* The steps of prompt() do not touch navigateTree(), and compact() only when it ends.
LEMMA HostKept ==
    ASSUME NEW p \in Prompts, Prompt(p) \/ TriggerTurn(p) \/ PromptStep(p)
    PROVE  nav' = nav /\ (manual' = manual \/ ResolveIdleWaitIfIdle(p))
<1>1. CASE Prompt(p) \/ TriggerTurn(p) \/ Submit(p)
  BY <1>1 DEF Prompt, TriggerTurn, Submit
<1>2. CASE Authorize(p)
  BY <1>2 DEF Authorize
<1>3. CASE CompactAuth(p) \/ CompactSummary(p) \/ CompactEvent(p)
  BY <1>3 DEF CompactAuth, CompactSummary, CompactEvent
<1>4. CASE Build(p) \/ BeforeAgentStart(p)
  BY <1>4 DEF Build, BeforeAgentStart
<1>7. CASE Respond(p)
  BY <1>7 DEF Respond
<1>8. CASE ToolResult(p)
  BY <1>8 DEF ToolResult
<1>5. CASE EndTurn(p) \/ HandlePostAgentRun(p) \/ Backoff(p)
  BY <1>5 DEF EndTurn, HandlePostAgentRun, Backoff
<1>6. CASE Continue(p) \/ Finally(p) \/ ResolveIdleWaitIfIdle(p)
  BY <1>6 DEF Continue, Finally, ResolveIdleWaitIfIdle
<1>. QED  BY <1>1, <1>2, <1>3, <1>4, <1>5, <1>6, <1>7, <1>8 DEF PromptStep

\* Calls are kept apart by every step.
LEMMA ApartStep ==
    ASSUME Overlap = FALSE, IndInv, [Next]_vars
    PROVE  Apart'
<1>1. Apart /\ active \in BOOLEAN /\ ManualShape
  BY StateFacts
<1>2. ASSUME NEW p \in Prompts, Prompt(p) \/ TriggerTurn(p) \/ PromptStep(p)
      PROVE  Apart'
  <2>1. Only(p) /\ Moves(p)
    BY <1>2, PromptMoves
  <2>2. nav' = nav
    BY <1>2, HostKept
  <2>3. CASE ResolveIdleWaitIfIdle(p)
    <3>1. UNCHANGED active /\ (active \/ manual'.at = manual.at \/ (manual.at = "idle" /\ manual'.at = "ready"))
      BY <2>3, <1>1 DEF ResolveIdleWaitIfIdle, ManualShape
    <3>2. active => manual'.at = manual.at
      BY <2>3 DEF ResolveIdleWaitIfIdle
    <3>. QED  BY <1>1, <2>1, <2>2, <3>1, <3>2, MoveKeepsApart
  <2>4. CASE ~ResolveIdleWaitIfIdle(p)
    <3>1. manual' = manual
      BY <1>2, <2>4, HostKept
    <3>. QED  BY <1>1, <2>1, <2>2, <3>1, MoveKeepsApart
  <2>. QED  BY <2>3, <2>4
<1>3. ASSUME UNCHANGED <<calls, active>>,
             \/ nav' = nav /\ (manual'.at = manual.at \/ manual'.at = "out")
             \/ nav' = nav /\ manual.at \in {"ready", "auth", "summary"} /\ manual'.at # "idle"
             \/ nav' = nav /\ Alone /\ (active => manual'.at = "idle")
             \/ manual' = manual /\ nav'.to = None
             \/ manual' = manual /\ Alone /\ ~active
      PROVE  Apart'
  <2>1. \A q \in Prompts : Place(q)' = Place(q)
    BY <1>3 DEF calls, Place, InPreflight, InRun
  <2>2. \A q \in Prompts : InPreflight(q) <=> Place(q) \in {"input", "preflight"}
    BY Places
  <2>. QED  BY <1>1, <1>3, <2>1, <2>2 DEF Apart, Alone
<1>4. CASE ManualStep
  BY <1>1, <1>3, <1>4 DEF ManualStep, ManualReady, ManualAuth, ManualSummary, ManualEvent, ManualOver,
     ManualShape
<1>5. CASE Navigated
  BY <1>3, <1>5 DEF Navigated
<1>6. CASE Compact
  BY <1>3, <1>6 DEF Compact, Quiet, Alone, calls
<1>7. CASE NavigateTree
  BY <1>3, <1>7 DEF NavigateTree, Quiet, Alone, calls
<1>8. CASE HostCall /\ ~Compact /\ ~NavigateTree
  BY <1>3, <1>8 DEF HostCall, Queue, clearQueue, sendCustomMessage, recordBashResult, setSessionName,
     WaitForIdle, abortCompaction
<1>9. CASE UNCHANGED vars
  BY <1>3, <1>9 DEF vars
<1>. QED  BY <1>2, <1>4, <1>5, <1>6, <1>7, <1>8, <1>9 DEF Next, HostCall

\* The agent's run belongs to a call that is in its run.
HolderRuns == agent.phase # "idle" => agent.run \in Prompts /\ pc[agent.run] = "run"

\* Every step keeps it so.
LEMMA HolderStep ==
    ASSUME IndInv, [Next]_vars
    PROVE  HolderRuns'
<1>1. HolderRuns /\ PhaseShape /\ AgentShape
  BY StateFacts DEF Exclusion, HolderRuns
<1>2. ASSUME NEW p \in Prompts, NEW where, Goto(p, where), pc[p] # "run", UNCHANGED agent
      PROVE  HolderRuns'
  BY <1>1, <1>2 DEF Goto, HolderRuns, PhaseShape
<1>3. ASSUME NEW p \in Prompts, NEW kinds, NEW polled, StartRun(p, kinds, polled)
      PROVE  HolderRuns'
  BY <1>1, <1>3 DEF StartRun, Goto, HolderRuns, PhaseShape
<1>4. ASSUME UNCHANGED pc, agent'.run = agent.run,
             agent'.phase # "idle" => agent.phase # "idle"
      PROVE  HolderRuns'
  BY <1>1, <1>4 DEF HolderRuns
<1>5. ASSUME NEW p \in Prompts, NEW i, NEW post, CheckCompaction(p, i, post), pc[p] # "run",
             UNCHANGED agent
      PROVE  HolderRuns'
  BY <1>2, <1>5 DEF CheckCompaction, CheckReturns
<1>6. ASSUME NEW p \in Prompts, NEW again, CompactionReturns(p, again), pc[p] # "run", UNCHANGED agent
      PROVE  HolderRuns'
  BY <1>2, <1>6 DEF CompactionReturns, CheckReturns
<1>7. ASSUME NEW p \in Prompts, Prompt(p) PROVE HolderRuns'
  BY <1>7, <1>2 DEF Prompt
<1>8. ASSUME NEW p \in Prompts, TriggerTurn(p) PROVE HolderRuns'
  BY <1>8, <1>2, <1>3 DEF TriggerTurn, RunAgentPrompt
<1>9. ASSUME NEW p \in Prompts, Submit(p) PROVE HolderRuns'
  BY <1>9, <1>2 DEF Submit
<1>10. ASSUME NEW p \in Prompts, Authorize(p) PROVE HolderRuns'
  BY <1>10, <1>2, <1>5 DEF Authorize
<1>11. ASSUME NEW p \in Prompts, CompactAuth(p) PROVE HolderRuns'
  BY <1>11, <1>2, <1>6 DEF CompactAuth
<1>12. ASSUME NEW p \in Prompts, CompactSummary(p) PROVE HolderRuns'
  BY <1>12, <1>2, <1>6 DEF CompactSummary
<1>13. ASSUME NEW p \in Prompts, CompactEvent(p) PROVE HolderRuns'
  BY <1>13, <1>2, <1>6 DEF CompactEvent
<1>14. ASSUME NEW p \in Prompts, Build(p) PROVE HolderRuns'
  BY <1>14, <1>2 DEF Build
<1>15. ASSUME NEW p \in Prompts, BeforeAgentStart(p) PROVE HolderRuns'
  BY <1>15, <1>2, <1>3 DEF BeforeAgentStart, RunAgentPrompt
<1>16. ASSUME NEW p \in Prompts, Respond(p) PROVE HolderRuns'
  BY <1>16, <1>1, <1>4 DEF Respond, calls, AgentShape
<1>17. ASSUME NEW p \in Prompts, ToolResult(p) PROVE HolderRuns'
  BY <1>17, <1>1, <1>4 DEF ToolResult, calls, AgentShape
<1>18. ASSUME NEW p \in Prompts, EndTurn(p) PROVE HolderRuns'
  BY <1>18, <1>1, <1>4 DEF EndTurn, AgentShape, Idle, HolderRuns
<1>19. ASSUME NEW p \in Prompts, HandlePostAgentRun(p) PROVE HolderRuns'
  BY <1>19, <1>2, <1>5 DEF HandlePostAgentRun
<1>20. ASSUME NEW p \in Prompts, Backoff(p) PROVE HolderRuns'
  BY <1>20, <1>2, <1>5 DEF Backoff
<1>21. ASSUME NEW p \in Prompts, Continue(p) PROVE HolderRuns'
  BY <1>21, <1>2, <1>3 DEF Continue
<1>22. ASSUME NEW p \in Prompts, Finally(p) PROVE HolderRuns'
  BY <1>22, <1>2 DEF Finally
<1>23. ASSUME NEW p \in Prompts, ResolveIdleWaitIfIdle(p) PROVE HolderRuns'
  BY <1>23, <1>2 DEF ResolveIdleWaitIfIdle
<1>24. CASE WaitForIdle(TRUE) \/ WaitForIdle(FALSE) \/ Compact
  BY <1>24, <1>1, <1>4 DEF WaitForIdle, Compact, AbortRun, AgentShape, calls
<1>25. CASE UNCHANGED <<agent, pc>>
  BY <1>25, <1>4
<1>. QED  BY <1>7, <1>8, <1>9, <1>10, <1>11, <1>12, <1>13, <1>14, <1>15, <1>16, <1>17, <1>18,
          <1>19, <1>20, <1>21, <1>22, <1>23, <1>24, <1>25 DEF Next, PromptStep, ManualStep,
          HostCall, vars, calls, Queue, clearQueue, sendCustomMessage, recordBashResult,
          setSessionName, abortCompaction, NavigateTree, ManualReady, ManualAuth, ManualSummary,
          ManualEvent, Navigated
\* compact() has its abort controller from its first step after the wait to its end.
ManualHasController == (ctl.manual = "none") = (manual.at \in {"out", "idle", "ready"})

\* Every step keeps it so.
LEMMA ManualControllerStep ==
    ASSUME IndInv, [Next]_vars
    PROVE  ManualHasController'
<1>1. ManualHasController /\ ControlShape /\ ManualShape
  BY StateFacts DEF Exclusion, ManualHasController
<1>2. ASSUME ctl'.manual = ctl.manual, manual'.at = manual.at \/ {manual.at, manual'.at} \subseteq {"out", "idle", "ready"}
      PROVE  ManualHasController'
  BY <1>1, <1>2 DEF ManualHasController
<1>3. ASSUME NEW p \in Prompts, Prompt(p) \/ TriggerTurn(p) \/ PromptStep(p)
      PROVE  ctl'.manual = ctl.manual
  <2>1. CASE Prompt(p) \/ TriggerTurn(p) \/ Submit(p)
    BY <2>1 DEF Prompt, TriggerTurn, Submit
  <2>2. CASE Authorize(p)
    BY <2>2 DEF Authorize
  <2>3. CASE CompactAuth(p) \/ CompactSummary(p) \/ CompactEvent(p)
    BY <2>3, <1>1 DEF CompactAuth, CompactSummary, CompactEvent, CompactionReturns, ControlShape
  <2>4. CASE Build(p) \/ BeforeAgentStart(p)
    BY <2>4 DEF Build, BeforeAgentStart
  <2>5. CASE Respond(p)
    BY <2>5 DEF Respond
  <2>6. CASE ToolResult(p)
    BY <2>6 DEF ToolResult
  <2>7. CASE EndTurn(p)
    BY <2>7 DEF EndTurn
  <2>8. CASE HandlePostAgentRun(p)
    BY <2>8, <1>1 DEF HandlePostAgentRun, ControlShape
  <2>9. CASE Backoff(p)
    BY <2>9, <1>1 DEF Backoff, ControlShape
  <2>10. CASE Continue(p) \/ Finally(p) \/ ResolveIdleWaitIfIdle(p)
    BY <2>10 DEF Continue, Finally, ResolveIdleWaitIfIdle
  <2>. QED  BY <1>3, <2>1, <2>2, <2>3, <2>4, <2>5, <2>6, <2>7, <2>8, <2>9, <2>10 DEF PromptStep
<1>4. ASSUME NEW p \in Prompts, Prompt(p) \/ TriggerTurn(p) \/ PromptStep(p)
      PROVE  ManualHasController'
  BY <1>1, <1>2, <1>3, <1>4, HostKept DEF ResolveIdleWaitIfIdle, ManualShape
<1>5. CASE ManualReady \/ ManualEvent
  BY <1>1, <1>5 DEF ManualReady, ManualEvent, ManualOver, ManualHasController, ManualShape, ControlShape
<1>6. CASE ManualAuth
  BY <1>1, <1>6 DEF ManualAuth, ManualOver, ManualHasController, ManualShape, ControlShape
<1>7. CASE ManualSummary
  BY <1>1, <1>7 DEF ManualSummary, ManualOver, ManualHasController, ManualShape, ControlShape
<1>8. CASE WaitForIdle(TRUE) \/ WaitForIdle(FALSE) \/ Compact
  BY <1>1, <1>2, <1>8 DEF WaitForIdle, Compact, AbortRun, ManualShape, ControlShape
<1>9. CASE abortCompaction
  BY <1>1, <1>9 DEF abortCompaction, ManualHasController, ControlShape, Controller
<1>10. CASE UNCHANGED <<ctl, manual>>
  BY <1>1, <1>10 DEF ManualHasController
<1>. QED  BY <1>4, <1>5, <1>6, <1>7, <1>8, <1>9, <1>10 DEF Next, ManualStep, HostCall, vars,
          Queue, clearQueue, sendCustomMessage, recordBashResult, setSessionName, NavigateTree, Navigated

\* A retry has its abort controller during the backoff.
RetryHasController == (ctl.retry # "none") = (\E p \in Prompts : pc[p] = "backoff")

\* Every step keeps it so.
LEMMA RetryControllerStep ==
    ASSUME IndInv, [Next]_vars
    PROVE  RetryHasController'
<1>1. RetryHasController /\ ControlShape /\ PhaseShape
  BY StateFacts DEF Exclusion, RetryHasController
<1>2. ASSUME NEW p \in Prompts, NEW where, Goto(p, where), pc[p] # "backoff", where # "backoff",
             ctl'.retry = ctl.retry
      PROVE  RetryHasController'
  BY <1>1, <1>2 DEF Goto, RetryHasController, PhaseShape
<1>3. ASSUME UNCHANGED pc, ctl'.retry = "none" <=> ctl.retry = "none"
      PROVE  RetryHasController'
  BY <1>1, <1>3 DEF RetryHasController
<1>4. ASSUME NEW p \in Prompts, NEW post, NEW again, CheckReturns(p, post, again), pc[p] # "backoff",
             ctl'.retry = ctl.retry
      PROVE  RetryHasController'
  BY <1>2, <1>4 DEF CheckReturns
<1>5. ASSUME NEW p \in Prompts, NEW i, NEW post, CheckCompaction(p, i, post), pc[p] # "backoff",
             ctl'.retry = ctl.retry
      PROVE  RetryHasController'
  BY <1>2, <1>4, <1>5 DEF CheckCompaction
<1>6. ASSUME NEW p \in Prompts, NEW again, CompactionReturns(p, again), pc[p] # "backoff"
      PROVE  RetryHasController'
  BY <1>1, <1>4, <1>6 DEF CompactionReturns, ControlShape
<1>7. ASSUME NEW p \in Prompts, NEW kinds, RunAgentPrompt(p, kinds), pc[p] # "backoff", UNCHANGED ctl
      PROVE  RetryHasController'
  BY <1>2, <1>7 DEF RunAgentPrompt, StartRun
<1>8. ASSUME NEW p \in Prompts, Prompt(p) \/ Submit(p) \/ Build(p) \/ Finally(p) \/ ResolveIdleWaitIfIdle(p)
      PROVE  RetryHasController'
  BY <1>2, <1>8 DEF Prompt, Submit, Build, Finally, ResolveIdleWaitIfIdle
<1>9. ASSUME NEW p \in Prompts, TriggerTurn(p) PROVE RetryHasController'
  BY <1>7, <1>9 DEF TriggerTurn
<1>10. ASSUME NEW p \in Prompts, BeforeAgentStart(p) PROVE RetryHasController'
  BY <1>7, <1>10 DEF BeforeAgentStart
<1>11. ASSUME NEW p \in Prompts, Authorize(p) PROVE RetryHasController'
  BY <1>2, <1>5, <1>11 DEF Authorize
<1>12. ASSUME NEW p \in Prompts, CompactAuth(p) PROVE RetryHasController'
  BY <1>1, <1>2, <1>6, <1>12 DEF CompactAuth, ControlShape
<1>13. ASSUME NEW p \in Prompts, CompactSummary(p) \/ CompactEvent(p) PROVE RetryHasController'
  BY <1>2, <1>6, <1>13 DEF CompactSummary, CompactEvent
<1>14. ASSUME NEW p \in Prompts, Respond(p) \/ ToolResult(p) PROVE RetryHasController'
  <2>1. CASE Respond(p)
    BY <2>1, <1>3 DEF Respond, calls
  <2>2. CASE ToolResult(p)
    BY <2>2, <1>3 DEF ToolResult, calls
  <2>. QED  BY <1>14, <2>1, <2>2
<1>15. ASSUME NEW p \in Prompts, EndTurn(p) PROVE RetryHasController'
  <2>1. UNCHANGED ctl /\ pc[p] = "run" /\ (UNCHANGED pc \/ Goto(p, "post"))
    BY <1>15 DEF EndTurn
  <2>. QED  BY <2>1, <1>2, <1>3
<1>16. ASSUME NEW p \in Prompts, HandlePostAgentRun(p) PROVE RetryHasController'
  <2>1. CASE Goto(p, "finally") /\ UNCHANGED ctl
    BY <2>1, <1>2, <1>16 DEF HandlePostAgentRun
  <2>2. CASE Goto(p, "backoff") /\ ctl' = [ctl EXCEPT !.retry = "live"]
    BY <2>2, <1>1 DEF Goto, RetryHasController, PhaseShape, ControlShape
  <2>3. CASE CheckCompaction(p, lastAssistant, TRUE) /\ UNCHANGED ctl
    BY <2>3, <1>5, <1>16 DEF HandlePostAgentRun
  <2>. QED  BY <1>16, <2>1, <2>2, <2>3 DEF HandlePostAgentRun
<1>17. ASSUME NEW p \in Prompts, Backoff(p) PROVE RetryHasController'
  <2>1. ctl'.retry = "none" /\ pc[p] = "backoff"
    BY <1>1, <1>17 DEF Backoff, ControlShape
  <2>2. \A q \in Prompts \ {p} : pc[q] # "backoff"
    BY <2>1, StateFacts DEF Exclusion, InRun
  <2>3. ASSUME NEW where, Goto(p, where), where # "backoff"
        PROVE  RetryHasController'
    BY <2>1, <2>2, <2>3, <1>1 DEF Goto, RetryHasController, PhaseShape
  <2>4. CASE Goto(p, "resume")
    BY <2>3, <2>4
  <2>5. CASE CheckCompaction(p, local[p].msg, TRUE)
    BY <2>3, <2>5 DEF CheckCompaction, CheckReturns
  <2>. QED  BY <1>17, <2>4, <2>5 DEF Backoff
<1>18. ASSUME NEW p \in Prompts, Continue(p) PROVE RetryHasController'
  BY <1>2, <1>18 DEF Continue, StartRun
<1>19. CASE ManualStep
  BY <1>1, <1>3, <1>19 DEF ManualStep, ManualReady, ManualAuth, ManualSummary, ManualEvent, ManualOver,
     ControlShape, calls
<1>20. CASE WaitForIdle(TRUE) \/ WaitForIdle(FALSE) \/ Compact
  BY <1>1, <1>3, <1>20 DEF WaitForIdle, Compact, AbortRun, ControlShape, calls
<1>21. CASE abortCompaction
  BY <1>1, <1>3, <1>21 DEF abortCompaction, ControlShape, calls
<1>22. CASE UNCHANGED <<ctl, pc>>
  BY <1>3, <1>22
<1>. QED  BY <1>8, <1>9, <1>10, <1>11, <1>12, <1>13, <1>14, <1>15, <1>16, <1>17, <1>18, <1>19,
          <1>20, <1>21, <1>22 DEF Next, PromptStep, HostCall, vars, calls, Queue, clearQueue,
          sendCustomMessage, recordBashResult, setSessionName, NavigateTree, Navigated

\* Every step keeps the calls apart and the controllers where they belong.
LEMMA ExclusionStep ==
    ASSUME Overlap = FALSE, IndInv, [Next]_vars
    PROVE  Exclusion'
<1>1. Apart'
  BY ApartStep, Zenon
<1>2. HolderRuns'
  BY HolderStep
<1>3. ManualHasController'
  BY ManualControllerStep
<1>4. RetryHasController'
  BY RetryControllerStep
<1>5. \A p \in Prompts : /\ InPreflight(p)' <=> Place(p)' \in {"input", "preflight"}
                         /\ InRun(p)' <=> Place(p)' = "run"
                         /\ Place(p)' = "input" <=> pc'[p] = "input"
                         /\ Place(p)' \in {"input", "preflight", "run", "out"}
  BY PlacesNext
<1>6. /\ \A p \in Prompts : InRun(p)' => active'
      /\ \A p, q \in Prompts : InRun(p)' /\ InRun(q)' => p = q
      /\ \A p, q \in Prompts : InPreflight(p)' /\ InPreflight(q)' => p = q
      /\ \A p \in Prompts : InPreflight(p)' /\ pc'[p] # "input" => ~active'
  BY <1>1, <1>5 DEF Apart
<1>7. /\ manual'.at # "out" => \A p \in Prompts : ~InPreflight(p)'
      /\ manual'.at \notin {"out", "idle"} => ~active'
      /\ nav'.to # None => ~active' /\ manual'.at = "out" /\ \A p \in Prompts : ~InPreflight(p)'
  BY <1>1, <1>5 DEF Apart
<1>. QED  BY <1>2, <1>3, <1>4, <1>6, <1>7 DEF Exclusion, HolderRuns, ManualHasController, RetryHasController
--------------------------------------------------------------------------------
(* Transcript: what a step may do to the branch and to the agent's messages.     *)

Plain == {"user", "custom", "bash"}

\* Messages are pushed.
PushSome == \E ks \in Seq(Plain) : Push(ks)
PushResponse == \E kind \in Assistant : Push(<<kind>>)

\* The result of a call that is among the agent's messages.
PushResult ==
    /\ FollowsCall(branch, Len(branch) + 1)
    /\ \A x : Missing(branch, messages, x) => ~LastMessage(branch, x)
    /\ Push(<<"result">>)

\* Metadata is appended.
Labels == branch' = Append(branch, Entry("meta")) /\ messages' = messages

\* A compaction is published, with a cut point that is good for the branch.
Publishes == \E cut \in Nat : GoodCut(branch, cut, Len(branch)) /\ Publish(cut)

\* The failed response at the end is removed from the agent's messages.
RemovesFailed ==
    /\ branch' = branch /\ messages # <<>> /\ KindAt(Last(messages)) \in Failed
    /\ messages' = Front(messages)

\* The leaf moves back.
GoesBack ==
    /\ nav.to \in 0..Len(branch) /\ nav'.to = None
    /\ \E es \in {<<>>, <<Entry("summary")>>} : branch' = SubSeq(branch, 1, nav.to) \o es
    /\ messages' = buildSessionContext(branch')

Effect ==
    \/ UNCHANGED transcript \/ Labels \/ PushSome \/ PushResponse \/ PushResult \/ Publishes
    \/ RemovesFailed \/ GoesBack

\* The branch only gets longer.
Grown ==
    /\ Len(branch) \in Nat /\ Len(branch') \in Nat /\ Len(branch) <= Len(branch')
    /\ \A i \in 1..Len(branch) : branch'[i] = branch[i]

\* Messages pushed to a branch and to messages that match it match again.
LEMMA PushKeeps ==
    ASSUME Sound(branch), Matches(branch, messages), NEW ks \in Seq(Kinds \ {"compaction", "meta"}),
           \A k \in DOMAIN ks : ks[k] = "result" =>
               /\ k = 1 /\ FollowsCall(branch, Len(branch) + 1)
               /\ \A x : Missing(branch, messages, x) => ~LastMessage(branch, x),
           Push(ks)
    PROVE  Sound(branch') /\ Matches(branch', messages') /\ Grown
<1>. DEFINE es == [i \in DOMAIN ks |-> Entry(ks[i])]
            is == Indices(Len(branch) + 1, Len(branch) + Len(ks))
<1>1. DOMAIN ks = 1..Len(ks) /\ Len(ks) \in Nat /\ Len(branch) \in Nat
  BY DEF Sound
<1>2. \A i \in DOMAIN ks : Entry(ks[i]) \in BranchEntry
  BY DEF Entry, BranchEntry
<1>3. es \in Seq(BranchEntry) /\ Len(es) = Len(ks) /\ DOMAIN es = DOMAIN ks
      /\ \A i \in DOMAIN ks : es[i] = Entry(ks[i])
  BY <1>1, <1>2
<1>4. \A k \in DOMAIN es : /\ es[k].kind = ks[k] /\ es[k].kept = 0
                           /\ es[k].kind \notin {"compaction", "meta"}
  BY <1>3 DEF Entry
<1>5. is = [i \in 1..Len(ks) |-> Len(branch) + i]
  BY <1>1 DEF Indices
<1>6. is \in Seq(Nat) /\ Len(is) = Len(ks) /\ \A k \in DOMAIN is : is[k] = Len(branch) + k
  BY <1>1, <1>5
<1>7. branch' = branch \o es /\ messages' = messages \o is
  BY DEF Push
<1>. HIDE DEF es, is
<1>8. Sound(branch \o es)
  BY <1>3, <1>4, ExtendSound
<1>9. Matches(branch \o es, messages \o is)
  BY <1>3, <1>4, <1>6, MatchesPush
<1>10. ks \in Seq(Kinds)
  BY SeqOver
<1>11. Grown
  BY <1>10, Pushed DEF Grown
<1>. QED  BY <1>7, <1>8, <1>9, <1>11

\* The messages a step pushes are of these kinds.
LEMMA PlainKinds ==
    /\ Plain \subseteq Kinds \ {"compaction", "meta", "result"}
    /\ Assistant \subseteq Kinds \ {"compaction", "meta", "result"}
    /\ {"user", "custom"} \subseteq Plain
BY DEF Plain, Kinds, Assistant, Failed, Unrecoverable

\* Whatever a step does, the branch stays sound and the messages match it.
LEMMA EffectKeeps ==
    ASSUME Sound(branch), Matches(branch, messages), Effect
    PROVE  /\ Sound(branch') /\ Matches(branch', messages')
           /\ Grown \/ GoesBack
<1>1. branch \in Seq(BranchEntry) /\ Len(branch) \in Nat
  BY DEF Sound
<1>2. CASE UNCHANGED transcript
  BY <1>1, <1>2 DEF transcript, Grown
<1>3. CASE Labels
  <2>1. Sound(branch') /\ Matches(branch', messages')
    BY <1>3, MatchesMeta DEF Labels
  <2>2. Grown
    BY <1>1, <1>3 DEF Labels, Grown
  <2>. QED  BY <2>1, <2>2
<1>4. CASE PushSome
  <2>1. PICK ks \in Seq(Plain) : Push(ks)
    BY <1>4 DEF PushSome
  <2>2. ks \in Seq(Kinds \ {"compaction", "meta"}) /\ \A k \in DOMAIN ks : ks[k] # "result"
    BY PlainKinds, SeqOver
  <2>. QED  BY <2>1, <2>2, PushKeeps
<1>5. CASE PushResponse
  <2>1. PICK kind \in Assistant : Push(<<kind>>)
    BY <1>5 DEF PushResponse
  <2>2. <<kind>> \in Seq(Kinds \ {"compaction", "meta"}) /\ \A k \in DOMAIN <<kind>> : <<kind>>[k] # "result"
    BY PlainKinds
  <2>. QED  BY <2>1, <2>2, PushKeeps
<1>6. CASE PushResult
  <2>1. /\ <<"result">> \in Seq(Kinds \ {"compaction", "meta"})
        /\ \A k \in DOMAIN <<"result">> : k = 1
    BY DEF Kinds
  <2>. QED  BY <1>6, <2>1, PushKeeps DEF PushResult
<1>7. CASE Publishes
  <2>1. PICK cut \in Nat : GoodCut(branch, cut, Len(branch)) /\ Publish(cut)
    BY <1>7 DEF Publishes
  <2>2. PICK g \in cut..Len(branch) : branch[g].kind \notin {"result", "compaction", "meta"}
    BY <2>1 DEF GoodCut
  <2>3. g \in DOMAIN branch /\ branch[g].kind # "meta"
    BY <1>1, <2>1, <2>2 DEF GoodCut
  <2>4. PICK e \in DOMAIN branch : LastMessage(branch, e)
    BY <2>3, HasLast
  <2>5. Sound(branch') /\ Matches(branch', messages')
    BY <2>1, <2>4, Published DEF Publish
  <2>6. Grown
    BY <1>1, <2>1 DEF Publish, Grown
  <2>. QED  BY <2>5, <2>6
<1>8. CASE RemovesFailed
  <2>1. Matches(branch, Front(messages))
    BY <1>8, MatchesFront DEF RemovesFailed, KindAt
  <2>. QED  BY <1>1, <1>8, <2>1 DEF RemovesFailed, Grown
<1>9. CASE GoesBack
  <2>1. PICK es \in {<<>>, <<Entry("summary")>>} : branch' = SubSeq(branch, 1, nav.to) \o es
    BY <1>9 DEF GoesBack
  <2>2. Sound(SubSeq(branch, 1, nav.to))
    BY <1>9, PrefixSound DEF GoesBack
  <2>3. Entry("summary") \in BranchEntry /\ Entry("summary").kind = "summary" /\ Entry("summary").kept = 0
    BY DEF Entry, BranchEntry, Kinds
  <2>4. /\ es \in Seq(BranchEntry)
        /\ \A k \in DOMAIN es : es[k].kind = "summary" /\ es[k].kept = 0
    <3>1. CASE es = <<>>
      BY <3>1
    <3>2. CASE es = <<Entry("summary")>>
      BY <3>2, <2>3
    <3>. QED  BY <3>1, <3>2
  <2>5. Sound(branch')
    BY <2>1, <2>2, <2>4, ExtendSound
  <2>6. messages' = buildSessionContext(branch')
    BY <1>9 DEF GoesBack
  <2>. QED  BY <1>9, <2>5, <2>6, ContextMatches
<1>. QED  BY <1>2, <1>3, <1>4, <1>5, <1>6, <1>7, <1>8, <1>9 DEF Effect
\* When the agent's messages end with a response it is the latest of them.
LEMMA LastResponse ==
    ASSUME Matches(branch, messages), NEW i \in ToSet(messages), IsAssistant(i),
           \A j \in ToSet(messages) : IsAssistant(j) => j <= i,
           Sound(branch), messages # <<>>, IsAssistant(Last(messages))
    PROVE  Last(messages) = i
<1>1. /\ messages \in Seq(Nat) /\ Len(messages) \in Nat /\ DOMAIN messages = 1..Len(messages)
      /\ Len(messages) \in DOMAIN messages /\ Last(messages) = messages[Len(messages)]
  BY DEF Matches, Last
<1>2. PICK n \in DOMAIN messages : messages[n] = i
  BY DEF ToSet
<1>3. Last(messages) <= i /\ Last(messages) \in Nat /\ i \in Nat
  BY <1>1, <1>2 DEF ToSet
<1>4. i # LatestCompaction(branch)
  <2>1. LatestCompaction(branch) # 0 => branch[LatestCompaction(branch)].kind = "compaction"
    BY StartFacts
  <2>2. i \in ContextEntries(branch)
    BY <1>2 DEF Matches
  <2>3. i # 0
    BY <2>2, ContextFacts
  <2>. QED  BY <2>1, <2>3 DEF IsAssistant, KindAt, Assistant, Failed, Unrecoverable
<1>5. ASSUME n < Len(messages) PROVE FALSE
  <2>1. Precedes(branch, i, Last(messages))
    BY <1>1, <1>2, <1>5 DEF Matches
  <2>. QED  BY <2>1, <1>3, <1>4 DEF Precedes
<1>6. n = Len(messages)
  BY <1>1, <1>2, <1>5
<1>. QED  BY <1>1, <1>2, <1>6

\* The response that _handlePostAgentRun looks at is the latest of the agent's messages.
LEMMA AnswerIsLatest ==
    ASSUME Sound(branch), Matches(branch, messages), LastAnswer
    PROVE  /\ lastAssistant \in ToSet(messages) /\ IsAssistant(lastAssistant)
           /\ \A j \in ToSet(messages) : IsAssistant(j) => j <= lastAssistant
<1>1. ASSUME NEW j \in ToSet(messages), IsAssistant(j), ~(j <= lastAssistant)
      PROVE  FALSE
  <2>1. j \in ContextEntries(branch)
    BY DEF Matches, ToSet
  <2>2. j \in 1..Len(branch) /\ Len(branch) \in Nat
    BY <2>1, ContextFacts
  <2>3. lastAssistant \in 1..Len(branch)
    BY DEF LastAnswer, Sound
  <2>4. j \in (lastAssistant + 1)..Len(branch)
    BY <1>1, <2>2, <2>3
  <2>. QED  BY <1>1, <2>4 DEF LastAnswer, IsAssistant
<1>. QED  BY <1>1 DEF LastAnswer

\* So is the response the check before a prompt looks at.
LEMMA MaxIsLatest ==
    ASSUME Sound(branch), Matches(branch, messages),
           NEW R, R = {i \in ToSet(messages) : IsAssistant(i)}, R # {}
    PROVE  /\ Max(R) \in ToSet(messages) /\ IsAssistant(Max(R))
           /\ \A j \in ToSet(messages) : IsAssistant(j) => j <= Max(R)
<1>1. R \subseteq ContextEntries(branch)
  BY DEF Matches, ToSet
<1>2. R \in SUBSET Nat /\ IsFiniteSet(R)
  BY <1>1, ContextFacts, FS_Subset
<1>. QED  BY <1>2, HasMax

\* The check removes a response only if it is the one looked at, and that one failed.
LEMMA CheckRemoves ==
    ASSUME Sound(branch), Matches(branch, messages), NEW p \in Prompts, NEW post,
           NEW i \in ToSet(messages), IsAssistant(i),
           \A j \in ToSet(messages) : IsAssistant(j) => j <= i,
           CheckCompaction(p, i, post)
    PROVE  \/ messages' = messages
           \/ (messages # <<>> /\ KindAt(Last(messages)) \in Failed /\ messages' = Front(messages))
<1>1. CASE UNCHANGED messages
  BY <1>1
<1>2. CASE RemoveLastAssistant /\ KindAt(i) \in Failed \ {"error"}
  BY <1>2, LastResponse DEF RemoveLastAssistant
<1>. QED  BY <1>1, <1>2 DEF CheckCompaction

\* While a tool runs, the last entry of the context is its call, which is not missing.
LEMMA CallIsThere ==
    ASSUME Sound(branch), LastAnswer, FollowsCall(branch, Len(branch) + 1),
           NEW x, Missing(branch, messages, x)
    PROVE  ~LastMessage(branch, x)
<1>1. Len(branch) \in Nat /\ DOMAIN branch = 1..Len(branch)
  BY DEF Sound
<1>2. PICK t \in 1..Len(branch) : /\ branch[t].kind \in Calling
                                  /\ \A k \in (t + 1)..Len(branch) : branch[k].kind = "meta"
  BY <1>1 DEF FollowsCall
<1>3. /\ lastAssistant \in 1..Len(branch) /\ lastAssistant \in ToSet(messages)
      /\ branch[lastAssistant].kind \in Assistant
      /\ \A k \in (lastAssistant + 1)..Len(branch) : branch[k].kind \notin Assistant
  BY <1>1 DEF LastAnswer, IsAssistant, KindAt
<1>4. Calling \subseteq Assistant /\ "meta" \notin Assistant
  BY DEF Calling, Assistant, Failed, Unrecoverable
<1>5. t \notin (lastAssistant + 1)..Len(branch) /\ lastAssistant \notin (t + 1)..Len(branch)
  BY <1>2, <1>3, <1>4
<1>6. t = lastAssistant
  BY <1>1, <1>2, <1>3, <1>5
<1>7. x # t
  BY <1>3, <1>6 DEF Missing, ToSet
<1>8. ASSUME LastMessage(branch, x) PROVE FALSE
  <2>1. x \in 1..Len(branch) /\ branch[x].kind # "meta" /\ branch[t].kind # "meta"
    BY <1>1, <1>2, <1>4, <1>8 DEF LastMessage
  <2>2. x \notin (t + 1)..Len(branch) /\ t \notin (x + 1)..Len(branch)
    BY <1>2, <1>8, <2>1 DEF LastMessage
  <2>. QED  BY <1>1, <1>2, <1>7, <2>1, <2>2
<1>. QED  BY <1>8

\* The sequences of kinds that steps push are plain messages.
LEMMA PlainSequences ==
    ASSUME IndInv
    PROVE  /\ PendingMessages \in Seq(Plain) /\ PendingCustom \in Seq(Plain)
           /\ Poll(steering) \in Seq(Plain) /\ Poll(followUp) \in Seq(Plain)
           /\ \A n \in Nat : <<"user">> \o Repeat("custom", n) \in Seq(Plain)
<1>1. \A n \in Nat : Repeat("custom", n) \in Seq(Plain) /\ Repeat("bash", n) \in Seq(Plain)
  BY DEF Repeat, Plain
<1>2. pending.custom \in Nat /\ pending.bash \in Nat
  BY DEF IndInv, Shape
<1>3. steering \in Seq({"user", "custom"}) /\ followUp \in Seq({"user", "custom"})
  BY DEF IndInv, Shape
<1>4. steering \in Seq(Plain) /\ followUp \in Seq(Plain)
  BY <1>3, PlainKinds, SeqOver
<1>5. <<"user">> \in Seq(Plain)
  BY DEF Plain
<1>6. PendingMessages \in Seq(Plain)
  BY <1>1, <1>2, Concat DEF PendingMessages, PendingCustom
<1>7. PendingCustom \in Seq(Plain)
  BY <1>1, <1>2 DEF PendingCustom
<1>8. Poll(steering) \in Seq(Plain) /\ Poll(followUp) \in Seq(Plain)
  BY <1>4, PollFacts
<1>9. \A n \in Nat : <<"user">> \o Repeat("custom", n) \in Seq(Plain)
  BY <1>1, <1>5, Concat
<1>. QED  BY <1>6, <1>7, <1>8, <1>9

\* A run starts with plain messages (StartRun).
LEMMA StartPushes ==
    ASSUME IndInv, NEW p \in Prompts, NEW kinds \in Seq(Plain), NEW polled \in Seq(Plain),
           StartRun(p, kinds, polled)
    PROVE  PushSome
<1>1. kinds \o polled \in Seq(Plain)
  BY Concat
<1>. QED  BY <1>1 DEF StartRun, PushSome

\* What _handlePostAgentRun does to the messages.
LEMMA PostRemoves ==
    ASSUME IndInv, NEW p \in Prompts, HandlePostAgentRun(p)
    PROVE  UNCHANGED transcript \/ RemovesFailed
<1>1. LastAnswer
  BY DEF IndInv, Transcript, Answered, HandlePostAgentRun
<1>2. Sound(branch) /\ Matches(branch, messages)
  BY DEF IndInv, Transcript
<1>3. /\ lastAssistant \in ToSet(messages) /\ IsAssistant(lastAssistant)
      /\ \A j \in ToSet(messages) : IsAssistant(j) => j <= lastAssistant
  BY <1>1, <1>2, AnswerIsLatest
<1>4. branch' = branch
  BY DEF HandlePostAgentRun
<1>5. CASE UNCHANGED messages
  BY <1>4, <1>5 DEF transcript
<1>6. CASE CheckCompaction(p, lastAssistant, TRUE)
  BY <1>2, <1>3, <1>4, <1>6, CheckRemoves DEF RemovesFailed, transcript
<1>7. CASE KindAt(lastAssistant) = "error" /\ RemoveLastAssistant
  BY <1>2, <1>3, <1>4, <1>7, LastResponse DEF RemoveLastAssistant, RemovesFailed, Failed, transcript
<1>. QED  BY <1>5, <1>6, <1>7 DEF HandlePostAgentRun

\* What the check before a prompt does to the messages.
LEMMA AuthorizeRemoves ==
    ASSUME IndInv, NEW p \in Prompts, Authorize(p)
    PROVE  UNCHANGED transcript \/ RemovesFailed
<1>. DEFINE R == {i \in ToSet(messages) : IsAssistant(i)}
<1>2. Sound(branch) /\ Matches(branch, messages)
  BY DEF IndInv, Transcript
<1>3. branch' = branch
  BY DEF Authorize
<1>4. CASE UNCHANGED messages
  BY <1>3, <1>4 DEF transcript
<1>5. CASE R # {} /\ CheckCompaction(p, Max(R), FALSE)
  <2>1. /\ Max(R) \in ToSet(messages) /\ IsAssistant(Max(R))
        /\ \A j \in ToSet(messages) : IsAssistant(j) => j <= Max(R)
    BY <1>2, <1>5, MaxIsLatest
  <2>. HIDE DEF R
  <2>2. \/ messages' = messages
        \/ (messages # <<>> /\ KindAt(Last(messages)) \in Failed /\ messages' = Front(messages))
    BY <1>2, <1>5, <2>1, CheckRemoves
  <2>. QED  BY <1>3, <2>2 DEF RemovesFailed, transcript
<1>. QED  BY <1>4, <1>5 DEF Authorize

\* An aborted backoff leaves the messages alone: an error is no overflow.
LEMMA BackoffKeeps ==
    ASSUME IndInv, NEW p \in Prompts, Backoff(p)
    PROVE  UNCHANGED transcript
<1>1. KindAt(local[p].msg) = "error" /\ branch' = branch
  BY DEF IndInv, Transcript, Backoff
<1>2. CASE CheckCompaction(p, local[p].msg, TRUE)
  BY <1>1, <1>2 DEF CheckCompaction, transcript
<1>3. CASE UNCHANGED messages
  BY <1>1, <1>3 DEF transcript
<1>. QED  BY <1>2, <1>3 DEF Backoff

\* After a compaction only a failed response is removed, never a fatal one.
LEMMA EventRemoves ==
    ASSUME IndInv, NEW p \in Prompts, CompactEvent(p)
    PROVE  UNCHANGED transcript \/ RemovesFailed
<1>1. local[p].retry => messages # <<>> /\ KindAt(Last(messages)) \notin Unrecoverable
  BY DEF IndInv, Transcript, CompactEvent
<1>2. branch' = branch /\ pc[p] = "compactEvent"
  BY DEF CompactEvent
<1>3. Errors \cup Truncated \subseteq Failed \cup Unrecoverable
  BY DEF Errors, Truncated, Failed, Unrecoverable
<1>. QED  BY <1>1, <1>2, <1>3 DEF CompactEvent, RemovesFailed, transcript
\* The steps of prompt() before, after and between turns: what they do to the transcript.
LEMMA TurnEffects ==
    ASSUME IndInv, NEW p \in Prompts
    PROVE  /\ TriggerTurn(p) \/ BeforeAgentStart(p) => UNCHANGED transcript \/ PushSome
           /\ Submit(p) => UNCHANGED transcript \/ (~active /\ PushSome)
           /\ EndTurn(p) \/ Finally(p) => PushSome
           /\ Continue(p) => UNCHANGED transcript \/ PushSome
           /\ Respond(p) => PushResponse
           /\ ToolResult(p) => PushResult
           /\ CompactSummary(p) => UNCHANGED transcript \/ Publishes
<1>1. /\ PendingMessages \in Seq(Plain) /\ PendingCustom \in Seq(Plain)
      /\ Poll(steering) \in Seq(Plain) /\ Poll(followUp) \in Seq(Plain)
      /\ \A n \in Nat : <<"user">> \o Repeat("custom", n) \in Seq(Plain)
      /\ <<"custom">> \in Seq(Plain) /\ <<>> \in Seq(Plain)
  BY PlainSequences DEF Plain
<1>2. ASSUME NEW kinds \in Seq(Plain), RunAgentPrompt(p, kinds)
      PROVE  UNCHANGED transcript \/ PushSome
  BY <1>1, <1>2, StartPushes DEF RunAgentPrompt
<1>3. ASSUME TriggerTurn(p) PROVE UNCHANGED transcript \/ PushSome
  BY <1>1, <1>2, <1>3 DEF TriggerTurn
<1>4. ASSUME BeforeAgentStart(p) PROVE UNCHANGED transcript \/ PushSome
  <2>1. local[p].carry \in Nat
    BY StateFacts DEF LocalShape, Local
  <2>2. \A added \in 0..1 : local[p].carry + added \in Nat
    BY <2>1
  <2>3. PICK added \in 0..1 : RunAgentPrompt(p, <<"user">> \o Repeat("custom", local[p].carry + added))
    BY <1>4 DEF BeforeAgentStart
  <2>. QED  BY <1>1, <1>2, <2>2, <2>3
<1>5. ASSUME Submit(p) PROVE UNCHANGED transcript \/ (~active /\ PushSome)
  BY <1>1, <1>5 DEF Submit, PushSome
<1>6. ASSUME EndTurn(p) PROVE PushSome
  <2>. DEFINE D == {<<>>, Poll(steering), Poll(followUp)}
  <2>1. PICK steered \in D, follow \in D : Push(PendingCustom \o (steered \o follow))
    BY <1>6 DEF EndTurn
  <2>2. steered \in Seq(Plain) /\ follow \in Seq(Plain)
    BY <1>1
  <2>3. steered \o follow \in Seq(Plain)
    BY <2>2, Concat
  <2>4. PendingCustom \o (steered \o follow) \in Seq(Plain)
    BY <1>1, <2>3, Concat
  <2>. QED  BY <2>1, <2>4 DEF PushSome
<1>7. ASSUME Finally(p) PROVE PushSome
  BY <1>1, <1>7 DEF Finally, PushSome
<1>8. ASSUME Continue(p) PROVE UNCHANGED transcript \/ PushSome
  <2>1. ASSUME NEW kinds \in {<<>>, Poll(steering), Poll(followUp)},
               NEW polled \in {<<>>, Poll(steering)}, StartRun(p, kinds, polled)
        PROVE  PushSome
    BY <1>1, <2>1, StartPushes
  <2>. QED  BY <1>8, <2>1 DEF Continue
<1>9. ASSUME Respond(p) PROVE PushResponse
  <2>1. PICK kind \in Responses : Push(<<kind>>)
    BY <1>9 DEF Respond
  <2>2. kind \in Assistant
    BY <2>1 DEF Responses, Assistant, Failed, Unrecoverable
  <2>. QED  BY <2>1, <2>2 DEF PushResponse
<1>10. ASSUME ToolResult(p) PROVE PushResult
  <2>1. FollowsCall(branch, Len(branch) + 1) /\ LastAnswer /\ Sound(branch) /\ Push(<<"result">>)
    BY <1>10 DEF IndInv, Transcript, Answered, ToolResult
  <2>. QED  BY <2>1, CallIsThere DEF PushResult
<1>11. ASSUME CompactSummary(p) PROVE UNCHANGED transcript \/ Publishes
  <2>1. GoodCut(branch, local[p].cut, Len(branch)) /\ local[p].cut \in Nat
    BY <1>11, StateFacts DEF IndInv, Transcript, CompactSummary, LocalShape, Local
  <2>. QED  BY <1>11, <2>1 DEF CompactSummary, Publishes
<1>. QED  BY <1>3, <1>4, <1>5, <1>6, <1>7, <1>8, <1>9, <1>10, <1>11

\* Steps of prompt() that leave the transcript alone.
LEMMA QuietSteps ==
    ASSUME NEW p \in Prompts, Prompt(p) \/ CompactAuth(p) \/ Build(p) \/ ResolveIdleWaitIfIdle(p)
    PROVE  UNCHANGED transcript
BY DEF Prompt, CompactAuth, Build, ResolveIdleWaitIfIdle

\* The calls of the host: what they do to the transcript.
LEMMA HostEffects ==
    ASSUME IndInv, HostCall
    PROVE  UNCHANGED transcript \/ Labels \/ (~active /\ PushSome)
<1>1. <<"custom">> \in Seq(Plain) /\ <<"bash">> \in Seq(Plain)
  BY DEF Plain
<1>2. CASE sendCustomMessage \/ recordBashResult
  BY <1>1, <1>2 DEF sendCustomMessage, recordBashResult, PushSome
<1>3. CASE setSessionName
  BY <1>3 DEF setSessionName, Labels
<1>4. CASE HostCall /\ ~sendCustomMessage /\ ~recordBashResult /\ ~setSessionName
  BY <1>4 DEF HostCall, Queue, clearQueue, WaitForIdle, abortCompaction, Compact, NavigateTree
<1>. QED  BY <1>2, <1>3, <1>4

\* Compaction by hand and navigation: what they do to the transcript.
LEMMA ManualEffects ==
    ASSUME IndInv, ManualStep \/ Navigated
    PROVE  UNCHANGED transcript \/ (ManualSummary /\ Publishes) \/ (Navigated /\ GoesBack)
<1>1. CASE ManualReady \/ ManualAuth \/ ManualEvent
  BY <1>1 DEF ManualReady, ManualAuth, ManualEvent
<1>2. CASE ManualSummary
  <2>1. GoodCut(branch, manual.cut, Len(branch)) /\ manual.cut \in Nat
    BY <1>2, StateFacts DEF IndInv, Transcript, ManualSummary, ManualShape
  <2>. QED  BY <1>2, <2>1 DEF ManualSummary, Publishes
<1>3. CASE Navigated
  <2>1. nav.to \in Nat \cup {None} /\ Len(branch) \in Nat /\ nav.to # None
    BY <1>3 DEF IndInv, Shape, Transcript, Sound, Navigated
  <2>2. nav.to \in 0..Len(branch)
    BY <2>1 DEF IndInv, Transcript
  <2>. QED  BY <1>3, <2>2 DEF Navigated, GoesBack
<1>. QED  BY <1>1, <1>2, <1>3 DEF ManualStep

\* Every step has one of these effects.
LEMMA EffectStep ==
    ASSUME IndInv, [Next]_vars
    PROVE  Effect
<1>1. ASSUME NEW p \in Prompts, Prompt(p) \/ TriggerTurn(p) \/ PromptStep(p)
      PROVE  Effect
  <2>1. CASE Prompt(p) \/ CompactAuth(p) \/ Build(p) \/ ResolveIdleWaitIfIdle(p)
    BY <2>1, QuietSteps DEF Effect
  <2>2. CASE Authorize(p)
    BY <2>2, AuthorizeRemoves DEF Effect
  <2>3. CASE HandlePostAgentRun(p)
    BY <2>3, PostRemoves DEF Effect
  <2>4. CASE Backoff(p)
    BY <2>4, BackoffKeeps DEF Effect
  <2>5. CASE CompactEvent(p)
    BY <2>5, EventRemoves DEF Effect
  <2>6. CASE TriggerTurn(p) \/ BeforeAgentStart(p) \/ Submit(p) \/ EndTurn(p) \/ Finally(p)
              \/ Continue(p) \/ Respond(p) \/ ToolResult(p) \/ CompactSummary(p)
    BY <2>6, TurnEffects DEF Effect
  <2>. QED  BY <1>1, <2>1, <2>2, <2>3, <2>4, <2>5, <2>6 DEF PromptStep
<1>2. CASE ManualStep \/ Navigated
  BY <1>2, ManualEffects DEF Effect
<1>3. CASE HostCall
  BY <1>3, HostEffects DEF Effect
<1>4. CASE UNCHANGED vars
  BY <1>4 DEF vars, Effect, transcript
<1>. QED  BY <1>1, <1>2, <1>3, <1>4 DEF Next
--------------------------------------------------------------------------------
(* What may happen to a call that is past its input handlers, or in its run,     *)
(* between its own steps.                                                        *)

Engaged(p) == InRun(p) \/ (InPreflight(p) /\ pc[p] # "input")

\* Only one call is engaged at a time.
LEMMA EngagedAlone ==
    ASSUME IndInv, NEW p \in Prompts, NEW q \in Prompts, Engaged(p), Engaged(q)
    PROVE  p = q
BY StateFacts DEF Exclusion, Engaged

\* The transcript a call finds is the one it left, but for metadata and, before its
\* run, messages that were not deferred; a run was at most aborted.
Undisturbed(p) ==
    /\ pc'[p] = pc[p] /\ local'[p] = local[p]
    /\ UNCHANGED <<lastAssistant, retryAttempt, recovered>>
    /\ agent'.phase = agent.phase /\ agent'.run = agent.run
    /\ UNCHANGED transcript \/ Labels \/ (~active /\ PushSome)
    /\ tries' = tries \/ tries' = [tries EXCEPT !.retries = 0]
    /\ ctl'.retry = ctl.retry \/ tries'.retries = 0

\* Steps of other calls, of the host and of compact() leave an engaged call undisturbed.
LEMMA Meanwhile ==
    ASSUME Overlap = FALSE, IndInv, NEW p \in Prompts, Engaged(p), [Next]_vars, ~PromptStep(p)
    PROVE  Undisturbed(p)
<1>1. PhaseShape /\ LocalShape /\ AgentShape /\ ControlShape /\ ManualShape /\ Exclusion
  BY StateFacts
<1>2. /\ pc[p] \notin {"out", "input", "settled"}
      /\ InPreflight(p) => ~active /\ manual.at = "out" /\ nav.to = None
      /\ InRun(p) => active /\ manual.at \in {"out", "idle"} /\ nav.to = None
  BY <1>1 DEF Engaged, Exclusion, InRun, InPreflight, Compacting
<1>3. ASSUME NEW q \in Prompts, Prompt(q) \/ TriggerTurn(q) \/ PromptStep(q)
      PROVE  Undisturbed(p)
  <2>1. CASE TriggerTurn(q)
    BY <1>2, <2>1 DEF TriggerTurn, Quiet, Engaged
  <2>2. q # p \/ TriggerTurn(q)
    BY <1>2, <1>3 DEF Prompt
  <2>3. CASE q # p /\ Prompt(q)
    <3>1. UNCHANGED transcript
      BY <2>3, QuietSteps
    <3>. QED  BY <2>3, <3>1, <1>1 DEF Prompt, Goto, Undisturbed, PhaseShape
  <2>4. CASE q # p /\ Submit(q)
    <3>1. UNCHANGED transcript \/ (~active /\ PushSome)
      BY <2>4, TurnEffects
    <3>2. UNCHANGED <<local, lastAssistant, retryAttempt, recovered, agent, tries, ctl>>
      BY <2>4 DEF Submit
    <3>3. pc'[p] = pc[p]
      BY <2>4, <1>1 DEF Submit, Goto, PhaseShape
    <3>. QED  BY <3>1, <3>2, <3>3 DEF Undisturbed
  <2>5. CASE q # p /\ ResolveIdleWaitIfIdle(q)
    <3>1. UNCHANGED transcript
      BY <2>5, QuietSteps
    <3>2. UNCHANGED <<local, lastAssistant, retryAttempt, recovered, agent, tries, ctl>>
      BY <2>5 DEF ResolveIdleWaitIfIdle
    <3>3. pc'[p] = pc[p]
      BY <2>5, <1>1 DEF ResolveIdleWaitIfIdle, Goto, PhaseShape
    <3>. QED  BY <3>1, <3>2, <3>3 DEF Undisturbed
  <2>6. CASE q # p /\ PromptStep(q) /\ ~Submit(q) /\ ~ResolveIdleWaitIfIdle(q)
    <3>1. CASE Authorize(q) \/ CompactAuth(q) \/ CompactSummary(q) \/ CompactEvent(q)
      <4>1. pc[q] \in {"auth"} \cup Compacting
        BY <3>1 DEF Authorize, CompactAuth, CompactSummary, CompactEvent, Compacting
      <4>2. local[q].post \in BOOLEAN
        BY <1>1 DEF LocalShape, Local
      <4>3. Engaged(q)
        BY <4>1, <4>2 DEF Engaged, InRun, InPreflight, Compacting
      <4>. QED  BY <2>6, <4>3, EngagedAlone
    <3>2. CASE Build(q) \/ BeforeAgentStart(q)
      <4>1. Engaged(q)
        BY <3>2 DEF Build, BeforeAgentStart, Engaged, InPreflight
      <4>. QED  BY <2>6, <4>1, EngagedAlone
    <3>3. CASE Respond(q) \/ ToolResult(q) \/ EndTurn(q)
      <4>1. pc[q] = "run"
        <5>1. CASE Respond(q)
          BY <5>1 DEF Respond
        <5>2. CASE ToolResult(q)
          BY <5>2 DEF ToolResult
        <5>3. CASE EndTurn(q)
          BY <5>3 DEF EndTurn
        <5>. QED  BY <3>3, <5>1, <5>2, <5>3
      <4>. QED  BY <2>6, <4>1, EngagedAlone DEF Engaged, InRun
    <3>4. CASE HandlePostAgentRun(q) \/ Backoff(q) \/ Continue(q) \/ Finally(q)
      <4>1. pc[q] \in {"post", "backoff", "resume", "finally"}
        BY <3>4 DEF HandlePostAgentRun, Backoff, Continue, Finally
      <4>. QED  BY <2>6, <4>1, EngagedAlone DEF Engaged, InRun
    <3>. QED  BY <2>6, <3>1, <3>2, <3>3, <3>4 DEF PromptStep
  <2>. QED  BY <1>3, <2>1, <2>2, <2>3, <2>4, <2>5, <2>6 DEF PromptStep
<1>4. CASE ManualStep \/ Navigated
  <2>1. manual.at \in {"ready", "auth", "summary", "event"} \/ nav.to # None
    BY <1>4 DEF ManualStep, ManualReady, ManualAuth, ManualSummary, ManualEvent, Navigated
  <2>. QED  BY <1>2, <2>1 DEF Engaged
<1>5. CASE HostCall
  <2>1. UNCHANGED transcript \/ Labels \/ (~active /\ PushSome)
    BY <1>5, HostEffects
  <2>2. UNCHANGED <<pc, local, lastAssistant, retryAttempt, recovered>>
    BY <1>5 DEF HostCall, Queue, clearQueue, sendCustomMessage, recordBashResult, setSessionName,
       WaitForIdle, abortCompaction, Compact, NavigateTree, calls
  <2>3. /\ agent'.phase = agent.phase /\ agent'.run = agent.run
        /\ tries' = tries \/ tries' = [tries EXCEPT !.retries = 0]
        /\ ctl'.retry = ctl.retry \/ tries'.retries = 0
    <3>1. CASE WaitForIdle(TRUE) \/ WaitForIdle(FALSE) \/ Compact
      <4>1. AbortRun \/ UNCHANGED <<agent, ctl, tries>>
        BY <3>1 DEF WaitForIdle, Compact
      <4>2. tries \in [retries : Nat, recoveries : Nat, rejected : BOOLEAN]
        BY DEF IndInv, Shape
      <4>. QED  BY <4>1, <4>2, <1>1 DEF AbortRun, AgentShape, ControlShape
    <3>2. CASE abortCompaction
      BY <3>2, <1>1 DEF abortCompaction, ControlShape
    <3>3. CASE UNCHANGED <<agent, ctl, tries>>
      BY <3>3
    <3>. QED  BY <1>5, <3>1, <3>2, <3>3 DEF HostCall, Queue, clearQueue, sendCustomMessage,
              recordBashResult, setSessionName, NavigateTree
  <2>. QED  BY <2>1, <2>2, <2>3 DEF Undisturbed
<1>6. CASE UNCHANGED vars
  BY <1>6 DEF vars, calls, transcript, Undisturbed
<1>. QED  BY <1>3, <1>4, <1>5, <1>6 DEF Next
--------------------------------------------------------------------------------
(* How the ends of the branch and of the messages change.                        *)

\* Entries stay what they are while the branch grows, and cut points stay good.
LEMMA GrownKeeps ==
    ASSUME Sound(branch), Grown
    PROVE  /\ \A i \in DOMAIN branch : branch'[i] = branch[i]
           /\ \A cut \in Nat : GoodCut(branch, cut, Len(branch)) => GoodCut(branch', cut, Len(branch'))
<1>1. branch \in Seq(BranchEntry) /\ DOMAIN branch = 1..Len(branch)
  BY DEF Sound
<1>2. ASSUME NEW cut \in Nat, GoodCut(branch, cut, Len(branch))
      PROVE  GoodCut(branch', cut, Len(branch'))
  <2>1. GoodCut(branch', cut, Len(branch))
    <3>1. Len(branch) \in Nat /\ \A i \in 1..Len(branch) : branch'[i] = branch[i]
      BY DEF Grown
    <3>2. \A c, k \in Nat : k <= Len(branch) /\ GoodCut(branch, c, k) => GoodCut(branch', c, k)
      BY <3>1, AgreeUpTo
    <3>. QED  BY <1>2, <3>1, <3>2
  <2>. QED  BY <2>1, GoodCutGrows DEF Grown
<1>. QED  BY <1>1, <1>2 DEF Grown

\* Metadata changes neither what follows a tool call nor the last message.
LEMMA LabelKeeps ==
    ASSUME Sound(branch), Labels
    PROVE  /\ Len(branch') = Len(branch) + 1 /\ Len(branch) \in Nat
           /\ DOMAIN branch' = 1..Len(branch')
           /\ branch'[Len(branch) + 1].kind = "meta"
           /\ \A i \in 1..Len(branch) : branch'[i] = branch[i]
           /\ FollowsCall(branch, Len(branch) + 1) => FollowsCall(branch', Len(branch') + 1)
           /\ \A e : LastMessage(branch', e) <=> LastMessage(branch, e)
<1>1. branch \in Seq(BranchEntry) /\ Len(branch) \in Nat /\ DOMAIN branch = 1..Len(branch)
  BY DEF Sound
<1>2. Entry("meta") \in BranchEntry /\ Entry("meta").kind = "meta"
  BY DEF Entry, BranchEntry, Kinds
<1>3. /\ branch' \in Seq(BranchEntry) /\ Len(branch') = Len(branch) + 1
      /\ branch'[Len(branch) + 1].kind = "meta"
      /\ \A i \in 1..Len(branch) : branch'[i] = branch[i]
      /\ DOMAIN branch' = 1..Len(branch')
  BY <1>1, <1>2 DEF Labels
<1>4. ASSUME FollowsCall(branch, Len(branch) + 1)
      PROVE  FollowsCall(branch', Len(branch') + 1)
  <2>1. PICK t \in 1..Len(branch) : /\ branch[t].kind \in Calling
                                    /\ \A k \in (t + 1)..Len(branch) : branch[k].kind = "meta"
    BY <1>1, <1>4 DEF FollowsCall
  <2>2. t \in 1..(Len(branch') + 1 - 1) /\ branch'[t].kind \in Calling
    BY <1>1, <1>3, <2>1
  <2>3. ASSUME NEW k \in (t + 1)..(Len(branch') + 1 - 1) PROVE branch'[k].kind = "meta"
    <3>1. k = Len(branch) + 1 \/ k \in (t + 1)..Len(branch)
      BY <1>1, <1>3, <2>1
    <3>. QED  BY <1>1, <1>3, <2>1, <3>1
  <2>. QED  BY <2>2, <2>3 DEF FollowsCall
<1>5. ASSUME NEW e, LastMessage(branch', e) PROVE LastMessage(branch, e)
  <2>1. e \in 1..(Len(branch) + 1) /\ e # Len(branch) + 1
    BY <1>1, <1>3, <1>5 DEF LastMessage
  <2>2. e \in 1..Len(branch)
    BY <1>1, <2>1
  <2>. QED  BY <1>1, <1>3, <1>5, <2>2 DEF LastMessage
<1>6. ASSUME NEW e, LastMessage(branch, e) PROVE LastMessage(branch', e)
  <2>1. e \in 1..Len(branch) /\ e \in DOMAIN branch' /\ branch'[e].kind # "meta"
    BY <1>1, <1>3, <1>6 DEF LastMessage
  <2>2. ASSUME NEW k \in (e + 1)..Len(branch') PROVE branch'[k].kind = "meta"
    <3>1. k = Len(branch) + 1 \/ k \in (e + 1)..Len(branch)
      BY <1>1, <1>3, <2>1
    <3>. QED  BY <1>1, <1>3, <1>6, <2>1, <3>1 DEF LastMessage
  <2>. QED  BY <2>1, <2>2 DEF LastMessage
<1>. QED  BY <1>1, <1>3, <1>4, <1>5, <1>6

\* Both end with the last of the messages that were pushed.
LEMMA PushEnd ==
    ASSUME Sound(branch), Matches(branch, messages), NEW ks \in Seq(Kinds \ {"compaction", "meta"}),
           Push(ks)
    PROVE  /\ ks = <<>> => UNCHANGED transcript
           /\ ks # <<>> =>
                 /\ LastMessage(branch', Len(branch'))
                 /\ branch'[Len(branch')].kind = ks[Len(ks)]
                 /\ messages' # <<>> /\ Last(messages') = Len(branch')
                 /\ \A e \in DOMAIN branch' : LastMessage(branch', e) => e = Len(branch')
<1>1. ks \in Seq(Kinds) /\ Len(ks) \in Nat /\ DOMAIN ks = 1..Len(ks)
  BY SeqOver
<1>2. /\ branch' \in Seq(BranchEntry) /\ Len(branch) \in Nat
      /\ Len(branch') = Len(branch) + Len(ks)
      /\ \A i \in 1..Len(ks) : branch'[Len(branch) + i] = Entry(ks[i])
  BY <1>1, Pushed
<1>. DEFINE is == Indices(Len(branch) + 1, Len(branch) + Len(ks))
<1>3. is = [i \in 1..Len(ks) |-> Len(branch) + i]
  BY <1>1, <1>2 DEF Indices
<1>4. is \in Seq(Nat) /\ Len(is) = Len(ks) /\ \A k \in 1..Len(ks) : is[k] = Len(branch) + k
  BY <1>1, <1>2, <1>3
<1>5. messages \in Seq(Nat) /\ messages' = messages \o is
  BY DEF Matches, Push
<1>6. CASE ks = <<>>
  <2>1. branch' = branch
    BY <1>6 DEF Push, Sound
  <2>2. messages' = messages
    BY <1>1, <1>4, <1>5, <1>6
  <2>. QED  BY <1>6, <2>1, <2>2 DEF transcript
<1>7. CASE ks # <<>>
  <2>1. Len(ks) \in 1..Len(ks)
    BY <1>1, <1>7
  <2>. HIDE DEF is
  <2>2. Len(messages \o is) = Len(messages) + Len(is) /\ messages \o is \in Seq(Nat)
    BY <1>4, <1>5, Concat
  <2>3. (messages \o is)[Len(messages) + Len(ks)] = is[Len(ks)]
    BY <1>4, <1>5, <2>1, Concat
  <2>4. messages' # <<>> /\ Last(messages') = Len(branch) + Len(ks)
    BY <1>1, <1>4, <1>5, <2>1, <2>2, <2>3 DEF Last
  <2>5. branch'[Len(branch')].kind = ks[Len(ks)]
    <3>1. branch'[Len(branch) + Len(ks)] = Entry(ks[Len(ks)])
      BY <1>2, <2>1
    <3>2. Entry(ks[Len(ks)]).kind = ks[Len(ks)]
      BY DEF Entry
    <3>. QED  BY <1>2, <3>1, <3>2
  <2>6. Len(branch') \in DOMAIN branch' /\ DOMAIN branch' = 1..Len(branch') /\ Len(branch') \in Nat
    BY <1>2, <2>1
  <2>7. ks[Len(ks)] # "meta"
    BY <1>1, <2>1
  <2>8. LastMessage(branch', Len(branch'))
    BY <2>5, <2>6, <2>7 DEF LastMessage
  <2>9. ASSUME NEW e \in DOMAIN branch', LastMessage(branch', e), e # Len(branch') PROVE FALSE
    <3>1. Len(branch') \in (e + 1)..Len(branch')
      BY <2>6, <2>9
    <3>. QED  BY <3>1, <2>5, <2>7, <2>9 DEF LastMessage
  <2>. QED  BY <1>2, <1>7, <2>4, <2>5, <2>8, <2>9
<1>. QED  BY <1>6, <1>7
--------------------------------------------------------------------------------
(* The part of Transcript and Attempts that is about one call.                   *)

NoFatalEnd(b) == \A e \in DOMAIN b : LastMessage(b, e) => b[e].kind \notin Unrecoverable

HasRun(p, phases) == pc[p] = "run" /\ agent.run = p /\ agent.phase \in phases

TranscriptOf(p) ==
    /\ HasRun(p, {"tools"}) => FollowsCall(branch, Len(branch) + 1)
    /\ HasRun(p, {"tools", "turnEnd"}) \/ pc[p] = "post" => LastAnswer
    /\ pc[p] = "compactSummary" => GoodCut(branch, local[p].cut, Len(branch))
    /\ pc[p] = "backoff" => local[p].msg \in DOMAIN branch /\ KindAt(local[p].msg) = "error"
    /\ pc[p] \in {"compactAuth", "compactSummary"} /\ local[p].retry => NoFatalEnd(branch)
    /\ pc[p] = "compactEvent" /\ local[p].retry =>
           messages # <<>> /\ KindAt(Last(messages)) \notin Unrecoverable

AttemptsOf(p) ==
    /\ HasRun(p, {"turn"}) => Tight
    /\ HasRun(p, {"tools"}) => tries.retries = 0
    /\ HasRun(p, {"turnEnd"}) \/ pc[p] = "post" =>
            /\ Tight \/ KindAt(lastAssistant) \in CutShort
            /\ tries.retries = 0 \/ EndsWith(lastAssistant)
    /\ pc[p] = "backoff" => Tight /\ (ctl.retry = "aborted" => tries.retries = 0)
    /\ pc[p] \in Compacting /\ local[p].post /\ local[p].retry => Tight
    /\ pc[p] \in {"compactAuth", "compactSummary"} /\ local[p].post /\ ~local[p].retry =>
            tries.retries = 0 \/ \E e \in DOMAIN branch : EndsWith(e)
    /\ pc[p] = "compactEvent" /\ local[p].post /\ ~local[p].retry =>
            tries.retries = 0 \/ EndsWithResponse
    /\ pc[p] = "resume" => Tight \/ EndsWithResponse

\* They follow from the invariant.
LEMMA PartsHold ==
    ASSUME IndInv, NEW p \in Prompts
    PROVE  TranscriptOf(p) /\ AttemptsOf(p)
<1>1. TranscriptOf(p)
  BY DEF IndInv, Transcript, TranscriptOf, HasRun, Answered, NoFatalEnd, KindAt
<1>2. AttemptsOf(p)
  BY DEF IndInv, Attempts, AttemptsOf, HasRun
<1>. QED  BY <1>1, <1>2

\* They say nothing of a call at one of these points.
LEMMA PartsIdle ==
    ASSUME NEW p \in Prompts,
           pc'[p] \in {"out", "input", "auth", "build", "before", "finally", "settled"}
    PROVE  TranscriptOf(p)' /\ AttemptsOf(p)'
BY DEF TranscriptOf, AttemptsOf, HasRun, Compacting

\* Metadata keeps the last response what it is.
LEMMA LabelKeepsAnswer ==
    ASSUME Sound(branch), LastAnswer, Labels, UNCHANGED lastAssistant
    PROVE  LastAnswer'
<1>1. /\ Len(branch') = Len(branch) + 1 /\ Len(branch) \in Nat
      /\ DOMAIN branch' = 1..Len(branch') /\ DOMAIN branch = 1..Len(branch)
      /\ branch'[Len(branch) + 1].kind = "meta"
      /\ \A i \in 1..Len(branch) : branch'[i] = branch[i]
  BY LabelKeeps DEF Sound
<1>2. /\ lastAssistant \in 1..Len(branch) /\ branch[lastAssistant].kind \in Assistant
      /\ lastAssistant \in ToSet(messages)
      /\ \A k \in (lastAssistant + 1)..Len(branch) : branch[k].kind \notin Assistant \cup {"compaction"}
  BY <1>1 DEF LastAnswer, IsAssistant, KindAt
<1>3. /\ lastAssistant \in DOMAIN branch' /\ branch'[lastAssistant].kind \in Assistant
      /\ lastAssistant \in ToSet(messages')
  BY <1>1, <1>2 DEF Labels
<1>4. ASSUME NEW k \in (lastAssistant + 1)..Len(branch')
      PROVE  branch'[k].kind \notin Assistant \cup {"compaction"}
  <2>1. k = Len(branch) + 1 \/ k \in (lastAssistant + 1)..Len(branch)
    BY <1>1, <1>2
  <2>2. "meta" \notin Assistant \cup {"compaction"}
    BY DEF Assistant, Failed, Unrecoverable
  <2>. QED  BY <1>1, <1>2, <2>1, <2>2
<1>. QED  BY <1>3, <1>4 DEF LastAnswer, IsAssistant, KindAt

\* An engaged call that is left undisturbed keeps its part of Transcript.
LEMMA TranscriptMeanwhile ==
    ASSUME IndInv, NEW p \in Prompts, Engaged(p), Undisturbed(p)
    PROVE  TranscriptOf(p)'
<1>1. TranscriptOf(p) /\ Sound(branch) /\ Matches(branch, messages)
  BY PartsHold DEF IndInv, Transcript
<1>2. /\ pc'[p] = pc[p] /\ local'[p] = local[p] /\ UNCHANGED lastAssistant
      /\ agent'.phase = agent.phase /\ agent'.run = agent.run
  BY DEF Undisturbed
<1>3. \A phases : HasRun(p, phases)' <=> HasRun(p, phases)
  BY <1>2 DEF HasRun
<1>4. local[p].cut \in Nat
  BY StateFacts DEF LocalShape, Local
<1>5. CASE UNCHANGED transcript
  <2>1. branch' = branch /\ messages' = messages
    BY <1>5 DEF transcript
  <2>2. LastAnswer' <=> LastAnswer
    BY <2>1, <1>2 DEF LastAnswer, IsAssistant, KindAt
  <2>. QED  BY <1>1, <1>2, <1>3, <2>1, <2>2 DEF TranscriptOf, KindAt
<1>6. CASE Labels
  <2>1. /\ Len(branch') = Len(branch) + 1 /\ Len(branch) \in Nat
        /\ DOMAIN branch' = 1..Len(branch') /\ DOMAIN branch = 1..Len(branch)
        /\ \A i \in 1..Len(branch) : branch'[i] = branch[i]
    BY <1>1, <1>6, LabelKeeps DEF Sound
  <2>2. Grown
    BY <2>1 DEF Grown
  <2>3. HasRun(p, {"tools"})' => FollowsCall(branch', Len(branch') + 1)
    BY <1>1, <1>3, <1>6, LabelKeeps DEF TranscriptOf
  <2>4. HasRun(p, {"tools", "turnEnd"})' \/ pc'[p] = "post" => LastAnswer'
    BY <1>1, <1>2, <1>3, <1>6, LabelKeepsAnswer DEF TranscriptOf
  <2>5. pc'[p] = "compactSummary" => GoodCut(branch', local'[p].cut, Len(branch'))
    BY <1>1, <1>2, <1>4, <2>2, GrownKeeps DEF TranscriptOf
  <2>6. pc'[p] = "backoff" => local'[p].msg \in DOMAIN branch' /\ branch'[local'[p].msg].kind = "error"
    BY <1>1, <1>2, <2>1 DEF TranscriptOf, KindAt
  <2>7. NoFatalEnd(branch) => NoFatalEnd(branch')
    BY <1>1, <1>6, <2>1, LabelKeeps DEF NoFatalEnd, LastMessage
  <2>8. ASSUME messages # <<>> PROVE branch'[Last(messages)].kind = branch[Last(messages)].kind
    <3>1. messages \in Seq(Nat) /\ Len(messages) \in DOMAIN messages
      BY <1>1, <2>8 DEF Matches
    <3>2. Last(messages) \in ContextEntries(branch)
      BY <1>1, <3>1 DEF Matches, Last
    <3>3. Last(messages) \in 1..Len(branch)
      BY <1>1, <3>2, ContextFacts
    <3>. QED  BY <2>1, <3>3
  <2>9. pc'[p] = "compactEvent" /\ local'[p].retry => messages' # <<>> /\ branch'[Last(messages')].kind \notin Unrecoverable
    BY <1>1, <1>2, <1>6, <2>8 DEF TranscriptOf, KindAt, Labels
  <2>10. pc'[p] \in {"compactAuth", "compactSummary"} /\ local'[p].retry => NoFatalEnd(branch')
    BY <1>1, <1>2, <2>7 DEF TranscriptOf
  <2>. QED  BY <2>3, <2>4, <2>5, <2>6, <2>9, <2>10 DEF TranscriptOf, KindAt
<1>7. CASE ~active /\ PushSome
  <2>1. ~InRun(p)
    BY <1>7, StateFacts DEF Exclusion
  <2>2. pc'[p] \notin {"run", "post", "backoff"}
    BY <1>2, <2>1 DEF InRun
  <2>3. PICK ks \in Seq(Plain) : Push(ks)
    BY <1>7 DEF PushSome
  <2>4. ks \in Seq(Kinds \ {"compaction", "meta"}) /\ \A k \in DOMAIN ks : ks[k] \notin Unrecoverable \cup {"result"}
    BY PlainKinds, SeqOver DEF Plain, Unrecoverable
  <2>5. Grown
    BY <1>1, <2>3, <2>4, PushKeeps
  <2>6. pc'[p] = "compactSummary" => GoodCut(branch', local'[p].cut, Len(branch'))
    BY <1>1, <1>2, <1>4, <2>5, GrownKeeps DEF TranscriptOf
  <2>7. CASE ks = <<>>
    <3>1. branch' = branch /\ messages' = messages
      BY <1>1, <2>3, <2>4, <2>7, PushEnd DEF transcript
    <3>. QED  BY <1>1, <1>2, <1>3, <2>2, <3>1 DEF TranscriptOf, KindAt, HasRun
  <2>8. CASE ks # <<>>
    <3>1. /\ branch'[Len(branch')].kind = ks[Len(ks)]
          /\ messages' # <<>> /\ Last(messages') = Len(branch')
          /\ \A e \in DOMAIN branch' : LastMessage(branch', e) => e = Len(branch')
      BY <1>1, <2>3, <2>4, <2>8, PushEnd
    <3>2. ks[Len(ks)] \notin Unrecoverable
      BY <2>3, <2>4, <2>8
    <3>3. NoFatalEnd(branch')
      BY <3>1, <3>2 DEF NoFatalEnd
    <3>. QED  BY <2>2, <2>6, <3>1, <3>2, <3>3 DEF TranscriptOf, KindAt, HasRun
  <2>. QED  BY <2>7, <2>8
<1>. QED  BY <1>5, <1>6, <1>7 DEF Undisturbed
\* Metadata keeps what the messages end with.
LEMMA EndKept ==
    ASSUME Sound(branch), Matches(branch, messages), UNCHANGED transcript \/ Labels
    PROVE  /\ \A e \in DOMAIN branch : EndsWith(e) => e \in DOMAIN branch' /\ EndsWith(e)'
           /\ EndsWithResponse => EndsWithResponse'
           /\ \A e \in DOMAIN branch : branch'[e] = branch[e]
<1>1. CASE UNCHANGED transcript
  BY <1>1 DEF transcript, EndsWith, EndsWithResponse, IsAssistant, KindAt
<1>2. CASE Labels
  <2>1. /\ Len(branch') = Len(branch) + 1 /\ Len(branch) \in Nat
        /\ DOMAIN branch' = 1..Len(branch') /\ DOMAIN branch = 1..Len(branch)
        /\ \A i \in 1..Len(branch) : branch'[i] = branch[i]
        /\ messages' = messages
    BY <1>2, LabelKeeps DEF Sound, Labels
  <2>2. \A e : LastMessage(branch', e) <=> LastMessage(branch, e)
    BY <1>2, LabelKeeps
  <2>3. ASSUME messages # <<>> PROVE Last(messages) \in DOMAIN branch
    <3>1. messages \in Seq(Nat) /\ Len(messages) \in DOMAIN messages
      BY <2>3 DEF Matches
    <3>2. Last(messages) \in ContextEntries(branch)
      BY <3>1 DEF Matches, Last
    <3>. QED  BY <2>1, <3>2, ContextFacts
  <2>4. EndsWithResponse => EndsWithResponse'
    BY <2>1, <2>3 DEF EndsWithResponse, IsAssistant, KindAt
  <2>5. ASSUME NEW e \in DOMAIN branch, EndsWith(e) PROVE e \in DOMAIN branch' /\ EndsWith(e)'
    BY <2>1, <2>2, <2>5 DEF EndsWith, IsAssistant, KindAt
  <2>. QED  BY <2>1, <2>4, <2>5
<1>. QED  BY <1>1, <1>2

\* An engaged call that is left undisturbed keeps its part of Attempts.
LEMMA AttemptsMeanwhile ==
    ASSUME IndInv, NEW p \in Prompts, Engaged(p), Undisturbed(p)
    PROVE  AttemptsOf(p)'
<1>1. TranscriptOf(p) /\ AttemptsOf(p) /\ Sound(branch) /\ Matches(branch, messages)
  BY PartsHold DEF IndInv, Transcript
<1>2. /\ pc'[p] = pc[p] /\ local'[p] = local[p] /\ UNCHANGED <<lastAssistant, retryAttempt>>
      /\ agent'.phase = agent.phase /\ agent'.run = agent.run
  BY DEF Undisturbed
<1>3. \A phases : HasRun(p, phases)' <=> HasRun(p, phases)
  BY <1>2 DEF HasRun
<1>4. CASE ~InRun(p)
  <2>1. pc[p] \notin {"run", "post", "backoff", "resume"} /\ (pc[p] \in Compacting => ~local[p].post)
    BY <1>4 DEF InRun
  <2>. QED  BY <1>2, <2>1 DEF AttemptsOf, HasRun, Compacting
<1>5. CASE InRun(p)
  <2>1. UNCHANGED transcript \/ Labels
    BY <1>5, StateFacts DEF Exclusion, Undisturbed
  <2>2. /\ \A e \in DOMAIN branch : EndsWith(e) => e \in DOMAIN branch' /\ EndsWith(e)'
        /\ EndsWithResponse => EndsWithResponse'
        /\ \A e \in DOMAIN branch : branch'[e] = branch[e]
    BY <1>1, <2>1, EndKept
  <2>3. /\ tries.retries \in Nat /\ tries.recoveries \in Nat /\ tries'.retries \in {tries.retries, 0}
        /\ tries'.recoveries = tries.recoveries
    BY DEF IndInv, Shape, Undisturbed
  <2>4. MaxRetries \in Nat /\ retryAttempt \in Nat
    BY BoundsAssumption DEF IndInv, Shape
  <2>5. /\ Tight => Tight'
        /\ tries.retries = 0 => tries'.retries = 0
    BY <1>2, <2>3, <2>4 DEF Tight, Room
  <2>6. ctl'.retry = ctl.retry \/ tries'.retries = 0
    BY DEF Undisturbed
  <2>7. HasRun(p, {"turnEnd"}) \/ pc[p] = "post" =>
            /\ lastAssistant \in DOMAIN branch
            /\ KindAt(lastAssistant) \in CutShort => KindAt(lastAssistant)' \in CutShort
            /\ EndsWith(lastAssistant) => EndsWith(lastAssistant)'
    BY <1>1, <1>2, <2>2 DEF TranscriptOf, HasRun, LastAnswer, KindAt, EndsWith, IsAssistant
  <2>. QED  BY <1>1, <1>2, <1>3, <2>2, <2>5, <2>6, <2>7 DEF AttemptsOf
<1>. QED  BY <1>4, <1>5
\* Messages that are no responses keep the last response what it is.
LEMMA PushKeepsAnswer ==
    ASSUME Sound(branch), Matches(branch, messages), LastAnswer, UNCHANGED lastAssistant,
           NEW ks \in Seq(Kinds \ (Assistant \cup {"compaction", "meta"})), Push(ks)
    PROVE  LastAnswer'
<1>1. ks \in Seq(Kinds) /\ Len(ks) \in Nat /\ DOMAIN ks = 1..Len(ks)
  BY SeqOver
<1>2. /\ branch' \in Seq(BranchEntry) /\ Len(branch) \in Nat
      /\ Len(branch') = Len(branch) + Len(ks)
      /\ \A i \in 1..Len(branch) : branch'[i] = branch[i]
      /\ \A i \in 1..Len(ks) : branch'[Len(branch) + i] = Entry(ks[i])
  BY <1>1, Pushed
<1>3. /\ lastAssistant \in 1..Len(branch) /\ branch[lastAssistant].kind \in Assistant
      /\ lastAssistant \in ToSet(messages)
      /\ \A k \in (lastAssistant + 1)..Len(branch) : branch[k].kind \notin Assistant \cup {"compaction"}
  BY DEF LastAnswer, IsAssistant, KindAt, Sound
<1>4. lastAssistant \in DOMAIN branch' /\ branch'[lastAssistant].kind \in Assistant
  BY <1>1, <1>2, <1>3
<1>5. ASSUME NEW k \in (lastAssistant + 1)..Len(branch')
      PROVE  branch'[k].kind \notin Assistant \cup {"compaction"}
  <2>1. CASE k <= Len(branch)
    BY <1>2, <1>3, <2>1
  <2>2. CASE k > Len(branch)
    <3>1. k - Len(branch) \in 1..Len(ks) /\ k = Len(branch) + (k - Len(branch))
      BY <1>1, <1>2, <1>3, <2>2
    <3>2. branch'[k] = Entry(ks[k - Len(branch)])
      BY <1>2, <3>1
    <3>3. ks[k - Len(branch)] \notin Assistant \cup {"compaction"}
      BY <1>1, <3>1
    <3>. QED  BY <3>2, <3>3 DEF Entry
  <2>. QED  BY <1>2, <1>3, <2>1, <2>2
<1>6. lastAssistant \in ToSet(messages')
  <2>. DEFINE is == Indices(Len(branch) + 1, Len(branch) + Len(ks))
  <2>1. messages \in Seq(Nat) /\ messages' = messages \o is
    BY DEF Matches, Push
  <2>2. is = [i \in 1..Len(ks) |-> Len(branch) + i]
    BY <1>1, <1>2 DEF Indices
  <2>3. is \in Seq(Nat)
    BY <1>1, <1>2, <2>2
  <2>. HIDE DEF is
  <2>4. PICK n \in 1..Len(messages) : messages[n] = lastAssistant
    BY <1>3, <2>1 DEF ToSet
  <2>5. (messages \o is)[n] = messages[n]
    BY <2>1, <2>3, <2>4, Concat
  <2>6. n \in DOMAIN (messages \o is)
    BY <2>1, <2>3, <2>4, Concat
  <2>. QED  BY <2>1, <2>4, <2>5, <2>6 DEF ToSet
<1>. QED  BY <1>4, <1>5, <1>6 DEF LastAnswer, IsAssistant, KindAt

\* A response that is pushed is the last one, and both end with it.
LEMMA ResponsePushed ==
    ASSUME Sound(branch), Matches(branch, messages), NEW kind \in Assistant, Push(<<kind>>),
           lastAssistant' = Len(branch')
    PROVE  /\ LastAnswer' /\ branch'[lastAssistant'].kind = kind
           /\ EndsWith(lastAssistant)'
           /\ kind \in Calling => FollowsCall(branch', Len(branch') + 1)
<1>. DEFINE ks == <<kind>>
<1>1. /\ ks \in Seq(Kinds \ {"compaction", "meta"}) /\ ks \in Seq(Kinds) /\ ks # <<>>
      /\ Len(ks) = 1 /\ ks[Len(ks)] = kind
  BY PlainKinds
<1>2. Push(ks)
  OBVIOUS
<1>. HIDE DEF ks
<1>3. /\ LastMessage(branch', Len(branch')) /\ branch'[Len(branch')].kind = kind
      /\ messages' # <<>> /\ Last(messages') = Len(branch')
  BY <1>1, <1>2, PushEnd
<1>4. Len(branch') = Len(branch) + 1 /\ Len(branch) \in Nat /\ branch' \in Seq(BranchEntry)
  BY <1>1, <1>2, Pushed
<1>5. Len(branch') \in ToSet(messages')
  <2>1. Sound(branch') /\ Matches(branch', messages')
    BY <1>2, EffectKeeps DEF Effect, PushResponse, ks
  <2>2. messages' \in Seq(Nat)
    BY <2>1 DEF Matches
  <2>3. Len(messages') \in DOMAIN messages' /\ messages'[Len(messages')] = Len(branch')
    BY <1>3, <2>2 DEF Last
  <2>. QED  BY <2>3 DEF ToSet
<1>6. Len(branch') \in DOMAIN branch' /\ (Len(branch') + 1)..Len(branch') = {}
  BY <1>4
<1>7. LastAnswer'
  BY <1>3, <1>5, <1>6 DEF LastAnswer, IsAssistant, KindAt
<1>8. EndsWith(lastAssistant)'
  BY <1>3 DEF EndsWith, IsAssistant, KindAt
<1>9. ASSUME kind \in Calling PROVE FollowsCall(branch', Len(branch') + 1)
  <2>1. Len(branch') \in 1..(Len(branch') + 1 - 1) /\ (Len(branch') + 1)..(Len(branch') + 1 - 1) = {}
    BY <1>4
  <2>. QED  BY <1>3, <1>9, <2>1 DEF FollowsCall
<1>. QED  BY <1>3, <1>7, <1>8, <1>9

\* When the latest response of the messages is no fatal one, the branch ends with none.
LEMMA NoFatalAfter ==
    ASSUME Sound(branch), Matches(branch, messages), NEW i \in ToSet(messages), IsAssistant(i),
           \A j \in ToSet(messages) : IsAssistant(j) => j <= i, KindAt(i) \notin Unrecoverable
    PROVE  NoFatalEnd(branch)
<1>1. SUFFICES ASSUME NEW e \in DOMAIN branch, LastMessage(branch, e), branch[e].kind \in Unrecoverable
               PROVE  FALSE
  BY DEF NoFatalEnd
<1>2. DOMAIN branch = 1..Len(branch) /\ Len(branch) \in Nat
  BY DEF Sound
<1>3. i \in 1..Len(branch) /\ branch[i].kind # "meta"
  <2>1. i \in ContextEntries(branch)
    BY DEF Matches, ToSet
  <2>. QED  BY <2>1, ContextFacts
<1>4. i <= e
  BY <1>1, <1>2, <1>3 DEF LastMessage
<1>5. e \in ContextEntries(branch)
  <2>1. contextStart(branch) <= e
    <3>1. CASE LatestCompaction(branch) = 0
      BY <1>2, <3>1, StartFacts
    <3>2. CASE LatestCompaction(branch) # 0
      <4>1. /\ branch[LatestCompaction(branch)].kind = "compaction"
            /\ LatestCompaction(branch) \in 1..Len(branch)
            /\ contextStart(branch) < LatestCompaction(branch) /\ contextStart(branch) \in Nat
        BY <1>2, <3>2, StartFacts
      <4>2. LatestCompaction(branch) <= e
        BY <1>1, <1>2, <4>1 DEF LastMessage
      <4>. QED  BY <1>2, <4>1, <4>2
    <3>. QED  BY <3>1, <3>2
  <2>2. contextStart(branch) \in Nat
    BY StartFacts
  <2>. QED  BY <1>1, <1>2, <2>1, <2>2 DEF ContextEntries, Unrecoverable
<1>6. e \in ToSet(messages)
  BY <1>1, <1>5 DEF Matches, Missing, ToSet, Failed, Unrecoverable
<1>7. e <= i
  BY <1>1, <1>6 DEF IsAssistant, KindAt, Assistant
<1>. QED  BY <1>1, <1>2, <1>3, <1>4, <1>7 DEF KindAt
--------------------------------------------------------------------------------
(* What a call's own steps do to its part of Transcript.                         *)

\* A call that starts a run, or is refused by the agent, has no response yet.
LEMMA TranscriptStart ==
    ASSUME PhaseShape, NEW p \in Prompts, agent'.phase = "turn" /\ pc'[p] = "run"
    PROVE  TranscriptOf(p)'
BY DEF TranscriptOf, HasRun

\* _checkCompaction, whichever response it looks at, only retries when the branch does
\* not end with a fatal response.
LEMMA TranscriptCheck ==
    ASSUME PhaseShape, LocalShape, NEW p \in Prompts, NEW i, NEW post \in BOOLEAN,
           UNCHANGED branch, CheckCompaction(p, i, post),
           NoFatalEnd(branch) \/ KindAt(i) \notin Failed \ {"error"}
    PROVE  TranscriptOf(p)'
<1>1. \/ pc'[p] \in {"build", "resume", "finally"}
      \/ pc'[p] = "compactAuth" /\ (~local'[p].retry \/ KindAt(i) \in Failed \ {"error"})
  BY DEF CheckCompaction, CheckReturns, Goto, PhaseShape, LocalShape, Local
<1>2. CASE pc'[p] \in {"build", "resume", "finally"}
  BY <1>2 DEF TranscriptOf, HasRun
<1>3. CASE pc'[p] = "compactAuth" /\ (~local'[p].retry \/ KindAt(i) \in Failed \ {"error"})
  BY <1>3 DEF TranscriptOf, HasRun, NoFatalEnd
<1>. QED  BY <1>1, <1>2, <1>3

\* The steps before the run.
LEMMA TranscriptBefore ==
    ASSUME IndInv, NEW p \in Prompts,
           Submit(p) \/ Authorize(p) \/ Build(p) \/ BeforeAgentStart(p) \/ TriggerTurn(p)
    PROVE  TranscriptOf(p)'
<1>1. PhaseShape /\ LocalShape
  BY StateFacts
<1>2. Sound(branch) /\ Matches(branch, messages)
  BY DEF IndInv, Transcript
<1>3. CASE Submit(p) \/ Build(p)
  <2>1. pc'[p] \in {"out", "auth", "before"}
    BY <1>1, <1>3 DEF Submit, Build, Goto, PhaseShape
  <2>. QED  BY <2>1, PartsIdle
<1>4. CASE Authorize(p)
  <2>. DEFINE R == {i \in ToSet(messages) : IsAssistant(i)}
  <2>1. CASE Goto(p, "out") \/ Goto(p, "build")
    <3>1. pc'[p] \in {"out", "build"}
      BY <1>1, <2>1 DEF Goto, PhaseShape
    <3>. QED  BY <3>1, PartsIdle
  <2>2. CASE R # {} /\ CheckCompaction(p, Max(R), FALSE)
    <3>1. /\ Max(R) \in ToSet(messages) /\ IsAssistant(Max(R))
          /\ \A j \in ToSet(messages) : IsAssistant(j) => j <= Max(R)
      BY <1>2, <2>2, MaxIsLatest
    <3>. HIDE DEF R
    <3>2. KindAt(Max(R)) \notin Unrecoverable => NoFatalEnd(branch)
      BY <1>2, <3>1, NoFatalAfter
    <3>3. UNCHANGED branch
      BY <1>4 DEF Authorize
    <3>. QED  BY <1>1, <2>2, <3>2, <3>3, TranscriptCheck DEF Failed, Unrecoverable
  <2>. QED  BY <1>4, <2>1, <2>2 DEF Authorize
<1>5. ASSUME NEW kinds, RunAgentPrompt(p, kinds) PROVE TranscriptOf(p)'
  <2>1. (agent'.phase = "turn" /\ pc'[p] = "run") \/ pc'[p] = "finally"
    BY <1>1, <1>5 DEF RunAgentPrompt, StartRun, Goto, PhaseShape
  <2>. QED  BY <1>1, <2>1, PartsIdle, TranscriptStart
<1>6. CASE BeforeAgentStart(p)
  BY <1>5, <1>6 DEF BeforeAgentStart
<1>7. CASE TriggerTurn(p)
  BY <1>5, <1>7 DEF TriggerTurn
<1>. QED  BY <1>3, <1>4, <1>6, <1>7

\* The steps of a compaction.
LEMMA TranscriptCompaction ==
    ASSUME IndInv, NEW p \in Prompts, CompactAuth(p) \/ CompactSummary(p) \/ CompactEvent(p)
    PROVE  TranscriptOf(p)'
<1>1. PhaseShape /\ LocalShape /\ TranscriptOf(p)
  BY StateFacts, PartsHold
<1>2. Sound(branch) /\ Matches(branch, messages)
  BY DEF IndInv, Transcript
<1>3. ASSUME NEW again, CompactionReturns(p, again) PROVE TranscriptOf(p)'
  <2>1. pc'[p] \in {"build", "resume", "finally"}
    BY <1>1, <1>3, ReturnMoves
  <2>. QED  BY <2>1 DEF TranscriptOf, HasRun
<1>4. ASSUME CompactAuth(p), NEW cut \in prepareCompaction(branch),
             local' = [local EXCEPT ![p].cut = cut], Goto(p, "compactSummary")
      PROVE  TranscriptOf(p)'
  <2>1. pc[p] = "compactAuth" /\ branch' = branch
    BY <1>4 DEF CompactAuth, transcript
  <2>2. pc'[p] = "compactSummary" /\ local'[p].cut = cut /\ local'[p].retry = local[p].retry
    BY <1>1, <1>4 DEF Goto, PhaseShape, LocalShape, Local
  <2>3. GoodCut(branch, cut, Len(branch))
    BY <1>2, <1>4, Cuts
  <2>4. local'[p].retry => NoFatalEnd(branch')
    BY <1>1, <2>1, <2>2 DEF TranscriptOf
  <2>5. GoodCut(branch', local'[p].cut, Len(branch'))
    BY <2>1, <2>2, <2>3
  <2>. QED  BY <2>2, <2>4, <2>5 DEF TranscriptOf, HasRun
<1>5. ASSUME CompactSummary(p), Publish(local[p].cut), Goto(p, "compactEvent"), UNCHANGED local
      PROVE  TranscriptOf(p)'
  <2>1. pc[p] = "compactSummary" /\ pc'[p] = "compactEvent" /\ local[p].cut \in Nat
    BY <1>1, <1>5 DEF CompactSummary, Goto, PhaseShape, LocalShape, Local
  <2>2. GoodCut(branch, local[p].cut, Len(branch))
    BY <1>1, <2>1 DEF TranscriptOf
  <2>3. PICK g \in local[p].cut..Len(branch) : branch[g].kind \notin {"result", "compaction", "meta"}
    BY <2>2 DEF GoodCut
  <2>4. g \in DOMAIN branch /\ branch[g].kind # "meta" /\ branch \in Seq(BranchEntry)
    BY <1>2, <2>2, <2>3 DEF GoodCut, Sound
  <2>5. PICK e \in DOMAIN branch : LastMessage(branch, e)
    BY <1>2, <2>4, HasLast
  <2>6. messages' # <<>> /\ Last(messages') = e
    BY <1>2, <1>5, <2>1, <2>2, <2>5, Published DEF Publish
  <2>7. branch'[e] = branch[e]
    BY <1>5, <2>4, <2>5 DEF Publish
  <2>8. local[p].retry => branch[e].kind \notin Unrecoverable
    BY <1>1, <2>1, <2>5 DEF TranscriptOf, NoFatalEnd
  <2>. QED  BY <1>5, <2>1, <2>6, <2>7, <2>8 DEF TranscriptOf, HasRun, KindAt
<1>6. CASE CompactAuth(p)
  BY <1>3, <1>4, <1>6 DEF CompactAuth
<1>7. CASE CompactSummary(p)
  BY <1>3, <1>5, <1>7 DEF CompactSummary
<1>8. CASE CompactEvent(p)
  BY <1>3, <1>8 DEF CompactEvent
<1>. QED  BY <1>6, <1>7, <1>8

\* What a response does to tries.
Tried(kind) ==
    IF kind \notin Errors \cup Truncated THEN FreshTries
    ELSE [tries EXCEPT !.retries = IF kind \in Calling THEN 0 ELSE @]

\* What a response does.
LEMMA RespondFacts ==
    ASSUME NEW p \in Prompts, Respond(p)
    PROVE  /\ pc[p] = "run" /\ agent.run = p /\ agent.phase = "turn"
           /\ lastAssistant' = Len(branch') /\ UNCHANGED pc
           /\ \E kind \in Assistant :
                 /\ Push(<<kind>>)
                 /\ agent' = [agent EXCEPT !.phase = IF kind \in Calling THEN "tools" ELSE "turnEnd"]
                 /\ recovered' = (recovered /\ kind \in Errors \cup Truncated)
                 /\ retryAttempt' = IF kind \in Errors THEN retryAttempt ELSE 0
                 /\ tries' = Tried(kind)
<1>1. Responses \subseteq Assistant
  BY DEF Responses, Assistant, Failed, Unrecoverable
<1>2. \E kind \in Responses :
          /\ Push(<<kind>>)
          /\ agent' = [agent EXCEPT !.phase = IF kind \in Calling THEN "tools" ELSE "turnEnd"]
          /\ recovered' = (recovered /\ kind \in Errors \cup Truncated)
          /\ retryAttempt' = IF kind \in Errors THEN retryAttempt ELSE 0
          /\ tries' = Tried(kind)
  BY Zenon DEF Respond, Tried
<1>3. /\ pc[p] = "run" /\ agent.run = p /\ agent.phase = "turn"
      /\ lastAssistant' = Len(branch')
  BY DEF Respond
<1>4. UNCHANGED calls
  BY DEF Respond
<1>. QED  BY <1>1, <1>2, <1>3, <1>4, Zenon DEF calls

\* The steps of a turn.
LEMMA TranscriptTurn ==
    ASSUME IndInv, NEW p \in Prompts, Respond(p) \/ ToolResult(p) \/ EndTurn(p)
    PROVE  TranscriptOf(p)'
<1>1. PhaseShape /\ AgentShape /\ TranscriptOf(p)
  BY StateFacts, PartsHold
<1>2. Sound(branch) /\ Matches(branch, messages)
  BY DEF IndInv, Transcript
<1>3. CASE Respond(p)
  <2>1. PICK kind \in Assistant :
          /\ Push(<<kind>>)
          /\ agent' = [agent EXCEPT !.phase = IF kind \in Calling THEN "tools" ELSE "turnEnd"]
    BY <1>3, RespondFacts, Zenon
  <2>2. lastAssistant' = Len(branch') /\ pc'[p] = "run"
    BY <1>3, RespondFacts
  <2>3. LastAnswer' /\ (kind \in Calling => FollowsCall(branch', Len(branch') + 1))
    BY <1>2, <2>1, <2>2, ResponsePushed
  <2>4. agent'.phase = "tools" => kind \in Calling
    BY <1>1, <2>1 DEF AgentShape
  <2>. QED  BY <2>2, <2>3, <2>4 DEF TranscriptOf, HasRun
<1>4. CASE ToolResult(p)
  <2>1. /\ HasRun(p, {"tools"}) /\ Push(<<"result">>) /\ UNCHANGED <<pc, lastAssistant>>
        /\ agent' = [agent EXCEPT !.phase = "turnEnd"]
    BY <1>4 DEF ToolResult, HasRun, calls
  <2>2. LastAnswer
    BY <1>1, <2>1 DEF TranscriptOf, HasRun
  <2>3. <<"result">> \in Seq(Kinds \ (Assistant \cup {"compaction", "meta"}))
    BY DEF Kinds, Assistant, Failed, Unrecoverable
  <2>4. LastAnswer'
    BY <1>2, <2>1, <2>2, <2>3, PushKeepsAnswer
  <2>5. agent'.phase # "tools" /\ pc'[p] = "run"
    BY <1>1, <2>1 DEF AgentShape, HasRun
  <2>. QED  BY <2>4, <2>5 DEF TranscriptOf, HasRun
<1>5. CASE EndTurn(p)
  <2>1. HasRun(p, {"turnEnd"}) /\ UNCHANGED lastAssistant
    BY <1>5 DEF EndTurn, HasRun
  <2>2. LastAnswer
    BY <1>1, <2>1 DEF TranscriptOf, HasRun
  <2>3. PICK ks \in Seq(Plain) : Push(ks)
    BY <1>5, TurnEffects DEF PushSome
  <2>4. Plain \subseteq Kinds \ (Assistant \cup {"compaction", "meta"})
    BY DEF Plain, Kinds, Assistant, Failed, Unrecoverable
  <2>5. ks \in Seq(Kinds \ (Assistant \cup {"compaction", "meta"}))
    BY <2>4, SeqOver
  <2>6. LastAnswer'
    BY <1>2, <2>1, <2>2, <2>3, <2>5, PushKeepsAnswer
  <2>7. \/ agent' = [agent EXCEPT !.phase = "turn"] /\ UNCHANGED pc
        \/ agent' = Idle /\ Goto(p, "post")
    BY <1>5 DEF EndTurn
  <2>8. (agent'.phase = "turn" /\ pc'[p] = "run") \/ pc'[p] = "post"
    BY <1>1, <2>1, <2>7 DEF AgentShape, Goto, PhaseShape, HasRun
  <2>. QED  BY <2>6, <2>8 DEF TranscriptOf, HasRun
<1>. QED  BY <1>3, <1>4, <1>5

\* The steps after a run.
LEMMA TranscriptAfter ==
    ASSUME IndInv, NEW p \in Prompts,
           HandlePostAgentRun(p) \/ Backoff(p) \/ Continue(p) \/ Finally(p) \/ ResolveIdleWaitIfIdle(p)
    PROVE  TranscriptOf(p)'
<1>1. PhaseShape /\ LocalShape /\ TranscriptOf(p)
  BY StateFacts, PartsHold
<1>2. Sound(branch) /\ Matches(branch, messages)
  BY DEF IndInv, Transcript
<1>3. CASE HandlePostAgentRun(p)
  <2>1. LastAnswer /\ UNCHANGED branch
    BY <1>1, <1>3 DEF TranscriptOf, HandlePostAgentRun
  <2>2. /\ lastAssistant \in ToSet(messages) /\ IsAssistant(lastAssistant)
        /\ \A j \in ToSet(messages) : IsAssistant(j) => j <= lastAssistant
    BY <1>2, <2>1, AnswerIsLatest
  <2>3. CASE Goto(p, "finally")
    <3>1. pc'[p] = "finally"
      BY <1>1, <2>3 DEF Goto, PhaseShape
    <3>. QED  BY <3>1, PartsIdle
  <2>4. CASE /\ KindAt(lastAssistant) = "error" /\ Goto(p, "backoff")
             /\ local' = [local EXCEPT ![p].msg = lastAssistant]
    <3>1. pc'[p] = "backoff" /\ local'[p].msg = lastAssistant
      BY <1>1, <2>4 DEF Goto, PhaseShape, LocalShape, Local
    <3>2. lastAssistant \in DOMAIN branch' /\ branch'[lastAssistant].kind = "error"
      BY <2>1, <2>4 DEF LastAnswer, KindAt
    <3>. QED  BY <3>1, <3>2 DEF TranscriptOf, HasRun, KindAt
  <2>5. CASE CheckCompaction(p, lastAssistant, TRUE)
    <3>1. KindAt(lastAssistant) \notin Unrecoverable => NoFatalEnd(branch)
      BY <1>2, <2>2, NoFatalAfter
    <3>. QED  BY <1>1, <2>1, <2>5, <3>1, TranscriptCheck DEF Failed, Unrecoverable
  <2>. QED  BY <1>3, <2>3, <2>4, <2>5 DEF HandlePostAgentRun
<1>4. CASE Backoff(p)
  <2>1. KindAt(local[p].msg) = "error" /\ UNCHANGED branch
    BY <1>1, <1>4 DEF TranscriptOf, Backoff
  <2>2. CASE Goto(p, "resume")
    <3>1. pc'[p] = "resume"
      BY <1>1, <2>2 DEF Goto, PhaseShape
    <3>. QED  BY <3>1 DEF TranscriptOf, HasRun
  <2>3. CASE CheckCompaction(p, local[p].msg, TRUE)
    BY <1>1, <2>1, <2>3, TranscriptCheck
  <2>. QED  BY <1>4, <2>2, <2>3 DEF Backoff
<1>5. CASE Continue(p)
  <2>1. (agent'.phase = "turn" /\ pc'[p] = "run") \/ pc'[p] = "finally"
    BY <1>1, <1>5 DEF Continue, StartRun, Goto, PhaseShape
  <2>. QED  BY <1>1, <2>1, PartsIdle, TranscriptStart
<1>6. CASE Finally(p) \/ ResolveIdleWaitIfIdle(p)
  <2>1. pc'[p] \in {"settled", "out"}
    BY <1>1, <1>6 DEF Finally, ResolveIdleWaitIfIdle, Goto, PhaseShape
  <2>. QED  BY <2>1, PartsIdle
<1>. QED  BY <1>3, <1>4, <1>5, <1>6
--------------------------------------------------------------------------------
(* What a call's own steps do to its part of Attempts.                           *)

\* What holds of the attempts wherever the calls are.
Counted ==
    /\ tries.recoveries \in 0..1
    /\ tries.recoveries = 1 => recovered
    /\ Loose

\* The types of the numbers involved.
LEMMA Numbers ==
    ASSUME IndInv
    PROVE  /\ tries \in [retries : Nat, recoveries : Nat, rejected : BOOLEAN]
           /\ tries.retries \in Nat /\ tries.recoveries \in Nat
           /\ MaxRetries \in Nat /\ retryAttempt \in 0..MaxRetries
           /\ recovered \in BOOLEAN /\ Counted
<1>1. Counted
  BY DEF IndInv, Attempts, Counted
<1>. QED  BY <1>1, BoundsAssumption DEF IndInv, Shape

\* A delivered message or a good response starts the count again.
LEMMA Fresh ==
    ASSUME IndInv, tries' = FreshTries
    PROVE  Counted' /\ tries'.retries = 0
<1>1. tries'.retries = 0 /\ tries'.recoveries = 0
  BY Numbers DEF FreshTries
<1>. QED  BY <1>1, Numbers DEF Counted, Loose, Room

\* Without retries so far there is an attempt left.
LEMMA NoneIsTight ==
    ASSUME tries'.retries = 0, retryAttempt' \in Nat
    PROVE  Tight'
<1>1. MaxRetries \in Nat
  BY BoundsAssumption
<1>2. Room' \in Nat
  BY <1>1 DEF Room
<1>3. \A a, r \in Nat : 0 <= a + r
  OBVIOUS
<1>. QED  BY <1>2, <1>3 DEF Tight

\* The counts stay what they are, or the retries are forgotten.
LEMMA Kept ==
    ASSUME IndInv, tries'.retries \in {tries.retries, 0}, tries'.recoveries = tries.recoveries,
           recovered' = recovered
    PROVE  Counted' /\ (retryAttempt' = retryAttempt /\ Tight => Tight')
BY Numbers DEF Counted, Tight, Loose, Room

\* A retry uses one of the attempts.
LEMMA Retried ==
    ASSUME IndInv, tries' = [tries EXCEPT !.retries = @ + 1], retryAttempt' = retryAttempt + 1,
           retryAttempt < MaxRetries, Tight, recovered' = recovered
    PROVE  Counted' /\ Tight'
<1>1. tries'.retries = tries.retries + 1 /\ tries'.recoveries = tries.recoveries
  BY Numbers
<1>. QED  BY <1>1, Numbers DEF Counted, Tight, Loose, Room

\* A recovery makes room for as many attempts again.
LEMMA Recovers ==
    ASSUME IndInv, tries' = [tries EXCEPT !.recoveries = @ + 1], ~recovered, recovered' = TRUE,
           retryAttempt' \in Nat
    PROVE  Counted' /\ Tight'
<1>1. tries'.retries = tries.retries /\ tries'.recoveries = tries.recoveries + 1
  BY Numbers
<1>2. tries.recoveries = 0
  BY Numbers DEF Counted
<1>. QED  BY <1>1, <1>2, Numbers DEF Counted, Tight, Loose, Room

\* The counts after a step that starts a run or ends a turn with these messages.
LEMMA Delivered ==
    ASSUME IndInv, NEW ks, NEW ds,
           tries' = IF ks = <<>> THEN tries ELSE FreshTries,
           recovered' = (recovered /\ "user" \notin ToSet(ds)), ks = <<>> => ds = <<>>
    PROVE  /\ Counted'
           /\ ks # <<>> => tries'.retries = 0
           /\ ks = <<>> => UNCHANGED <<tries, recovered>>
<1>1. CASE ks = <<>>
  <2>1. "user" \notin ToSet(ds)
    BY <1>1 DEF ToSet
  <2>2. UNCHANGED <<tries, recovered>>
    BY <1>1, <2>1, Numbers
  <2>. QED  BY <1>1, <2>2, Kept
<1>2. CASE ks # <<>>
  BY <1>2, Fresh
<1>. QED  BY <1>1, <1>2

\* A concatenation is empty only if both parts are.
LEMMA EmptyConcat ==
    ASSUME NEW S, NEW s \in Seq(S), NEW t \in Seq(S)
    PROVE  s \o t = <<>> <=> s = <<>> /\ t = <<>>
<1>1. Len(s \o t) = Len(s) + Len(t) /\ s \o t \in Seq(S)
  BY Concat
<1>. QED  BY <1>1
\* _checkCompaction after a run: what it leaves to the attempts.
LEMMA AttemptsCheck ==
    ASSUME IndInv, NEW p \in Prompts, NEW i, NEW post \in BOOLEAN, CheckCompaction(p, i, post),
           retryAttempt' \in Nat, UNCHANGED branch,
           post => tries.retries = 0 \/ (EndsWith(lastAssistant) /\ lastAssistant \in DOMAIN branch)
    PROVE  Counted' /\ AttemptsOf(p)'
<1>1. PhaseShape /\ LocalShape
  BY StateFacts
<1>2. CASE UNCHANGED <<messages, recovered, tries>> /\ \E again \in BOOLEAN : CheckReturns(p, post, again)
  <2>1. Counted'
    BY <1>2, Kept
  <2>2. pc'[p] \in {"build", "resume", "finally"} /\ (pc'[p] = "resume" => post)
    BY <1>1, <1>2 DEF CheckReturns, Goto, PhaseShape
  <2>3. ASSUME pc'[p] = "resume" PROVE Tight' \/ EndsWithResponse'
    <3>1. tries.retries = 0 => Tight'
      BY <1>2, NoneIsTight
    <3>2. EndsWith(lastAssistant) => EndsWithResponse'
      BY <1>2 DEF EndsWith, EndsWithResponse, IsAssistant, KindAt
    <3>. QED  BY <2>2, <2>3, <3>1, <3>2
  <2>4. CASE pc'[p] = "resume"
    BY <2>1, <2>3, <2>4 DEF AttemptsOf, HasRun, Compacting
  <2>. QED  BY <2>1, <2>2, <2>4, PartsIdle
<1>3. CASE /\ ~recovered /\ recovered' = TRUE /\ tries' = [tries EXCEPT !.recoveries = @ + 1]
           /\ local' = [local EXCEPT ![p].post = post, ![p].retry = TRUE] /\ Goto(p, "compactAuth")
  <2>1. Counted' /\ Tight'
    BY <1>3, Recovers
  <2>2. pc'[p] = "compactAuth" /\ local'[p].retry = TRUE
    BY <1>1, <1>3 DEF Goto, PhaseShape, LocalShape, Local
  <2>. QED  BY <2>1, <2>2 DEF AttemptsOf, HasRun
<1>4. CASE /\ UNCHANGED <<messages, recovered, tries>> /\ Goto(p, "compactAuth")
           /\ local' = [local EXCEPT ![p].post = post, ![p].retry = FALSE]
  <2>1. Counted'
    BY <1>4, Kept
  <2>2. pc'[p] = "compactAuth" /\ local'[p].retry = FALSE /\ local'[p].post = post
    BY <1>1, <1>4 DEF Goto, PhaseShape, LocalShape, Local
  <2>3. post => tries'.retries = 0 \/ \E e \in DOMAIN branch' : EndsWith(e)'
    BY <1>4 DEF EndsWith, IsAssistant, KindAt
  <2>. QED  BY <2>1, <2>2, <2>3 DEF AttemptsOf, HasRun, Compacting
<1>. QED  BY <1>2, <1>3, <1>4, Zenon DEF CheckCompaction

\* The steps before the run.
LEMMA AttemptsBefore ==
    ASSUME IndInv, NEW p \in Prompts, retryAttempt' \in Nat,
           Submit(p) \/ Authorize(p) \/ Build(p) \/ BeforeAgentStart(p) \/ TriggerTurn(p)
    PROVE  Counted' /\ AttemptsOf(p)'
<1>1. PhaseShape /\ LocalShape
  BY StateFacts
<1>2. CASE Submit(p) \/ Build(p)
  <2>1. pc'[p] \in {"out", "auth", "before"}
    BY <1>1, <1>2 DEF Submit, Build, Goto, PhaseShape
  <2>2. UNCHANGED <<tries, recovered>>
    BY <1>2 DEF Submit, Build
  <2>. QED  BY <2>1, <2>2, PartsIdle, Kept
<1>3. CASE Authorize(p)
  <2>1. CASE (Goto(p, "out") \/ Goto(p, "build")) /\ UNCHANGED <<tries, recovered>>
    <3>1. pc'[p] \in {"out", "build"}
      BY <1>1, <2>1 DEF Goto, PhaseShape
    <3>. QED  BY <2>1, <3>1, PartsIdle, Kept
  <2>2. CASE CheckCompaction(p, Max({i \in ToSet(messages) : IsAssistant(i)}), FALSE)
    <3>1. UNCHANGED branch
      BY <1>3 DEF Authorize
    <3>. QED  BY <2>2, <3>1, AttemptsCheck
  <2>. QED  BY <1>3, <2>1, <2>2 DEF Authorize
<1>4. ASSUME NEW kinds \in Seq(Plain), kinds # <<>>, RunAgentPrompt(p, kinds)
      PROVE  Counted' /\ AttemptsOf(p)'
  <2>1. CASE Goto(p, "finally") /\ UNCHANGED <<tries, recovered>>
    <3>1. pc'[p] = "finally"
      BY <1>1, <2>1 DEF Goto, PhaseShape
    <3>. QED  BY <2>1, <3>1, PartsIdle, Kept
  <2>2. CASE StartRun(p, kinds, Poll(steering))
    <3>1. kinds \o Poll(steering) # <<>>
      BY <1>4, PlainSequences, EmptyConcat
    <3>2. Counted' /\ tries'.retries = 0
      BY <2>2, <3>1, Fresh DEF StartRun
    <3>3. Tight'
      BY <3>2, NoneIsTight
    <3>4. pc'[p] = "run"
      BY <1>1, <2>2 DEF StartRun, Goto, PhaseShape
    <3>5. agent'.phase = "turn"
      BY <2>2 DEF StartRun
    <3>. QED  BY <3>2, <3>3, <3>4, <3>5 DEF AttemptsOf, HasRun, Compacting
  <2>. QED  BY <1>4, <2>1, <2>2 DEF RunAgentPrompt
<1>5. CASE BeforeAgentStart(p)
  <2>1. PICK added \in 0..1 : RunAgentPrompt(p, <<"user">> \o Repeat("custom", local[p].carry + added))
    BY <1>5 DEF BeforeAgentStart
  <2>2. local[p].carry + added \in Nat
    <3>1. local[p].carry \in Nat
      BY <1>1 DEF LocalShape, Local
    <3>. QED  BY <3>1
  <2>3. <<"user">> \in Seq(Plain) /\ Repeat("custom", local[p].carry + added) \in Seq(Plain)
    BY <2>2 DEF Plain, Repeat
  <2>4. <<"user">> \o Repeat("custom", local[p].carry + added) \in Seq(Plain)
    BY <2>2, PlainSequences
  <2>5. <<"user">> \o Repeat("custom", local[p].carry + added) # <<>>
    BY <2>3, EmptyConcat
  <2>. QED  BY <1>4, <2>1, <2>4, <2>5
<1>6. CASE TriggerTurn(p)
  <2>1. <<"custom">> \in Seq(Plain) /\ <<"custom">> # <<>>
    BY DEF Plain
  <2>. QED  BY <1>4, <1>6, <2>1 DEF TriggerTurn
<1>. QED  BY <1>2, <1>3, <1>5, <1>6

\* The steps of a compaction.
LEMMA AttemptsCompaction ==
    ASSUME IndInv, NEW p \in Prompts, CompactAuth(p) \/ CompactSummary(p) \/ CompactEvent(p)
    PROVE  Counted' /\ AttemptsOf(p)'
<1>1. PhaseShape /\ LocalShape /\ TranscriptOf(p) /\ AttemptsOf(p)
  BY StateFacts, PartsHold
<1>2. Sound(branch) /\ Matches(branch, messages)
  BY DEF IndInv, Transcript
<1>3. UNCHANGED <<tries, recovered, retryAttempt>>
  BY DEF CompactAuth, CompactSummary, CompactEvent
<1>4. Counted' /\ (Tight => Tight')
  BY <1>3, Kept
<1>5. retryAttempt \in Nat
  BY Numbers
<1>6. ASSUME NEW again, CompactionReturns(p, again), local[p].post => Tight \/ tries.retries = 0 \/ EndsWithResponse'
      PROVE  AttemptsOf(p)'
  <2>1. IF local[p].post THEN pc'[p] \in {"resume", "finally"} ELSE pc'[p] = "build"
    BY <1>1, <1>6, ReturnMoves
  <2>2. tries.retries = 0 => Tight'
    BY <1>3, <1>5, NoneIsTight
  <2>3. CASE pc'[p] = "resume"
    BY <1>4, <1>6, <2>1, <2>2, <2>3 DEF AttemptsOf, HasRun, Compacting
  <2>. QED  BY <2>1, <2>3, PartsIdle
<1>7. CASE CompactAuth(p)
  <2>1. pc[p] = "compactAuth" /\ branch' = branch /\ messages' = messages
    BY <1>7 DEF CompactAuth, transcript
  <2>2. \A e : EndsWith(e)' <=> EndsWith(e)
    BY <2>1 DEF EndsWith, IsAssistant, KindAt
  <2>3. (\E e \in DOMAIN branch : EndsWith(e)) => EndsWithResponse'
    BY <2>1 DEF EndsWith, EndsWithResponse, IsAssistant, KindAt
  <2>4. CASE CompactionReturns(p, FALSE)
    BY <1>1, <1>4, <1>6, <2>1, <2>3, <2>4 DEF AttemptsOf, Compacting
  <2>5. ASSUME NEW cut, local' = [local EXCEPT ![p].cut = cut], Goto(p, "compactSummary")
        PROVE  AttemptsOf(p)'
    <3>1. /\ pc'[p] = "compactSummary" /\ local'[p].post = local[p].post
          /\ local'[p].retry = local[p].retry
      BY <1>1, <2>5 DEF Goto, PhaseShape, LocalShape, Local
    <3>. QED  BY <1>1, <1>3, <1>4, <2>1, <2>2, <3>1 DEF AttemptsOf, HasRun, Compacting
  <2>. QED  BY <1>4, <1>7, <2>4, <2>5 DEF CompactAuth
<1>8. CASE CompactSummary(p)
  <2>1. pc[p] = "compactSummary"
    BY <1>8 DEF CompactSummary
  <2>2. CASE CompactionReturns(p, FALSE) /\ UNCHANGED transcript
    <3>1. (\E e \in DOMAIN branch : EndsWith(e)) => EndsWithResponse'
      BY <2>2 DEF transcript, EndsWith, EndsWithResponse, IsAssistant, KindAt
    <3>2. AttemptsOf(p)'
      BY <1>1, <1>6, <2>1, <2>2, <3>1 DEF AttemptsOf, Compacting
    <3>. QED  BY <1>4, <3>2
  <2>3. CASE Publish(local[p].cut) /\ Goto(p, "compactEvent") /\ UNCHANGED local
    <3>1. pc'[p] = "compactEvent" /\ local[p].cut \in Nat
      BY <1>1, <2>3 DEF Goto, PhaseShape, LocalShape, Local
    <3>2. GoodCut(branch, local[p].cut, Len(branch))
      BY <1>1, <2>1 DEF TranscriptOf
    <3>3. ASSUME NEW e \in DOMAIN branch, EndsWith(e) PROVE EndsWithResponse'
      <4>1. messages' # <<>> /\ Last(messages') = e
        BY <1>2, <2>3, <3>1, <3>2, <3>3, Published DEF Publish, EndsWith
      <4>2. branch'[e] = branch[e]
        BY <1>2, <2>3, <3>3 DEF Publish, Sound
      <4>. QED  BY <3>3, <4>1, <4>2 DEF EndsWith, EndsWithResponse, IsAssistant, KindAt
    <3>. QED  BY <1>1, <1>3, <1>4, <2>1, <2>3, <3>1, <3>3 DEF AttemptsOf, HasRun, Compacting
  <2>. QED  BY <1>8, <2>2, <2>3 DEF CompactSummary
<1>9. CASE CompactEvent(p)
  <2>1. pc[p] = "compactEvent" /\ CompactionReturns(p, local[p].retry) /\ branch' = branch
    BY <1>9 DEF CompactEvent
  <2>2. ~local[p].retry => messages' = messages
    BY <1>9 DEF CompactEvent
  <2>3. ~local[p].retry /\ EndsWithResponse => EndsWithResponse'
    BY <2>1, <2>2 DEF EndsWithResponse, IsAssistant, KindAt
  <2>4. local[p].retry \in BOOLEAN
    BY <1>1 DEF LocalShape, Local
  <2>5. local[p].post => Tight \/ tries.retries = 0 \/ EndsWithResponse'
    BY <1>1, <2>1, <2>3, <2>4 DEF AttemptsOf, Compacting
  <2>. QED  BY <1>4, <1>6, <2>1, <2>5
<1>. QED  BY <1>7, <1>8, <1>9
\* The steps of a turn.
LEMMA AttemptsTurn ==
    ASSUME IndInv, NEW p \in Prompts, Respond(p) \/ ToolResult(p) \/ EndTurn(p), retryAttempt' \in Nat
    PROVE  Counted' /\ AttemptsOf(p)'
<1>1. PhaseShape /\ AgentShape /\ TranscriptOf(p) /\ AttemptsOf(p)
  BY StateFacts, PartsHold
<1>2. Sound(branch) /\ Matches(branch, messages)
  BY DEF IndInv, Transcript
<1>3. CASE Respond(p)
  <2>1. PICK kind \in Assistant :
          /\ Push(<<kind>>)
          /\ agent' = [agent EXCEPT !.phase = IF kind \in Calling THEN "tools" ELSE "turnEnd"]
          /\ recovered' = (recovered /\ kind \in Errors \cup Truncated)
          /\ retryAttempt' = IF kind \in Errors THEN retryAttempt ELSE 0
          /\ tries' = Tried(kind)
    BY <1>3, RespondFacts, Zenon
  <2>2. lastAssistant' = Len(branch') /\ pc'[p] = "run" /\ HasRun(p, {"turn"})
    BY <1>3, RespondFacts DEF HasRun
  <2>3. Tight
    BY <1>1, <2>2 DEF AttemptsOf
  <2>4. branch'[lastAssistant'].kind = kind /\ EndsWith(lastAssistant)'
    BY <1>2, <2>1, <2>2, ResponsePushed
  <2>5. agent'.phase \in {"tools", "turnEnd"} /\ (agent'.phase = "tools" => kind \in Calling)
    BY <1>1, <2>1 DEF AgentShape
  <2>6. CASE kind \in Errors \cup Truncated
    <3>1. /\ UNCHANGED recovered /\ tries' = [tries EXCEPT !.retries = IF kind \in Calling THEN 0 ELSE @]
      BY <2>1, <2>6, Numbers DEF Tried
    <3>2. CASE kind \in Calling
      <4>1. tries'.retries = 0 /\ tries'.recoveries = tries.recoveries
        BY <3>1, <3>2, Numbers
      <4>2. Counted' /\ Tight'
        BY <3>1, <4>1, Kept, NoneIsTight
      <4>. QED  BY <2>2, <2>5, <4>1, <4>2 DEF AttemptsOf, HasRun, Compacting
    <3>3. CASE kind \notin Calling
      <4>1. UNCHANGED <<tries, recovered>>
        BY <3>1, <3>3, Numbers
      <4>2. Counted'
        BY <4>1, Kept
      <4>3. kind \in CutShort \/ retryAttempt' = retryAttempt
        BY <2>1, <2>6, <3>3 DEF Errors, Truncated, Calling, CutShort
      <4>4. kind \in CutShort \/ Tight'
        BY <2>3, <4>1, <4>3, Kept
      <4>. QED  BY <2>2, <2>4, <2>5, <3>3, <4>2, <4>4 DEF AttemptsOf, HasRun, Compacting, KindAt
    <3>. QED  BY <3>2, <3>3
  <2>7. CASE kind \notin Errors \cup Truncated
    <3>1. Counted' /\ tries'.retries = 0
      BY <2>1, <2>7, Fresh DEF Tried
    <3>2. Tight'
      BY <3>1, NoneIsTight
    <3>. QED  BY <2>2, <2>5, <3>1, <3>2 DEF AttemptsOf, HasRun, Compacting
  <2>. QED  BY <2>6, <2>7
<1>4. CASE ToolResult(p)
  <2>1. /\ HasRun(p, {"tools"}) /\ UNCHANGED <<pc, lastAssistant, tries, recovered, retryAttempt>>
        /\ agent' = [agent EXCEPT !.phase = "turnEnd"]
    BY <1>4 DEF ToolResult, HasRun, calls
  <2>2. tries.retries = 0
    BY <1>1, <2>1 DEF AttemptsOf
  <2>3. Counted' /\ Tight'
    BY <2>1, <2>2, Kept, NoneIsTight
  <2>4. agent'.phase = "turnEnd" /\ pc'[p] = "run"
    BY <1>1, <2>1 DEF AgentShape, HasRun
  <2>. QED  BY <2>1, <2>2, <2>3, <2>4 DEF AttemptsOf, HasRun, Compacting
<1>5. CASE EndTurn(p)
  <2>. DEFINE D == {<<>>, Poll(steering), Poll(followUp)}
  <2>1. PICK steered \in D, follow \in D :
          /\ Push(PendingCustom \o (steered \o follow))
          /\ recovered' = (recovered /\ "user" \notin ToSet(steered \o follow))
          /\ tries' = IF PendingCustom \o (steered \o follow) = <<>> THEN tries ELSE FreshTries
          /\ \/ /\ KindAt(LatestIn(branch, Assistant)) \in Calling \/ steered \o follow # <<>>
                /\ agent' = [agent EXCEPT !.phase = "turn"] /\ UNCHANGED pc
             \/ agent' = Idle /\ Goto(p, "post")
    BY <1>5, Zenon DEF EndTurn
  <2>2. steered \in Seq(Plain) /\ follow \in Seq(Plain) /\ PendingCustom \in Seq(Plain)
    <3>1. <<>> \in Seq(Plain) /\ Poll(steering) \in Seq(Plain) /\ Poll(followUp) \in Seq(Plain)
      BY PlainSequences
    <3>. QED  BY <3>1, PlainSequences
  <2>. DEFINE ds == steered \o follow
              ks == PendingCustom \o ds
  <2>3. ds \in Seq(Plain)
    BY <2>2, Concat
  <2>4. ks \in Seq(Plain) /\ (ks = <<>> => ds = <<>>)
    BY <2>2, <2>3, Concat, EmptyConcat
  <2>5. /\ Push(ks)
        /\ recovered' = (recovered /\ "user" \notin ToSet(ds))
        /\ tries' = IF ks = <<>> THEN tries ELSE FreshTries
        /\ \/ /\ KindAt(LatestIn(branch, Assistant)) \in Calling \/ ds # <<>>
              /\ agent' = [agent EXCEPT !.phase = "turn"] /\ UNCHANGED pc
           \/ agent' = Idle /\ Goto(p, "post")
    BY <2>1
  <2>6. HasRun(p, {"turnEnd"}) /\ UNCHANGED <<lastAssistant, retryAttempt>>
    BY <1>5 DEF EndTurn, HasRun
  <2>. HIDE DEF ds, ks
  <2>7. Counted' /\ (ks # <<>> => tries'.retries = 0) /\ (ks = <<>> => UNCHANGED <<tries, recovered>>)
    BY <2>4, <2>5, Delivered
  <2>8. \/ agent'.phase = "turn" /\ pc'[p] = "run"
           /\ (ds = <<>> => KindAt(LatestIn(branch, Assistant)) \in Calling)
        \/ pc'[p] = "post"
    BY <1>1, <2>5, <2>6 DEF AgentShape, Goto, PhaseShape, HasRun
  <2>9. CASE ks # <<>>
    <3>1. tries'.retries = 0 /\ Tight'
      BY <2>7, <2>9, NoneIsTight
    <3>. QED  BY <2>7, <2>8, <3>1 DEF AttemptsOf, HasRun, Compacting
  <2>10. CASE ks = <<>>
    <3>1. branch' = branch /\ messages' = messages
      <4>1. ks \in Seq(Kinds \ {"compaction", "meta"})
        BY <2>4, PlainKinds, SeqOver
      <4>. QED  BY <1>2, <2>5, <2>10, <4>1, PushEnd DEF transcript
    <3>2. Tight => Tight'
      BY <2>6, <2>7, <2>10, Kept
    <3>3. /\ Tight \/ KindAt(lastAssistant) \in CutShort
          /\ tries.retries = 0 \/ EndsWith(lastAssistant)
      BY <1>1, <2>6 DEF AttemptsOf
    <3>4. EndsWith(lastAssistant) => EndsWith(lastAssistant)'
      BY <2>6, <3>1 DEF EndsWith, IsAssistant, KindAt
    <3>5. LatestIn(branch, Assistant) = lastAssistant
      <4>1. LastAnswer
        BY <1>1, <2>6 DEF TranscriptOf, HasRun
      <4>2. branch \in Seq(BranchEntry) /\ DOMAIN branch = 1..Len(branch) /\ Len(branch) \in Nat
        BY <1>2 DEF Sound
      <4>. DEFINE l == LatestIn(branch, Assistant)
      <4>3. /\ l \in 0..Len(branch)
            /\ l # 0 => branch[l].kind \in Assistant
            /\ \A i \in DOMAIN branch : branch[i].kind \in Assistant => i <= l
        BY <4>2, LatestFacts
      <4>. HIDE DEF l
      <4>4. lastAssistant \in 1..Len(branch) /\ lastAssistant <= l
        BY <4>1, <4>2, <4>3 DEF LastAnswer, IsAssistant, KindAt
      <4>5. ASSUME lastAssistant < l PROVE FALSE
        <5>1. l \in (lastAssistant + 1)..Len(branch) /\ l # 0
          BY <4>2, <4>3, <4>4, <4>5
        <5>. QED  BY <4>1, <4>3, <5>1 DEF LastAnswer, KindAt
      <4>6. lastAssistant = l
        BY <4>2, <4>3, <4>4, <4>5
      <4>. QED  BY <4>6 DEF l
    <3>6. CASE agent'.phase = "turn" /\ pc'[p] = "run" /\ KindAt(LatestIn(branch, Assistant)) \in Calling
      BY <2>7, <3>2, <3>3, <3>5, <3>6 DEF AttemptsOf, HasRun, Compacting, Calling, CutShort
    <3>7. CASE pc'[p] = "post"
      <4>1. KindAt(lastAssistant) \in CutShort => KindAt(lastAssistant)' \in CutShort
        BY <2>6, <3>1 DEF KindAt
      <4>2. tries.retries = 0 => tries'.retries = 0
        BY <2>7, <2>10
      <4>. QED  BY <2>7, <3>2, <3>3, <3>4, <3>7, <4>1, <4>2 DEF AttemptsOf, HasRun, Compacting
    <3>. QED  BY <2>4, <2>8, <2>10, <3>6, <3>7
  <2>. QED  BY <2>9, <2>10
<1>. QED  BY <1>3, <1>4, <1>5

\* The steps after a run.
LEMMA AttemptsAfter ==
    ASSUME IndInv, NEW p \in Prompts, retryAttempt' \in Nat,
           HandlePostAgentRun(p) \/ Backoff(p) \/ Continue(p) \/ Finally(p) \/ ResolveIdleWaitIfIdle(p)
    PROVE  Counted' /\ AttemptsOf(p)'
<1>1. PhaseShape /\ LocalShape /\ ControlShape /\ TranscriptOf(p) /\ AttemptsOf(p)
  BY StateFacts, PartsHold
<1>2. CASE HandlePostAgentRun(p)
  <2>1. /\ Tight \/ KindAt(lastAssistant) \in CutShort
        /\ tries.retries = 0 \/ EndsWith(lastAssistant)
        /\ LastAnswer /\ UNCHANGED branch
    BY <1>1, <1>2 DEF TranscriptOf, AttemptsOf, HandlePostAgentRun
  <2>2. CASE Goto(p, "finally") /\ UNCHANGED <<tries, recovered>>
    <3>1. pc'[p] = "finally"
      BY <1>1, <2>2 DEF Goto, PhaseShape
    <3>. QED  BY <2>2, <3>1, PartsIdle, Kept
  <2>3. CASE /\ KindAt(lastAssistant) = "error" /\ retryAttempt < MaxRetries
             /\ retryAttempt' = retryAttempt + 1 /\ tries' = [tries EXCEPT !.retries = @ + 1]
             /\ ctl' = [ctl EXCEPT !.retry = "live"] /\ Goto(p, "backoff") /\ UNCHANGED recovered
    <3>1. Counted' /\ Tight'
      BY <2>1, <2>3, Retried DEF CutShort
    <3>2. pc'[p] = "backoff" /\ ctl'.retry = "live"
      BY <1>1, <2>3 DEF Goto, PhaseShape, ControlShape
    <3>. QED  BY <3>1, <3>2 DEF AttemptsOf, HasRun, Compacting
  <2>4. CASE CheckCompaction(p, lastAssistant, TRUE)
    BY <2>1, <2>4, AttemptsCheck DEF LastAnswer
  <2>. QED  BY <1>2, <2>2, <2>3, <2>4 DEF HandlePostAgentRun
<1>3. CASE Backoff(p)
  <2>1. Tight /\ (ctl.retry = "aborted" => tries.retries = 0) /\ UNCHANGED branch
    BY <1>1, <1>3 DEF AttemptsOf, Backoff
  <2>2. CASE ctl.retry = "aborted" /\ CheckCompaction(p, local[p].msg, TRUE)
    BY <2>1, <2>2, AttemptsCheck
  <2>3. CASE Goto(p, "resume") /\ UNCHANGED <<tries, recovered, retryAttempt>>
    <3>1. pc'[p] = "resume"
      BY <1>1, <2>3 DEF Goto, PhaseShape
    <3>2. Counted' /\ Tight'
      BY <2>1, <2>3, Kept
    <3>. QED  BY <3>1, <3>2 DEF AttemptsOf, HasRun, Compacting
  <2>. QED  BY <1>3, <2>2, <2>3 DEF Backoff
<1>4. CASE Continue(p)
  <2>1. (Tight \/ EndsWithResponse) /\ UNCHANGED retryAttempt
    BY <1>1, <1>4 DEF AttemptsOf, Continue
  <2>2. CASE tries' = [tries EXCEPT !.rejected = TRUE] /\ Goto(p, "finally") /\ UNCHANGED recovered
    <3>1. pc'[p] = "finally"
      BY <1>1, <2>2 DEF Goto, PhaseShape
    <3>2. tries'.retries = tries.retries /\ tries'.recoveries = tries.recoveries
      BY <2>2, Numbers
    <3>. QED  BY <2>2, <3>1, <3>2, PartsIdle, Kept
  <2>3. ASSUME NEW kinds \in {<<>>, Poll(steering), Poll(followUp)}, NEW polled \in {<<>>, Poll(steering)},
               EndsWithResponse => kinds # <<>>, StartRun(p, kinds, polled)
        PROVE  Counted' /\ AttemptsOf(p)'
    <3>1. kinds \in Seq(Plain) /\ polled \in Seq(Plain)
      <4>1. <<>> \in Seq(Plain) /\ Poll(steering) \in Seq(Plain) /\ Poll(followUp) \in Seq(Plain)
        BY PlainSequences
      <4>. QED  BY <2>3, <4>1
    <3>. DEFINE ks == kinds \o polled
    <3>2. ks \in Seq(Plain) /\ (EndsWithResponse => ks # <<>>)
      BY <2>3, <3>1, Concat, EmptyConcat
    <3>3. /\ tries' = IF ks = <<>> THEN tries ELSE FreshTries
          /\ recovered' = (recovered /\ "user" \notin ToSet(ks))
      BY <2>3 DEF StartRun
    <3>4. pc'[p] = "run" /\ agent'.phase = "turn"
      BY <1>1, <2>3 DEF StartRun, Goto, PhaseShape
    <3>. HIDE DEF ks
    <3>5. Counted' /\ (ks # <<>> => tries'.retries = 0) /\ (ks = <<>> => UNCHANGED <<tries, recovered>>)
      BY <3>3, Delivered
    <3>6. CASE ks = <<>>
      <4>1. Tight'
        BY <2>1, <3>2, <3>5, <3>6, Kept
      <4>. QED  BY <3>4, <3>5, <4>1 DEF AttemptsOf, HasRun, Compacting
    <3>7. CASE ks # <<>>
      <4>1. Tight'
        BY <3>5, <3>7, NoneIsTight
      <4>. QED  BY <3>4, <3>5, <4>1 DEF AttemptsOf, HasRun, Compacting
    <3>. QED  BY <3>6, <3>7
  <2>. QED  BY <1>4, <2>2, <2>3 DEF Continue, EndsWithResponse
<1>5. CASE Finally(p) \/ ResolveIdleWaitIfIdle(p)
  <2>1. pc'[p] \in {"settled", "out"}
    BY <1>1, <1>5 DEF Finally, ResolveIdleWaitIfIdle, Goto, PhaseShape
  <2>2. UNCHANGED <<tries, recovered>>
    BY <1>5 DEF Finally, ResolveIdleWaitIfIdle
  <2>. QED  BY <2>1, <2>2, PartsIdle, Kept
<1>. QED  BY <1>2, <1>3, <1>4, <1>5
--------------------------------------------------------------------------------
(* The invariant is inductive.                                                   *)

\* A call's place does not change by the steps of others.
LEMMA OthersStay ==
    ASSUME Overlap = FALSE, IndInv, [Next]_vars, NEW p \in Prompts,
           ~Prompt(p), ~TriggerTurn(p), ~PromptStep(p)
    PROVE  pc'[p] = pc[p]
<1>1. ASSUME NEW q \in Prompts, Prompt(q) \/ TriggerTurn(q) \/ PromptStep(q)
      PROVE  pc'[p] = pc[p]
  <2>1. Only(q)
    BY <1>1, PromptMoves, Zenon
  <2>. QED  BY <1>1, <2>1 DEF Only
<1>2. CASE UNCHANGED vars
  BY <1>2 DEF vars, calls
<1>3. CASE ManualStep \/ Navigated
  BY <1>3 DEF ManualStep, ManualReady, ManualAuth, ManualSummary, ManualEvent, Navigated, calls
<1>4. CASE HostCall
  BY <1>4 DEF HostCall, Queue, clearQueue, sendCustomMessage, recordBashResult, setSessionName,
     WaitForIdle, abortCompaction, Compact, NavigateTree, calls
<1>. QED  BY <1>1, <1>2, <1>3, <1>4 DEF Next

\* Every step keeps the parts of every call.
LEMMA PartsStep ==
    ASSUME Overlap = FALSE, IndInv, [Next]_vars, NEW p \in Prompts
    PROVE  TranscriptOf(p)' /\ AttemptsOf(p)'
<1>1. PhaseShape /\ LocalShape
  BY StateFacts
<1>2. retryAttempt' \in Nat
  <2>1. retryAttempt' \in 0..MaxRetries
    BY ShapeStep DEF Shape
  <2>. QED  BY <2>1, BoundsAssumption
<1>3. CASE TriggerTurn(p) \/ PromptStep(p)
  <2>1. CASE Submit(p) \/ Authorize(p) \/ Build(p) \/ BeforeAgentStart(p) \/ TriggerTurn(p)
    BY <1>2, <2>1, TranscriptBefore, AttemptsBefore
  <2>2. CASE CompactAuth(p) \/ CompactSummary(p) \/ CompactEvent(p)
    BY <2>2, TranscriptCompaction, AttemptsCompaction
  <2>3. CASE Respond(p) \/ ToolResult(p) \/ EndTurn(p)
    BY <1>2, <2>3, TranscriptTurn, AttemptsTurn
  <2>4. CASE HandlePostAgentRun(p) \/ Backoff(p) \/ Continue(p) \/ Finally(p) \/ ResolveIdleWaitIfIdle(p)
    BY <1>2, <2>4, TranscriptAfter, AttemptsAfter
  <2>. QED  BY <1>3, <2>1, <2>2, <2>3, <2>4 DEF PromptStep
<1>4. CASE Prompt(p)
  <2>1. pc'[p] = "input"
    BY <1>1, <1>4 DEF Prompt, Goto, PhaseShape
  <2>. QED  BY <2>1, PartsIdle
<1>5. CASE Engaged(p) /\ ~PromptStep(p)
  <2>1. Undisturbed(p)
    BY <1>5, Meanwhile, Zenon
  <2>. QED  BY <1>5, <2>1, TranscriptMeanwhile, AttemptsMeanwhile
<1>6. CASE ~Engaged(p) /\ ~Prompt(p) /\ ~TriggerTurn(p) /\ ~PromptStep(p)
  <2>1. pc'[p] = pc[p]
    BY <1>6, OthersStay, Zenon
  <2>2. pc[p] \in PromptPhases /\ local[p].post \in BOOLEAN
    BY <1>1 DEF PhaseShape, LocalShape, Local
  <2>3. pc[p] \in {"out", "input", "settled"}
    BY <1>6, <2>2 DEF Engaged, InRun, InPreflight, Compacting, PromptPhases
  <2>. QED  BY <2>1, <2>3, PartsIdle
<1>. QED  BY <1>3, <1>4, <1>5, <1>6

\* Every step keeps the counts of attempts.
LEMMA CountedStep ==
    ASSUME Overlap = FALSE, IndInv, [Next]_vars
    PROVE  Counted'
<1>1. retryAttempt' \in Nat
  <2>1. retryAttempt' \in 0..MaxRetries
    BY ShapeStep DEF Shape
  <2>. QED  BY <2>1, BoundsAssumption
<1>2. ASSUME NEW p \in Prompts, TriggerTurn(p) \/ PromptStep(p)
      PROVE  Counted'
  <2>1. CASE Submit(p) \/ Authorize(p) \/ Build(p) \/ BeforeAgentStart(p) \/ TriggerTurn(p)
    BY <1>1, <2>1, AttemptsBefore
  <2>2. CASE CompactAuth(p) \/ CompactSummary(p) \/ CompactEvent(p)
    BY <2>2, AttemptsCompaction
  <2>3. CASE Respond(p) \/ ToolResult(p) \/ EndTurn(p)
    BY <1>1, <2>3, AttemptsTurn
  <2>4. CASE HandlePostAgentRun(p) \/ Backoff(p) \/ Continue(p) \/ Finally(p) \/ ResolveIdleWaitIfIdle(p)
    BY <1>1, <2>4, AttemptsAfter
  <2>. QED  BY <1>2, <2>1, <2>2, <2>3, <2>4 DEF PromptStep
<1>3. ASSUME tries' = tries \/ tries' = [tries EXCEPT !.retries = 0], UNCHANGED recovered
      PROVE  Counted'
  BY <1>3, Kept, Numbers
<1>4. ASSUME NEW p \in Prompts, Prompt(p) PROVE Counted'
  BY <1>3, <1>4 DEF Prompt
<1>5. CASE ManualStep \/ Navigated
  BY <1>3, <1>5 DEF ManualStep, ManualReady, ManualAuth, ManualSummary, ManualEvent, Navigated
<1>6. CASE WaitForIdle(TRUE) \/ WaitForIdle(FALSE) \/ Compact
  BY <1>3, <1>6 DEF WaitForIdle, Compact, AbortRun
<1>7. CASE UNCHANGED <<tries, recovered>>
  BY <1>3, <1>7
<1>. QED  BY <1>2, <1>4, <1>5, <1>6, <1>7 DEF Next, HostCall, vars, Queue, clearQueue, sendCustomMessage,
          recordBashResult, setSessionName, abortCompaction, NavigateTree

\* Every step keeps Attempts.
LEMMA AttemptsStep ==
    ASSUME Overlap = FALSE, IndInv, [Next]_vars
    PROVE  Attempts'
<1>1. Counted'
  BY CountedStep, Zenon
<1>2. \A p \in Prompts : AttemptsOf(p)'
  BY PartsStep, Zenon
<1>3. HolderRuns'
  BY HolderStep
<1>4. ASSUME agent'.phase # "idle" PROVE \E p \in Prompts : pc'[p] = "run" /\ agent'.run = p
  BY <1>3, <1>4 DEF HolderRuns
<1>5. /\ agent'.phase = "turn" => Tight'
      /\ agent'.phase = "tools" => tries'.retries = 0
      /\ agent'.phase = "turnEnd" \/ (\E p \in Prompts : pc'[p] = "post") =>
            /\ Tight' \/ KindAt(lastAssistant)' \in CutShort
            /\ tries'.retries = 0 \/ EndsWith(lastAssistant)'
  BY <1>2, <1>4 DEF AttemptsOf, HasRun
<1>6. \A p \in Prompts :
        /\ pc'[p] = "backoff" => Tight' /\ (ctl'.retry = "aborted" => tries'.retries = 0)
        /\ pc'[p] \in Compacting /\ local'[p].post /\ local'[p].retry => Tight'
        /\ pc'[p] \in {"compactAuth", "compactSummary"} /\ local'[p].post /\ ~local'[p].retry =>
               tries'.retries = 0 \/ \E e \in DOMAIN branch' : EndsWith(e)'
        /\ pc'[p] = "compactEvent" /\ local'[p].post /\ ~local'[p].retry =>
               tries'.retries = 0 \/ EndsWithResponse'
        /\ pc'[p] = "resume" => Tight' \/ EndsWithResponse'
  BY <1>2 DEF AttemptsOf
<1>. QED  BY <1>1, <1>5, <1>6 DEF Attempts, Counted

\* Every step keeps Transcript.
LEMMA TranscriptStep ==
    ASSUME Overlap = FALSE, IndInv, [Next]_vars
    PROVE  Transcript'
<1>1. Sound(branch) /\ Matches(branch, messages)
  BY DEF IndInv, Transcript
<1>2. Sound(branch') /\ Matches(branch', messages') /\ (Grown \/ GoesBack)
  BY <1>1, EffectStep, EffectKeeps
<1>3. \A p \in Prompts : TranscriptOf(p)'
  BY PartsStep, Zenon
<1>4. HolderRuns'
  BY HolderStep
<1>5. ASSUME agent'.phase # "idle" PROVE \E p \in Prompts : pc'[p] = "run" /\ agent'.run = p
  BY <1>4, <1>5 DEF HolderRuns
<1>6. agent'.phase = "tools" => FollowsCall(branch', Len(branch') + 1)
  BY <1>3, <1>5 DEF TranscriptOf, HasRun
<1>7. Answered' => LastAnswer'
  BY <1>3, <1>5 DEF TranscriptOf, HasRun, Answered
<1>8. \A p \in Prompts :
        /\ pc'[p] = "compactSummary" => GoodCut(branch', local'[p].cut, Len(branch'))
        /\ pc'[p] = "backoff" => local'[p].msg \in DOMAIN branch' /\ KindAt(local[p].msg)' = "error"
        /\ pc'[p] \in {"compactAuth", "compactSummary"} /\ local'[p].retry =>
               \A e \in DOMAIN branch' : LastMessage(branch', e) => KindAt(e)' \notin Unrecoverable
        /\ pc'[p] = "compactEvent" /\ local'[p].retry =>
               messages' # <<>> /\ KindAt(Last(messages))' \notin Unrecoverable
  BY <1>3 DEF TranscriptOf, NoFatalEnd, KindAt
<1>9. manual'.at = "summary" => GoodCut(branch', manual'.cut, Len(branch'))
  <2>1. CASE ManualAuth
    <3>1. branch' = branch
      BY <2>1 DEF ManualAuth, transcript
    <3>2. ASSUME manual'.at = "summary" PROVE manual'.cut \in prepareCompaction(branch)
      BY <2>1, <3>2 DEF ManualAuth, ManualOver
    <3>. QED  BY <1>1, <3>1, <3>2, Cuts
  <2>2. ASSUME ~ManualAuth, manual'.at = "summary" PROVE manual' = manual
    <3>1. ASSUME NEW p \in Prompts, Prompt(p) \/ TriggerTurn(p) \/ PromptStep(p) PROVE manual' = manual
      <4>1. CASE ResolveIdleWaitIfIdle(p)
        BY <2>2, <4>1, StateFacts DEF ResolveIdleWaitIfIdle, ManualShape
      <4>. QED  BY <3>1, <4>1, HostKept
    <3>2. CASE ManualReady \/ ManualSummary \/ ManualEvent \/ Compact
      BY <2>2, <3>2, StateFacts DEF ManualReady, ManualSummary, ManualEvent, ManualOver, Compact, ManualShape
    <3>3. CASE UNCHANGED manual
      BY <3>3
    <3>. QED  BY <2>2, <3>1, <3>2, <3>3 DEF Next, ManualStep, HostCall, vars, Queue, clearQueue,
              sendCustomMessage, recordBashResult, setSessionName, WaitForIdle, abortCompaction,
              NavigateTree, Navigated
  <2>3. ASSUME ~ManualAuth, manual'.at = "summary" PROVE GoodCut(branch', manual'.cut, Len(branch'))
    <3>1. manual' = manual /\ manual.at = "summary" /\ manual.cut \in Nat
      BY <2>2, <2>3, StateFacts DEF ManualShape
    <3>2. GoodCut(branch, manual.cut, Len(branch))
      BY <3>1 DEF IndInv, Transcript
    <3>3. nav.to = None
      BY <3>1, StateFacts DEF Exclusion
    <3>4. Grown
      <4>1. Len(branch) \in Nat /\ None \notin 0..Len(branch)
        BY <1>1 DEF Sound, None
      <4>. QED  BY <1>2, <3>3, <4>1 DEF GoesBack
    <3>. QED  BY <1>1, <3>1, <3>2, <3>4, GrownKeeps
  <2>. QED  BY <2>1, <2>3
<1>10. nav'.to # None => nav'.to <= Len(branch')
  <2>1. CASE NavigateTree
    <3>1. branch' = branch /\ Len(branch) \in Nat
      BY <1>1, <2>1 DEF NavigateTree, transcript, Sound
    <3>2. PICK target \in 1..(Len(branch) - 1) : nav'.to \in {target - 1, target}
      BY <2>1 DEF NavigateTree
    <3>. QED  BY <3>1, <3>2
  <2>2. CASE nav' = nav
    <3>1. nav.to # None => nav.to <= Len(branch)
      BY DEF IndInv, Transcript
    <3>2. nav.to \in Nat \cup {None}
      BY DEF IndInv, Shape
    <3>3. CASE Grown
      BY <2>2, <3>1, <3>2, <3>3 DEF Grown
    <3>4. CASE GoesBack
      BY <3>4 DEF GoesBack
    <3>. QED  BY <1>2, <3>3, <3>4
  <2>3. CASE Navigated
    BY <2>3 DEF Navigated
  <2>4. ASSUME NEW p \in Prompts, Prompt(p) \/ TriggerTurn(p) \/ PromptStep(p) PROVE nav' = nav
    BY <2>4, HostKept
  <2>. QED  BY <2>1, <2>2, <2>3, <2>4 DEF Next, ManualStep, HostCall, vars, Queue, clearQueue,
            sendCustomMessage, recordBashResult, setSessionName, WaitForIdle, abortCompaction, Compact,
            ManualReady, ManualAuth, ManualSummary, ManualEvent
<1>. QED  BY <1>2, <1>6, <1>7, <1>8, <1>9, <1>10 DEF Transcript
\* The invariant holds at the start.
LEMMA InvInit == Init => IndInv
<1>. SUFFICES ASSUME Init PROVE IndInv
  OBVIOUS
<1>1. /\ branch = <<>> /\ messages = <<>> /\ agent = Idle /\ steering = <<>> /\ followUp = <<>>
      /\ pending = [custom |-> 0, bash |-> 0, next |-> 0] /\ pc = [p \in Prompts |-> "out"]
      /\ local = [p \in Prompts |-> NoLocal] /\ active = FALSE /\ lastAssistant = 0
      /\ retryAttempt = 0 /\ recovered = FALSE
      /\ ctl = [retry |-> "none", auto |-> "none", manual |-> "none"]
      /\ manual = [at |-> "out", cut |-> 0] /\ nav = [to |-> None, summarize |-> FALSE]
      /\ tries = [retries |-> 0, recoveries |-> 0, rejected |-> FALSE]
  BY DEF Init
<1>2. Shape
  <2>1. steering \in Seq({"user", "custom"}) /\ followUp \in Seq({"user", "custom"})
    BY <1>1
  <2>2. /\ AgentShape /\ PendingShape
    BY <1>1 DEF AgentShape, PendingShape, Idle
  <2>3. PhaseShape /\ LocalShape
    BY <1>1 DEF PhaseShape, LocalShape, Local, NoLocal, PromptPhases
  <2>4. FlagShape /\ AttemptShape
    <3>1. MaxRetries \in Nat
      BY BoundsAssumption
    <3>2. 0 \in Nat /\ 0 \in 0..MaxRetries
      BY <3>1
    <3>3. FlagShape
      BY <1>1, Zenon DEF FlagShape
    <3>4. AttemptShape
      BY <1>1, <3>2, Zenon DEF AttemptShape
    <3>. QED  BY <3>3, <3>4
  <2>5. ControlShape /\ ManualShape
    BY <1>1 DEF ControlShape, Controller, ManualShape
  <2>6. NavShape /\ TriesShape
    BY <1>1 DEF NavShape, TriesShape
  <2>. QED  BY <2>1, <2>2, <2>3, <2>4, <2>5, <2>6
            DEF Shape, AgentShape, PendingShape, PhaseShape, Local, LocalShape, FlagShape,
                AttemptShape, ControlShape, ManualShape, NavShape, TriesShape
<1>3. /\ \A p \in Prompts : pc[p] = "out" /\ ~InRun(p) /\ ~InPreflight(p)
      /\ agent.phase = "idle" /\ manual.at = "out" /\ nav.to = None
      /\ ctl.manual = "none" /\ ctl.retry = "none"
  BY <1>1 DEF InRun, InPreflight, Compacting, Idle
<1>4. Exclusion
  BY <1>3 DEF Exclusion
<1>5. Sound(branch)
  BY <1>1 DEF Sound
<1>6. Matches(branch, messages)
  <2>1. ContextEntries(branch) = {}
    <3>1. ContextEntries(branch) \in SUBSET (1..Len(branch)) /\ Len(branch) = 0
      BY <1>1, <1>5, ContextFacts
    <3>. QED  BY <3>1
  <2>. QED  BY <1>1, <2>1 DEF Matches, Missing
<1>7. Transcript
  BY <1>3, <1>5, <1>6 DEF Transcript, Answered, None
<1>8. tries.retries = 0 /\ tries.recoveries = 0 /\ MaxRetries \in Nat
  BY <1>1, BoundsAssumption
<1>9. Attempts
  BY <1>3, <1>8 DEF Attempts, Loose, Room, Compacting
<1>. QED  BY <1>2, <1>4, <1>7, <1>9 DEF IndInv

\* Hosts that do not overlap their calls never leave the invariant.
LEMMA AlwaysInv ==
    ASSUME Overlap = FALSE
    PROVE  Spec => []IndInv
<1>1. ASSUME IndInv, [Next]_vars PROVE IndInv'
  <2>1. Shape'
    BY <1>1, ShapeStep
  <2>2. Exclusion'
    BY <1>1, ExclusionStep, Zenon
  <2>3. Transcript'
    BY <1>1, TranscriptStep, Zenon
  <2>4. Attempts'
    BY <1>1, AttemptsStep, Zenon
  <2>. QED  BY <2>1, <2>2, <2>3, <2>4 DEF IndInv
<1>. QED  BY <1>1, InvInit, PTL DEF Spec

--------------------------------------------------------------------------------
(* What follows from it, for hosts that do not overlap their calls.              *)

\* Messages are entries of the branch, what a compaction kept lies before it, and a run
\* holds the agent, the session and its retry controller only while its prompt() may.
THEOREM SessionAlwaysTyped ==
    ASSUME Overlap = FALSE
    PROVE  Spec => []SessionTyped
<1>1. ASSUME IndInv PROVE SessionTyped
  <2>1. Sound(branch) /\ Matches(branch, messages)
    BY <1>1 DEF IndInv, Transcript
  <2>2. ASSUME NEW i \in DOMAIN branch PROVE KindAt(i) \in Kinds /\ branch[i].kept \in 0..(i - 1)
    <3>1. branch[i] \in BranchEntry /\ i \in Nat \ {0}
      BY <2>1, <2>2 DEF Sound
    <3>2. branch[i].kind \in Kinds
      BY <3>1 DEF BranchEntry
    <3>3. CASE branch[i].kind = "compaction"
      <4>1. branch[i].kept \in 1..(i - 1)
        BY <2>1, <3>3 DEF Sound, GoodCut
      <4>. QED  BY <3>2, <4>1 DEF KindAt
    <3>4. CASE branch[i].kind # "compaction"
      <4>1. branch[i].kept = 0
        BY <2>1, <3>4 DEF Sound
      <4>. QED  BY <3>1, <3>2, <4>1 DEF KindAt
    <3>. QED  BY <3>3, <3>4
  <2>3. ToSet(messages) \subseteq DOMAIN branch
    <3>1. ToSet(messages) \subseteq ContextEntries(branch)
      BY <2>1 DEF Matches, ToSet
    <3>2. ContextEntries(branch) \in SUBSET (1..Len(branch)) /\ DOMAIN branch = 1..Len(branch)
      BY <2>1, ContextFacts DEF Sound
    <3>. QED  BY <3>1, <3>2
  <2>4. Exclusion /\ \A p \in Prompts : pc[p] \in PromptPhases
    BY <1>1, StateFacts DEF PhaseShape
  <2>5. agent.phase # "idle" => pc[agent.run] = "run" /\ active
    BY <2>4 DEF Exclusion, InRun
  <2>6. (ctl.retry # "none") = (\E p \in Prompts : pc[p] = "backoff")
    BY <2>4 DEF Exclusion
  <2>7. retryAttempt \in 0..MaxRetries
    BY <1>1, Numbers
  <2>. QED  BY <2>2, <2>3, <2>4, <2>5, <2>6, <2>7 DEF SessionTyped
<1>. QED  BY <1>1, AlwaysInv, PTL

\* The agent's messages are the context of the branch in its order, but for failed
\* responses that are being retried: through every push, deferral, retry, compaction and
\* navigation, whatever their number.
THEOREM StateAlwaysMatches ==
    ASSUME Overlap = FALSE
    PROVE  Spec => []StateMatchesSession
<1>1. ASSUME IndInv PROVE StateMatchesSession
  <2>1. Matches(branch, messages)
    BY <1>1 DEF IndInv, Transcript
  <2>2. ToSet(messages) \subseteq ContextEntries(branch)
    BY <2>1 DEF Matches, ToSet
  <2>3. \A i, j \in DOMAIN messages : i < j => Precedes(branch, messages[i], messages[j])
    BY <2>1 DEF Matches
  <2>4. \A i \in ContextEntries(branch) \ ToSet(messages) : KindAt(i) \in Failed
    BY <2>1 DEF Matches, Missing, ToSet, KindAt
  <2>. QED  BY <2>2, <2>3, <2>4 DEF StateMatchesSession
<1>. QED  BY <1>1, AlwaysInv, PTL

\* Every tool result comes right after its call, in the agent's messages and in the
\* context of the session, however often it was compacted.
THEOREM ResultsStayAdjacent ==
    ASSUME Overlap = FALSE
    PROVE  Spec => []ToolResultsAdjacent
<1>1. ASSUME IndInv PROVE ToolResultsAdjacent
  <2>1. Sound(branch) /\ Matches(branch, messages) /\ Matches(branch, buildSessionContext(branch))
    BY <1>1, ContextMatches DEF IndInv, Transcript
  <2>2. AdjacentIn(branch, messages) /\ AdjacentIn(branch, buildSessionContext(branch))
    BY <2>1, MatchingIsAdjacent
  <2>. QED  BY <2>2 DEF ToolResultsAdjacent, Adjacent, AdjacentIn, KindAt
<1>. QED  BY <1>1, AlwaysInv, PTL

\* Between two delivered messages, good responses or aborted retries there is at most one
\* recovery and at most MaxRetries retries on either side of it.
THEOREM AttemptsStayBounded ==
    ASSUME Overlap = FALSE
    PROVE  Spec => []AttemptsAreBounded
<1>1. ASSUME IndInv PROVE AttemptsAreBounded
  BY <1>1, Numbers DEF Counted, Loose, Room, AttemptsAreBounded
<1>. QED  BY <1>1, AlwaysInv, PTL
--------------------------------------------------------------------------------
(* Waiting for idle: true of every host, overlapping or not.                     *)

\* What makes WaitersAreWoken inductive: the shape of what its steps update.
WaitInv ==
    /\ pc \in [Prompts -> PromptPhases]
    /\ manual = [at |-> manual.at, cut |-> manual.cut]
    /\ WaitersAreWoken

\* A step of p that leaves the waiters alone and ends no run without settling it.
Passes(p) ==
    /\ pc[p] # "settled"
    /\ waiting' = waiting /\ manual' = manual
    /\ pc' = pc \/ \E where \in PromptPhases : pc' = [pc EXCEPT ![p] = where]
    /\ active => active' \/ pc' = [pc EXCEPT ![p] = "settled"]

\* Such a step loses nobody: whoever was settled still is, and so is p if its run ended.
LEMMA PassesWake ==
    ASSUME WaitInv, NEW p \in Prompts, Passes(p)
    PROVE  WaitInv'
<1>1. pc' \in [Prompts -> PromptPhases]
  BY DEF WaitInv, Passes
<1>2. ASSUME NEW q \in Prompts, pc[q] = "settled" PROVE pc'[q] = "settled"
  BY <1>2 DEF WaitInv, Passes
<1>3. active => active' \/ pc'[p] = "settled"
  BY DEF WaitInv, Passes
<1>4. waiting # {} => active' \/ \E q \in Prompts : pc'[q] = "settled"
  BY <1>2, <1>3 DEF WaitInv, WaitersAreWoken
<1>5. waiting' = waiting /\ manual' = manual
  BY DEF Passes
<1>6. manual.at = "idle" => "compact" \in waiting
  BY DEF WaitInv, WaitersAreWoken
<1>7. manual = [at |-> manual.at, cut |-> manual.cut]
  BY DEF WaitInv
<1>. QED  BY <1>1, <1>4, <1>5, <1>6, <1>7 DEF WaitInv, WaitersAreWoken

\* The check for compaction only moves its prompt.
LEMMA CheckPasses ==
    ASSUME NEW p \in Prompts, NEW i, NEW post, CheckCompaction(p, i, post)
    PROVE  \E where \in PromptPhases : pc' = [pc EXCEPT ![p] = where]
BY DEF CheckCompaction, CheckReturns, Goto, PromptPhases

\* Every step of prompt() but its last passes.
LEMMA PromptPasses ==
    ASSUME NEW p \in Prompts, Prompt(p) \/ TriggerTurn(p) \/ PromptStep(p), ~ResolveIdleWaitIfIdle(p)
    PROVE  Passes(p)
<1>1. CASE Prompt(p)
  BY <1>1 DEF Prompt, Goto, Passes, PromptPhases
<1>2. CASE TriggerTurn(p)
  BY <1>2 DEF TriggerTurn, RunAgentPrompt, StartRun, Goto, Passes, PromptPhases
<1>3. CASE Submit(p)
  BY <1>3 DEF Submit, Goto, Passes, PromptPhases
<1>4. CASE Authorize(p)
  <2>1. \E where \in PromptPhases : pc' = [pc EXCEPT ![p] = where]
    BY <1>4, CheckPasses DEF Authorize, Goto, PromptPhases
  <2>. QED  BY <1>4, <2>1 DEF Authorize, Passes
<1>5. CASE CompactAuth(p)
  BY <1>5 DEF CompactAuth, CompactionReturns, CheckReturns, Goto, Passes, PromptPhases
<1>6. CASE CompactSummary(p)
  BY <1>6 DEF CompactSummary, CompactionReturns, CheckReturns, Goto, Passes, PromptPhases
<1>7. CASE CompactEvent(p)
  BY <1>7 DEF CompactEvent, CompactionReturns, CheckReturns, Goto, Passes, PromptPhases
<1>8. CASE Build(p)
  BY <1>8 DEF Build, Goto, Passes, PromptPhases
<1>9. CASE BeforeAgentStart(p)
  BY <1>9 DEF BeforeAgentStart, RunAgentPrompt, StartRun, Goto, Passes, PromptPhases
<1>10. CASE Respond(p)
  BY <1>10 DEF Respond, Passes, calls
<1>11. CASE ToolResult(p)
  BY <1>11 DEF ToolResult, Passes, calls
<1>12. CASE EndTurn(p)
  BY <1>12 DEF EndTurn, Goto, Passes, PromptPhases
<1>13. CASE HandlePostAgentRun(p)
  <2>1. \E where \in PromptPhases : pc' = [pc EXCEPT ![p] = where]
    BY <1>13, CheckPasses DEF HandlePostAgentRun, Goto, PromptPhases
  <2>. QED  BY <1>13, <2>1 DEF HandlePostAgentRun, Passes
<1>14. CASE Backoff(p)
  <2>1. \E where \in PromptPhases : pc' = [pc EXCEPT ![p] = where]
    BY <1>14, CheckPasses DEF Backoff, Goto, PromptPhases
  <2>. QED  BY <1>14, <2>1 DEF Backoff, Passes
<1>15. CASE Continue(p)
  BY <1>15 DEF Continue, StartRun, Goto, Passes, PromptPhases
<1>16. CASE Finally(p)
  BY <1>16 DEF Finally, Goto, Passes, PromptPhases
<1>. QED  BY <1>1, <1>2, <1>3, <1>4, <1>5, <1>6, <1>7, <1>8, <1>9, <1>10, <1>11, <1>12, <1>13,
          <1>14, <1>15, <1>16 DEF PromptStep

\* Calls of the host wait only while a run is active, and compact() is among the waiters
\* while it waits; the other calls and the steps of compact() end nobody's wait.
LEMMA HostWakes ==
    ASSUME WaitInv, ManualStep \/ Navigated \/ HostCall \/ UNCHANGED vars
    PROVE  WaitInv'
<1>1. /\ waiting # {} => active \/ \E p \in Prompts : pc[p] = "settled"
      /\ manual.at = "idle" => "compact" \in waiting
      /\ manual = [at |-> manual.at, cut |-> manual.cut]
  BY DEF WaitInv, WaitersAreWoken
<1>2. pc' = pc /\ active' = active
  BY DEF ManualStep, ManualReady, ManualAuth, ManualSummary, ManualEvent, Navigated, HostCall,
     Queue, clearQueue, sendCustomMessage, recordBashResult, setSessionName, WaitForIdle,
     abortCompaction, Compact, NavigateTree, vars, calls
<1>3. waiting' = waiting \/ (active /\ waiting' = waiting \cup {"host"})
        \/ (active /\ waiting' = waiting \cup {"compact"})
  BY DEF ManualStep, ManualReady, ManualAuth, ManualSummary, ManualEvent, Navigated, HostCall,
     Queue, clearQueue, sendCustomMessage, recordBashResult, setSessionName, WaitForIdle,
     abortCompaction, Compact, NavigateTree, vars
<1>4. \/ manual' = manual
      \/ manual' = [at |-> manual'.at, cut |-> manual'.cut] /\ manual'.at # "idle"
      \/ manual' = [at |-> "idle", cut |-> 0] /\ "compact" \in waiting'
  <2>1. CASE Compact
    BY <2>1 DEF Compact
  <2>2. CASE ManualReady
    <3>1. manual' = [at |-> "auth", cut |-> manual.cut]
      BY <2>2, <1>1 DEF ManualReady
    <3>. QED  BY <3>1
  <2>3. CASE ManualAuth
    BY <2>3 DEF ManualAuth, ManualOver
  <2>4. CASE ManualSummary
    <3>1. manual' = [at |-> "out", cut |-> 0] \/ manual' = [at |-> "event", cut |-> manual.cut]
      BY <2>4, <1>1 DEF ManualSummary, ManualOver
    <3>. QED  BY <3>1
  <2>5. CASE ManualEvent
    BY <2>5 DEF ManualEvent, ManualOver
  <2>6. CASE Navigated \/ (HostCall /\ ~Compact) \/ UNCHANGED vars
    BY <2>6 DEF Navigated, HostCall, Queue, clearQueue, sendCustomMessage, recordBashResult,
       setSessionName, WaitForIdle, abortCompaction, NavigateTree, vars
  <2>. QED  BY <2>1, <2>2, <2>3, <2>4, <2>5, <2>6 DEF ManualStep, HostCall
<1>5. waiting' # {} => active \/ \E p \in Prompts : pc[p] = "settled"
  BY <1>1, <1>3
<1>6. manual'.at = "idle" => "compact" \in waiting'
  BY <1>1, <1>3, <1>4
<1>7. manual' = [at |-> manual'.at, cut |-> manual'.cut]
  BY <1>1, <1>4
<1>. QED  BY <1>2, <1>5, <1>6, <1>7 DEF WaitInv, WaitersAreWoken

\* Whoever waits until the session is idle is woken: while a waiter is left a run is
\* active or has settled and is about to resolve the promise, whatever calls overlap.
THEOREM WaitersAlwaysWoken == Spec => []WaitersAreWoken
<1>1. Init => WaitInv
  BY DEF Init, WaitInv, WaitersAreWoken, PromptPhases
<1>2. ASSUME WaitInv, [Next]_vars PROVE WaitInv'
  <2>1. CASE ManualStep \/ Navigated \/ HostCall \/ UNCHANGED vars
    BY <1>2, <2>1, HostWakes
  <2>2. ASSUME NEW p \in Prompts, Prompt(p) \/ TriggerTurn(p) \/ PromptStep(p),
               ~ResolveIdleWaitIfIdle(p)
        PROVE  WaitInv'
    BY <1>2, <2>2, PromptPasses, PassesWake
  <2>3. ASSUME NEW p \in Prompts, ResolveIdleWaitIfIdle(p) PROVE WaitInv'
    <3>1. pc' = [pc EXCEPT ![p] = "out"] /\ active' = active
      BY <2>3 DEF ResolveIdleWaitIfIdle, Goto
    <3>2. pc' \in [Prompts -> PromptPhases]
      BY <1>2, <3>1 DEF WaitInv, PromptPhases
    <3>3. CASE active
      BY <1>2, <2>3, <3>1, <3>2, <3>3 DEF ResolveIdleWaitIfIdle, WaitInv, WaitersAreWoken
    <3>4. CASE ~active
      <4>1. waiting' = {} /\ manual' = IF manual.at = "idle" THEN [manual EXCEPT !.at = "ready"] ELSE manual
        BY <2>3, <3>4 DEF ResolveIdleWaitIfIdle
      <4>2. manual = [at |-> manual.at, cut |-> manual.cut]
        BY <1>2 DEF WaitInv
      <4>3. manual'.at # "idle" /\ manual' = [at |-> manual'.at, cut |-> manual'.cut]
        BY <4>1, <4>2
      <4>. QED  BY <3>2, <4>1, <4>3 DEF WaitInv, WaitersAreWoken
    <3>. QED  BY <3>3, <3>4
  <2>. QED  BY <1>2, <2>1, <2>2, <2>3 DEF Next
<1>3. WaitInv => WaitersAreWoken
  BY DEF WaitInv
<1>. QED  BY <1>1, <1>2, <1>3, PTL DEF Spec
================================================================================
