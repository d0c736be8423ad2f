------------------------- MODULE JsonlStorageProofs -------------------------
(***************************************************************************)
(* Proofs about JsonlStorage, for every set of requests, every number of   *)
(* crashes, forks and failed appends and repairs: what was acknowledged is *)
(* in the file and the file loads; memory is what the file replays to; a   *)
(* fork file is complete; and the session a caller finds only changes as   *)
(* the in-memory one does.                                                 *)
(*                                                                         *)
(* Split and FlattenSeq, like Replay in SessionStateProofs, are recursive  *)
(* functions of a sequence.  The first part shows, by induction, what each *)
(* makes of a sequence with one more element; the rest of the proof uses   *)
(* those equations only.                                                   *)
(***************************************************************************)
EXTENDS JsonlStorage, SessionStateProofs

-----------------------------------------------------------------------------
(* What holds in every state.                                              *)

\* The environment fails an append before it writes, or a repair; the other
\* faults break what is proved here.
CleanFaults == Faults \subseteq {"append", "repair"}

Piece == [piece : {"header", "newline"}]
            \cup [piece : {"first", "second"}, of : Mutation]
First(m) == [piece |-> "first", of |-> m]
Second(m) == [piece |-> "second", of |-> m]

\* The mutations whose line is complete, and the text after them.
Durable == Tail(Split(file).lines)
Rest == Split(file).rest
Session == Replay(Durable).state

\* The complete lines of the file replay; what follows them is nothing, or
\* one or both halves of a line that would replay too.
FileIsSound ==
    /\ file \in Seq(Piece) /\ HasHeader(file)
    /\ Split(file) = [lines |-> <<SyntaxError>> \o Durable, rest |-> Rest]
    /\ Durable \in Seq(Mutation)
    /\ Replay(Durable).ok /\ Good(Session)
    /\ Rest # <<>> => LET m == Rest[1].of
                      IN  /\ m \in Mutation /\ ValidMutation(Session, m)
                          /\ Rest = <<First(m)>> \/ Rest = <<First(m), Second(m)>>

\* How far the running append got, and what memory and the file then have.
AppendGot(m) ==
    \/ unwritten = encodeMutation(m) /\ Rest = <<>> /\ state = Session
    \/ unwritten = <<Second(m), Newline>> /\ Rest = <<First(m)>> /\ state = Session
    \/ unwritten = <<Newline>> /\ Rest = <<First(m), Second(m)>> /\ state = Session
    \/ /\ unwritten = <<>> /\ Rest = <<>>
       /\ Session = applyMutation(state, m) /\ m \in Range(Durable)

\* The running append is the one of the operation at the head of the queue.
InFlight ==
    /\ queue # <<>> /\ Admitted(Head(queue))
    /\ appending = MutationOf(Head(queue))

WriterIsSound ==
    /\ opened \in BOOLEAN /\ queue \in Seq(Requests) /\ orphaned = FALSE
    /\ Good(state)
    /\ ~opened => queue = <<>> /\ appending = NoMutation
    /\ appending = NoMutation => unwritten = <<>>
    /\ opened /\ appending = NoMutation => Rest = <<>> /\ state = Session
    /\ appending # NoMutation => InFlight /\ AppendGot(appending)

RepairRecord == [at : {"stage", "staging", "publish", "terminate"},
                 prefix : Seq(Mutation), options : ForkRequests \cup {None},
                 handle : {"none", "temp"}]

LoadIsFcn == load = [l \in Loaders |-> load[l]]

\* A caller of load that has nothing more to do with the file: it is idle,
\* or a fork that writes its copy.
IsCopy(x) == x = [at |-> "copy", source |-> x.source, options |-> x.options,
                  copied |-> x.copied]
Done(l, x) == x = Idle \/ (l = "fork" /\ IsCopy(x))

\* One load repairs the file at most, and it repairs what the file still has.
LoadsAreSound ==
    /\ \A l \in Loaders :
        \/ Done(l, load[l])
        \/ /\ load[l] \in RepairRecord
           /\ ~opened /\ load[l].prefix = ValidPrefix(file)
           /\ IF load[l].at = "terminate" THEN Len(Rest) = 2 ELSE Len(Rest) = 1
           /\ load[l].at = "staging" => load[l].handle = "temp"
           /\ load[l].at = "publish" => temp = EncodeAll(load[l].prefix)
    /\ DOMAIN load = Loaders /\ LoadIsFcn
    /\ \A k, l \in Loaders : ~ Done(k, load[k]) /\ ~ Done(l, load[l]) => k = l

\* A session has no more mutations than requests were made.
CountsAreSound ==
    /\ requests \in 0..MaxRequests
    /\ opened => state.sequence + Len(queue) <= requests
    /\ ~opened => Replay(ValidPrefix(file)).state.sequence <= requests

IndInv ==
    /\ FileIsSound /\ WriterIsSound /\ LoadsAreSound /\ CountsAreSound
    /\ acknowledged \subseteq Range(Durable)

-----------------------------------------------------------------------------
(* Recursive functions of a sequence.                                      *)

NoLines == [lines |-> <<>>, rest |-> <<>>]

\* f is what Split computes for the prefixes of text up to length N.
IsSplit(text, N, f) ==
    f = [n \in 0..N |->
            IF n = 0 THEN NoLines
            ELSE Only({Cut(acc, text[n]) : acc \in {f[n - 1]}})]

\* The same, one prefix after another.
LEMMA SplitFcn ==
    ASSUME NEW text, NEW N \in Nat, NEW f
    PROVE  IsSplit(text, N, f) <=>
              /\ f = [n \in 0..N |-> f[n]]
              /\ f[0] = NoLines
              /\ \A n \in 1..N : f[n] = Cut(f[n - 1], text[n])
<1>. DEFINE G(n) == Only({Cut(acc, text[n]) : acc \in {f[n - 1]}})
            H(n) == IF n = 0 THEN NoLines ELSE G(n)
<1>1. ASSUME NEW n PROVE G(n) = Cut(f[n - 1], text[n])
  <2>1. {Cut(acc, text[n]) : acc \in {f[n - 1]}} = {Cut(f[n - 1], text[n])}
    OBVIOUS
  <2>. QED  BY <2>1, OnlyIs, Zenon
<1>2. IsSplit(text, N, f) <=> f = [n \in 0..N |-> H(n)]
  BY Zenon DEF IsSplit
<1>. HIDE DEF G
<1>3. \A n \in 0..N : n = 0 \/ n \in 1..N
  OBVIOUS
<1>4. 0 \in 0..N /\ \A n \in 1..N : n \in 0..N /\ n # 0
  OBVIOUS
<1>5. f = [n \in 0..N |-> H(n)] <=>
            /\ f = [n \in 0..N |-> f[n]] /\ \A n \in 0..N : f[n] = H(n)
  <2>. HIDE DEF H
  <2>. QED  OBVIOUS
<1>6. (\A n \in 0..N : f[n] = H(n)) <=>
            f[0] = NoLines /\ \A n \in 1..N : f[n] = G(n)
  BY <1>3, <1>4
<1>. QED  BY <1>1, <1>2, <1>5, <1>6

\* There is such a function for every length.
LEMMA SplitExists ==
    ASSUME NEW text
    PROVE  \A N \in Nat : \E f : IsSplit(text, N, f)
<1>. DEFINE S == {N \in Nat : \E f : IsSplit(text, N, f)}
<1>1. 0 \in S
  <2>. DEFINE f == [n \in 0..0 |-> NoLines]
  <2>1. f = [n \in 0..0 |-> f[n]] /\ f[0] = NoLines /\ \A n \in 1..0 : FALSE
    OBVIOUS
  <2>2. IsSplit(text, 0, f)
    <3>. HIDE DEF f
    <3>. QED  BY <2>1, SplitFcn
  <2>. QED  BY <2>2
<1>2. ASSUME NEW N \in S PROVE N + 1 \in S
  <2>1. PICK f : IsSplit(text, N, f)
    OBVIOUS
  <2>0. N \in Nat
    OBVIOUS
  <2>2. /\ f = [n \in 0..N |-> f[n]]
        /\ f[0] = NoLines
        /\ \A n \in 1..N : f[n] = Cut(f[n - 1], text[n])
    BY <2>0, <2>1, SplitFcn, ZenonT(40)
  <2>. DEFINE g == [n \in 0..(N + 1) |-> IF n = N + 1 THEN Cut(f[N], text[N + 1]) ELSE f[n]]
  <2>3. \A n \in 0..N : g[n] = f[n]
    BY <2>0
  <2>4. g[N + 1] = Cut(f[N], text[N + 1])
    BY <2>0
  <2>5. g = [n \in 0..(N + 1) |-> g[n]]
    OBVIOUS
  <2>. HIDE DEF g
  <2>6. g[0] = NoLines
    BY <2>0, <2>2, <2>3
  <2>7. ASSUME NEW n \in 1..(N + 1) PROVE g[n] = Cut(g[n - 1], text[n])
    <3>1. CASE n = N + 1
      <4>1. n - 1 = N /\ N \in 0..N
        BY <3>1, <2>0
      <4>2. g[n - 1] = f[N]
        BY <4>1, <2>3
      <4>. QED  BY <4>2, <2>4, <3>1
    <3>2. CASE n # N + 1
      <4>1. n \in 1..N /\ n \in 0..N /\ n - 1 \in 0..N
        BY <3>2, <2>0
      <4>2. g[n] = f[n] /\ g[n - 1] = f[n - 1]
        BY <4>1, <2>3
      <4>. QED  BY <4>1, <4>2, <2>2
    <3>. QED  BY <3>1, <3>2
  <2>8. IsSplit(text, N + 1, g)
    <3>1. N + 1 \in Nat
      BY <2>0
    <3>. QED  BY <3>1, <2>5, <2>6, <2>7, SplitFcn
  <2>. QED  BY <2>0, <2>8
<1>3. S \in SUBSET Nat
  OBVIOUS
<1>4. \A N \in Nat : N \in S
  <2>. HIDE DEF S
  <2>. QED  BY <1>1, <1>2, <1>3, Induction
<1>. QED  BY <1>4

\* Two of them agree on the prefixes both cover, if the texts do.
LEMMA SplitAgrees ==
    ASSUME NEW text, NEW longer, NEW N \in Nat, NEW M \in Nat, NEW f, NEW g,
           N <= M, IsSplit(text, N, f), IsSplit(longer, M, g),
           \A n \in 1..N : text[n] = longer[n]
    PROVE  \A n \in 0..N : f[n] = g[n]
<1>. DEFINE S == {n \in Nat : n \in 0..N => f[n] = g[n]}
<1>0. /\ f[0] = NoLines /\ g[0] = NoLines
      /\ \A n \in 1..N : f[n] = Cut(f[n - 1], text[n])
      /\ \A n \in 1..M : g[n] = Cut(g[n - 1], longer[n])
  BY SplitFcn
<1>1. 0 \in S
  BY <1>0
<1>2. ASSUME NEW n \in S PROVE n + 1 \in S
  <2>1. SUFFICES ASSUME n + 1 \in 0..N PROVE f[n + 1] = g[n + 1]
    OBVIOUS
  <2>2. n \in 0..N /\ n + 1 \in 1..N /\ n + 1 \in 1..M /\ (n + 1) - 1 = n
    BY <2>1
  <2>3. f[n] = g[n]
    BY <2>2
  <2>4. f[n + 1] = Cut(f[n], text[n + 1]) /\ g[n + 1] = Cut(g[n], longer[n + 1])
    BY <1>0, <2>2
  <2>. QED  BY <2>2, <2>3, <2>4
<1>3. S \in SUBSET Nat
  OBVIOUS
<1>4. \A n \in Nat : n \in S
  <2>. HIDE DEF S
  <2>. QED  BY <1>1, <1>2, <1>3, Induction
<1>. QED  BY <1>4

\* Split(text) is the last value of such a function.
LEMMA SplitIs ==
    ASSUME NEW text, Len(text) \in Nat, NEW f, IsSplit(text, Len(text), f)
    PROVE  Split(text) = f[Len(text)]
<1>. DEFINE h == CHOOSE h : IsSplit(text, Len(text), h)
<1>1. Split(text) = h[Len(text)]
  BY DEF Split, IsSplit, NoLines
<1>2. IsSplit(text, Len(text), h)
  OBVIOUS
<1>. HIDE DEF h
<1>3. \A n \in 0..Len(text) : f[n] = h[n]
  BY <1>2, SplitAgrees
<1>. QED  BY <1>1, <1>3

\* Nothing was read.
LEMMA SplitEmpty == Split(<<>>) = NoLines
<1>1. Len(<<>>) = 0
  OBVIOUS
<1>2. PICK f : IsSplit(<<>>, 0, f)
  BY SplitExists
<1>3. f[0] = NoLines
  BY <1>2, SplitFcn
<1>. QED  BY <1>1, <1>2, <1>3, SplitIs

\* One more piece was read.
LEMMA SplitAppend ==
    ASSUME NEW P, NEW text \in Seq(P), NEW p \in P
    PROVE  Split(Append(text, p)) = Cut(Split(text), p)
<1>. DEFINE longer == Append(text, p)
            N == Len(text)
<1>1. /\ N \in Nat /\ Len(longer) = N + 1 /\ longer[N + 1] = p
      /\ \A n \in 1..N : text[n] = longer[n]
  OBVIOUS
<1>. HIDE DEF longer
<1>2. PICK f : IsSplit(text, N, f)
  BY <1>1, SplitExists
<1>3. PICK g : IsSplit(longer, N + 1, g)
  BY <1>1, SplitExists
<1>4. Split(text) = f[N] /\ Split(longer) = g[N + 1]
  BY <1>1, <1>2, <1>3, SplitIs
<1>. HIDE DEF N
<1>5. \A n \in 0..N : f[n] = g[n]
  <2>1. N \in Nat /\ N + 1 \in Nat /\ N <= N + 1
    BY <1>1
  <2>. QED  BY <2>1, <1>1, <1>2, <1>3, SplitAgrees
<1>6. g[N + 1] = Cut(g[N], longer[N + 1])
  <2>1. N + 1 \in Nat /\ N + 1 \in 1..(N + 1) /\ (N + 1) - 1 = N
    BY <1>1
  <2>. QED  BY <2>1, <1>3, SplitFcn
<1>7. f[N] = g[N]
  BY <1>1, <1>5
<1>. QED  BY <1>1, <1>4, <1>6, <1>7 DEF longer
\* f is what FlattenSeq computes for the first N sequences of ss.
IsFlat(ss, N, f) ==
    f = [i \in 1..N |-> IF i = 1 THEN ss[i] ELSE f[i - 1] \o ss[i]]

\* The same, one sequence after another.
LEMMA FlatFcn ==
    ASSUME NEW ss, NEW N \in Nat, NEW f
    PROVE  IsFlat(ss, N, f) <=>
              /\ FcnOn(f, 1..N)
              /\ N # 0 => f[1] = ss[1]
              /\ \A n \in 2..N : f[n] = f[n - 1] \o ss[n]
<1>. DEFINE G(n) == f[n - 1] \o ss[n]
            H(n) == IF n = 1 THEN ss[n] ELSE G(n)
<1>1. IsFlat(ss, N, f) <=> f = [n \in 1..N |-> H(n)]
  BY DEF IsFlat
<1>. HIDE DEF G
<1>2. \A n \in 1..N : n = 1 \/ n \in 2..N
  OBVIOUS
<1>3. (N # 0 => 1 \in 1..N) /\ (N = 0 => 1..N = {}) /\ \A n \in 2..N : n \in 1..N /\ n # 1
  OBVIOUS
<1>4. f = [n \in 1..N |-> H(n)] <=>
            FcnOn(f, 1..N) /\ \A n \in 1..N : f[n] = H(n)
  <2>. HIDE DEF H
  <2>. QED  BY DEF FcnOn
<1>5. (\A n \in 1..N : f[n] = H(n)) <=>
            (N # 0 => f[1] = ss[1]) /\ \A n \in 2..N : f[n] = G(n)
  BY <1>2, <1>3
<1>. QED  BY <1>1, <1>4, <1>5 DEF G

\* What such a function has.
LEMMA FlatSteps ==
    ASSUME NEW ss, NEW N \in Nat, NEW f, IsFlat(ss, N, f)
    PROVE  /\ N # 0 => f[1] = ss[1]
           /\ \A n \in 2..N : f[n] = f[n - 1] \o ss[n]
BY FlatFcn, ZenonT(40)

\* There is such a function for every length.
LEMMA FlatExists ==
    ASSUME NEW ss
    PROVE  \A N \in Nat : \E f : IsFlat(ss, N, f)
<1>. DEFINE S == {N \in Nat : \E f : IsFlat(ss, N, f)}
<1>1. 0 \in S
  <2>. DEFINE f == [n \in 1..0 |-> 0]
  <2>1. FcnOn(f, 1..0) /\ \A n \in 2..0 : FALSE
    BY DEF FcnOn
  <2>2. IsFlat(ss, 0, f)
    <3>. HIDE DEF f
    <3>. QED  BY <2>1, FlatFcn
  <2>. QED  BY <2>2
<1>2. ASSUME NEW N \in S PROVE N + 1 \in S
  <2>1. PICK f : IsFlat(ss, N, f)
    OBVIOUS
  <2>0. N \in Nat /\ N + 1 \in Nat
    OBVIOUS
  <2>2. /\ N # 0 => f[1] = ss[1]
        /\ \A n \in 2..N : f[n] = f[n - 1] \o ss[n]
    BY <2>0, <2>1, FlatSteps
  <2>. DEFINE new == IF N = 0 THEN ss[1] ELSE f[N] \o ss[N + 1]
  <2>. DEFINE g == [n \in 1..(N + 1) |-> IF n = N + 1 THEN new ELSE f[n]]
  <2>a. (N = 0 => new = ss[1]) /\ (N # 0 => new = f[N] \o ss[N + 1])
    OBVIOUS
  <2>. HIDE DEF new
  <2>3. \A n \in 1..N : g[n] = f[n]
    BY <2>0
  <2>4. g[N + 1] = new
    BY <2>0
  <2>5. FcnOn(g, 1..(N + 1))
    BY DEF FcnOn
  <2>. HIDE DEF g
  <2>6. g[1] = ss[1]
    <3>1. CASE N = 0
      BY <3>1, <2>4, <2>a
    <3>2. CASE N # 0
      <4>1. 1 \in 1..N
        BY <3>2, <2>0
      <4>. QED  BY <4>1, <3>2, <2>2, <2>3
    <3>. QED  BY <3>1, <3>2
  <2>7. ASSUME NEW n \in 2..(N + 1) PROVE g[n] = g[n - 1] \o ss[n]
    <3>1. CASE n = N + 1
      <4>1. n - 1 = N /\ N \in 1..N /\ N # 0
        BY <3>1, <2>0
      <4>2. g[n - 1] = f[N]
        BY <4>1, <2>3
      <4>. QED  BY <4>1, <4>2, <2>4, <3>1, <2>a
    <3>2. CASE n # N + 1
      <4>1. n \in 1..N /\ n \in 2..N /\ n - 1 \in 1..N
        BY <3>2, <2>0
      <4>2. g[n] = f[n] /\ g[n - 1] = f[n - 1]
        BY <4>1, <2>3
      <4>. QED  BY <4>1, <4>2, <2>2
    <3>. QED  BY <3>1, <3>2
  <2>8. IsFlat(ss, N + 1, g)
    BY <2>0, <2>5, <2>6, <2>7, FlatFcn
  <2>. QED  BY <2>0, <2>8
<1>3. S \in SUBSET Nat
  OBVIOUS
<1>4. \A N \in Nat : N \in S
  <2>. HIDE DEF S
  <2>. QED  BY <1>1, <1>2, <1>3, Induction
<1>. QED  BY <1>4

\* Two of them agree where both are defined, if the sequences do.
LEMMA FlatAgrees ==
    ASSUME NEW ss, NEW longer, NEW N \in Nat, NEW M \in Nat, NEW f, NEW g,
           N <= M, IsFlat(ss, N, f), IsFlat(longer, M, g),
           \A n \in 1..N : ss[n] = longer[n]
    PROVE  \A n \in 1..N : f[n] = g[n]
<1>. DEFINE S == {n \in Nat : n \in 1..N => f[n] = g[n]}
<1>0. /\ N # 0 => f[1] = ss[1]
      /\ M # 0 => g[1] = longer[1]
      /\ \A n \in 2..N : f[n] = f[n - 1] \o ss[n]
      /\ \A n \in 2..M : g[n] = g[n - 1] \o longer[n]
  <2>1. /\ N # 0 => f[1] = ss[1]
        /\ \A n \in 2..N : f[n] = f[n - 1] \o ss[n]
    BY FlatSteps, ZenonT(40)
  <2>2. /\ M # 0 => g[1] = longer[1]
        /\ \A n \in 2..M : g[n] = g[n - 1] \o longer[n]
    BY FlatSteps, Zenon
  <2>. QED  BY <2>1, <2>2
<1>1. 0 \in S
  OBVIOUS
<1>2. ASSUME NEW n \in S PROVE n + 1 \in S
  <2>1. SUFFICES ASSUME n + 1 \in 1..N PROVE f[n + 1] = g[n + 1]
    OBVIOUS
  <2>2. CASE n = 0
    <3>1. N # 0 /\ M # 0 /\ 1 \in 1..N /\ n + 1 = 1
      BY <2>1, <2>2
    <3>. QED  BY <3>1, <1>0
  <2>3. CASE n # 0
    <3>1. n \in 1..N /\ n + 1 \in 2..N /\ n + 1 \in 2..M /\ (n + 1) - 1 = n
      BY <2>1, <2>3
    <3>2. f[n] = g[n]
      BY <3>1
    <3>3. f[n + 1] = f[n] \o ss[n + 1] /\ g[n + 1] = g[n] \o longer[n + 1]
      BY <1>0, <3>1
    <3>4. ss[n + 1] = longer[n + 1]
      BY <2>1
    <3>. QED  BY <3>2, <3>3, <3>4
  <2>. QED  BY <2>2, <2>3
<1>3. S \in SUBSET Nat
  OBVIOUS
<1>4. \A n \in Nat : n \in S
  <2>. HIDE DEF S
  <2>. QED  BY <1>1, <1>2, <1>3, Induction
<1>. QED  BY <1>4

\* FlattenSeq(ss) is the last value of such a function.
LEMMA FlatIs ==
    ASSUME NEW ss, Len(ss) \in Nat \ {0}, NEW f, IsFlat(ss, Len(ss), f)
    PROVE  FlattenSeq(ss) = f[Len(ss)]
<1>. DEFINE h == CHOOSE h : IsFlat(ss, Len(ss), h)
<1>1. FlattenSeq(ss) = h[Len(ss)]
  BY DEF FlattenSeq, IsFlat
<1>2. IsFlat(ss, Len(ss), h)
  OBVIOUS
<1>. HIDE DEF h
<1>3. \A n \in 1..Len(ss) : f[n] = h[n]
  BY <1>2, FlatAgrees, SMTT(30)
<1>. QED  BY <1>1, <1>3

\* One more sequence is added at the end.
LEMMA FlattenAppend ==
    ASSUME NEW P, NEW ss \in Seq(P), ss # <<>>, NEW x \in P
    PROVE  FlattenSeq(Append(ss, x)) = FlattenSeq(ss) \o x
<1>. DEFINE longer == Append(ss, x)
            N == Len(ss)
<1>1. /\ N \in Nat \ {0} /\ Len(longer) = N + 1 /\ longer[N + 1] = x
      /\ \A n \in 1..N : ss[n] = longer[n]
  OBVIOUS
<1>. HIDE DEF longer
<1>2. PICK f : IsFlat(ss, N, f)
  BY <1>1, FlatExists
<1>0. N + 1 \in Nat \ {0}
  BY <1>1
<1>3. PICK g : IsFlat(longer, N + 1, g)
  BY <1>0, FlatExists
<1>4. FlattenSeq(ss) = f[N] /\ FlattenSeq(longer) = g[N + 1]
  BY <1>0, <1>1, <1>2, <1>3, FlatIs
<1>. HIDE DEF N
<1>5. \A n \in 1..N : f[n] = g[n]
  <2>1. N \in Nat /\ N + 1 \in Nat /\ N <= N + 1
    BY <1>1
  <2>. QED  BY <2>1, <1>1, <1>2, <1>3, FlatAgrees
<1>6. g[N + 1] = g[N] \o longer[N + 1]
  <2>1. N + 1 \in Nat /\ N + 1 \in 2..(N + 1) /\ (N + 1) - 1 = N
    BY <1>1
  <2>2. \A n \in 2..(N + 1) : g[n] = g[n - 1] \o longer[n]
    BY <2>1, <1>3, FlatSteps, Zenon
  <2>3. g[N + 1] = g[(N + 1) - 1] \o longer[N + 1]
    BY <2>1, <2>2
  <2>. QED  BY <2>1, <2>3
<1>7. f[N] = g[N]
  BY <1>1, <1>5
<1>. QED  BY <1>1, <1>4, <1>6, <1>7 DEF longer

\* One sequence alone, and none.
LEMMA FlattenFew ==
    ASSUME NEW x
    PROVE  FlattenSeq(<<>>) = <<>> /\ FlattenSeq(<<x>>) = x
<1>1. FlattenSeq(<<>>) = <<>>
  BY DEF FlattenSeq
<1>2. Len(<<x>>) = 1 /\ <<x>>[1] = x
  OBVIOUS
<1>3. PICK f : IsFlat(<<x>>, 1, f)
  BY FlatExists
<1>4. f[1] = <<x>>[1]
  <2>1. 1 \in Nat /\ 1 # 0
    OBVIOUS
  <2>. QED  BY <1>3, <2>1, FlatSteps, Zenon
<1>5. FlattenSeq(<<x>>) = f[1]
  <2>. DEFINE s == <<x>>
  <2>1. Len(s) = 1 /\ Len(s) \in Nat \ {0} /\ IsFlat(s, Len(s), f)
    BY <1>2, <1>3
  <2>2. FlattenSeq(s) = f[Len(s)]
    <3>. HIDE DEF s
    <3>. QED  BY <2>1, FlatIs
  <2>. QED  BY <2>1, <2>2
<1>. QED  BY <1>1, <1>2, <1>4, <1>5

-----------------------------------------------------------------------------
(* Text.                                                                   *)

\* The pieces of a line are pieces, and different ones.
LEMMA Pieces ==
    ASSUME NEW m \in Mutation
    PROVE  /\ First(m) \in Piece /\ Second(m) \in Piece
           /\ Newline \in Piece /\ Header[1] \in Piece
           /\ First(m) # Newline /\ Second(m) # Newline
           /\ Header[1] # Newline /\ Header[2] = Newline /\ Len(Header) = 2
           /\ Header \in Seq(Piece)
           /\ First(m).of = m
<1>1. Header = <<[piece |-> "header"], Newline>>
  BY DEF Header
<1>2. First(m) \in Piece /\ Second(m) \in Piece /\ Newline \in Piece
  BY DEF First, Second, Newline, Piece
<1>3. [piece |-> "header"] \in Piece /\ [piece |-> "header"] # Newline
  BY DEF Newline, Piece
<1>4. First(m) # Newline /\ Second(m) # Newline
  BY DEF First, Second, Newline
<1>5. First(m).of = m
  BY DEF First
<1>. HIDE DEF Piece, Newline
<1>. QED  BY <1>1, <1>2, <1>3, <1>4, <1>5

\* No mutation is a syntax error, and none is NoMutation.
LEMMA MutationIsOne ==
    ASSUME NEW m \in Mutation
    PROVE  m # SyntaxError /\ m # NoMutation
<1>1. m.kind \in {"entry", "record", "lane", "fact"}
  BY DEF Mutation
<1>. QED  BY <1>1 DEF SyntaxError, NoMutation

\* What a line parses to.
LEMMA Parses ==
    ASSUME NEW m \in Mutation
    PROVE  /\ parseMutation(<<First(m), Second(m)>>) = m
           /\ parseMutation(<<First(m)>>) = SyntaxError
           /\ parseMutation(<<Header[1]>>) = SyntaxError
<1>1. Len(<<First(m)>>) # 2 /\ Len(<<Header[1]>>) # 2
  OBVIOUS
<1>2. /\ Len(<<First(m), Second(m)>>) = 2
      /\ <<First(m), Second(m)>>[1] = First(m)
      /\ <<First(m), Second(m)>>[2] = Second(m)
  OBVIOUS
<1>3. /\ First(m).piece = "first" /\ Second(m).piece = "second"
      /\ First(m).of = m /\ Second(m).of = m
  BY DEF First, Second
<1>. QED  BY <1>1, <1>2, <1>3 DEF parseMutation

\* A newline ends the line; any other piece continues it.
LEMMA CutIs ==
    ASSUME NEW lines, NEW rest, NEW p
    PROVE  /\ Cut([lines |-> lines, rest |-> rest], Newline)
                = [lines |-> Append(lines, parseMutation(rest)), rest |-> <<>>]
           /\ p # Newline =>
                Cut([lines |-> lines, rest |-> rest], p)
                    = [lines |-> lines, rest |-> Append(rest, p)]
BY DEF Cut

\* Nothing is lost by one element more.
LEMMA RangeAppend ==
    ASSUME NEW P, NEW s \in Seq(P), NEW b \in P
    PROVE  Range(s) \subseteq Range(Append(s, b)) /\ b \in Range(Append(s, b))
<1>. DEFINE t == Append(s, b)
<1>1. /\ Len(s) \in Nat /\ DOMAIN s = 1..Len(s) /\ DOMAIN t = 1..(Len(s) + 1)
      /\ \A k \in 1..Len(s) : t[k] = s[k]
      /\ t[Len(s) + 1] = b
  BY AppendIs
<1>. HIDE DEF t
<1>2. Len(s) + 1 \in DOMAIN t /\ \A k \in DOMAIN s : k \in DOMAIN t /\ t[k] = s[k]
  BY <1>1
<1>3. b \in Range(t) /\ Range(s) \subseteq Range(t)
  BY <1>1, <1>2 DEF Range
<1>. QED  BY <1>3 DEF t

\* A second element.
LEMMA AppendToOne ==
    ASSUME NEW P, NEW s \in Seq(P), NEW b \in P
    PROVE  Len(s) = 1 => Len(Append(s, b)) = 2 /\ Append(s, b)[1] = s[1] /\ Append(s, b)[2] = b
<1>1. /\ Len(Append(s, b)) = Len(s) + 1
      /\ \A k \in 1..Len(s) : Append(s, b)[k] = s[k]
      /\ Append(s, b)[Len(s) + 1] = b
  BY AppendIs
<1>. DEFINE t == Append(s, b)
            n == Len(s)
<1>. HIDE DEF t, n
<1>2. Len(t) = n + 1 /\ (\A k \in 1..n : t[k] = s[k]) /\ t[n + 1] = b
  BY <1>1 DEF t, n
<1>3. n = 1 => Len(t) = 2 /\ t[1] = s[1] /\ t[2] = b
  BY <1>2
<1>. QED  BY <1>3 DEF t, n

\* Two elements, one after the other.
LEMMA AppendTwo ==
    ASSUME NEW P, NEW a \in P, NEW b \in P
    PROVE  Append(<<>>, a) = <<a>> /\ Append(<<a>>, b) = <<a, b>>
<1>. DEFINE s == <<a>>
            t == <<a, b>>
            u == Append(s, b)
<1>0. Append(<<>>, a) = <<a>>
  OBVIOUS
<1>1. s \in Seq(P) /\ Len(s) = 1 /\ s[1] = a
  OBVIOUS
<1>2. t \in Seq(P) /\ Len(t) = 2 /\ t[1] = a /\ t[2] = b
  OBVIOUS
<1>. HIDE DEF s, t
<1>3. u \in Seq(P) /\ Len(u) = 2 /\ u[1] = s[1] /\ u[2] = b
  <2>1. u \in Seq(P)
    BY <1>1
  <2>2. Len(s) = 1 => Len(Append(s, b)) = 2 /\ Append(s, b)[1] = s[1] /\ Append(s, b)[2] = b
    <3>1. s \in Seq(P)
      BY <1>1
    <3>. QED  BY <3>1, AppendToOne
  <2>. QED  BY <1>1, <2>1, <2>2, Zenon
<1>. HIDE DEF u
<1>4. u = t
  BY <1>1, <1>2, <1>3
<1>5. Append(<<a>>, b) = <<a, b>>
  BY <1>4 DEF u, s, t
<1>. QED  BY <1>0, <1>5

\* Sequences of one, two and three elements.
LEMMA Small ==
    ASSUME NEW P, NEW s \in Seq(P), NEW a \in P, NEW b \in P, NEW c \in P
    PROVE  /\ Append(<<>>, a) = <<a>> /\ Append(<<a>>, b) = <<a, b>>
           /\ s \o <<a, b, c>> = Append(Append(Append(s, a), b), c)
           /\ Append(s, a) \in Seq(P) /\ Append(Append(s, a), b) \in Seq(P)
           /\ Head(<<a, b, c>>) = a /\ Tail(<<a, b, c>>) = <<b, c>>
           /\ Head(<<b, c>>) = b /\ Tail(<<b, c>>) = <<c>>
           /\ Head(<<c>>) = c /\ Tail(<<c>>) = <<>>
<1>1. Append(<<>>, a) = <<a>> /\ Append(<<a>>, b) = <<a, b>>
  BY AppendTwo
<1>2. Append(s, a) \in Seq(P) /\ Append(Append(s, a), b) \in Seq(P)
  OBVIOUS
<1>3. s \o <<a, b, c>> = Append(Append(Append(s, a), b), c)
  OBVIOUS
<1>4. /\ Head(<<a, b, c>>) = a /\ Tail(<<a, b, c>>) = <<b, c>>
      /\ Head(<<b, c>>) = b /\ Tail(<<b, c>>) = <<c>>
      /\ Head(<<c>>) = c /\ Tail(<<c>>) = <<>>
  OBVIOUS
<1>. QED  BY <1>1, <1>2, <1>3, <1>4

\* The header alone is one line that does not parse.
LEMMA SplitHeader == Split(Header) = [lines |-> <<SyntaxError>>, rest |-> <<>>]
<1>. PICK m \in Mutation : TRUE
  <2>1. [kind |-> "fact", fact |-> "name", seq |-> 0, name |-> None] \in Mutation
    BY DEF Mutation
  <2>. QED  BY <2>1
<1>. DEFINE h == Header[1]
<1>1. /\ h \in Piece /\ h # Newline /\ Newline \in Piece
      /\ Header = <<h, Newline>>
  BY Pieces DEF Header
<1>0. parseMutation(<<h>>) = SyntaxError
  BY Parses
<1>. HIDE DEF h
<1>2. Header = Append(Append(<<>>, h), Newline) /\ Append(<<>>, h) = <<h>>
  BY <1>1, Small
<1>3. <<>> \in Seq(Piece) /\ <<h>> \in Seq(Piece)
  BY <1>1
<1>4. Split(<<h>>) = Cut(NoLines, h)
  BY <1>1, <1>2, <1>3, SplitAppend, SplitEmpty
<1>5. Split(<<h>>) = [lines |-> <<>>, rest |-> <<h>>]
  <2>1. Cut([lines |-> <<>>, rest |-> <<>>], h) = [lines |-> <<>>, rest |-> Append(<<>>, h)]
    BY <1>1, CutIs
  <2>. QED  BY <2>1, <1>2, <1>4 DEF NoLines
<1>6. Split(Header) = Cut(Split(<<h>>), Newline)
  BY <1>1, <1>2, <1>3, SplitAppend
<1>7. Split(Header) = [lines |-> Append(<<>>, SyntaxError), rest |-> <<>>]
  BY <1>0, <1>5, <1>6, CutIs
<1>8. Append(<<>>, SyntaxError) = <<SyntaxError>>
  OBVIOUS
<1>. QED  BY <1>7, <1>8

\* A whole line more is one mutation more.
LEMMA SplitLine ==
    ASSUME NEW text \in Seq(Piece), NEW m \in Mutation, NEW lines,
           Split(text) = [lines |-> lines, rest |-> <<>>]
    PROVE  Split(text \o encodeMutation(m))
                = [lines |-> Append(lines, m), rest |-> <<>>]
<1>. DEFINE a == First(m)
            b == Second(m)
            t1 == Append(text, a)
            t2 == Append(t1, b)
<1>1. /\ a \in Piece /\ b \in Piece /\ Newline \in Piece
      /\ a # Newline /\ b # Newline
      /\ parseMutation(<<a, b>>) = m
  BY Pieces, Parses
<1>2. encodeMutation(m) = <<a, b, Newline>>
  BY DEF encodeMutation, First, Second
<1>. HIDE DEF a, b
<1>3. /\ t1 \in Seq(Piece) /\ t2 \in Seq(Piece)
      /\ text \o <<a, b, Newline>> = Append(t2, Newline)
      /\ Append(<<>>, a) = <<a>> /\ Append(<<a>>, b) = <<a, b>>
  <2>1. t1 \in Seq(Piece) /\ t2 \in Seq(Piece)
    BY <1>1
  <2>2. text \o <<a, b, Newline>> = Append(t2, Newline)
    BY <1>1, Small
  <2>3. Append(<<>>, a) = <<a>> /\ Append(<<a>>, b) = <<a, b>>
    BY <1>1, AppendTwo
  <2>. QED  BY <2>1, <2>2, <2>3
<1>4. Split(t1) = Cut(Split(text), a)
  BY <1>1, SplitAppend
<1>5. Split(t1) = [lines |-> lines, rest |-> <<a>>]
  <2>1. Cut([lines |-> lines, rest |-> <<>>], a) = [lines |-> lines, rest |-> Append(<<>>, a)]
    BY <1>1, CutIs
  <2>. QED  BY <2>1, <1>3, <1>4, Zenon
<1>6. Split(t2) = Cut(Split(t1), b)
  BY <1>1, <1>3, SplitAppend
<1>7. Split(t2) = [lines |-> lines, rest |-> <<a, b>>]
  <2>1. Cut([lines |-> lines, rest |-> <<a>>], b) = [lines |-> lines, rest |-> Append(<<a>>, b)]
    BY <1>1, CutIs
  <2>. QED  BY <2>1, <1>3, <1>5, <1>6, Zenon
<1>8. Split(Append(t2, Newline)) = Cut(Split(t2), Newline)
  BY <1>1, <1>3, SplitAppend
<1>9. Split(Append(t2, Newline)) = [lines |-> Append(lines, m), rest |-> <<>>]
  BY <1>1, <1>7, <1>8, CutIs
<1>. QED  BY <1>2, <1>3, <1>9

\* Writing one mutation more.
LEMMA EncodeAppend ==
    ASSUME NEW ms \in Seq(Mutation), NEW m \in Mutation
    PROVE  EncodeAll(Append(ms, m)) = EncodeAll(ms) \o encodeMutation(m)
<1>. DEFINE enc(s) == [i \in 1..Len(s) |-> encodeMutation(s[i])]
            Line == {encodeMutation(x) : x \in Mutation}
            longer == Append(ms, m)
<1>1. \A s \in Seq(Mutation) : enc(s) \in Seq(Line) /\ Len(enc(s)) = Len(s)
  <2>1. SUFFICES ASSUME NEW s \in Seq(Mutation)
                 PROVE  enc(s) \in Seq(Line) /\ Len(enc(s)) = Len(s)
    OBVIOUS
  <2>2. \A i \in 1..Len(s) : encodeMutation(s[i]) \in Line
    OBVIOUS
  <2>. HIDE DEF Line
  <2>. QED  BY <2>2
<1>2. encodeMutation(m) \in Line
  OBVIOUS
<1>. HIDE DEF Line
<1>3. enc(longer) = Append(enc(ms), encodeMutation(m))
  <2>1. /\ Len(longer) = Len(ms) + 1 /\ longer[Len(ms) + 1] = m
        /\ Len(ms) \in Nat /\ \A i \in 1..Len(ms) : longer[i] = ms[i]
    OBVIOUS
  <2>2. enc(ms) \in Seq(Line) /\ Len(enc(ms)) = Len(ms)
    BY <1>1
  <2>. DEFINE d == enc(ms)
              e == Append(d, encodeMutation(m))
              f == enc(longer)
  <2>3. /\ DOMAIN f = 1..(Len(ms) + 1) /\ f = [i \in DOMAIN f |-> f[i]]
        /\ \A i \in 1..Len(ms) : f[i] = encodeMutation(ms[i])
        /\ f[Len(ms) + 1] = encodeMutation(m)
    <3>. HIDE DEF longer
    <3>. QED  BY <2>1
  <2>4. \A i \in 1..Len(ms) : d[i] = encodeMutation(ms[i])
    OBVIOUS
  <2>. HIDE DEF d, f
  <2>5. /\ DOMAIN e = 1..(Len(ms) + 1)
        /\ \A i \in 1..Len(ms) : e[i] = d[i]
        /\ e[Len(ms) + 1] = encodeMutation(m)
        /\ e = [i \in DOMAIN e |-> e[i]]
    <3>1. d \in Seq(Line) /\ Len(d) = Len(ms)
      BY <2>2 DEF d
    <3>2. /\ e \in Seq(Line) /\ DOMAIN e = 1..(Len(d) + 1)
          /\ \A i \in 1..Len(d) : e[i] = d[i]
          /\ e[Len(d) + 1] = encodeMutation(m)
      BY <3>1, <1>2, AppendIs
    <3>3. e = [i \in DOMAIN e |-> e[i]]
      <4>. HIDE DEF e
      <4>. QED  BY <3>2
    <3>. QED  BY <3>1, <3>2, <3>3
  <2>. HIDE DEF e
  <2>6. \A i \in 1..(Len(ms) + 1) : i \in 1..Len(ms) \/ i = Len(ms) + 1
    BY <2>1
  <2>7. \A i \in 1..(Len(ms) + 1) : e[i] = f[i]
    BY <2>3, <2>4, <2>5, <2>6
  <2>8. e = f
    BY <2>3, <2>5, <2>7
  <2>. QED  BY <2>8 DEF d, e, f
<1>4. /\ EncodeAll(ms) = Header \o FlattenSeq(enc(ms))
      /\ EncodeAll(longer) = Header \o FlattenSeq(enc(longer))
  BY DEF EncodeAll
<1>. HIDE DEF enc
<1>5. FlattenSeq(enc(longer)) = FlattenSeq(enc(ms)) \o encodeMutation(m)
  <2>1. CASE enc(ms) # <<>>
    BY <1>1, <1>2, <1>3, <2>1, FlattenAppend
  <2>2. CASE enc(ms) = <<>>
    <3>1. enc(longer) = <<encodeMutation(m)>>
      BY <1>3, <2>2
    <3>2. FlattenSeq(enc(longer)) = encodeMutation(m) /\ FlattenSeq(enc(ms)) = <<>>
      BY <3>1, <2>2, FlattenFew
    <3>. QED  BY <3>2 DEF encodeMutation
  <2>. QED  BY <2>1, <2>2
<1>. QED  BY <1>4, <1>5, SMTT(30)

\* Mutations that are not none are others and a last one.
LEMMA LastMutation ==
    ASSUME NEW s \in Seq(Mutation), NEW n \in Nat, Len(s) = n + 1
    PROVE  \E t \in Seq(Mutation) : \E x \in Mutation : Len(t) = n /\ s = Append(t, x)
<1>. DEFINE t == [i \in 1..n |-> s[i]]
            x == s[n + 1]
            u == Append(t, x)
<1>1. x \in Mutation /\ \A i \in 1..n : s[i] \in Mutation
  OBVIOUS
<1>2. t \in Seq(Mutation) /\ Len(t) = n /\ \A i \in 1..n : t[i] = s[i]
  BY <1>1
<1>. HIDE DEF t, x
<1>3. /\ u \in Seq(Mutation) /\ Len(u) = Len(t) + 1
      /\ \A i \in 1..Len(t) : u[i] = t[i]
      /\ u[Len(t) + 1] = x
  BY <1>1, <1>2, AppendIs
<1>. HIDE DEF u
<1>4. Len(u) = n + 1 /\ u[n + 1] = x /\ \A i \in 1..n : u[i] = s[i]
  BY <1>2, <1>3
<1>5. \A i \in 1..(n + 1) : i \in 1..n \/ i = n + 1
  OBVIOUS
<1>6. \A i \in 1..(n + 1) : u[i] = s[i]
  BY <1>4, <1>5 DEF x
<1>7. u = s
  BY <1>3, <1>4, <1>6
<1>. QED  BY <1>1, <1>2, <1>7 DEF u

\* What was written is read back.
EncodesWell(ms) ==
    /\ EncodeAll(ms) \in Seq(Piece)
    /\ HasHeader(EncodeAll(ms))
    /\ Split(EncodeAll(ms)) = [lines |-> <<SyntaxError>> \o ms, rest |-> <<>>]

\* No mutation is written as the header.
LEMMA EncodesNone == EncodesWell(<<>>) /\ EncodeAll(<<>>) = Header
<1>0. PICK m \in Mutation : TRUE
  <2>1. [kind |-> "fact", fact |-> "name", seq |-> 0, name |-> None] \in Mutation
    BY DEF Mutation
  <2>. QED  BY <2>1
<1>1. EncodeAll(<<>>) = Header
  <2>1. [i \in 1..Len(<<>>) |-> encodeMutation(<<>>[i])] = <<>>
    OBVIOUS
  <2>2. EncodeAll(<<>>) = Header \o FlattenSeq(<<>>)
    BY <2>1 DEF EncodeAll
  <2>3. Header \o <<>> = Header
    BY Pieces, <1>0
  <2>. QED  BY <2>2, <2>3, FlattenFew
<1>2. Header \in Seq(Piece) /\ HasHeader(Header)
  BY Pieces, <1>0 DEF HasHeader, Header
<1>3. <<SyntaxError>> \o <<>> = <<SyntaxError>>
  OBVIOUS
<1>. QED  BY <1>1, <1>2, <1>3, SplitHeader DEF EncodesWell

\* The header stays at the head of a longer text.
LEMMA HeaderStays ==
    ASSUME NEW text \in Seq(Piece), HasHeader(text), NEW more \in Seq(Piece)
    PROVE  HasHeader(text \o more)
<1>1. text # <<>> /\ Head(text) = Head(Header)
  BY DEF HasHeader
<1>2. text \o more # <<>> /\ Head(text \o more) = Head(text)
  BY <1>1
<1>. QED  BY <1>1, <1>2 DEF HasHeader

\* One mutation more.
LEMMA EncodesMore ==
    ASSUME NEW ms \in Seq(Mutation), EncodesWell(ms), NEW m \in Mutation
    PROVE  EncodesWell(Append(ms, m))
<1>. DEFINE text == EncodeAll(ms)
            line == encodeMutation(m)
<1>1. EncodeAll(Append(ms, m)) = text \o line
  BY EncodeAppend
<1>2. text \in Seq(Piece) /\ HasHeader(text)
      /\ Split(text) = [lines |-> <<SyntaxError>> \o ms, rest |-> <<>>]
  BY DEF EncodesWell
<1>3. line \in Seq(Piece)
  <2>1. /\ First(m) \in Piece /\ Second(m) \in Piece /\ Newline \in Piece
        /\ line = <<First(m), Second(m), Newline>>
    BY Pieces DEF encodeMutation, First, Second
  <2>. HIDE DEF line
  <2>. QED  BY <2>1
<1>4. Split(text \o line) = [lines |-> Append(<<SyntaxError>> \o ms, m), rest |-> <<>>]
  <2>. HIDE DEF text
  <2>. QED  BY <1>2, SplitLine
<1>5. Append(<<SyntaxError>> \o ms, m) = <<SyntaxError>> \o Append(ms, m)
  OBVIOUS
<1>. HIDE DEF text, line
<1>6. HasHeader(text \o line) /\ text \o line \in Seq(Piece)
  BY <1>2, <1>3, HeaderStays
<1>. QED  BY <1>1, <1>4, <1>5, <1>6 DEF EncodesWell

\* Whatever mutations are written are read back (the temporary file of load).
LEMMA Encodes ==
    ASSUME NEW ms \in Seq(Mutation)
    PROVE  EncodesWell(ms)
<1>. DEFINE S == {n \in Nat : \A s \in Seq(Mutation) : Len(s) = n => EncodesWell(s)}
<1>1. 0 \in S
  <2>1. ASSUME NEW s \in Seq(Mutation), Len(s) = 0 PROVE EncodesWell(s)
    <3>1. s = <<>>
      BY <2>1
    <3>. QED  BY <3>1, EncodesNone
  <2>. QED  BY <2>1
<1>2. ASSUME NEW n \in S PROVE n + 1 \in S
  <2>1. ASSUME NEW s \in Seq(Mutation), Len(s) = n + 1 PROVE EncodesWell(s)
    <3>1. n \in Nat
      OBVIOUS
    <3>2. PICK t \in Seq(Mutation) : \E x \in Mutation : Len(t) = n /\ s = Append(t, x)
      BY <2>1, <3>1, LastMutation
    <3>3. EncodesWell(t)
      BY <3>2
    <3>. QED  BY <3>2, <3>3, EncodesMore
  <2>. QED  BY <2>1
<1>3. S \in SUBSET Nat
  OBVIOUS
<1>4. \A n \in Nat : n \in S
  <2>. HIDE DEF S
  <2>. QED  BY <1>1, <1>2, <1>3, Induction
<1>5. Len(ms) \in S
  BY <1>4
<1>. QED  BY <1>5

\* The lines after the header of a text with these complete lines.
LEMMA PrefixIs ==
    ASSUME NEW text, NEW ms \in Seq(Mutation), NEW rest,
           Split(text) = [lines |-> <<SyntaxError>> \o ms, rest |-> rest]
    PROVE  /\ rest = <<>> => /\ ValidPrefix(text) = ms
                             /\ ~ isTornTail(text) /\ ~ Unterminated(text)
           /\ \A m \in Mutation : rest = <<First(m)>> =>
                /\ ValidPrefix(text) = ms
                /\ isTornTail(text) /\ Unterminated(text)
           /\ \A m \in Mutation : rest = <<First(m), Second(m)>> =>
                /\ ValidPrefix(text) = Append(ms, m)
                /\ ~ isTornTail(text) /\ Unterminated(text)
<1>. DEFINE sp == Split(text)
<1>1. sp.lines = <<SyntaxError>> \o ms /\ sp.rest = rest
  OBVIOUS
<1>2. \A m \in Mutation : m # SyntaxError
  BY MutationIsOne
<1>3. ms # <<>> => Last(ms) \in Mutation
  BY DEF Last
<1>4. ASSUME rest = <<>>
      PROVE  /\ ValidPrefix(text) = ms
             /\ ~ isTornTail(text) /\ ~ Unterminated(text)
  <2>1. physicalLines(sp) = ms
    <3>1. physicalLines(sp) = Tail(<<SyntaxError>> \o ms)
      BY <1>1, <1>4 DEF physicalLines
    <3>2. Tail(<<SyntaxError>> \o ms) = ms
      OBVIOUS
    <3>. QED  BY <3>1, <3>2
  <2>2. ms # <<>> => Last(ms) # SyntaxError
    BY <1>2, <1>3
  <2>. QED  BY <1>1, <1>4, <2>1, <2>2 DEF ValidPrefix, isTornTail, Unterminated
<1>5. ASSUME NEW m \in Mutation, rest = <<First(m)>>
      PROVE  /\ ValidPrefix(text) = ms
             /\ isTornTail(text) /\ Unterminated(text)
  <2>0. rest # <<>> /\ parseMutation(rest) = SyntaxError
    BY <1>5, Parses
  <2>. DEFINE torn == Append(ms, SyntaxError)
  <2>1. physicalLines(sp) = torn
    <3>1. physicalLines(sp) = Tail(Append(<<SyntaxError>> \o ms, SyntaxError))
      BY <1>1, <2>0 DEF physicalLines
    <3>2. Tail(Append(<<SyntaxError>> \o ms, SyntaxError)) = torn
      OBVIOUS
    <3>. QED  BY <3>1, <3>2
  <2>2. torn # <<>> /\ Last(torn) = SyntaxError /\ Front(torn) = ms
    BY DEF Last, Front
  <2>. HIDE DEF torn
  <2>. QED  BY <1>1, <2>0, <2>1, <2>2 DEF ValidPrefix, isTornTail, Unterminated
<1>6. ASSUME NEW m \in Mutation, rest = <<First(m), Second(m)>>
      PROVE  /\ ValidPrefix(text) = Append(ms, m)
             /\ ~ isTornTail(text) /\ Unterminated(text)
  <2>0. rest # <<>> /\ parseMutation(rest) = m
    BY <1>6, Parses
  <2>. DEFINE full == Append(ms, m)
  <2>1. physicalLines(sp) = full
    <3>1. physicalLines(sp) = Tail(Append(<<SyntaxError>> \o ms, m))
      BY <1>1, <2>0 DEF physicalLines
    <3>2. Tail(Append(<<SyntaxError>> \o ms, m)) = full
      OBVIOUS
    <3>. QED  BY <3>1, <3>2
  <2>2. full # <<>> /\ Last(full) = m /\ m # SyntaxError
    BY <1>2, SMTT(30) DEF Last
  <2>. HIDE DEF full
  <2>3. ValidPrefix(text) = full /\ ~ isTornTail(text) /\ Unterminated(text)
    BY <1>1, <2>0, <2>1, <2>2 DEF ValidPrefix, isTornTail, Unterminated
  <2>. QED  BY <2>3 DEF full
<1>. QED  BY <1>4, <1>5, <1>6

-----------------------------------------------------------------------------
(* Sessions.                                                               *)

\* A request is one of the six.
LEMMA RequestIsOne ==
    ASSUME NEW r \in Requests
    PROVE  \/ r \in CreateLanes \/ r \in MoveLanes \/ r \in AppendEntries
           \/ r \in AppendRecords \/ r \in SetNames \/ r \in SetLabels
BY RequestsAssumption

\* Every request that is admitted makes a mutation that can be applied: the
\* checks before the append imply those of the replay.
LEMMA AdmittedIsValid ==
    ASSUME NEW r \in Requests, Good(state), Admitted(r)
    PROVE  MutationOf(r) \in Mutation /\ ValidMutation(state, MutationOf(r))
<1>. DEFINE n == state.sequence + 1
<1>0. nextSequence(state) = n /\ n \in Nat
  BY DEF nextSequence, Good
<1>1. CASE r \in CreateLanes
  <2>1. r.op = "createLane" /\ r.lane \in Lanes /\ r.at \in IdOrNone
    BY <1>1 DEF CreateLanes
  <2>2. MutationOf(r) = [kind |-> "lane", seq |-> n, lane |-> r.lane, leafId |-> r.at]
    BY <2>1, <1>0 DEF MutationOf, LaneMutation
  <2>3. r.at = None \/ r.at \in DOMAIN state.entriesById
    BY <2>1 DEF Admitted, validateTarget
  <2>. QED  BY <1>0, <2>1, <2>2, <2>3 DEF Mutation, ValidMutation
<1>2. CASE r \in MoveLanes
  <2>1. r.op = "moveLane" /\ r.lane \in Lanes /\ r.to \in IdOrNone
    BY <1>2 DEF MoveLanes
  <2>2. MutationOf(r) = [kind |-> "lane", seq |-> n, lane |-> r.lane, leafId |-> r.to]
    BY <2>1, <1>0 DEF MutationOf, LaneMutation
  <2>3. r.to = None \/ r.to \in DOMAIN state.entriesById
    BY <2>1 DEF Admitted, validateTarget
  <2>. QED  BY <1>0, <2>1, <2>2, <2>3 DEF Mutation, ValidMutation
<1>3. CASE r \in AppendEntries
  <2>1. r.op = "appendEntry" /\ r.lane \in Lanes /\ r.id \in Ids /\ r.type \in EntryTypes
    BY <1>3 DEF AppendEntries
  <2>. DEFINE parent == state.lanes[r.lane]
  <2>2. MutationOf(r) = [kind |-> "entry", seq |-> n, lane |-> r.lane, id |-> r.id,
                         parentId |-> parent, type |-> r.type]
    BY <2>1, <1>0 DEF MutationOf, EntryMutation
  <2>3. r.lane \in DOMAIN state.lanes /\ r.id \notin state.usedIds
    BY <2>1 DEF Admitted, requireLane, validateUnusedId
  <2>4. /\ parent \in IdOrNone
        /\ parent # None => parent \in DOMAIN state.entriesById
    BY <2>3 DEF Good, PointsInto, Forest, IdOrNone
  <2>5. MutationOf(r) \in Mutation
    <3>. HIDE DEF parent, n
    <3>. QED  BY <1>0, <2>1, <2>2, <2>4 DEF Mutation
  <2>6. ValidMutation(state, MutationOf(r))
    BY <2>2, <2>3, <2>4 DEF ValidMutation
  <2>. QED  BY <2>5, <2>6
<1>4. CASE r \in AppendRecords
  <2>1. /\ r.op = "appendRecord" /\ r.lane \in Lanes /\ r.id \in Ids
        /\ r.type \in RecordTypes /\ r.runId \in IdOrNone
    BY <1>4 DEF AppendRecords
  <2>2. MutationOf(r) = [kind |-> "record", seq |-> n, lane |-> r.lane, id |-> r.id,
                         type |-> r.type, runId |-> r.runId]
    BY <2>1, <1>0 DEF MutationOf, RecordMutation
  <2>3. r.lane \in DOMAIN state.lanes /\ r.id \notin state.usedIds
    BY <2>1 DEF Admitted, requireLane, validateUnusedId
  <2>. QED  BY <1>0, <2>1, <2>2, <2>3 DEF Mutation, ValidMutation
<1>5. CASE r \in SetNames
  <2>1. r.op = "setName" /\ r.name \in Values \cup {None}
    BY <1>5 DEF SetNames
  <2>2. MutationOf(r) = [kind |-> "fact", fact |-> "name", seq |-> n, name |-> r.name]
    BY <2>1, <1>0 DEF MutationOf, NameMutation
  <2>. QED  BY <1>0, <2>1, <2>2 DEF Mutation, ValidMutation
<1>6. CASE r \in SetLabels
  <2>1. r.op = "setLabel" /\ r.id \in Ids /\ r.label \in Values \cup {None} /\ r.id # None
    BY <1>6, IdsAssumption DEF SetLabels
  <2>2. MutationOf(r) = [kind |-> "fact", fact |-> "label", seq |-> n,
                         targetId |-> r.id, label |-> r.label]
    BY <2>1, <1>0 DEF MutationOf, LabelMutation
  <2>3. r.id \in DOMAIN state.entriesById
    BY <2>1 DEF Admitted, validateTarget
  <2>. QED  BY <1>0, <2>1, <2>2, <2>3 DEF Mutation, ValidMutation
<1>. QED  BY <1>1, <1>2, <1>3, <1>4, <1>5, <1>6, RequestIsOne

\* Replaying one mutation more.
LEMMA ReplayMore ==
    ASSUME NEW ms \in Seq(Mutation), NEW m \in Mutation, Replay(ms).ok,
           ValidMutation(Replay(ms).state, m)
    PROVE  Replay(Append(ms, m)) = [ok |-> TRUE, state |-> applyMutation(Replay(ms).state, m)]
BY ReplayAppend DEF ReplayStep

-----------------------------------------------------------------------------
(* The session file.                                                       *)

\* The durable lines, from what Split gives.
LEMMA DurableIs ==
    ASSUME NEW text, NEW ms \in Seq(Mutation), NEW rest,
           Split(text) = [lines |-> <<SyntaxError>> \o ms, rest |-> rest]
    PROVE  Tail(Split(text).lines) = ms /\ Split(text).rest = rest
<1>1. Split(text).lines = <<SyntaxError>> \o ms /\ Split(text).rest = rest
  OBVIOUS
<1>2. Tail(<<SyntaxError>> \o ms) = ms
  OBVIOUS
<1>. QED  BY <1>1, <1>2

\* The line that was begun.
Begun == Rest[1].of

\* What a load makes of a sound file.
LoadsWell ==
    /\ Loads(file)
    /\ ValidPrefix(file) \in Seq(Mutation)
    /\ Replay(ValidPrefix(file)).ok /\ Good(Replay(ValidPrefix(file)).state)
    /\ \/ /\ Rest = <<>> /\ ValidPrefix(file) = Durable
          /\ ~ isTornTail(file) /\ ~ Unterminated(file)
       \/ /\ Begun \in Mutation /\ ValidMutation(Session, Begun)
          /\ Rest = <<First(Begun)>> /\ Len(Rest) = 1 /\ Rest # <<>>
          /\ ValidPrefix(file) = Durable /\ isTornTail(file)
       \/ /\ Begun \in Mutation /\ ValidMutation(Session, Begun)
          /\ Rest = <<First(Begun), Second(Begun)>> /\ Len(Rest) = 2 /\ Rest # <<>>
          /\ ValidPrefix(file) = Append(Durable, Begun)
          /\ ~ isTornTail(file) /\ Unterminated(file)
          /\ Replay(ValidPrefix(file)).state = applyMutation(Session, Begun)

\* A file that is sound loads.
LEMMA SoundLoads ==
    ASSUME FileIsSound
    PROVE  LoadsWell
<1>1. /\ HasHeader(file) /\ Durable \in Seq(Mutation)
      /\ Split(file) = [lines |-> <<SyntaxError>> \o Durable, rest |-> Rest]
      /\ Replay(Durable).ok /\ Good(Session)
  BY DEF FileIsSound
<1>2. /\ Rest = <<>> => /\ ValidPrefix(file) = Durable
                        /\ ~ isTornTail(file) /\ ~ Unterminated(file)
      /\ \A m \in Mutation : Rest = <<First(m)>> =>
            ValidPrefix(file) = Durable /\ isTornTail(file)
      /\ \A m \in Mutation : Rest = <<First(m), Second(m)>> =>
            /\ ValidPrefix(file) = Append(Durable, m)
            /\ ~ isTornTail(file) /\ Unterminated(file)
  BY <1>1, PrefixIs
<1>3. ASSUME NEW ms \in Seq(Mutation), ValidPrefix(file) = ms, Replay(ms).ok
      PROVE  Loads(file)
  <2>1. \A i \in 1..Len(ms) : ms[i] \in Mutation
    OBVIOUS
  <2>2. \A i \in 1..Len(ms) : ms[i] # SyntaxError
    BY <2>1, MutationIsOne
  <2>. QED  BY <1>1, <1>3, <2>2 DEF Loads
<1>4. CASE Rest = <<>>
  <2>1. ValidPrefix(file) = Durable /\ Loads(file)
    BY <1>1, <1>2, <1>3, <1>4
  <2>. QED  BY <1>1, <1>2, <1>4, <2>1 DEF LoadsWell, Session
<1>5. CASE Rest # <<>>
  <2>. DEFINE m == Begun
  <2>1. /\ m \in Mutation /\ ValidMutation(Session, m)
        /\ Rest = <<First(m)>> \/ Rest = <<First(m), Second(m)>>
    BY <1>5 DEF FileIsSound, Begun
  <2>. HIDE DEF m
  <2>2. CASE Rest = <<First(m)>>
    <3>1. ValidPrefix(file) = Durable /\ isTornTail(file) /\ Loads(file)
      BY <1>1, <1>2, <1>3, <2>1, <2>2
    <3>2. Len(Rest) = 1
      BY <2>2
    <3>. QED  BY <1>1, <1>5, <2>1, <2>2, <3>1, <3>2 DEF LoadsWell, Session, m
  <2>3. CASE Rest = <<First(m), Second(m)>>
    <3>1. ValidPrefix(file) = Append(Durable, m) /\ ~ isTornTail(file) /\ Unterminated(file)
      BY <1>2, <2>1, <2>3
    <3>2. Len(Rest) = 2
      BY <2>3
    <3>3. Replay(Append(Durable, m)) = [ok |-> TRUE, state |-> applyMutation(Session, m)]
      BY <1>1, <2>1, ReplayMore DEF Session
    <3>4. Good(applyMutation(Session, m))
      BY <1>1, <2>1, GoodApply
    <3>5. Append(Durable, m) \in Seq(Mutation)
      BY <1>1, <2>1
    <3>6. Replay(Append(Durable, m)).ok /\ Replay(Append(Durable, m)).state = applyMutation(Session, m)
      BY <3>3
    <3>7. Loads(file)
      BY <1>3, <3>1, <3>5, <3>6
    <3>. QED  BY <1>5, <2>1, <2>3, <3>1, <3>2, <3>4, <3>5, <3>6, <3>7, Zenon DEF LoadsWell, m
  <2>. QED  BY <2>1, <2>2, <2>3
<1>. QED  BY <1>4, <1>5

\* A file that does not change.
LEMMA FileKept ==
    ASSUME file' = file
    PROVE  /\ Durable' = Durable /\ Rest' = Rest /\ Session' = Session /\ Begun' = Begun
           /\ FileIsSound' <=> FileIsSound
           /\ ValidPrefix(file)' = ValidPrefix(file)
<1>1. Durable' = Durable /\ Rest' = Rest
  BY DEF Durable, Rest
<1>2. Session' = Session /\ Begun' = Begun
  BY <1>1 DEF Session, Begun
<1>. QED  BY <1>1, <1>2 DEF FileIsSound

\* A piece that is no newline continues the last line.
LEMMA RestGrows ==
    ASSUME FileIsSound, NEW p \in Piece, p # Newline, file' = Append(file, p)
    PROVE  /\ Durable' = Durable /\ Rest' = Append(Rest, p) /\ Session' = Session
           /\ file' \in Seq(Piece) /\ HasHeader(file)'
           /\ Split(file)' = [lines |-> <<SyntaxError>> \o Durable, rest |-> Append(Rest, p)]
<1>1. /\ file \in Seq(Piece) /\ HasHeader(file) /\ Durable \in Seq(Mutation)
      /\ Split(file) = [lines |-> <<SyntaxError>> \o Durable, rest |-> Rest]
  BY DEF FileIsSound
<1>2. Split(file') = Cut(Split(file), p)
  BY <1>1, SplitAppend
<1>3. Split(file') = [lines |-> <<SyntaxError>> \o Durable, rest |-> Append(Rest, p)]
  BY <1>1, <1>2, CutIs
<1>4. Tail(Split(file').lines) = Durable /\ Split(file').rest = Append(Rest, p)
  BY <1>1, <1>3, DurableIs
<1>5. Durable' = Durable /\ Rest' = Append(Rest, p)
  BY <1>4 DEF Durable, Rest
<1>6. file' \in Seq(Piece) /\ HasHeader(file')
  <2>1. <<p>> \in Seq(Piece) /\ Append(file, p) = file \o <<p>> /\ Append(file, p) \in Seq(Piece)
    BY <1>1
  <2>. QED  BY <1>1, <2>1, HeaderStays
<1>. QED  BY <1>3, <1>5, <1>6 DEF Session

\* The newline after both halves makes the line durable.
LEMMA LineEnds ==
    ASSUME FileIsSound, NEW m \in Mutation, ValidMutation(Session, m),
           Rest = <<First(m), Second(m)>>, file' = Append(file, Newline)
    PROVE  /\ FileIsSound'
           /\ Durable' = Append(Durable, m) /\ Rest' = <<>>
           /\ Session' = applyMutation(Session, m)
<1>1. /\ file \in Seq(Piece) /\ HasHeader(file) /\ Durable \in Seq(Mutation)
      /\ Split(file) = [lines |-> <<SyntaxError>> \o Durable, rest |-> Rest]
      /\ Replay(Durable).ok /\ Good(Session)
  BY DEF FileIsSound
<1>0. Newline \in Piece
  BY Pieces
<1>2. Split(file') = Cut(Split(file), Newline)
  BY <1>0, <1>1, SplitAppend
<1>. DEFINE ms == Append(Durable, m)
<1>3. Split(file') = [lines |-> <<SyntaxError>> \o ms, rest |-> <<>>]
  <2>1. Split(file') = [lines |-> Append(<<SyntaxError>> \o Durable, parseMutation(Rest)), rest |-> <<>>]
    BY <1>1, <1>2, CutIs
  <2>2. parseMutation(Rest) = m
    BY Parses
  <2>3. Append(<<SyntaxError>> \o Durable, m) = <<SyntaxError>> \o ms
    BY <1>1
  <2>. QED  BY <2>1, <2>2, <2>3
<1>4. ms \in Seq(Mutation)
  BY <1>1
<1>. HIDE DEF ms
<1>5. Tail(Split(file').lines) = ms /\ Split(file').rest = <<>>
  BY <1>3, <1>4, DurableIs
<1>6. Durable' = ms /\ Rest' = <<>>
  BY <1>5 DEF Durable, Rest
<1>7. Replay(ms) = [ok |-> TRUE, state |-> applyMutation(Session, m)]
  BY <1>1, ReplayMore DEF Session, ms
<1>8. Replay(ms).ok /\ Replay(ms).state = applyMutation(Session, m)
  BY <1>7
<1>9. Session' = applyMutation(Session, m) /\ Replay(Durable').ok
  BY <1>6, <1>8 DEF Session
<1>10. Good(Session')
  BY <1>1, <1>9, GoodApply
<1>11. file' \in Seq(Piece) /\ HasHeader(file')
  <2>1. /\ <<Newline>> \in Seq(Piece) /\ Append(file, Newline) = file \o <<Newline>>
        /\ Append(file, Newline) \in Seq(Piece)
    BY <1>0, <1>1
  <2>. QED  BY <1>1, <2>1, HeaderStays
<1>12. FileIsSound'
  BY <1>3, <1>4, <1>6, <1>9, <1>10, <1>11 DEF FileIsSound
<1>. QED  BY <1>6, <1>9, <1>12 DEF ms

\* The durable lines written anew.
LEMMA Rewritten ==
    ASSUME FileIsSound, file' = EncodeAll(Durable)
    PROVE  /\ FileIsSound'
           /\ Durable' = Durable /\ Rest' = <<>> /\ Session' = Session
<1>1. Durable \in Seq(Mutation) /\ Replay(Durable).ok /\ Good(Session)
  BY DEF FileIsSound
<1>2. /\ file' \in Seq(Piece) /\ HasHeader(file')
      /\ Split(file') = [lines |-> <<SyntaxError>> \o Durable, rest |-> <<>>]
  BY <1>1, Encodes DEF EncodesWell
<1>3. Tail(Split(file').lines) = Durable /\ Split(file').rest = <<>>
  BY <1>1, <1>2, DurableIs
<1>4. Durable' = Durable /\ Rest' = <<>>
  BY <1>3 DEF Durable, Rest
<1>5. Session' = Session
  BY <1>4 DEF Session
<1>6. FileIsSound'
  BY <1>1, <1>2, <1>4, <1>5 DEF FileIsSound
<1>. QED  BY <1>4, <1>5, <1>6

-----------------------------------------------------------------------------
(* The steps of the writer.                                                *)

\* The bound on the requests is a number.
LEMMA MaxIsNat == MaxRequests \in Nat
BY JsonlAssumption

\* The initial state satisfies the invariant.
LEMMA InitSound == Init => IndInv
<1>. SUFFICES ASSUME Init PROVE IndInv
  OBVIOUS
<1>1. file = EncodeAll(<<>>) /\ <<>> \in Seq(Mutation)
  BY EncodesNone DEF Init
<1>2. /\ file \in Seq(Piece) /\ HasHeader(file)
      /\ Split(file) = [lines |-> <<SyntaxError>> \o <<>>, rest |-> <<>>]
  BY <1>1, EncodesNone DEF EncodesWell
<1>3. Durable = <<>> /\ Rest = <<>>
  BY <1>1, <1>2, DurableIs DEF Durable, Rest
<1>4. Replay(Durable).ok /\ Session = InitialState
  BY <1>3, ReplayEmpty DEF Session, Fresh
<1>5. FileIsSound
  BY <1>1, <1>2, <1>3, <1>4, GoodInit DEF FileIsSound
<1>6. WriterIsSound
  BY <1>3, <1>4, GoodInit DEF WriterIsSound, Init
<1>7. LoadsAreSound
  BY DEF LoadsAreSound, LoadIsFcn, Init, Loaders, Done
<1>8. CountsAreSound
  <2>1. Len(<<>>) = 0 /\ 0 \in 0..MaxRequests
    BY MaxIsNat
  <2>2. /\ requests = 0 /\ opened = TRUE /\ state.sequence = 0 /\ Len(queue) = 0
    BY <2>1, GoodInit DEF Init
  <2>. QED  BY <2>1, <2>2 DEF CountsAreSound
<1>9. acknowledged \subseteq Range(Durable)
  BY DEF Init
<1>. QED  BY <1>5, <1>6, <1>7, <1>8, <1>9 DEF IndInv

\* The operation that is running.
LEMMA RunningIs ==
    ASSUME IndInv, appending # NoMutation
    PROVE  /\ opened /\ queue # <<>> /\ Head(queue) \in Requests
           /\ Admitted(Head(queue)) /\ appending = MutationOf(Head(queue))
           /\ appending \in Mutation /\ ValidMutation(state, appending)
           /\ AppendGot(appending)
<1>1. /\ opened /\ queue # <<>> /\ queue \in Seq(Requests) /\ Good(state)
      /\ Admitted(Head(queue)) /\ appending = MutationOf(Head(queue))
      /\ AppendGot(appending)
  BY DEF IndInv, WriterIsSound, InFlight
<1>2. Head(queue) \in Requests
  BY <1>1
<1>. QED  BY <1>1, <1>2, AdmittedIsValid

\* An operation's check and mutation depend on the state alone.
LEMMA SameOperation ==
    ASSUME state' = state, Head(queue') = Head(queue)
    PROVE  /\ Admitted(Head(queue))' <=> Admitted(Head(queue))
           /\ MutationOf(Head(queue))' = MutationOf(Head(queue))
BY DEF Admitted, MutationOf

\* The append in flight stays, when what it is about does.
LEMMA InFlightKept ==
    ASSUME state' = state, queue # <<>> => queue' # <<>> /\ Head(queue') = Head(queue),
           appending' = appending, InFlight
    PROVE  InFlight'
BY SameOperation DEF InFlight

\* A step that leaves the storage, its append and the file alone.
LEMMA WriterKept ==
    ASSUME WriterIsSound, UNCHANGED <<storageVars, appendVars, file>>
    PROVE  WriterIsSound'
<1>1. Rest' = Rest /\ Session' = Session /\ Durable' = Durable
  BY FileKept
<1>2. InFlight => InFlight'
  BY InFlightKept DEF storageVars, appendVars
<1>3. AppendGot(appending) => AppendGot(appending)'
  BY <1>1 DEF AppendGot, storageVars, appendVars
<1>. QED  BY <1>1, <1>2, <1>3 DEF WriterIsSound, storageVars, appendVars

\* A step that leaves the loads and what they read alone.
LEMMA LoadsKept ==
    ASSUME LoadsAreSound, UNCHANGED <<load, opened, file, temp>>
    PROVE  LoadsAreSound'
<1>1. Rest' = Rest /\ ValidPrefix(file)' = ValidPrefix(file)
  BY FileKept
<1>2. LoadIsFcn' <=> LoadIsFcn
  BY DEF LoadIsFcn
<1>. QED  BY <1>1, <1>2 DEF LoadsAreSound

\* While the session is open no load repairs the file.
LEMMA LoadsOpen ==
    ASSUME LoadsAreSound, opened, load' = load
    PROVE  LoadsAreSound'
<1>1. LoadIsFcn' <=> LoadIsFcn
  BY DEF LoadIsFcn
<1>. QED  BY <1>1 DEF LoadsAreSound

\* A step that leaves the counts alone.
LEMMA CountsKept ==
    ASSUME CountsAreSound, UNCHANGED <<storageVars, requests, file>>
    PROVE  CountsAreSound'
<1>1. ValidPrefix(file)' = ValidPrefix(file)
  BY FileKept
<1>. QED  BY <1>1 DEF CountsAreSound, storageVars

\* enqueue preserves the invariant.
LEMMA EnqueueSound ==
    ASSUME IndInv, NEW r \in Requests, enqueue(r)
    PROVE  IndInv'
<1>. USE DEF enqueue, appendVars, diskVars
<1>1. Durable' = Durable /\ Rest' = Rest /\ Session' = Session /\ FileIsSound'
  BY FileKept DEF IndInv
<1>2. /\ queue \in Seq(Requests) /\ queue' \in Seq(Requests)
      /\ queue' # <<>> /\ Len(queue') = Len(queue) + 1 /\ Len(queue) \in Nat
      /\ queue # <<>> => Head(queue') = Head(queue)
  BY DEF IndInv, WriterIsSound
<1>3. InFlight => InFlight'
  BY <1>2, InFlightKept
<1>4. AppendGot(appending) => AppendGot(appending)'
  BY <1>1 DEF AppendGot
<1>5. WriterIsSound'
  BY <1>1, <1>2, <1>3, <1>4 DEF IndInv, WriterIsSound
<1>6. LoadsAreSound'
  BY LoadsOpen DEF IndInv
<1>7. CountsAreSound'
  <2>1. state.sequence \in Nat /\ requests \in Nat
    BY DEF IndInv, WriterIsSound, Good, CountsAreSound
  <2>2. opened /\ opened' = opened /\ state' = state /\ requests' = requests + 1
    OBVIOUS
  <2>3. requests + 1 \in 0..MaxRequests
    <3>1. requests < MaxRequests /\ MaxRequests \in Nat
      BY MaxIsNat
    <3>. QED  BY <2>1, <3>1
  <2>. QED  BY <1>2, <2>1, <2>2, <2>3 DEF IndInv, CountsAreSound
<1>8. acknowledged' \subseteq Range(Durable')
  BY <1>1 DEF IndInv
<1>. QED  BY <1>1, <1>5, <1>6, <1>7, <1>8 DEF IndInv

\* StartAppend preserves it.
LEMMA StartAppendSound ==
    ASSUME IndInv, StartAppend
    PROVE  IndInv'
<1>. USE DEF StartAppend, storageVars, diskVars, ghostVars
<1>1. Durable' = Durable /\ Rest' = Rest /\ Session' = Session /\ FileIsSound'
  BY FileKept DEF IndInv
<1>. DEFINE m == MutationOf(Head(queue))
<1>2. opened /\ Rest = <<>> /\ state = Session
  BY DEF IndInv, WriterIsSound
<1>3. m \in Mutation /\ m # NoMutation
  <2>1. Head(queue) \in Requests /\ Good(state)
    BY DEF IndInv, WriterIsSound
  <2>. QED  BY <2>1, AdmittedIsValid, MutationIsOne
<1>4. InFlight'
  BY SameOperation DEF InFlight
<1>5. appending' = m /\ unwritten' = encodeMutation(m)
  OBVIOUS
<1>. HIDE DEF m
<1>6. AppendGot(appending)'
  BY <1>1, <1>2, <1>5 DEF AppendGot
<1>7. WriterIsSound'
  BY <1>1, <1>2, <1>3, <1>4, <1>5, <1>6 DEF IndInv, WriterIsSound
<1>8. LoadsAreSound' /\ CountsAreSound'
  BY LoadsKept, CountsKept DEF IndInv
<1>9. acknowledged' \subseteq Range(Durable')
  BY <1>1 DEF IndInv
<1>. QED  BY <1>1, <1>7, <1>8, <1>9 DEF IndInv

\* A queue without its head.
LEMMA QueueTail ==
    ASSUME queue \in Seq(Requests), queue # <<>>
    PROVE  /\ Tail(queue) \in Seq(Requests) /\ Len(queue) \in Nat
           /\ Len(Tail(queue)) = Len(queue) - 1 /\ Len(queue) >= 1
OBVIOUS

\* Reject preserves it.
LEMMA RejectSound ==
    ASSUME IndInv, Reject
    PROVE  IndInv'
<1>. USE DEF Reject, appendVars, diskVars, ghostVars
<1>1. Durable' = Durable /\ Rest' = Rest /\ Session' = Session /\ FileIsSound'
  BY FileKept DEF IndInv
<1>2. /\ queue' \in Seq(Requests) /\ Len(queue) \in Nat /\ Len(queue') = Len(queue) - 1
      /\ opened
  BY QueueTail DEF IndInv, WriterIsSound
<1>3. WriterIsSound'
  BY <1>1, <1>2 DEF IndInv, WriterIsSound
<1>4. LoadsAreSound'
  BY LoadsKept DEF IndInv
<1>5. CountsAreSound'
  <2>1. /\ state.sequence \in Nat /\ requests \in 0..MaxRequests /\ requests \in Nat
        /\ state.sequence + Len(queue) <= requests
    BY <1>2 DEF IndInv, WriterIsSound, Good, CountsAreSound
  <2>. QED  BY <1>2, <2>1 DEF CountsAreSound
<1>6. acknowledged' \subseteq Range(Durable')
  BY <1>1 DEF IndInv
<1>. QED  BY <1>1, <1>3, <1>4, <1>5, <1>6 DEF IndInv

\* The pieces that are still to be written, one by one.
LEMMA UnwrittenIs ==
    ASSUME NEW m \in Mutation
    PROVE  /\ encodeMutation(m) = <<First(m), Second(m), Newline>>
           /\ Head(encodeMutation(m)) = First(m)
           /\ Tail(encodeMutation(m)) = <<Second(m), Newline>>
           /\ Head(<<Second(m), Newline>>) = Second(m)
           /\ Tail(<<Second(m), Newline>>) = <<Newline>>
           /\ Head(<<Newline>>) = Newline /\ Tail(<<Newline>>) = <<>>
           /\ encodeMutation(m) # <<>> /\ <<Second(m), Newline>> # <<>> /\ <<Newline>> # <<>>
           /\ <<Second(m), Newline>> # encodeMutation(m)
           /\ <<Newline>> # encodeMutation(m)
<1>1. encodeMutation(m) = <<First(m), Second(m), Newline>>
  BY DEF encodeMutation, First, Second
<1>2. /\ Head(<<First(m), Second(m), Newline>>) = First(m)
      /\ Tail(<<First(m), Second(m), Newline>>) = <<Second(m), Newline>>
      /\ Head(<<Second(m), Newline>>) = Second(m)
      /\ Tail(<<Second(m), Newline>>) = <<Newline>>
      /\ Head(<<Newline>>) = Newline /\ Tail(<<Newline>>) = <<>>
  OBVIOUS
<1>3. /\ <<First(m), Second(m), Newline>> # <<>> /\ <<Second(m), Newline>> # <<>>
      /\ <<Newline>> # <<>>
      /\ <<Second(m), Newline>> # <<First(m), Second(m), Newline>>
      /\ <<Newline>> # <<First(m), Second(m), Newline>>
  OBVIOUS
<1>. QED  BY <1>1, <1>2, <1>3

\* A step of the append that gets further.
LEMMA AppendGoesOn ==
    ASSUME IndInv, appending # NoMutation, FileIsSound', AppendGot(appending)',
           acknowledged \subseteq Range(Durable'),
           UNCHANGED <<storageVars, appending, orphaned, load, ghostVars>>
    PROVE  IndInv'
<1>1. opened
  BY RunningIs
<1>2. InFlight'
  BY InFlightKept DEF IndInv, WriterIsSound, storageVars
<1>3. WriterIsSound'
  BY <1>1, <1>2 DEF IndInv, WriterIsSound, storageVars
<1>4. LoadsAreSound'
  BY <1>1, LoadsOpen DEF IndInv
<1>5. CountsAreSound'
  BY <1>1 DEF IndInv, CountsAreSound, storageVars, ghostVars
<1>. QED  BY <1>3, <1>4, <1>5 DEF IndInv, ghostVars

\* WritePiece preserves it.
LEMMA WritePieceSound ==
    ASSUME IndInv, WritePiece
    PROVE  IndInv'
<1>1. appending # NoMutation
  BY DEF IndInv, WriterIsSound, WritePiece
<1>. DEFINE m == appending
<1>2. m \in Mutation /\ ValidMutation(state, m) /\ AppendGot(m)
  BY <1>1, RunningIs
<1>3. /\ file' = Append(file, Head(unwritten)) /\ unwritten' = Tail(unwritten)
      /\ unwritten # <<>> /\ appending' = appending /\ state' = state
      /\ UNCHANGED <<storageVars, appending, orphaned, load, ghostVars>>
  BY DEF WritePiece, IndInv, WriterIsSound, storageVars
<1>4. FileIsSound /\ acknowledged \subseteq Range(Durable)
  BY DEF IndInv
<1>5. First(m) \in Piece /\ First(m) # Newline /\ Second(m) \in Piece /\ Second(m) # Newline
  BY <1>2, Pieces
<1>6. First(m).of = m
  BY <1>2, Pieces
<1>a. AppendGot(appending)' <=>
        \/ unwritten' = encodeMutation(m) /\ Rest' = <<>> /\ state' = Session'
        \/ unwritten' = <<Second(m), Newline>> /\ Rest' = <<First(m)>> /\ state' = Session'
        \/ unwritten' = <<Newline>> /\ Rest' = <<First(m), Second(m)>> /\ state' = Session'
        \/ /\ unwritten' = <<>> /\ Rest' = <<>>
           /\ Session' = applyMutation(state', m) /\ m \in Range(Durable')
  BY <1>3 DEF AppendGot
<1>7. CASE unwritten = encodeMutation(m) /\ Rest = <<>> /\ state = Session
  <2>1. file' = Append(file, First(m)) /\ unwritten' = <<Second(m), Newline>>
    BY <1>2, <1>3, <1>7, UnwrittenIs
  <2>2. /\ Durable' = Durable /\ Rest' = Append(Rest, First(m)) /\ Session' = Session
        /\ file' \in Seq(Piece) /\ HasHeader(file)'
        /\ Split(file)' = [lines |-> <<SyntaxError>> \o Durable, rest |-> Append(Rest, First(m))]
    BY <1>4, <1>5, <2>1, RestGrows
  <2>3. Rest' = <<First(m)>> /\ Rest'[1].of = m
    <3>1. Append(<<>>, First(m)) = <<First(m)>> /\ <<First(m)>>[1] = First(m)
      OBVIOUS
    <3>. QED  BY <1>6, <1>7, <2>2, <3>1
  <2>4. FileIsSound'
    BY <1>2, <1>4, <1>7, <2>2, <2>3 DEF FileIsSound
  <2>5. AppendGot(appending)'
    BY <1>3, <1>7, <1>a, <2>1, <2>2, <2>3
  <2>. QED  BY <1>1, <1>3, <1>4, <2>2, <2>4, <2>5, AppendGoesOn
<1>8. CASE unwritten = <<Second(m), Newline>> /\ Rest = <<First(m)>> /\ state = Session
  <2>1. file' = Append(file, Second(m)) /\ unwritten' = <<Newline>>
    BY <1>2, <1>3, <1>8, UnwrittenIs
  <2>2. /\ Durable' = Durable /\ Rest' = Append(Rest, Second(m)) /\ Session' = Session
        /\ file' \in Seq(Piece) /\ HasHeader(file)'
        /\ Split(file)' = [lines |-> <<SyntaxError>> \o Durable, rest |-> Append(Rest, Second(m))]
    BY <1>4, <1>5, <2>1, RestGrows
  <2>3. Rest' = <<First(m), Second(m)>> /\ Rest'[1].of = m
    <3>1. Append(<<First(m)>>, Second(m)) = <<First(m), Second(m)>>
      BY <1>5, AppendTwo
    <3>2. <<First(m), Second(m)>>[1] = First(m)
      OBVIOUS
    <3>. QED  BY <1>6, <1>8, <2>2, <3>1, <3>2
  <2>4. FileIsSound'
    BY <1>2, <1>4, <1>8, <2>2, <2>3 DEF FileIsSound
  <2>5. AppendGot(appending)'
    BY <1>3, <1>8, <1>a, <2>1, <2>2, <2>3
  <2>. QED  BY <1>1, <1>3, <1>4, <2>2, <2>4, <2>5, AppendGoesOn
<1>9. CASE unwritten = <<Newline>> /\ Rest = <<First(m), Second(m)>> /\ state = Session
  <2>1. file' = Append(file, Newline) /\ unwritten' = <<>>
    BY <1>2, <1>3, <1>9, UnwrittenIs
  <2>2. /\ FileIsSound' /\ Durable' = Append(Durable, m) /\ Rest' = <<>>
        /\ Session' = applyMutation(Session, m)
    BY <1>2, <1>4, <1>9, <2>1, LineEnds
  <2>3. Range(Durable) \subseteq Range(Durable') /\ m \in Range(Durable')
    BY <1>2, <1>4, <2>2, RangeAppend DEF FileIsSound
  <2>4. AppendGot(appending)'
    BY <1>3, <1>9, <1>a, <2>1, <2>2, <2>3
  <2>5. acknowledged \subseteq Range(Durable')
    BY <1>4, <2>3
  <2>. QED  BY <1>1, <1>3, <2>2, <2>4, <2>5, AppendGoesOn
<1>. QED  BY <1>2, <1>3, <1>7, <1>8, <1>9 DEF AppendGot

\* Nothing is in flight any more; memory is what the file replays to.
LEMMA AppendEnds ==
    ASSUME IndInv, appending # NoMutation, queue' = Tail(queue), NothingInFlight,
           Good(state'), Rest = <<>>, state' = Session,
           state'.sequence <= state.sequence + 1,
           acknowledged' \subseteq Range(Durable),
           UNCHANGED <<opened, diskVars, load, requests>>
    PROVE  IndInv'
<1>1. Durable' = Durable /\ Rest' = Rest /\ Session' = Session /\ FileIsSound'
  BY FileKept DEF IndInv, diskVars
<1>2. opened /\ queue # <<>> /\ queue \in Seq(Requests)
  BY RunningIs DEF IndInv, WriterIsSound
<1>3. /\ queue' \in Seq(Requests) /\ Len(queue) \in Nat /\ Len(queue') = Len(queue) - 1
      /\ Len(queue) >= 1
  BY <1>2, QueueTail
<1>4. WriterIsSound'
  BY <1>1, <1>2, <1>3 DEF WriterIsSound, NothingInFlight
<1>5. LoadsAreSound'
  BY <1>2, LoadsOpen DEF IndInv
<1>6. CountsAreSound'
  <2>1. /\ state.sequence \in Nat /\ state'.sequence \in Nat
        /\ requests \in 0..MaxRequests /\ requests \in Nat
        /\ state.sequence + Len(queue) <= requests
    BY <1>2 DEF IndInv, WriterIsSound, Good, CountsAreSound
  <2>2. state'.sequence + Len(queue') <= requests
    BY <1>3, <2>1
  <2>. QED  BY <1>2, <2>1, <2>2 DEF CountsAreSound
<1>. QED  BY <1>1, <1>4, <1>5, <1>6 DEF IndInv

\* Acknowledge preserves it.
LEMMA AcknowledgeSound ==
    ASSUME IndInv, Acknowledge
    PROVE  IndInv'
<1>1. appending # NoMutation /\ unwritten = <<>> /\ state' = applyMutation(state, appending)
      /\ acknowledged' = acknowledged \cup {appending} /\ queue' = Tail(queue)
      /\ NothingInFlight /\ UNCHANGED <<opened, diskVars, load, requests>>
  BY DEF Acknowledge
<1>2. appending \in Mutation /\ ValidMutation(state, appending) /\ AppendGot(appending)
  BY <1>1, RunningIs
<1>3. Rest = <<>> /\ Session = applyMutation(state, appending) /\ appending \in Range(Durable)
  BY <1>1, <1>2, UnwrittenIs DEF AppendGot
<1>4. Good(state') /\ state'.sequence <= state.sequence + 1
  <2>1. Good(state)
    BY DEF IndInv, WriterIsSound
  <2>2. Good(state') /\ state'.sequence = state.sequence + 1
    BY <1>1, <1>2, <2>1, GoodApply
  <2>. QED  BY <2>1, <2>2 DEF Good
<1>5. acknowledged' \subseteq Range(Durable)
  BY <1>1, <1>3 DEF IndInv
<1>. QED  BY <1>1, <1>3, <1>4, <1>5, AppendEnds

\* AppendFails preserves it.
LEMMA AppendFailsSound ==
    ASSUME IndInv, CleanFaults, AppendFails
    PROVE  IndInv'
<1>1. /\ appending # NoMutation /\ unwritten = encodeMutation(appending)
      /\ state' = state /\ acknowledged' = acknowledged /\ queue' = Tail(queue)
      /\ NothingInFlight /\ UNCHANGED <<opened, diskVars, load, requests>>
  BY DEF AppendFails, CleanFaults, ghostVars
<1>2. appending \in Mutation /\ AppendGot(appending)
  BY <1>1, RunningIs
<1>3. Rest = <<>> /\ state = Session
  BY <1>1, <1>2, UnwrittenIs DEF AppendGot
<1>4. Good(state') /\ state'.sequence <= state.sequence + 1
  BY <1>1 DEF IndInv, WriterIsSound, Good
<1>5. acknowledged' \subseteq Range(Durable)
  BY <1>1 DEF IndInv
<1>. QED  BY <1>1, <1>3, <1>4, <1>5, AppendEnds

\* What a load would find if the process died now.
LEMMA FoundAfterCrash ==
    ASSUME IndInv, opened
    PROVE  LET found == Replay(ValidPrefix(file)).state
           IN  \/ found = state
               \/ /\ appending # NoMutation
                  /\ found = applyMutation(state, appending)
<1>. DEFINE found == Replay(ValidPrefix(file)).state
<1>1. LoadsWell
  BY SoundLoads DEF IndInv
<1>2. CASE appending = NoMutation
  <2>1. Rest = <<>> /\ state = Session
    BY <1>2 DEF IndInv, WriterIsSound
  <2>2. ValidPrefix(file) = Durable
    BY <1>1, <2>1 DEF LoadsWell
  <2>. QED  BY <2>1, <2>2 DEF Session
<1>3. CASE appending # NoMutation
  <2>. DEFINE m == appending
  <2>1. AppendGot(m) /\ m \in Mutation
    BY <1>3, RunningIs
  <2>2. CASE Rest = <<>> /\ state = Session
    BY <1>1, <2>2 DEF LoadsWell, Session
  <2>3. CASE Rest = <<First(m)>> /\ state = Session
    <3>1. Rest # <<>> /\ Len(Rest) = 1
      BY <2>3
    <3>2. ValidPrefix(file) = Durable
      BY <1>1, <3>1 DEF LoadsWell
    <3>. QED  BY <2>3, <3>2 DEF Session
  <2>4. CASE Rest = <<First(m), Second(m)>> /\ state = Session
    <3>1. Rest # <<>> /\ Len(Rest) = 2 /\ Rest[1] = First(m)
      BY <2>4
    <3>2. Begun = m
      BY <2>1, <3>1, Pieces DEF Begun
    <3>3. found = applyMutation(Session, Begun)
      BY <1>1, <3>1 DEF LoadsWell
    <3>. QED  BY <1>3, <2>4, <3>2, <3>3
  <2>5. CASE Rest = <<>> /\ Session = applyMutation(state, m)
    <3>1. ValidPrefix(file) = Durable
      BY <1>1, <2>5 DEF LoadsWell
    <3>. QED  BY <1>3, <2>5, <3>1 DEF Session
  <2>. QED  BY <2>1, <2>2, <2>3, <2>4, <2>5 DEF AppendGot
<1>. QED  BY <1>2, <1>3

\* Crash preserves it.
LEMMA CrashSound ==
    ASSUME IndInv, Crash
    PROVE  IndInv'
<1>1. /\ opened' = FALSE /\ state' = InitialState /\ queue' = <<>> /\ NothingInFlight
      /\ load' = [l \in Loaders |-> Idle]
      /\ file' = file /\ acknowledged' = acknowledged /\ requests' = requests
  BY DEF Crash, diskVars
<1>2. Durable' = Durable /\ FileIsSound' /\ ValidPrefix(file)' = ValidPrefix(file)
  BY <1>1, FileKept DEF IndInv
<1>3. WriterIsSound'
  <2>1. Good(state') /\ queue' \in Seq(Requests) /\ queue' = <<>> /\ opened' = FALSE
    BY <1>1, GoodInit
  <2>2. appending' = NoMutation /\ unwritten' = <<>> /\ orphaned' = FALSE
    BY <1>1 DEF NothingInFlight
  <2>. QED  BY <2>1, <2>2 DEF WriterIsSound
<1>4. LoadsAreSound'
  BY <1>1 DEF LoadsAreSound, LoadIsFcn, Loaders, Done
<1>5. CountsAreSound'
  <2>. DEFINE found == Replay(ValidPrefix(file)).state
  <2>1. requests \in 0..MaxRequests /\ requests \in Nat
    BY DEF IndInv, CountsAreSound
  <2>2. found.sequence <= requests
    <3>1. CASE ~ opened
      BY <3>1 DEF IndInv, CountsAreSound
    <3>2. CASE opened
      <4>1. /\ Good(state) /\ state.sequence \in Nat /\ queue \in Seq(Requests) /\ Len(queue) \in Nat
            /\ state.sequence + Len(queue) <= requests
        BY <3>2 DEF IndInv, WriterIsSound, Good, CountsAreSound
      <4>2. CASE found = state
        BY <2>1, <4>1, <4>2
      <4>3. CASE appending # NoMutation /\ found = applyMutation(state, appending)
        <5>1. queue # <<>> /\ appending \in Mutation /\ ValidMutation(state, appending)
          BY <4>3, RunningIs
        <5>2. Len(queue) >= 1
          BY <4>1, <5>1
        <5>3. found.sequence = state.sequence + 1
          BY <4>1, <4>3, <5>1, GoodApply
        <5>. HIDE DEF found
        <5>. QED  BY <2>1, <4>1, <5>2, <5>3
      <4>. QED  BY <3>2, <4>2, <4>3, FoundAfterCrash
    <3>. QED  BY <3>1, <3>2 DEF IndInv, WriterIsSound
  <2>. QED  BY <1>1, <1>2, <2>1, <2>2 DEF CountsAreSound
<1>. QED  BY <1>1, <1>2, <1>3, <1>4, <1>5 DEF IndInv

-----------------------------------------------------------------------------
(* The steps of load and fork.                                             *)

\* A load that ends leaves the loads sound.
LEMMA LoadEnds ==
    ASSUME LoadsAreSound, NEW l \in Loaders, \A k \in Loaders : k # l => Done(k, load[k]),
           NEW x, Done(l, x), load' = [load EXCEPT ![l] = x]
    PROVE  LoadsAreSound'
<1>1. DOMAIN load = Loaders
  BY DEF LoadsAreSound
<1>2. load'[l] = x /\ DOMAIN load' = Loaders /\ \A k \in Loaders : k # l => Done(k, load'[k])
  BY <1>1
<1>3. LoadIsFcn'
  BY <1>1 DEF LoadIsFcn
<1>. QED  BY <1>2, <1>3 DEF LoadsAreSound

\* A load that repairs is the only one, and nothing is being written.
LEMMA RepairIs ==
    ASSUME IndInv, NEW l \in Loaders,
           load[l].at \in {"stage", "staging", "publish", "terminate"}
    PROVE  /\ load[l] \in RepairRecord /\ load[l] # Idle /\ DOMAIN load = Loaders
           /\ ~ opened /\ appending = NoMutation /\ queue = <<>> /\ unwritten = <<>>
           /\ load[l].prefix = ValidPrefix(file)
           /\ load[l].at = "terminate" => Len(Rest) = 2
           /\ load[l].at # "terminate" => Len(Rest) = 1
           /\ load[l].at = "staging" => load[l].handle = "temp"
           /\ load[l].at = "publish" => temp = EncodeAll(load[l].prefix)
           /\ \A k \in Loaders : k # l => Done(k, load[k])
<1>1. load[l] # Idle /\ ~ IsCopy(load[l]) /\ ~ Done(l, load[l])
  BY DEF Idle, IsCopy, Done
<1>2. /\ load[l] \in RepairRecord
      /\ ~ opened /\ load[l].prefix = ValidPrefix(file)
      /\ load[l].at = "terminate" => Len(Rest) = 2
      /\ load[l].at # "terminate" => Len(Rest) = 1
      /\ load[l].at = "staging" => load[l].handle = "temp"
      /\ load[l].at = "publish" => temp = EncodeAll(load[l].prefix)
  BY <1>1 DEF IndInv, LoadsAreSound
<1>3. DOMAIN load = Loaders /\ \A k \in Loaders : k # l => Done(k, load[k])
  BY <1>1 DEF IndInv, LoadsAreSound
<1>4. appending = NoMutation /\ queue = <<>> /\ unwritten = <<>>
  BY <1>2 DEF IndInv, WriterIsSound
<1>. QED  BY <1>1, <1>2, <1>3, <1>4

\* What load has repaired so far stays sound.
LEMMA RepairGoesOn ==
    ASSUME IndInv, NEW l \in Loaders, ~ opened, \A k \in Loaders : k # l => Done(k, load[k]),
           NEW x \in RepairRecord, load' = [load EXCEPT ![l] = x],
           x.prefix = ValidPrefix(file),
           x.at = "terminate" => Len(Rest) = 2,
           x.at # "terminate" => Len(Rest) = 1,
           x.at = "staging" => x.handle = "temp",
           x.at = "publish" => temp' = EncodeAll(x.prefix),
           UNCHANGED <<opened, file>>
    PROVE  LoadsAreSound'
<1>1. DOMAIN load = Loaders
  BY DEF IndInv, LoadsAreSound
<1>2. load'[l] = x /\ DOMAIN load' = Loaders /\ \A k \in Loaders : k # l => Done(k, load'[k])
  BY <1>1
<1>3. Rest' = Rest /\ ValidPrefix(file)' = ValidPrefix(file)
  BY FileKept
<1>4. ~ opened'
  OBVIOUS
<1>5. \A k, j \in Loaders : ~ Done(k, load'[k]) /\ ~ Done(j, load'[j]) => k = j
  BY <1>2
<1>6. ASSUME NEW k \in Loaders
      PROVE  \/ Done(k, load'[k])
             \/ /\ load'[k] \in RepairRecord
                /\ ~opened' /\ load'[k].prefix = ValidPrefix(file')
                /\ IF load'[k].at = "terminate" THEN Len(Rest') = 2 ELSE Len(Rest') = 1
                /\ load'[k].at = "staging" => load'[k].handle = "temp"
                /\ load'[k].at = "publish" => temp' = EncodeAll(load'[k].prefix)
  <2>1. CASE k = l
    BY <1>2, <1>3, <1>4, <2>1
  <2>2. CASE k # l
    BY <1>2, <2>2
  <2>. QED  BY <2>1, <2>2
<1>7. LoadIsFcn'
  BY <1>1 DEF LoadIsFcn
<1>. QED  BY <1>2, <1>5, <1>6, <1>7 DEF LoadsAreSound

\* A step that only repairs: the storage, the file and the counters stay.
LEMMA OnlyRepairs ==
    ASSUME IndInv, LoadsAreSound',
           UNCHANGED <<storageVars, appendVars, file, acknowledged, requests>>
    PROVE  IndInv'
<1>1. FileIsSound' /\ Durable' = Durable
  BY FileKept DEF IndInv
<1>2. WriterIsSound' /\ CountsAreSound'
  BY WriterKept, CountsKept DEF IndInv
<1>. QED  BY <1>1, <1>2 DEF IndInv

\* OpenTemp preserves the invariant.
LEMMA OpenTempSound ==
    ASSUME IndInv, NEW l \in Loaders, OpenTemp(l)
    PROVE  IndInv'
<1>1. load[l].at = "stage"
  BY DEF OpenTemp
<1>2. /\ load[l] \in RepairRecord /\ DOMAIN load = Loaders /\ ~ opened
      /\ load[l].prefix = ValidPrefix(file) /\ Len(Rest) = 1
      /\ \A k \in Loaders : k # l => Done(k, load[k])
  BY <1>1, RepairIs
<1>. DEFINE x == [load[l] EXCEPT !.at = "staging", !.handle = "temp"]
<1>3. x \in RepairRecord /\ x.at = "staging" /\ x.handle = "temp" /\ x.prefix = load[l].prefix
  BY <1>2 DEF RepairRecord
<1>4. load' = [load EXCEPT ![l] = x]
  BY <1>2 DEF OpenTemp
<1>5. UNCHANGED <<storageVars, appendVars, file, acknowledged, requests>>
  BY DEF OpenTemp, loadRest, ghostVars, storageVars, appendVars
<1>. HIDE DEF x
<1>6. LoadsAreSound'
  BY <1>2, <1>3, <1>4, <1>5, RepairGoesOn DEF storageVars
<1>. QED  BY <1>5, <1>6, OnlyRepairs

\* WriteTemp preserves it.
LEMMA WriteTempSound ==
    ASSUME IndInv, NEW l \in Loaders, WriteTemp(l)
    PROVE  IndInv'
<1>1. load[l].at = "staging"
  BY DEF WriteTemp
<1>2. /\ load[l] \in RepairRecord /\ DOMAIN load = Loaders /\ ~ opened
      /\ load[l].prefix = ValidPrefix(file) /\ Len(Rest) = 1 /\ load[l].handle = "temp"
      /\ \A k \in Loaders : k # l => Done(k, load[k])
  BY <1>1, RepairIs
<1>. DEFINE x == [load[l] EXCEPT !.at = "publish"]
<1>3. x \in RepairRecord /\ x.at = "publish" /\ x.prefix = load[l].prefix
  BY <1>2 DEF RepairRecord
<1>4. load' = [load EXCEPT ![l] = x]
  BY <1>2 DEF WriteTemp
<1>5. /\ temp' = EncodeAll(load[l].prefix)
      /\ UNCHANGED <<storageVars, appendVars, file, acknowledged, requests>>
  BY <1>2 DEF WriteTemp, loadRest, ghostVars, storageVars, appendVars
<1>. HIDE DEF x
<1>6. LoadsAreSound'
  BY <1>2, <1>3, <1>4, <1>5, RepairGoesOn DEF storageVars
<1>. QED  BY <1>5, <1>6, OnlyRepairs

\* The handles of other loads do not change: they have none.
LEMMA RenamedIs ==
    ASSUME IndInv, NEW l \in Loaders, \A k \in Loaders : k # l => Done(k, load[k]), NEW name
    PROVE  Renamed(l, name) = load
<1>1. DOMAIN load = Loaders /\ load = [k \in Loaders |-> load[k]]
  BY DEF IndInv, LoadsAreSound, LoadIsFcn
<1>2. \A k \in Loaders : k # l => load[k].at # "staging"
  <2>1. ASSUME NEW k \in Loaders, Done(k, load[k]) PROVE load[k].at # "staging"
    BY <2>1 DEF Idle, Done, IsCopy
  <2>. QED  BY <2>1
<1>. QED  BY <1>1, <1>2 DEF Renamed

\* load has the session: what the file replays to is what the caller gets.
LEMMA LoadedSound ==
    ASSUME IndInv, NEW l \in Loaders, ~ opened \/ l = "fork",
           \A k \in Loaders : k # l => Done(k, load[k]),
           NEW prefix, NEW o, Loaded(l, load, prefix, o),
           opened \/ queue = <<>>, FileIsSound',
           l = "open" => Rest' = <<>> /\ Replay(prefix).state = Session',
           Range(Durable) \subseteq Range(Durable'),
           opened => file' = file,
           Replay(ValidPrefix(file')).state = Replay(ValidPrefix(file)).state,
           UNCHANGED <<queue, appendVars, acknowledged, requests>>
    PROVE  IndInv'
<1>0. acknowledged' \subseteq Range(Durable')
  BY DEF IndInv
<1>1. LoadsAreSound'
  <2>1. \E x : Done(l, x) /\ load' = [load EXCEPT ![l] = x]
    <3>1. CASE l = "open"
      BY <3>1 DEF Loaded, Done
    <3>2. CASE l = "fork"
      <4>. DEFINE x == IF ValidForkTarget(Replay(prefix).state, o)
                       THEN [at |-> "copy", source |-> Replay(prefix).state, options |-> o,
                             copied |-> <<>>]
                       ELSE Idle
      <4>1. load' = [load EXCEPT ![l] = x]
        BY <3>2 DEF Loaded
      <4>2. x = Idle \/ IsCopy(x)
        BY DEF IsCopy
      <4>. HIDE DEF x
      <4>. QED  BY <3>2, <4>1, <4>2 DEF Done
    <3>. QED  BY <3>1, <3>2 DEF Loaders
  <2>. QED  BY <2>1, LoadEnds DEF IndInv
<1>2. CASE l = "open"
  <2>1. opened' = TRUE /\ state' = Session' /\ Rest' = <<>> /\ ~ opened
    BY <1>2 DEF Loaded
  <2>2. /\ queue' = <<>> /\ appending' = NoMutation /\ unwritten' = <<>> /\ orphaned' = FALSE
        /\ requests' = requests
    BY <2>1 DEF IndInv, WriterIsSound, appendVars
  <2>3. Good(state')
    BY <2>1 DEF FileIsSound
  <2>4. WriterIsSound'
    <3>1. queue' \in Seq(Requests)
      BY <2>2
    <3>. QED  BY <2>1, <2>2, <2>3, <3>1 DEF WriterIsSound
  <2>5. CountsAreSound'
    <3>1. LoadsWell'
      <4>1. FileIsSound' => LoadsWell'
        BY SoundLoads, PTL
      <4>. QED  BY <4>1
    <3>2. ValidPrefix(file') = Durable'
      BY <2>1, <3>1 DEF LoadsWell
    <3>3. state' = Replay(ValidPrefix(file')).state
      BY <2>1, <3>2 DEF Session
    <3>4. state'.sequence <= requests /\ requests \in 0..MaxRequests
      BY <2>1, <3>3 DEF IndInv, CountsAreSound
    <3>5. state'.sequence \in Nat /\ Len(queue') = 0
      BY <2>2, <2>3 DEF Good
    <3>. QED  BY <2>1, <2>2, <3>4, <3>5 DEF CountsAreSound
  <2>. QED  BY <1>0, <1>1, <2>4, <2>5 DEF IndInv
<1>3. CASE l = "fork"
  <2>1. opened' = opened /\ state' = state /\ queue' = queue /\ requests' = requests
    BY <1>3 DEF Loaded
  <2>2. CASE opened
    <3>1. UNCHANGED <<storageVars, appendVars, file>>
      BY <2>1, <2>2 DEF storageVars
    <3>2. WriterIsSound' /\ CountsAreSound'
      BY <2>1, <3>1, WriterKept, CountsKept DEF IndInv
    <3>. QED  BY <1>0, <1>1, <3>2 DEF IndInv
  <2>3. CASE ~ opened
    <3>1. WriterIsSound'
      BY <2>1, <2>3 DEF IndInv, WriterIsSound, appendVars
    <3>2. CountsAreSound'
      BY <2>1, <2>3 DEF IndInv, CountsAreSound
    <3>. QED  BY <1>0, <1>1, <3>1, <3>2 DEF IndInv
  <2>. QED  BY <2>2, <2>3
<1>. QED  BY <1>2, <1>3 DEF Loaders

\* ReadFile preserves it.
LEMMA ReadFileSound ==
    ASSUME IndInv, CleanFaults, NEW l \in Loaders, NEW o \in Options(l), ReadFile(l, o)
    PROVE  IndInv'
<1>1. /\ \A k \in Loaders : Done(k, load[k])
      /\ l = "open" => ~ opened
      /\ unwritten \in {<<>>, encodeMutation(appending)}
  <2>1. /\ \A k \in Loaders : load[k].at \in {"idle", "copy"}
        /\ l = "open" => ~ opened
        /\ unwritten \in {<<>>, encodeMutation(appending)}
    BY DEF ReadFile, MayLoad, CleanFaults
  <2>2. \A k \in Loaders : Done(k, load[k]) \/ load[k] \in RepairRecord
    BY DEF IndInv, LoadsAreSound
  <2>3. \A x \in RepairRecord : x.at \notin {"idle", "copy"}
    BY DEF RepairRecord
  <2>. QED  BY <2>1, <2>2, <2>3
<1>2. UNCHANGED <<queue, appendVars, file, acknowledged, requests>>
  BY DEF ReadFile, diskVars
<1>3. FileIsSound' /\ Durable' = Durable /\ Rest' = Rest /\ Session' = Session
  BY <1>2, FileKept DEF IndInv
<1>4. LoadsWell
  BY SoundLoads DEF IndInv
<1>5. opened => Rest = <<>>
  <2>1. SUFFICES ASSUME opened, appending # NoMutation PROVE Rest = <<>>
    BY DEF IndInv, WriterIsSound
  <2>2. appending \in Mutation /\ AppendGot(appending)
    BY <2>1, RunningIs
  <2>. QED  BY <1>1, <2>2, UnwrittenIs DEF AppendGot
<1>6. CASE Rest = <<>>
  <2>1. ~ isTornTail(file) /\ ~ Unterminated(file) /\ ValidPrefix(file) = Durable
    BY <1>4, <1>6 DEF LoadsWell
  <2>2. Loaded(l, load, Durable, o)
    BY <2>1 DEF ReadFile
  <2>3. /\ ~ opened \/ l = "fork"
        /\ opened \/ queue = <<>>
        /\ \A k \in Loaders : k # l => Done(k, load[k])
        /\ l = "open" => Rest' = <<>> /\ Replay(Durable).state = Session'
        /\ Range(Durable) \subseteq Range(Durable')
        /\ Replay(ValidPrefix(file')).state = Replay(ValidPrefix(file)).state
        /\ opened => file' = file
        /\ UNCHANGED <<queue, appendVars, acknowledged, requests>>
    BY <1>1, <1>2, <1>3, <1>6 DEF IndInv, WriterIsSound, Session, Loaders
  <2>. QED  BY <1>3, <2>2, <2>3, LoadedSound
<1>7. CASE Rest # <<>>
  <2>1. ~ opened /\ (isTornTail(file) \/ Unterminated(file))
    BY <1>4, <1>5, <1>7 DEF LoadsWell
  <2>. DEFINE x == [at |-> IF isTornTail(file) THEN "stage" ELSE "terminate",
                    prefix |-> ValidPrefix(file), options |-> o, handle |-> "none"]
  <2>2. load' = [load EXCEPT ![l] = x] /\ UNCHANGED <<opened, state>>
    BY <2>1 DEF ReadFile
  <2>3. o \in ForkRequests \cup {None}
    BY DEF Options
  <2>4. /\ x.at = (IF isTornTail(file) THEN "stage" ELSE "terminate")
        /\ x.prefix = ValidPrefix(file) /\ x.at # "staging" /\ x.at # "publish"
    OBVIOUS
  <2>5. x \in RepairRecord
    <3>1. ValidPrefix(file) \in Seq(Mutation)
      BY <1>4 DEF LoadsWell
    <3>. QED  BY <2>3, <3>1 DEF RepairRecord
  <2>6. /\ x.at = "terminate" => Len(Rest) = 2
        /\ x.at # "terminate" => Len(Rest) = 1
    BY <1>4, <1>7, <2>4 DEF LoadsWell
  <2>. HIDE DEF x
  <2>7. LoadsAreSound'
    <3>1. UNCHANGED <<opened, file>>
      BY <1>2, <2>2
    <3>2. \A k \in Loaders : k # l => Done(k, load[k])
      BY <1>1
    <3>. QED  BY <2>1, <2>2, <2>4, <2>5, <2>6, <3>1, <3>2, RepairGoesOn
  <2>8. UNCHANGED <<storageVars, appendVars, file, acknowledged, requests>>
    BY <1>2, <2>2 DEF storageVars
  <2>. QED  BY <2>7, <2>8, OnlyRepairs
<1>. QED  BY <1>6, <1>7

\* Publish preserves it, and a load after it finds what one before it did.
LEMMA PublishSound ==
    ASSUME IndInv, NEW l \in Loaders, Publish(l)
    PROVE  IndInv' /\ ValidPrefix(file') = ValidPrefix(file)
<1>1. load[l].at = "publish"
  BY DEF Publish
<1>2. /\ ~ opened /\ appending = NoMutation /\ queue = <<>>
      /\ load[l].prefix = ValidPrefix(file) /\ Len(Rest) = 1
      /\ temp = EncodeAll(load[l].prefix)
      /\ \A k \in Loaders : k # l => Done(k, load[k])
  BY <1>1, RepairIs
<1>3. ValidPrefix(file) = Durable /\ LoadsWell
  <2>1. LoadsWell
    BY SoundLoads DEF IndInv
  <2>2. Rest # <<>> /\ Len(Rest) # 2
    <3>1. Len(<<>>) = 0
      OBVIOUS
    <3>. QED  BY <1>2, <3>1
  <2>. QED  BY <2>1, <2>2 DEF LoadsWell
<1>4. file' = EncodeAll(Durable)
  BY <1>2, <1>3 DEF Publish
<1>5. FileIsSound' /\ Durable' = Durable /\ Rest' = <<>> /\ Session' = Session
  BY <1>4, Rewritten DEF IndInv
<1>6. ValidPrefix(file') = Durable
  <2>1. LoadsWell'
    <3>1. FileIsSound' => LoadsWell'
      BY SoundLoads, PTL
    <3>. QED  BY <1>5, <3>1
  <2>. QED  BY <1>5, <2>1 DEF LoadsWell
<1>7. Loaded(l, load, Durable, load[l].options)
  BY <1>2, <1>3, RenamedIs DEF Publish
<1>8. UNCHANGED <<queue, appendVars, acknowledged, requests>>
  <2>1. orphaned' = FALSE /\ orphaned = FALSE
    BY <1>2 DEF Publish, IndInv, WriterIsSound
  <2>. QED  BY <2>1 DEF Publish, loadRest, ghostVars, appendVars
<1>9. Replay(Durable).state = Session'
  BY <1>5 DEF Session
<1>10. IndInv'
  BY <1>2, <1>3, <1>5, <1>6, <1>7, <1>8, <1>9, LoadedSound
<1>. QED  BY <1>3, <1>6, <1>10

\* Terminate does, too.
LEMMA TerminateSound ==
    ASSUME IndInv, NEW l \in Loaders, Terminate(l)
    PROVE  IndInv' /\ ValidPrefix(file') = ValidPrefix(file)
<1>1. load[l].at = "terminate"
  BY DEF Terminate
<1>2. /\ ~ opened /\ queue = <<>>
      /\ load[l].prefix = ValidPrefix(file) /\ Len(Rest) = 2
      /\ \A k \in Loaders : k # l => Done(k, load[k])
  BY <1>1, RepairIs
<1>. DEFINE m == Begun
<1>3. /\ m \in Mutation /\ ValidMutation(Session, m) /\ Rest = <<First(m), Second(m)>>
      /\ ValidPrefix(file) = Append(Durable, m)
  <2>1. LoadsWell
    BY SoundLoads DEF IndInv
  <2>2. Rest # <<>> /\ Len(Rest) # 1
    <3>1. Len(<<>>) = 0
      OBVIOUS
    <3>. QED  BY <1>2, <3>1
  <2>. QED  BY <2>1, <2>2 DEF LoadsWell
<1>. HIDE DEF m
<1>4. file' = Append(file, Newline)
  BY DEF Terminate
<1>5. /\ FileIsSound' /\ Durable' = Append(Durable, m) /\ Rest' = <<>>
      /\ Session' = applyMutation(Session, m)
  BY <1>3, <1>4, LineEnds DEF IndInv
<1>6. ValidPrefix(file') = Append(Durable, m)
  <2>1. LoadsWell'
    <3>1. FileIsSound' => LoadsWell'
      BY SoundLoads, PTL
    <3>. QED  BY <1>5, <3>1
  <2>. QED  BY <1>5, <2>1 DEF LoadsWell
<1>7. Loaded(l, load, Append(Durable, m), load[l].options)
  BY <1>2, <1>3 DEF Terminate
<1>8. UNCHANGED <<queue, appendVars, acknowledged, requests>>
  BY DEF Terminate, loadRest, ghostVars
<1>9. Replay(Append(Durable, m)).state = Session'
  BY <1>5 DEF Session
<1>10. Range(Durable) \subseteq Range(Durable')
  BY <1>3, <1>5, RangeAppend DEF IndInv, FileIsSound
<1>11. IndInv'
  BY <1>2, <1>3, <1>5, <1>6, <1>7, <1>8, <1>9, <1>10, LoadedSound
<1>. QED  BY <1>3, <1>6, <1>11

\* RepairFails preserves it.
LEMMA RepairFailsSound ==
    ASSUME IndInv, NEW l \in Loaders, RepairFails(l)
    PROVE  IndInv'
<1>1. \A k \in Loaders : k # l => Done(k, load[k])
  BY RepairIs DEF RepairFails
<1>2. load' = [load EXCEPT ![l] = Idle]
  BY <1>1, RenamedIs DEF RepairFails
<1>3. LoadsAreSound'
  BY <1>1, <1>2, LoadEnds DEF IndInv, Done
<1>4. UNCHANGED <<storageVars, appendVars, file, acknowledged, requests>>
  BY DEF RepairFails, loadRest, ghostVars, storageVars, appendVars
<1>. QED  BY <1>3, <1>4, OnlyRepairs

\* The steps of a fork that writes its copy preserve it: they leave the file
\* and the other load alone.
LEMMA CopySound ==
    ASSUME IndInv, AppendCopy \/ ForkFails \/ PublishFork
    PROVE  IndInv'
<1>. DEFINE x == load["fork"]
<1>1. x.at = "copy" /\ "fork" \in Loaders /\ DOMAIN load = Loaders
  BY DEF AppendCopy, ForkFails, PublishFork, Loaders, IndInv, LoadsAreSound
<1>2. Done("fork", x) /\ IsCopy(x)
  <2>1. x \notin RepairRecord /\ x # Idle
    BY <1>1 DEF RepairRecord, Idle
  <2>. QED  BY <1>1, <2>1 DEF IndInv, LoadsAreSound, Done
<1>3. UNCHANGED <<storageVars, appendVars, file, temp, acknowledged, requests>>
  BY DEF AppendCopy, ForkFails, PublishFork, ghostVars, diskVars
<1>4. PICK y : Done("fork", y) /\ load' = [load EXCEPT !["fork"] = y]
  <2>1. CASE AppendCopy
    <3>. DEFINE y == [x EXCEPT !.copied = Copying]
    <3>1. IsCopy(y)
      BY <1>2 DEF IsCopy
    <3>2. load' = [load EXCEPT !["fork"] = y]
      BY <1>1, <2>1 DEF AppendCopy
    <3>. HIDE DEF y
    <3>. QED  BY <3>1, <3>2 DEF Done
  <2>2. CASE ForkFails \/ PublishFork
    BY <2>2 DEF ForkFails, PublishFork, Done
  <2>. QED  BY <2>1, <2>2
<1>. HIDE DEF x
<1>5. /\ load'["fork"] = y /\ DOMAIN load' = Loaders
      /\ \A k \in Loaders : k # "fork" => load'[k] = load[k]
  BY <1>1, <1>4
<1>6. LoadIsFcn'
  BY <1>1, <1>4 DEF LoadIsFcn
<1>7. Rest' = Rest /\ ValidPrefix(file)' = ValidPrefix(file) /\ opened' = opened /\ temp' = temp
  BY <1>3, FileKept DEF storageVars
<1>8. ASSUME NEW k \in Loaders
      PROVE  \/ Done(k, load'[k])
             \/ /\ load'[k] \in RepairRecord
                /\ ~opened' /\ load'[k].prefix = ValidPrefix(file')
                /\ IF load'[k].at = "terminate" THEN Len(Rest') = 2 ELSE Len(Rest') = 1
                /\ load'[k].at = "staging" => load'[k].handle = "temp"
                /\ load'[k].at = "publish" => temp' = EncodeAll(load'[k].prefix)
  <2>1. CASE k = "fork"
    BY <1>4, <1>5, <2>1
  <2>2. CASE k # "fork"
    BY <1>5, <1>7, <2>2 DEF IndInv, LoadsAreSound
  <2>. QED  BY <2>1, <2>2
<1>9. \A k, l \in Loaders : ~ Done(k, load'[k]) /\ ~ Done(l, load'[l]) => k = l
  BY <1>4, <1>5 DEF Loaders
<1>10. LoadsAreSound'
  BY <1>5, <1>6, <1>8, <1>9 DEF LoadsAreSound
<1>. QED  BY <1>3, <1>10, OnlyRepairs

\* A step that changes nothing preserves it.
LEMMA StutterSound ==
    ASSUME IndInv, UNCHANGED vars
    PROVE  IndInv'
<1>1. UNCHANGED <<storageVars, appendVars, file, acknowledged, requests>> /\ UNCHANGED <<load, opened, file, temp>>
  BY DEF vars, diskVars, ghostVars, storageVars
<1>2. LoadsAreSound'
  BY <1>1, LoadsKept DEF IndInv
<1>. QED  BY <1>1, <1>2, OnlyRepairs

\* Every step preserves it.
LEMMA NextSound ==
    ASSUME IndInv, CleanFaults, [Next]_vars
    PROVE  IndInv'
<1>1. CASE \E r \in Requests : enqueue(r)
  BY <1>1, EnqueueSound
<1>2. CASE Write
  BY <1>2, StartAppendSound, RejectSound, WritePieceSound, AcknowledgeSound,
     AppendFailsSound DEF Write
<1>3. CASE Crash
  BY <1>3, CrashSound
<1>4. ASSUME NEW l \in Loaders, Load(l) PROVE IndInv'
  BY <1>4, ReadFileSound, OpenTempSound, WriteTempSound, PublishSound, TerminateSound,
     RepairFailsSound DEF Load
<1>5. CASE AppendCopy \/ ForkFails \/ PublishFork
  BY <1>5, CopySound
<1>6. CASE UNCHANGED vars
  BY <1>6, StutterSound
<1>. QED  BY <1>1, <1>2, <1>3, <1>4, <1>5, <1>6 DEF Next

-----------------------------------------------------------------------------
(* The theorems.                                                           *)

\* The invariant holds in every state of every behaviour.
LEMMA AlwaysSound ==
    ASSUME CleanFaults
    PROVE  Spec => []IndInv
<1>1. IndInv /\ [Next]_vars => IndInv'
  BY NextSound
<1>. QED  BY <1>1, InitSound, PTL DEF Spec

\* What load finds has every durable line.
LEMMA SoundIsDurable ==
    ASSUME IndInv
    PROVE  AcknowledgedIsDurable /\ MemoryMatchesFile
<1>1. LoadsWell /\ FileIsSound
  BY SoundLoads DEF IndInv
<1>2. Range(Durable) \subseteq Range(ValidPrefix(file))
  <2>1. Begun \in Mutation => Range(Durable) \subseteq Range(Append(Durable, Begun))
    BY <1>1, RangeAppend DEF FileIsSound
  <2>. QED  BY <1>1, <2>1 DEF LoadsWell
<1>3. AcknowledgedIsDurable
  BY <1>1, <1>2 DEF AcknowledgedIsDurable, IndInv, LoadsWell
<1>4. MemoryMatchesFile
  <2>1. SUFFICES ASSUME opened, appending = NoMutation
                 PROVE  state = Replay(ValidPrefix(file)).state
    BY DEF MemoryMatchesFile
  <2>2. Rest = <<>> /\ state = Session
    BY <2>1 DEF IndInv, WriterIsSound
  <2>3. ValidPrefix(file) = Durable
    BY <1>1, <2>2 DEF LoadsWell
  <2>. QED  BY <2>2, <2>3 DEF Session
<1>. QED  BY <1>3, <1>4

\* A write whose promise resolved is in the file, and the file loads, whatever
\* crashes, failed appends and failed repairs came before.
THEOREM AcknowledgedAlwaysDurable ==
    ASSUME CleanFaults
    PROVE  Spec => []AcknowledgedIsDurable
<1>1. IndInv => AcknowledgedIsDurable
  BY SoundIsDurable
<1>. QED  BY <1>1, AlwaysSound, PTL

\* While nothing is being appended, memory is what the file replays to.
THEOREM MemoryAlwaysMatchesFile ==
    ASSUME CleanFaults
    PROVE  Spec => []MemoryMatchesFile
<1>1. IndInv => MemoryMatchesFile
  BY SoundIsDurable
<1>. QED  BY <1>1, AlwaysSound, PTL

-----------------------------------------------------------------------------
(* The storage implements the in-memory one.                               *)

\* A new session is a new session.
LEMMA AbstractInit == Init => Abstract!Init
BY DEF Init, Abstract!Init, Recovered, InitialState, Abstract!InitialState

\* The write of an admitted request is one the in-memory storage would make.
LEMMA AbstractCall ==
    ASSUME NEW r \in Requests, Good(state), Admitted(r), Recovered = state,
           state.sequence < MaxRequests,
           Recovered' = applyMutation(state, MutationOf(r))
    PROVE  Abstract!Call(r)
<1>. DEFINE n == state.sequence + 1
<1>. USE DEF Abstract!Call, Abstract!Apply, Abstract!nextSequence, nextSequence
<1>7. Abstract!ValidMutation(state, MutationOf(r))
  <2>1. ValidMutation(state, MutationOf(r))
    BY AdmittedIsValid
  <2>. QED  BY <2>1 DEF ValidMutation, Abstract!ValidMutation
<1>0. \A m : Abstract!applyMutation(state, m) = applyMutation(state, m)
  BY DEF applyMutation, Abstract!applyMutation, ApplyEntry, Abstract!ApplyEntry, ApplyRecord,
     Abstract!ApplyRecord, ApplyLane, Abstract!ApplyLane, ApplyFact, Abstract!ApplyFact,
     With, Abstract!With, Without, Abstract!Without, OpenOperations, Abstract!OpenOperations
<1>1. CASE r \in CreateLanes
  <2>1. r.op = "createLane"
    BY <1>1 DEF CreateLanes
  <2>2. MutationOf(r) = Abstract!LaneMutation(n, r.lane, r.at)
    BY <2>1 DEF MutationOf, LaneMutation, Abstract!LaneMutation
  <2>3. validateNewLane(state, r.lane) /\ validateTarget(state, r.at)
    BY <2>1 DEF Admitted
  <2>. QED  BY <1>0, <1>7, <2>1, <2>2, <2>3 DEF Abstract!createLane, validateNewLane, validateTarget,
              Abstract!validateNewLane, Abstract!validateTarget
<1>2. CASE r \in MoveLanes
  <2>1. r.op = "moveLane"
    BY <1>2 DEF MoveLanes
  <2>2. MutationOf(r) = Abstract!LaneMutation(n, r.lane, r.to)
    BY <2>1 DEF MutationOf, LaneMutation, Abstract!LaneMutation
  <2>3. requireLane(state, r.lane) /\ validateTarget(state, r.to)
    BY <2>1 DEF Admitted
  <2>. QED  BY <1>0, <1>7, <2>1, <2>2, <2>3 DEF Abstract!moveLane, requireLane, validateTarget,
              Abstract!requireLane, Abstract!validateTarget
<1>3. CASE r \in AppendEntries
  <2>1. r.op = "appendEntry"
    BY <1>3 DEF AppendEntries
  <2>2. MutationOf(r) = Abstract!EntryMutation(n, r.lane, r.id, state.lanes[r.lane], r.type)
    BY <2>1 DEF MutationOf, EntryMutation, Abstract!EntryMutation
  <2>3. requireLane(state, r.lane) /\ validateUnusedId(state, r.id)
    BY <2>1 DEF Admitted
  <2>. QED  BY <1>0, <1>7, <2>1, <2>2, <2>3 DEF Abstract!appendEntry, requireLane, validateUnusedId,
              Abstract!requireLane, Abstract!validateUnusedId
<1>4. CASE r \in AppendRecords
  <2>1. r.op = "appendRecord"
    BY <1>4 DEF AppendRecords
  <2>2. MutationOf(r) = Abstract!RecordMutation(n, r.lane, r.id, r.type, r.runId)
    BY <2>1 DEF MutationOf, RecordMutation, Abstract!RecordMutation
  <2>3. /\ requireLane(state, r.lane) /\ validateUnusedId(state, r.id)
        /\ r.type = "operation_started" => findOpenOperations(state, r.lane) = {}
    BY <2>1 DEF Admitted
  <2>. QED  BY <1>0, <1>7, <2>1, <2>2, <2>3 DEF Abstract!appendRecord, requireLane, validateUnusedId,
              Abstract!requireLane, Abstract!validateUnusedId, findOpenOperations,
              Abstract!findOpenOperations
<1>5. CASE r \in SetNames
  <2>1. r.op = "setName"
    BY <1>5 DEF SetNames
  <2>2. MutationOf(r) = Abstract!NameMutation(n, r.name)
    BY <2>1 DEF MutationOf, NameMutation, Abstract!NameMutation
  <2>. QED  BY <1>0, <1>7, <2>1, <2>2 DEF Abstract!setName
<1>6. CASE r \in SetLabels
  <2>1. r.op = "setLabel"
    BY <1>6 DEF SetLabels
  <2>2. MutationOf(r) = Abstract!LabelMutation(n, r.id, r.label)
    BY <2>1 DEF MutationOf, LabelMutation, Abstract!LabelMutation
  <2>3. validateTarget(state, r.id)
    BY <2>1 DEF Admitted
  <2>. QED  BY <1>0, <1>7, <2>1, <2>2, <2>3 DEF Abstract!setLabel, validateTarget,
              Abstract!validateTarget
<1>. QED  BY <1>1, <1>2, <1>3, <1>4, <1>5, <1>6, RequestIsOne

\* The write that is running, made.
LEMMA RunningCall ==
    ASSUME IndInv, appending # NoMutation, Recovered' = applyMutation(state, appending)
    PROVE  Abstract!Next
<1>1. /\ opened /\ queue # <<>> /\ Head(queue) \in Requests
      /\ Admitted(Head(queue)) /\ appending = MutationOf(Head(queue))
  BY RunningIs
<1>2. /\ Good(state) /\ state.sequence \in Nat /\ Len(queue) \in Nat /\ Len(queue) >= 1
      /\ state.sequence + Len(queue) <= requests /\ requests \in 0..MaxRequests
  BY <1>1 DEF IndInv, WriterIsSound, CountsAreSound, Good
<1>3. state.sequence < MaxRequests
  BY <1>2, MaxIsNat
<1>4. Recovered = state
  BY <1>1 DEF Recovered
<1>5. Abstract!Call(Head(queue))
  BY <1>1, <1>2, <1>3, <1>4, AbstractCall
<1>. QED  BY <1>1, <1>5 DEF Abstract!Next

\* Steps that change neither the storage nor the file.
LEMMA RecoveredKept ==
    ASSUME UNCHANGED <<opened, state, file>>
    PROVE  Recovered' = Recovered
<1>1. ValidPrefix(file)' = ValidPrefix(file)
  BY FileKept
<1>. QED  BY <1>1 DEF Recovered

\* A load that ends finds the session as it was.
LEMMA RecoveredLoaded ==
    ASSUME NEW l \in Loaders, NEW loads, NEW o, ~ opened \/ l = "fork",
           Loaded(l, loads, ValidPrefix(file), o), ValidPrefix(file') = ValidPrefix(file)
    PROVE  Recovered' = Recovered
BY DEF Loaded, Recovered, Loaders

\* Every step of the durable storage is a step of the in-memory one, or none.
LEMMA StepRefines ==
    ASSUME IndInv, CleanFaults, [Next]_vars
    PROVE  Abstract!Next \/ Recovered' = Recovered
<1>1. CASE \E r \in Requests : enqueue(r)
  BY <1>1, RecoveredKept DEF enqueue, diskVars
<1>2. CASE StartAppend \/ Reject \/ AppendFails
  BY <1>2, RecoveredKept DEF StartAppend, Reject, AppendFails, diskVars, storageVars
<1>3. CASE WritePiece
  <2>1. opened /\ opened' /\ state' = state
    BY <1>3, RunningIs DEF WritePiece, IndInv, WriterIsSound, storageVars
  <2>. QED  BY <2>1 DEF Recovered
<1>4. CASE Acknowledge
  <2>1. /\ appending # NoMutation /\ state' = applyMutation(state, appending)
        /\ opened' = opened
    BY <1>4 DEF Acknowledge
  <2>2. opened
    BY <2>1, RunningIs
  <2>3. Recovered' = applyMutation(state, appending)
    BY <2>1, <2>2 DEF Recovered
  <2>. QED  BY <2>1, <2>3, RunningCall
<1>5. CASE Crash
  <2>1. ~ opened' /\ file' = file
    BY <1>5 DEF Crash, diskVars
  <2>2. Recovered' = Replay(ValidPrefix(file)).state
    BY <2>1, FileKept DEF Recovered
  <2>3. CASE ~ opened
    BY <2>2, <2>3 DEF Recovered
  <2>4. CASE opened
    <3>1. Recovered = state
      BY <2>4 DEF Recovered
    <3>2. \/ Replay(ValidPrefix(file)).state = state
          \/ /\ appending # NoMutation
             /\ Replay(ValidPrefix(file)).state = applyMutation(state, appending)
      BY <2>4, FoundAfterCrash
    <3>. QED  BY <2>2, <3>1, <3>2, RunningCall
  <2>. QED  BY <2>3, <2>4
<1>6. ASSUME NEW l \in Loaders, NEW o \in Options(l), ReadFile(l, o)
      PROVE  Recovered' = Recovered
  <2>1. file' = file /\ (~ opened \/ l = "fork")
    BY <1>6 DEF ReadFile, diskVars, MayLoad, Loaders
  <2>2. CASE UNCHANGED <<opened, state>>
    BY <2>1, <2>2, RecoveredKept
  <2>3. CASE Loaded(l, load, ValidPrefix(file), o)
    BY <2>1, <2>3, RecoveredLoaded
  <2>. QED  BY <1>6, <2>2, <2>3 DEF ReadFile
<1>7. ASSUME NEW l \in Loaders, OpenTemp(l) \/ RepairFails(l)
      PROVE  Recovered' = Recovered
  BY <1>7, RecoveredKept DEF OpenTemp, RepairFails
<1>8. ASSUME NEW l \in Loaders, WriteTemp(l)
      PROVE  Recovered' = Recovered
  <2>1. load[l].handle = "temp"
    BY <1>8, RepairIs DEF WriteTemp
  <2>. QED  BY <1>8, <2>1, RecoveredKept DEF WriteTemp
<1>9. ASSUME NEW l \in Loaders, Publish(l)
      PROVE  Recovered' = Recovered
  <2>1. load[l].prefix = ValidPrefix(file) /\ ~ opened
    BY <1>9, RepairIs DEF Publish
  <2>2. Loaded(l, Renamed(l, "file"), ValidPrefix(file), load[l].options)
    BY <1>9, <2>1 DEF Publish
  <2>. QED  BY <1>9, <2>1, <2>2, PublishSound, RecoveredLoaded
<1>10. ASSUME NEW l \in Loaders, Terminate(l)
      PROVE  Recovered' = Recovered
  <2>1. load[l].prefix = ValidPrefix(file) /\ ~ opened
    BY <1>10, RepairIs DEF Terminate
  <2>2. Loaded(l, load, ValidPrefix(file), load[l].options)
    BY <1>10, <2>1 DEF Terminate
  <2>. QED  BY <1>10, <2>1, <2>2, TerminateSound, RecoveredLoaded
<1>11. CASE AppendCopy \/ ForkFails \/ PublishFork
  BY <1>11, RecoveredKept DEF AppendCopy, ForkFails, PublishFork, storageVars, diskVars
<1>12. CASE UNCHANGED vars
  BY <1>12, RecoveredKept DEF vars, storageVars, diskVars
<1>. QED  BY <1>1, <1>2, <1>3, <1>4, <1>5, <1>6, <1>7, <1>8, <1>9, <1>10, <1>11, <1>12
            DEF Next, Write, Load

\* Through crashes, failed appends and repairs the session a caller finds only
\* changes the way the in-memory one does: by whole writes it would accept.
THEOREM JsonlImplementsMemoryStorage ==
    ASSUME CleanFaults
    PROVE  Spec => ImplementsMemoryStorage
<1>1. IndInv /\ [Next]_vars => [Abstract!Next]_Recovered
  BY StepRefines
<1>. QED  BY <1>1, AbstractInit, AlwaysSound, PTL DEF Spec, ImplementsMemoryStorage, Abstract!Spec

-----------------------------------------------------------------------------
(* Forks.                                                                  *)

\* The session as a load of the file would find it.
Written == Replay(ValidPrefix(file)).state

\* s was the session when a fork read it, and its entries are now still there.
ForkSource(s, o, now) ==
    /\ Good(s) /\ o \in ForkOptions /\ ValidForkTarget(s, o)
    /\ Kept(s.entriesById, now.entriesById)

\* The copy of a fork so far.
CopiedSoFar(x) ==
    LET copy == createForkMutations(x.source, x.options)
    IN  /\ x.copied \in Seq(Mutation) /\ Len(x.copied) <= Len(copy)
        /\ \A i \in 1..Len(x.copied) : x.copied[i] = copy[i]

\* What fork has to know of its own file and of the one it copies.
ForksAreSound ==
    /\ \A f \in forks : /\ ForkSource(f.source, f.options, Written)
                        /\ f.mutations = createForkMutations(f.source, f.options)
    /\ load["fork"].at = "copy" =>
            /\ ForkSource(load["fork"].source, load["fork"].options, Written)
            /\ CopiedSoFar(load["fork"])
    /\ load["fork"].at \notin {"idle", "copy"} => load["fork"].options \in ForkRequests

\* A fork's record of the load it is in: the same as before, or ended, or
\* the repair or the copy of what the file now has.
ForkMoves ==
    \/ load'["fork"] = load["fork"] \/ load'["fork"] = Idle
    \/ load'["fork"].at \notin {"idle", "copy"} /\ load'["fork"].options \in ForkRequests
    \/ /\ load'["fork"].at = "copy" /\ load'["fork"].source = Written'
       /\ load'["fork"].options \in ForkRequests /\ load'["fork"].copied = <<>>
       /\ ValidForkTarget(Written', load'["fork"].options)

\* Entries are kept where nothing changes.
LEMMA KeptAll == ASSUME NEW entries PROVE Kept(entries, entries)
BY DEF Kept

\* A file that is sound loads, in the next state too.
LEMMA SoundLoadsNext ==
    ASSUME IndInv'
    PROVE  LoadsWell'
<1>1. FileIsSound' => LoadsWell'
  BY SoundLoads, PTL
<1>. QED  BY <1>1 DEF IndInv

\* A load finds what is in memory, or that and the write that is running.
WithOrWithout == Written = state \/ Written = applyMutation(state, appending)

\* That is what the file of an open storage holds in a sound state.
LEMMA WrittenIs == IndInv /\ opened => WithOrWithout
BY FoundAfterCrash DEF Written, WithOrWithout

\* The pieces of a line add an entry to what a load finds, or nothing.
LEMMA WritePieceKeeps ==
    ASSUME IndInv, WritePiece
    PROVE  Kept(Written.entriesById, Written'.entriesById)
<1>1. appending # NoMutation
  BY DEF IndInv, WriterIsSound, WritePiece
<1>. DEFINE m == appending
            after == applyMutation(state, m)
<1>2. m \in Mutation /\ ValidMutation(state, m) /\ AppendGot(m) /\ opened /\ Good(state)
  BY <1>1, RunningIs DEF IndInv, WriterIsSound
<1>3. /\ file' = Append(file, Head(unwritten)) /\ unwritten' = Tail(unwritten)
      /\ unwritten # <<>> /\ appending' = appending /\ state' = state /\ opened' = opened
  BY DEF WritePiece, IndInv, WriterIsSound, storageVars
<1>4. IndInv'
  BY WritePieceSound
<1>5. Kept(state.entriesById, after.entriesById)
  BY <1>2, GoodApply
<1>6. Written' = state \/ Written' = after
  <2>1. IndInv' /\ opened' => WithOrWithout'
    BY WrittenIs, PTL
  <2>. QED  BY <1>2, <1>3, <1>4, <2>1 DEF WithOrWithout
<1>7. LoadsWell
  BY SoundLoads DEF IndInv
<1>8. CASE Rest = <<>> \/ Rest = <<First(m)>>
  <2>1. state = Session
    BY <1>2, <1>3, <1>8 DEF AppendGot
  <2>2. Len(<<First(m)>>) = 1 /\ Len(<<>>) = 0
    OBVIOUS
  <2>3. ValidPrefix(file) = Durable
    BY <1>7, <1>8, <2>2 DEF LoadsWell
  <2>4. Written = state
    BY <2>1, <2>3 DEF Written, Session
  <2>. QED  BY <1>5, <1>6, <2>4, KeptAll
<1>9. CASE unwritten = <<Newline>> /\ Rest = <<First(m), Second(m)>> /\ state = Session
  <2>1. file' = Append(file, Newline)
    BY <1>2, <1>3, <1>9, UnwrittenIs
  <2>2. Durable' = Append(Durable, m) /\ Rest' = <<>> /\ Session' = after
    BY <1>2, <1>9, <2>1, LineEnds DEF IndInv
  <2>3. ValidPrefix(file)' = Durable'
    BY <1>4, <2>2, SoundLoadsNext DEF LoadsWell
  <2>4. Written' = after
    BY <2>2, <2>3 DEF Written, Session
  <2>5. Written = state \/ Written = after
    BY <1>2, FoundAfterCrash DEF Written
  <2>. QED  BY <1>5, <2>4, <2>5, KeptAll
<1>. QED  BY <1>2, <1>3, <1>8, <1>9 DEF AppendGot

\* No step takes an entry away from what a load finds.
LEMMA WrittenGrows ==
    ASSUME IndInv, CleanFaults, [Next]_vars
    PROVE  Kept(Written.entriesById, Written'.entriesById)
<1>1. ASSUME ValidPrefix(file') = ValidPrefix(file)
      PROVE  Kept(Written.entriesById, Written'.entriesById)
  <2>1. Written' = Written
    BY <1>1 DEF Written
  <2>. QED  BY <2>1, KeptAll
<1>2. CASE \E r \in Requests : enqueue(r)
  BY <1>1, <1>2 DEF enqueue, diskVars
<1>3. CASE StartAppend \/ Reject \/ Acknowledge \/ AppendFails
  BY <1>1, <1>3 DEF StartAppend, Reject, Acknowledge, AppendFails, diskVars
<1>4. CASE WritePiece
  BY <1>4, WritePieceKeeps
<1>5. CASE Crash
  BY <1>1, <1>5 DEF Crash, diskVars
<1>6. ASSUME NEW l \in Loaders, Load(l) PROVE ValidPrefix(file') = ValidPrefix(file)
  <2>1. CASE \E o \in Options(l) : ReadFile(l, o)
    BY <2>1 DEF ReadFile, diskVars
  <2>2. CASE OpenTemp(l) \/ RepairFails(l)
    BY <2>2 DEF OpenTemp, RepairFails
  <2>3. CASE WriteTemp(l)
    <3>1. load[l].handle = "temp"
      BY <2>3, RepairIs DEF WriteTemp
    <3>. QED  BY <2>3, <3>1 DEF WriteTemp
  <2>. QED  BY <1>6, <2>1, <2>2, <2>3, PublishSound, TerminateSound DEF Load
<1>7. CASE AppendCopy \/ ForkFails \/ PublishFork
  BY <1>1, <1>7 DEF AppendCopy, ForkFails, PublishFork, diskVars
<1>8. CASE UNCHANGED vars
  BY <1>1, <1>8 DEF vars, diskVars
<1>. QED  BY <1>1, <1>2, <1>3, <1>4, <1>5, <1>6, <1>7, <1>8 DEF Next, Write

\* A load that returns gives fork the session the file has.
LEMMA LoadedMoves ==
    ASSUME NEW l \in Loaders, NEW o, Loaded(l, load, ValidPrefix(file), o),
           ValidPrefix(file') = ValidPrefix(file), DOMAIN load = Loaders,
           l = "fork" => o \in ForkRequests
    PROVE  ForkMoves
<1>1. Written' = Written /\ Written = Replay(ValidPrefix(file)).state
  BY DEF Written
<1>2. CASE l = "open"
  <2>1. load' = [load EXCEPT !["open"] = Idle]
    BY <1>2 DEF Loaded
  <2>2. load'["fork"] = load["fork"]
    BY <2>1 DEF Loaders
  <2>. QED  BY <2>2 DEF ForkMoves
<1>3. CASE l = "fork"
  <2>. DEFINE x == IF ValidForkTarget(Written, o)
                   THEN [at |-> "copy", source |-> Written, options |-> o, copied |-> <<>>]
                   ELSE Idle
  <2>1. load' = [load EXCEPT !["fork"] = x]
    BY <1>1, <1>3 DEF Loaded
  <2>2. load'["fork"] = x
    BY <2>1 DEF Loaders
  <2>. QED  BY <1>1, <1>3, <2>2 DEF ForkMoves
<1>. QED  BY <1>2, <1>3 DEF Loaders

\* The steps of a load move the fork's record so.
LEMMA LoadMoves ==
    ASSUME IndInv, ForksAreSound, NEW l \in Loaders, Load(l)
    PROVE  ForkMoves
<1>1. DOMAIN load = Loaders /\ "fork" \in Loaders
  BY DEF IndInv, LoadsAreSound, Loaders
<1>2. ASSUME NEW o \in Options(l), ReadFile(l, o)
      PROVE  ForkMoves
  <2>1. ValidPrefix(file') = ValidPrefix(file) /\ (l = "fork" => o \in ForkRequests)
    BY <1>2 DEF ReadFile, diskVars, Options
  <2>2. CASE Loaded(l, load, ValidPrefix(file), o)
    BY <1>1, <2>1, <2>2, LoadedMoves
  <2>3. ASSUME NEW x, load' = [load EXCEPT ![l] = x], x.at \in {"stage", "terminate"}, x.options = o
        PROVE  ForkMoves
    <3>1. CASE l = "fork"
      <4>1. load'["fork"] = x
        BY <1>1, <2>3, <3>1
      <4>. QED  BY <2>1, <2>3, <3>1, <4>1 DEF ForkMoves
    <3>2. CASE l # "fork"
      <4>1. load'["fork"] = load["fork"]
        BY <1>1, <2>3, <3>2
      <4>. QED  BY <4>1 DEF ForkMoves
    <3>. QED  BY <3>1, <3>2
  <2>4. CASE isTornTail(file) \/ Unterminated(file)
    <3>. DEFINE x == [at |-> IF isTornTail(file) THEN "stage" ELSE "terminate",
                      prefix |-> ValidPrefix(file), options |-> o, handle |-> "none"]
    <3>1. load' = [load EXCEPT ![l] = x]
      BY <1>2, <2>4 DEF ReadFile
    <3>2. x.at \in {"stage", "terminate"} /\ x.options = o
      OBVIOUS
    <3>. HIDE DEF x
    <3>. QED  BY <2>3, <3>1, <3>2
  <2>. QED  BY <1>2, <2>2, <2>4 DEF ReadFile
<1>3. ASSUME load[l].at \in {"stage", "staging", "publish", "terminate"}
      PROVE  /\ load[l].prefix = ValidPrefix(file)
             /\ \A k \in Loaders : k # l => Done(k, load[k])
             /\ l = "fork" => load[l].options \in ForkRequests
  <2>1. /\ load[l].prefix = ValidPrefix(file)
        /\ \A k \in Loaders : k # l => Done(k, load[k])
    BY <1>3, RepairIs
  <2>. QED  BY <1>3, <2>1 DEF ForksAreSound
<1>4. CASE OpenTemp(l)
  <2>1. load' = [load EXCEPT ![l].at = "staging", ![l].handle = "temp"] /\ load[l].at = "stage"
    BY <1>4 DEF OpenTemp
  <2>2. load[l] \in RepairRecord
    BY <2>1, RepairIs
  <2>3. CASE l = "fork"
    <3>1. load'["fork"].at = "staging" /\ load'["fork"].options = load["fork"].options
      BY <1>1, <2>1, <2>2, <2>3 DEF RepairRecord
    <3>. QED  BY <1>3, <2>1, <2>3, <3>1 DEF ForkMoves
  <2>4. CASE l # "fork"
    <3>1. load'["fork"] = load["fork"]
      BY <1>1, <2>1, <2>4
    <3>. QED  BY <3>1 DEF ForkMoves
  <2>. QED  BY <2>3, <2>4
<1>5. CASE WriteTemp(l)
  <2>1. load' = [load EXCEPT ![l].at = "publish"] /\ load[l].at = "staging"
    BY <1>5 DEF WriteTemp
  <2>2. load[l] \in RepairRecord
    BY <2>1, RepairIs
  <2>3. CASE l = "fork"
    <3>1. load'["fork"].at = "publish" /\ load'["fork"].options = load["fork"].options
      BY <1>1, <2>1, <2>2, <2>3 DEF RepairRecord
    <3>. QED  BY <1>3, <2>1, <2>3, <3>1 DEF ForkMoves
  <2>4. CASE l # "fork"
    <3>1. load'["fork"] = load["fork"]
      BY <1>1, <2>1, <2>4
    <3>. QED  BY <3>1 DEF ForkMoves
  <2>. QED  BY <2>3, <2>4
<1>6. CASE Publish(l)
  <2>1. /\ load[l].at = "publish"
        /\ Loaded(l, Renamed(l, "file"), load[l].prefix, load[l].options)
    BY <1>6 DEF Publish
  <2>2. Loaded(l, load, ValidPrefix(file), load[l].options)
    BY <1>3, <2>1, RenamedIs
  <2>. QED  BY <1>1, <1>3, <1>6, <2>1, <2>2, PublishSound, LoadedMoves
<1>7. CASE Terminate(l)
  <2>1. load[l].at = "terminate" /\ Loaded(l, load, load[l].prefix, load[l].options)
    BY <1>7 DEF Terminate
  <2>2. Loaded(l, load, ValidPrefix(file), load[l].options)
    BY <1>3, <2>1
  <2>. QED  BY <1>1, <1>3, <1>7, <2>1, <2>2, TerminateSound, LoadedMoves
<1>8. CASE RepairFails(l)
  <2>1. load[l].at \in {"stage", "staging", "publish", "terminate"}
    BY <1>8 DEF RepairFails
  <2>2. load' = [load EXCEPT ![l] = Idle]
    BY <1>3, <1>8, <2>1, RenamedIs DEF RepairFails
  <2>3. load'["fork"] = load["fork"] \/ load'["fork"] = Idle
    BY <1>1, <2>2
  <2>. QED  BY <2>3 DEF ForkMoves
<1>. QED  BY <1>2, <1>4, <1>5, <1>6, <1>7, <1>8 DEF Load

\* fork is called with options it knows.
LEMMA RequestsAreOptions == ForkRequests \subseteq ForkOptions
BY JsonlAssumption, Zenon

\* A source stays one.
LEMMA SourceStays ==
    ASSUME NEW s, NEW o, ForkSource(s, o, Written),
           Kept(Written.entriesById, Written'.entriesById)
    PROVE  ForkSource(s, o, Written')
<1>1. Kept(s.entriesById, Written'.entriesById)
  BY KeptTwice DEF ForkSource
<1>. QED  BY <1>1 DEF ForkSource

\* The mutations of a fork.
LEMMA CopyTyped ==
    ASSUME NEW s, NEW o, NEW now, ForkSource(s, o, now)
    PROVE  createForkMutations(s, o) \in Seq(Mutation)
<1>1. Good(s) /\ Copies(s, o)
  BY ForkCopies DEF ForkSource
<1>. QED  BY <1>1, ForkMutationsAre

\* A step that publishes no fork preserves what is known of them.
LEMMA ForksStay ==
    ASSUME IndInv', ForksAreSound, ForkMoves, forks' = forks,
           Kept(Written.entriesById, Written'.entriesById)
    PROVE  ForksAreSound'
<1>1. ASSUME NEW f \in forks'
      PROVE  /\ ForkSource(f.source, f.options, Written')
             /\ f.mutations = createForkMutations(f.source, f.options)
  <2>1. /\ ForkSource(f.source, f.options, Written)
        /\ f.mutations = createForkMutations(f.source, f.options)
    BY <1>1 DEF ForksAreSound
  <2>. QED  BY <2>1, SourceStays
<1>. DEFINE x == load'["fork"]
<1>2. x.at = "copy" => ForkSource(x.source, x.options, Written') /\ CopiedSoFar(x)
  <2>1. CASE x = load["fork"]
    BY <2>1, SourceStays DEF ForksAreSound
  <2>2. CASE /\ x.source = Written' /\ x.options \in ForkRequests
              /\ ValidForkTarget(Written', x.options) /\ x.copied = <<>>
    <3>1. Good(Written')
      BY SoundLoadsNext DEF LoadsWell, Written
    <3>2. x.options \in ForkOptions
      BY <2>2, RequestsAreOptions
    <3>3. Kept(x.source.entriesById, Written'.entriesById)
      BY <2>2, KeptAll
    <3>4. ForkSource(x.source, x.options, Written')
      BY <2>2, <3>1, <3>2, <3>3 DEF ForkSource
    <3>5. CopiedSoFar(x)
      <4>1. createForkMutations(x.source, x.options) \in Seq(Mutation)
        BY <3>4, CopyTyped
      <4>2. /\ <<>> \in Seq(Mutation) /\ Len(<<>>) = 0
            /\ Len(createForkMutations(x.source, x.options)) >= 0
        BY <4>1
      <4>. QED  BY <2>2, <4>2 DEF CopiedSoFar
    <3>. QED  BY <3>4, <3>5
  <2>. QED  BY <2>1, <2>2 DEF ForkMoves, Idle
<1>3. x.at \notin {"idle", "copy"} => x.options \in ForkRequests
  BY DEF ForkMoves, ForksAreSound, Idle
<1>. QED  BY <1>1, <1>2, <1>3 DEF ForksAreSound

\* What a fork publishes is the whole copy.
LEMMA PublishForkStays ==
    ASSUME IndInv, ForksAreSound, PublishFork,
           Kept(Written.entriesById, Written'.entriesById)
    PROVE  ForksAreSound'
<1>. DEFINE x == load["fork"]
            mine == [mutations |-> createForkMutations(x.source, x.options),
                     source |-> x.source, options |-> x.options]
<1>1. ForkSource(x.source, x.options, Written)
  BY DEF PublishFork, ForksAreSound
<1>2. forks' \subseteq forks \cup {mine}
  <2>. DEFINE copy == createForkMutations(x.source, x.options)
  <2>1. copy \in Seq(Mutation)
    BY <1>1, CopyTyped
  <2>2. /\ x.copied \in Seq(Mutation) /\ Len(x.copied) = Len(copy)
        /\ \A i \in 1..Len(x.copied) : x.copied[i] = copy[i]
    BY DEF PublishFork, ForksAreSound, CopiedSoFar, ForkCopy
  <2>3. x.copied = copy
    <3>. HIDE DEF x, copy
    <3>. QED  BY <2>1, <2>2
  <2>. QED  BY <2>3 DEF PublishFork, ForkFile
<1>3. load'["fork"] = Idle
  <2>1. DOMAIN load = Loaders /\ load' = [load EXCEPT !["fork"] = Idle]
    BY DEF PublishFork, IndInv, LoadsAreSound
  <2>. QED  BY <2>1 DEF Loaders
<1>4. /\ mine.source = x.source /\ mine.options = x.options
      /\ mine.mutations = createForkMutations(mine.source, mine.options)
  OBVIOUS
<1>. HIDE DEF mine
<1>5. ASSUME NEW f \in forks'
      PROVE  /\ ForkSource(f.source, f.options, Written')
             /\ f.mutations = createForkMutations(f.source, f.options)
  <2>1. CASE f \in forks
    <3>1. /\ ForkSource(f.source, f.options, Written)
          /\ f.mutations = createForkMutations(f.source, f.options)
      BY <2>1 DEF ForksAreSound
    <3>. QED  BY <3>1, SourceStays
  <2>2. CASE f = mine
    <3>1. ForkSource(f.source, f.options, Written)
      BY <1>1, <1>4, <2>2
    <3>. QED  BY <1>4, <2>2, <3>1, SourceStays
  <2>. QED  BY <1>2, <2>1, <2>2
<1>. QED  BY <1>3, <1>5 DEF ForksAreSound, Idle

\* The next mutation of the copy.
LEMMA AppendCopyStays ==
    ASSUME IndInv, ForksAreSound, AppendCopy,
           Kept(Written.entriesById, Written'.entriesById)
    PROVE  ForksAreSound'
<1>. DEFINE x == load["fork"]
            y == load'["fork"]
            copy == createForkMutations(x.source, x.options)
<1>1. x.at = "copy" /\ Len(x.copied) < Len(copy) /\ forks' = forks
  BY DEF AppendCopy, ForkCopy, diskVars
<1>2. ForkSource(x.source, x.options, Written) /\ CopiedSoFar(x)
  BY <1>1 DEF ForksAreSound
<1>3. copy \in Seq(Mutation)
  BY <1>2, CopyTyped
<1>4. y.source = x.source /\ y.options = x.options /\ y.at = "copy"
      /\ y.copied = Append(x.copied, copy[Len(x.copied) + 1])
  <2>1. "fork" \in Loaders /\ DOMAIN load = Loaders /\ IsCopy(x)
    <3>1. x \notin RepairRecord /\ x # Idle
      BY <1>1 DEF RepairRecord, Idle
    <3>. QED  BY <1>1, <3>1 DEF IndInv, LoadsAreSound, Done, Loaders
  <2>2. y = [x EXCEPT !.copied = Append(x.copied, copy[Len(x.copied) + 1])]
    BY <2>1 DEF AppendCopy, Copying, ForkCopy
  <2>. HIDE DEF copy, y
  <2>. QED  BY <2>1, <2>2 DEF IsCopy
<1>5. ForkSource(y.source, y.options, Written')
  BY <1>2, <1>4, SourceStays
<1>6. CopiedSoFar(y)
  <2>1. /\ x.copied \in Seq(Mutation) /\ Len(x.copied) <= Len(copy)
        /\ \A i \in 1..Len(x.copied) : x.copied[i] = copy[i]
    BY <1>2 DEF CopiedSoFar
  <2>2. copy = createForkMutations(y.source, y.options)
    BY <1>4
  <2>. HIDE DEF x, y, copy
  <2>3. Len(x.copied) + 1 \in 1..Len(copy)
    BY <1>1, <1>3, <2>1 DEF x
  <2>4. /\ y.copied \in Seq(Mutation) /\ Len(y.copied) = Len(x.copied) + 1
        /\ \A i \in 1..Len(y.copied) : y.copied[i] = copy[i]
    BY <1>3, <1>4, <2>1, <2>3
  <2>5. Len(y.copied) <= Len(copy)
    BY <2>3, <2>4
  <2>. QED  BY <2>2, <2>4, <2>5 DEF CopiedSoFar
<1>7. ASSUME NEW f \in forks'
      PROVE  /\ ForkSource(f.source, f.options, Written')
             /\ f.mutations = createForkMutations(f.source, f.options)
  <2>1. /\ ForkSource(f.source, f.options, Written)
        /\ f.mutations = createForkMutations(f.source, f.options)
    BY <1>1, <1>7 DEF ForksAreSound
  <2>. QED  BY <2>1, SourceStays
<1>. QED  BY <1>4, <1>5, <1>6, <1>7 DEF ForksAreSound

\* Every step preserves what is known of the forks.
LEMMA NextForks ==
    ASSUME IndInv, ForksAreSound, CleanFaults, [Next]_vars
    PROVE  ForksAreSound'
<1>1. IndInv' /\ Kept(Written.entriesById, Written'.entriesById)
  BY NextSound, WrittenGrows
<1>2. ASSUME ForkMoves, forks' = forks PROVE ForksAreSound'
  BY <1>1, <1>2, ForksStay
<1>3. ASSUME load' = load PROVE ForkMoves
  BY <1>3 DEF ForkMoves
<1>4. CASE \E r \in Requests : enqueue(r)
  BY <1>2, <1>3, <1>4 DEF enqueue, diskVars
<1>5. CASE Write
  BY <1>2, <1>3, <1>5 DEF Write, StartAppend, Reject, WritePiece, Acknowledge, AppendFails, diskVars
<1>6. CASE Crash
  <2>1. load'["fork"] = Idle /\ forks' = forks
    BY <1>6 DEF Crash, diskVars, Loaders
  <2>. QED  BY <1>2, <2>1 DEF ForkMoves
<1>7. ASSUME NEW l \in Loaders, Load(l) PROVE ForksAreSound'
  <2>1. forks' = forks
    BY <1>7 DEF Load, ReadFile, OpenTemp, WriteTemp, Publish, Terminate, RepairFails, loadRest, diskVars
  <2>. QED  BY <1>2, <1>7, <2>1, LoadMoves
<1>8. CASE PublishFork
  BY <1>1, <1>8, PublishForkStays
<1>9. CASE UNCHANGED vars
  BY <1>2, <1>3, <1>9 DEF vars, diskVars
<1>10. CASE AppendCopy
  BY <1>1, <1>10, AppendCopyStays
<1>11. CASE ForkFails
  <2>1. DOMAIN load = Loaders /\ "fork" \in Loaders
    BY DEF IndInv, LoadsAreSound, Loaders
  <2>2. load'["fork"] = Idle /\ forks' = forks
    BY <1>11, <2>1 DEF ForkFails, diskVars
  <2>. QED  BY <1>2, <2>2 DEF ForkMoves
<1>. QED  BY <1>4, <1>5, <1>6, <1>7, <1>8, <1>9, <1>10, <1>11 DEF Next

\* A sound fork file is complete.
LEMMA SoundForksAreComplete ==
    ASSUME ForksAreSound
    PROVE  ForksAreComplete
<1>. SUFFICES ASSUME NEW f \in forks
              PROVE  LET fork   == Replay(f.mutations)
                         copied == fork.state.entriesById
                         source == Replay(ValidPrefix(file)).state.entriesById
                     IN  /\ fork.ok
                         /\ DOMAIN copied = Range(CopiedEntries(f.source, f.options))
                         /\ \A l \in DOMAIN ForkLanes(f.source, f.options) :
                                fork.state.lanes[l] = ForkLanes(f.source, f.options)[l]
                         /\ \A id \in DOMAIN copied :
                                /\ id \in DOMAIN source
                                /\ copied[id].parentId = source[id].parentId
  BY DEF ForksAreComplete
<1>. DEFINE s == f.source
            o == f.options
            replayed == Replay(f.mutations)
            fork == replayed.state
            source == Written.entriesById
<1>1. ForkSource(s, o, Written) /\ f.mutations = createForkMutations(s, o)
  BY DEF ForksAreSound
<1>2. /\ Good(s) /\ o \in ForkOptions /\ ValidForkTarget(s, o)
      /\ Kept(s.entriesById, source)
  BY <1>1 DEF ForkSource
<1>. HIDE DEF s, o
<1>3. Copies(s, o)
  BY <1>2, ForkCopies
<1>4. replayed.ok = TRUE /\ ForkOf(s, o, fork)
  BY <1>1, <1>2, <1>3, ForkIs
<1>. HIDE DEF replayed, source
<1>5. /\ DOMAIN fork.entriesById = Range(CopiedEntries(s, o))
      /\ \A l \in DOMAIN ForkLanes(s, o) : fork.lanes[l] = ForkLanes(s, o)[l]
  BY <1>4 DEF ForkOf
<1>6. ASSUME NEW id \in DOMAIN fork.entriesById
      PROVE  id \in DOMAIN source /\ fork.entriesById[id].parentId = source[id].parentId
  <2>1. id \in DOMAIN s.entriesById /\ fork.entriesById[id].parentId = s.entriesById[id].parentId
    BY <1>4, <1>6 DEF ForkOf
  <2>2. id \in DOMAIN source /\ source[id] = s.entriesById[id]
    BY <1>2, <2>1 DEF Kept
  <2>. QED  BY <2>1, <2>2
<1>. QED  BY <1>4, <1>5, <1>6 DEF s, o, replayed, source, Written

\* A fork file is complete from the moment it exists, whatever is written to
\* its source while it is made and after, and whatever crashes and fails.
THEOREM ForksAlwaysComplete ==
    ASSUME CleanFaults
    PROVE  Spec => []ForksAreComplete
<1>1. Init => ForksAreSound
  BY DEF Init, ForksAreSound, Idle, Loaders
<1>2. IndInv /\ ForksAreSound /\ [Next]_vars => ForksAreSound'
  BY NextForks
<1>3. ForksAreSound => ForksAreComplete
  BY SoundForksAreComplete
<1>. QED  BY <1>1, <1>2, <1>3, AlwaysSound, PTL DEF Spec
=============================================================================
