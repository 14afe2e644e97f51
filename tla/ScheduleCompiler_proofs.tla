----------------------- MODULE ScheduleCompiler_proofs -----------------------
(****************************************************************************)
(* For every set of programs without offload, on every number of stages:    *)
(* no pass loses or reorders a computation, the simulated times can happen, *)
(* every send and receive stands on the right side of its computation, and  *)
(* in a compiled order every dependency across stages is communicated once  *)
(* and the two ends of every link agree.  The invariant has a part for each *)
(* phase; what a pass does to the order is a lemma about its operator.      *)
(****************************************************************************)
EXTENDS ScheduleCompiler, FiniteSetTheorems, SequenceTheorems, WellFoundedInduction, TLAPS

(* A node of an order between two passes, a key and a communication pair.     *)
Node == [type : NodeTypes, stage : Int, mb : Nat, chunk : Nat, seq : Nat, lg : Int,
         start : Int, end : Int, recvPeer : Int, sendPeer : Int,
         dir : {"NONE", "NEXT", "PREV"}, peer : Int, pair : Int, rollback : BOOLEAN,
         recompute : BOOLEAN, offload : BOOLEAN]
NodeKey == [type : NodeTypes \cup {"none"}, lg : Int, mb : Int, seq : Int]
Pair == [send : Node, recv : Node, producer : NodeKey, deadline : NodeKey]

-----------------------------------------------------------------------------
(* Numbers and sequences.                                                   *)

\* A set of numbers has a least one.
LEMMA Least ==
  ASSUME NEW T \in SUBSET Nat, T # {}
  PROVE  \E n \in T : \A m \in T : n <= m
<1>1. PICK R : IsWellFoundedOn(R, Nat) /\ \A x, y \in Nat : x < y => <<x, y>> \in R
  <2>1. IsWellFoundedOn(OpToRel(<, Nat), Nat)
    BY NatLessThanWellFounded
  <2>2. \A x, y \in Nat : x < y => <<x, y>> \in OpToRel(<, Nat)
    BY DEF OpToRel
  <2> QED BY <2>1, <2>2
<1>2. PICK n \in T : \A m \in T : ~ (<<m, n>> \in R)
  <2>1. T \subseteq Nat
    OBVIOUS
  <2>2. IsWellFoundedOn(R, Nat)
    BY <1>1
  <2> QED BY <2>1, <2>2, WFMin
<1>3. ASSUME NEW m \in T PROVE n <= m
  <2>1. m \in Nat /\ n \in Nat
    OBVIOUS
  <2>2. ~ (m < n)
    BY <1>1, <1>2, <2>1
  <2> QED BY <2>1, <2>2
<1> QED BY <1>3

\* A set that has 0 and with each number up to N the next one has them all.
LEMMA UpTo ==
  ASSUME NEW N \in Nat, NEW T, 0 \in T,
         \A k \in 1 .. N : k - 1 \in T => k \in T
  PROVE  \A k \in 0 .. N : k \in T
<1> SUFFICES ASSUME NEW k \in 0 .. N, k \notin T PROVE FALSE
  OBVIOUS
<1> DEFINE Out == {i \in 0 .. N : i \notin T}
<1>1. Out \in SUBSET Nat /\ Out # {}
  OBVIOUS
<1>2. PICK n \in Out : \A m \in Out : n <= m
  BY <1>1, Least
<1>3. n # 0 /\ n \in 1 .. N
  BY <1>2
<1>4. n - 1 \in 0 .. N /\ n - 1 \notin Out
  BY <1>2, <1>3
<1> QED BY <1>2, <1>3, <1>4

\* What the searches of the passes return: the first place of those looked at
\* that passes the test, or 0.
LEMMA MinOf ==
  ASSUME NEW T \in SUBSET Nat, T # {}
  PROVE  Min(T) \in T /\ \A m \in T : Min(T) <= m
BY Least DEF Min

\* The node at each place after an insertion.
LEMMA Insertion ==
  ASSUME NEW S, NEW q \in Seq(S), NEW p \in 1 .. Len(q) + 1, NEW x \in S
  PROVE  /\ InsertAt(q, p, x) \in Seq(S)
         /\ Len(InsertAt(q, p, x)) = Len(q) + 1
         /\ DOMAIN InsertAt(q, p, x) = 1 .. Len(q) + 1
         /\ InsertAt(q, p, x)[p] = x
         /\ \A i \in 1 .. p - 1 : InsertAt(q, p, x)[i] = q[i]
         /\ \A i \in p .. Len(q) : InsertAt(q, p, x)[i + 1] = q[i]
<1>0. Len(q) \in Nat /\ \A i \in 1 .. Len(q) : q[i] \in S
  BY LenProperties, ElementOfSeq
<1> DEFINE a == SubSeq(q, 1, p - 1)
           b == SubSeq(q, p, Len(q))
<1>1. a \in Seq(S) /\ Len(a) = p - 1 /\ \A i \in 1 .. p - 1 : a[i] = q[i]
  <2>1. \A i \in 1 .. p - 1 : q[i] \in S
    BY <1>0
  <2>2. /\ a \in Seq(S)
        /\ Len(a) = IF 1 <= p - 1 THEN p - 1 - 1 + 1 ELSE 0
        /\ \A i \in 1 .. p - 1 - 1 + 1 : a[i] = q[1 + i - 1]
    BY <2>1, SubSeqProperties, <1>0
  <2> QED BY <2>2, <1>0
<1>2. b \in Seq(S) /\ Len(b) = Len(q) - p + 1
      /\ \A i \in 1 .. Len(q) - p + 1 : b[i] = q[p + i - 1]
  <2>1. \A i \in p .. Len(q) : q[i] \in S
    BY <1>0
  <2>2. /\ b \in Seq(S)
        /\ Len(b) = IF p <= Len(q) THEN Len(q) - p + 1 ELSE 0
        /\ \A i \in 1 .. Len(q) - p + 1 : b[i] = q[p + i - 1]
    BY <2>1, SubSeqProperties, <1>0
  <2> QED BY <2>2, <1>0
<1>3. <<x>> \in Seq(S) /\ Len(<<x>>) = 1 /\ <<x>>[1] = x
  OBVIOUS
<1> HIDE DEF a, b
<1>4. /\ a \o <<x>> \in Seq(S) /\ Len(a \o <<x>>) = p
      /\ \A i \in 1 .. p : (a \o <<x>>)[i] = IF i <= p - 1 THEN a[i] ELSE x
  <2>1. /\ a \o <<x>> \in Seq(S) /\ Len(a \o <<x>>) = Len(a) + Len(<<x>>)
        /\ \A i \in 1 .. Len(a) + Len(<<x>>) :
             (a \o <<x>>)[i] = IF i <= Len(a) THEN a[i] ELSE <<x>>[i - Len(a)]
    BY <1>1, <1>3, ConcatProperties
  <2> QED BY <2>1, <1>1, <1>3, <1>0
<1>5. /\ (a \o <<x>>) \o b \in Seq(S) /\ Len((a \o <<x>>) \o b) = Len(q) + 1
      /\ \A i \in 1 .. Len(q) + 1 :
           ((a \o <<x>>) \o b)[i] = IF i <= p THEN (a \o <<x>>)[i] ELSE b[i - p]
  <2>1. /\ (a \o <<x>>) \o b \in Seq(S) /\ Len((a \o <<x>>) \o b) = Len(a \o <<x>>) + Len(b)
        /\ \A i \in 1 .. Len(a \o <<x>>) + Len(b) :
             ((a \o <<x>>) \o b)[i] = IF i <= Len(a \o <<x>>) THEN (a \o <<x>>)[i]
                                       ELSE b[i - Len(a \o <<x>>)]
    <3> DEFINE ax == a \o <<x>>
    <3>1. ax \in Seq(S) /\ b \in Seq(S)
      BY <1>2, <1>4
    <3> HIDE DEF ax
    <3>2. /\ ax \o b \in Seq(S) /\ Len(ax \o b) = Len(ax) + Len(b)
          /\ \A i \in 1 .. Len(ax) + Len(b) :
               (ax \o b)[i] = IF i <= Len(ax) THEN ax[i] ELSE b[i - Len(ax)]
      BY <3>1, ConcatProperties
    <3> QED BY <3>2 DEF ax
  <2> QED BY <2>1, <1>2, <1>4, <1>0
<1>6. InsertAt(q, p, x) = (a \o <<x>>) \o b
  BY DEF InsertAt, a, b
<1> DEFINE c == (a \o <<x>>) \o b
<1>7. c[p] = x
  BY <1>4, <1>5, <1>0
<1>8. \A i \in 1 .. p - 1 : c[i] = q[i]
  BY <1>1, <1>4, <1>5, <1>0
<1>9. ASSUME NEW i \in p .. Len(q) PROVE c[i + 1] = q[i]
  <2>1. i + 1 \in 1 .. Len(q) + 1 /\ ~ (i + 1 <= p) /\ i + 1 - p \in 1 .. Len(q) - p + 1
    BY <1>0
  <2>2. c[i + 1] = b[i + 1 - p]
    BY <1>5, <2>1
  <2>3. b[i + 1 - p] = q[p + (i + 1 - p) - 1]
    BY <1>2, <2>1
  <2>4. p + (i + 1 - p) - 1 = i
    BY <1>0
  <2> QED BY <2>2, <2>3, <2>4
<1>10. c \in Seq(S) /\ Len(c) = Len(q) + 1 /\ DOMAIN c = 1 .. Len(q) + 1
  BY <1>5, LenProperties
<1> HIDE DEF c
<1> QED BY <1>6, <1>7, <1>8, <1>9, <1>10 DEF c

Runs(g, N, A, base, step) ==
  /\ g = [k \in 0 .. N |-> IF k = 0 THEN base ELSE step[k][g[k - 1]]]
  /\ \A k \in 0 .. N : g[k] \in A[k]

\* A loop that from each value in A[k - 1] makes one in A[k] has a run, in
\* which its k-th value is in A[k].
LEMMA LoopRuns ==
  ASSUME NEW N \in Nat, NEW A, NEW base \in A[0], NEW step,
         \A k \in 1 .. N : \A a \in A[k - 1] : step[k][a] \in A[k]
  PROVE  \E g : Runs(g, N, A, base, step)
<1> DEFINE Run(g, n) == /\ g[0] = base
                        /\ \A k \in 1 .. n : g[k] = step[k][g[k - 1]]
                        /\ \A k \in 0 .. n : g[k] \in A[k]
           Reached == {n \in 0 .. N : \E g : Run(g, n)}
<1>1. 0 \in Reached
  <2>1. Run([k \in {0} |-> base], 0)
    OBVIOUS
  <2> HIDE DEF Run
  <2> QED BY <2>1
<1>2. ASSUME NEW n \in 1 .. N, n - 1 \in Reached PROVE n \in Reached
  <2>1. PICK g : Run(g, n - 1)
    BY <1>2
  <2> DEFINE h == [k \in 0 .. n |-> IF k = n THEN step[n][g[n - 1]] ELSE g[k]]
  <2>2. g[n - 1] \in A[n - 1] /\ h[n] \in A[n] /\ h[n] = step[n][g[n - 1]]
    BY <2>1
  <2>3. \A k \in 0 .. n - 1 : h[k] = g[k]
    OBVIOUS
  <2>4. h[0] = base
    BY <2>1, <2>3
  <2>5. ASSUME NEW k \in 1 .. n PROVE h[k] = step[k][h[k - 1]]
    <3>1. CASE k = n
      BY <3>1, <2>2, <2>3
    <3>2. CASE k # n
      <4>1. k \in 1 .. n - 1 /\ k - 1 \in 0 .. n - 1 /\ k \in 0 .. n - 1
        BY <3>2
      <4>2. g[k] = step[k][g[k - 1]]
        BY <2>1, <4>1
      <4> QED BY <2>3, <4>1, <4>2
    <3> QED BY <3>1, <3>2
  <2>6. ASSUME NEW k \in 0 .. n PROVE h[k] \in A[k]
    <3>1. CASE k = n
      BY <3>1, <2>2
    <3>2. CASE k # n
      BY <3>2, <2>1, <2>3
    <3> QED BY <3>1, <3>2
  <2>7. Run(h, n)
    <3> HIDE DEF h
    <3> QED BY <2>4, <2>5, <2>6
  <2> HIDE DEF Run
  <2> QED BY <2>7
<1>3. N \in Reached
  <2> HIDE DEF Reached
  <2>1. \A k \in 0 .. N : k \in Reached
    BY <1>1, <1>2, UpTo
  <2> QED BY <2>1
<1>4. PICK g : Run(g, N)
  BY <1>3
<1> DEFINE h == [k \in 0 .. N |-> g[k]]
<1>5. h = [k \in 0 .. N |-> IF k = 0 THEN base ELSE step[k][h[k - 1]]]
  <2>1. ASSUME NEW k \in 0 .. N
        PROVE  g[k] = IF k = 0 THEN base ELSE step[k][h[k - 1]]
    <3>1. CASE k = 0
      BY <3>1, <1>4
    <3>2. CASE k # 0
      <4>1. k \in 1 .. N /\ k - 1 \in 0 .. N
        BY <3>2
      <4> QED BY <1>4, <4>1, <3>2
    <3> QED BY <3>1, <3>2
  <2> QED BY <2>1
<1>6. \A k \in 0 .. N : h[k] \in A[k]
  BY <1>4
<1> HIDE DEF h
<1>7. Runs(h, N, A, base, step)
  BY <1>5, <1>6 DEF Runs
<1> QED BY <1>7

\* The pairs made by the first i nodes of stage s and by the stages before it.
Upto(s, i, t, j) == t < s \/ (t = s /\ j <= i)

PairsMade(c, o, ps, s, i) ==
  /\ \A k \in 1 .. Len(ps) : \E t \in Stages(c) : \E j \in DOMAIN o[t] :
       Upto(s, i, t, j) /\ RemoteConsumer(o[t][j]) /\ ps[k] = CommPair(c, o, o[t][j], k - 1)
  /\ \A t \in Stages(c) : \A j \in DOMAIN o[t] :
       Upto(s, i, t, j) /\ RemoteConsumer(o[t][j]) =>
         \E k \in 1 .. Len(ps) : ps[k] = CommPair(c, o, o[t][j], k - 1)
  /\ \A k, m \in 1 .. Len(ps) : k # m => ps[k].deadline # ps[m].deadline

\* The pairs of one more stage.
LEMMA PairsOfStage ==
  ASSUME NEW c, c.n \in Nat, NEW o \in [Stages(c) -> Seq(Node)], UniqueKeys(o),
         \A t \in Stages(c) : \A j \in DOMAIN o[t] : \A id \in Nat :
           RemoteConsumer(o[t][j]) => CommPair(c, o, o[t][j], id) \in Pair,
         NEW s \in Stages(c), NEW ps \in Seq(Pair), PairsMade(c, o, ps, s, 0)
  PROVE  /\ StagePairs(c, o, ps, s) \in Seq(Pair)
         /\ PairsMade(c, o, StagePairs(c, o, ps, s), s, Len(o[s]))
<1> DEFINE PairUp(p, n) == IF RemoteConsumer(n)
                            THEN Append(p, CommPair(c, o, n, Len(p)))
                            ELSE p
           N == Len(o[s])
           acc == CHOOSE f : f = [k \in 0 .. N |-> IF k = 0 THEN ps
                    ELSE CHOOSE r \in {PairUp(a, o[s][k]) : a \in {f[k - 1]}} : TRUE]
<1>1. StagePairs(c, o, ps, s) = acc[N]
  BY DEF ForEach, StagePairs
<1> DEFINE A == [k \in 0 .. N |-> {p \in Seq(Pair) : PairsMade(c, o, p, s, k)}]
           step == [k \in 1 .. N |-> [a \in A[k - 1] |-> PairUp(a, o[s][k])]]
<1>2. N \in Nat /\ DOMAIN o[s] = 1 .. N /\ Stages(c) \subseteq Int
  BY LenProperties DEF Stages
<1>3. ASSUME NEW k \in 1 .. N, NEW a \in A[k - 1]
      PROVE  PairUp(a, o[s][k]) \in A[k]
  <2>1. a \in Seq(Pair) /\ PairsMade(c, o, a, s, k - 1)
    BY <1>2
  <2>2. Len(a) \in Nat
    BY <2>1, LenProperties
  <2>3. \A t \in Stages(c) : \A j \in DOMAIN o[t] : t \in Int /\ j \in Int
    BY <1>2, LenProperties
  <2>4. \A t \in Stages(c) : \A j \in DOMAIN o[t] :
          Upto(s, k, t, j) <=> Upto(s, k - 1, t, j) \/ (t = s /\ j = k)
    <3> SUFFICES ASSUME NEW t \in Stages(c), NEW j \in DOMAIN o[t]
                 PROVE  Upto(s, k, t, j) <=> Upto(s, k - 1, t, j) \/ (t = s /\ j = k)
      OBVIOUS
    <3>1. t \in Int /\ j \in Int /\ s \in Int /\ k \in Int
      BY <1>2, <2>3
    <3> QED BY <3>1 DEF Upto
  <2>5. ~ Upto(s, k - 1, s, k)
    BY <1>2 DEF Upto
  <2>6. CASE RemoteConsumer(o[s][k])
    <3> DEFINE p == CommPair(c, o, o[s][k], Len(a))
               b == Append(a, p)
    <3>1. p \in Pair
      BY <2>2, <2>6, <1>2
    <3>2. /\ b \in Seq(Pair) /\ Len(b) = Len(a) + 1
          /\ \A m \in 1 .. Len(a) : b[m] = a[m]
          /\ b[Len(a) + 1] = p
      <4> HIDE DEF p
      <4> QED BY <2>1, <3>1, AppendProperties
    <3>3. p.deadline = Key(o[s][k])
      BY DEF CommPair
    <3>4. \A m \in 1 .. Len(a) : a[m].deadline # p.deadline
      <4> SUFFICES ASSUME NEW m \in 1 .. Len(a), a[m].deadline = Key(o[s][k]) PROVE FALSE
        BY <3>3
      <4> HIDE DEF b, p, PairUp, A
      <4>0. PICK t \in Stages(c) : \E j \in DOMAIN o[t] :
              Upto(s, k - 1, t, j) /\ a[m] = CommPair(c, o, o[t][j], m - 1)
        BY <2>1 DEF PairsMade
      <4>1. PICK j \in DOMAIN o[t] :
              Upto(s, k - 1, t, j) /\ a[m] = CommPair(c, o, o[t][j], m - 1)
        BY <4>0
      <4>2. a[m].deadline = Key(o[t][j])
        BY <4>1 DEF CommPair
      <4>3. DOMAIN o = Stages(c)
        OBVIOUS
      <4>4. t = s /\ j = k
        <5>1. k \in DOMAIN o[s] /\ s \in DOMAIN o /\ t \in DOMAIN o /\ Key(o[t][j]) = Key(o[s][k])
          BY <4>2, <4>3, <1>2
        <5> QED BY <5>1 DEF UniqueKeys
      <4> QED BY <4>1, <4>4, <2>5
    <3>5. PairUp(a, o[s][k]) = b
      BY <2>6
    <3> HIDE DEF b, PairUp
    <3>6. ASSUME NEW m \in 1 .. Len(b)
          PROVE  \E t \in Stages(c) : \E j \in DOMAIN o[t] :
                   Upto(s, k, t, j) /\ RemoteConsumer(o[t][j]) /\ b[m] = CommPair(c, o, o[t][j], m - 1)
      <4>1. CASE m \in 1 .. Len(a)
        <5>1. PICK t \in Stages(c) : \E j \in DOMAIN o[t] :
                Upto(s, k - 1, t, j) /\ RemoteConsumer(o[t][j]) /\ a[m] = CommPair(c, o, o[t][j], m - 1)
          BY <4>1, <2>1 DEF PairsMade
        <5> QED BY <4>1, <5>1, <2>4, <3>2
      <4>2. CASE m = Len(a) + 1
        <5>1. m - 1 = Len(a)
          BY <4>2, <2>2
        <5> QED BY <4>2, <5>1, <3>2, <2>4, <2>6, <1>2
      <4> QED BY <4>1, <4>2, <3>2, <2>2
    <3>7. ASSUME NEW t \in Stages(c), NEW j \in DOMAIN o[t],
                 Upto(s, k, t, j), RemoteConsumer(o[t][j])
          PROVE  \E m \in 1 .. Len(b) : b[m] = CommPair(c, o, o[t][j], m - 1)
      <4>1. CASE Upto(s, k - 1, t, j)
        <5>1. PICK m \in 1 .. Len(a) : a[m] = CommPair(c, o, o[t][j], m - 1)
          BY <4>1, <3>7, <2>1 DEF PairsMade
        <5> QED BY <5>1, <3>2, <2>2
      <4>2. CASE t = s /\ j = k
        <5>1. Len(a) + 1 \in 1 .. Len(b) /\ Len(a) + 1 - 1 = Len(a)
          BY <3>2, <2>2
        <5> QED BY <4>2, <5>1, <3>2
      <4> QED BY <3>7, <4>1, <4>2, <2>4
    <3>8. ASSUME NEW m \in 1 .. Len(b), NEW l \in 1 .. Len(b), m # l
          PROVE  b[m].deadline # b[l].deadline
      <4> HIDE DEF p
      <4>1. CASE m \in 1 .. Len(a) /\ l \in 1 .. Len(a)
        BY <4>1, <3>8, <2>1, <3>2 DEF PairsMade
      <4>2. CASE m = Len(a) + 1
        <5>1. l \in 1 .. Len(a)
          BY <4>2, <3>8, <3>2, <2>2
        <5> QED BY <4>2, <5>1, <3>2, <3>4
      <4>3. CASE l = Len(a) + 1
        <5>1. m \in 1 .. Len(a)
          BY <4>3, <3>8, <3>2, <2>2
        <5> QED BY <4>3, <5>1, <3>2, <3>4
      <4> QED BY <4>1, <4>2, <4>3, <3>2, <2>2
    <3>9. PairsMade(c, o, b, s, k)
      BY <3>6, <3>7, <3>8 DEF PairsMade
    <3> QED BY <3>2, <3>5, <3>9
  <2>7. CASE ~ RemoteConsumer(o[s][k])
    <3>1. PairsMade(c, o, a, s, k)
      <4>1. \A t \in Stages(c) : \A j \in DOMAIN o[t] :
              RemoteConsumer(o[t][j]) => (Upto(s, k, t, j) <=> Upto(s, k - 1, t, j))
        <5> SUFFICES ASSUME NEW t \in Stages(c), NEW j \in DOMAIN o[t], RemoteConsumer(o[t][j])
                     PROVE  Upto(s, k, t, j) <=> Upto(s, k - 1, t, j)
          OBVIOUS
        <5>1. ~ (t = s /\ j = k)
          BY <2>7
        <5> QED BY <2>4, <5>1
      <4> QED BY <2>1, <4>1 DEF PairsMade
    <3> QED BY <2>1, <2>7, <3>1
  <2> QED BY <2>6, <2>7
<1>4. ps \in A[0]
  BY <1>2
<1>5. \A k \in 1 .. N : \A a \in A[k - 1] : step[k][a] \in A[k]
  BY <1>3
<1>6. PICK g : Runs(g, N, A, ps, step)
  <2> HIDE DEF A, step, N
  <2> QED BY <1>2, <1>4, <1>5, LoopRuns
<1> HIDE DEF A, PairUp, N
<1>7. ASSUME NEW k \in 1 .. N, NEW f
      PROVE  (CHOOSE r \in {PairUp(a, o[s][k]) : a \in {f[k - 1]}} : TRUE) = PairUp(f[k - 1], o[s][k])
  OBVIOUS
<1>8. g = [k \in 0 .. N |-> IF k = 0 THEN ps
               ELSE CHOOSE r \in {PairUp(a, o[s][k]) : a \in {g[k - 1]}} : TRUE]
  <2>1. ASSUME NEW k \in 1 .. N PROVE step[k][g[k - 1]] = PairUp(g[k - 1], o[s][k])
    <3>1. g[k - 1] \in A[k - 1]
      <4>1. k - 1 \in 0 .. N
        BY <1>2
      <4>2. \A m \in 0 .. N : g[m] \in A[m]
        BY <1>6 DEF Runs
      <4> QED BY <4>1, <4>2
    <3> QED BY <3>1
  <2> HIDE DEF step
  <2>2. ASSUME NEW k \in 0 .. N
        PROVE  (IF k = 0 THEN ps ELSE step[k][g[k - 1]])
             = IF k = 0 THEN ps
               ELSE CHOOSE r \in {PairUp(a, o[s][k]) : a \in {g[k - 1]}} : TRUE
    <3>1. CASE k = 0
      BY <3>1
    <3>2. CASE k # 0
      <4>1. k \in 1 .. N
        BY <3>2
      <4> QED BY <3>2, <4>1, <2>1, <1>7
    <3> QED BY <3>1, <3>2
  <2> QED BY <1>6, <2>2 DEF Runs
<1>9. acc = [k \in 0 .. N |-> IF k = 0 THEN ps
                ELSE CHOOSE r \in {PairUp(a, o[s][k]) : a \in {acc[k - 1]}} : TRUE]
  BY <1>8
<1> HIDE DEF acc
<1>10. \A k \in 0 .. N : acc[k] \in A[k]
  <2> DEFINE T == {k \in 0 .. N : acc[k] \in A[k]}
  <2>1. 0 \in T
    <3>1. 0 \in 0 .. N
      BY <1>2
    <3> QED BY <1>4, <1>9, <3>1
  <2>2. ASSUME NEW k \in 1 .. N, k - 1 \in T PROVE k \in T
    <3>1. k \in 0 .. N /\ k # 0
      BY <1>2
    <3>2. acc[k] = CHOOSE r \in {PairUp(a, o[s][k]) : a \in {acc[k - 1]}} : TRUE
      BY <1>9, <3>1
    <3>3. acc[k] = PairUp(acc[k - 1], o[s][k])
      BY <1>7, <3>2
    <3> QED BY <3>1, <3>3, <2>2, <1>3
  <2> HIDE DEF T
  <2>3. \A k \in 0 .. N : k \in T
    BY <2>1, <2>2, <1>2, UpTo
  <2> QED BY <2>3 DEF T
<1>11. acc[N] \in Seq(Pair) /\ PairsMade(c, o, acc[N], s, N)
  BY <1>10, <1>2 DEF A, N
<1> QED BY <1>1, <1>11 DEF N

\* Every consumer of a tensor of another stage has one pair, and there are no
\* other pairs.
LEMMA AllPairsMade ==
  ASSUME NEW c, c.n \in Nat, NEW o \in [Stages(c) -> Seq(Node)], UniqueKeys(o),
         \A t \in Stages(c) : \A j \in DOMAIN o[t] : \A id \in Nat :
           RemoteConsumer(o[t][j]) => CommPair(c, o, o[t][j], id) \in Pair
  PROVE  CommPairs(c, o) \in Seq(Pair) /\ PairsMade(c, o, CommPairs(c, o), c.n, 0)
<1> DEFINE N == c.n
           AddStage(p, s) == StagePairs(c, o, p, s)
           seq == Upwards(0, c.n - 1)
           acc == CHOOSE f : f = [k \in 0 .. N |-> IF k = 0 THEN <<>>
                    ELSE CHOOSE r \in {AddStage(a, seq[k]) : a \in {f[k - 1]}} : TRUE]
           A == [k \in 0 .. N |-> {p \in Seq(Pair) : PairsMade(c, o, p, k, 0)}]
           step == [k \in 1 .. N |-> [a \in A[k - 1] |-> AddStage(a, seq[k])]]
<1>1. CommPairs(c, o) = acc[N]
  <2>1. Len(seq) = N
    BY DEF Upwards
  <2>2. ForEach(AddStage, <<>>, seq)
          = (CHOOSE f : f = [k \in 0 .. Len(seq) |-> IF k = 0 THEN <<>>
                    ELSE CHOOSE r \in {AddStage(a, seq[k]) : a \in {f[k - 1]}} : TRUE])[Len(seq)]
    <3> HIDE DEF seq, AddStage
    <3> QED BY DEF ForEach
  <2>3. CommPairs(c, o) = ForEach(AddStage, <<>>, seq)
    BY DEF CommPairs
  <2> HIDE DEF seq, AddStage
  <2> QED BY <2>1, <2>2, <2>3
<1>2. /\ N \in Nat /\ Stages(c) = 0 .. N - 1 /\ Stages(c) \subseteq Int
      /\ \A k \in 1 .. N : seq[k] = k - 1 /\ k - 1 \in Stages(c)
  BY DEF Stages, Upwards
<1>3. ASSUME NEW k \in 1 .. N, NEW a \in A[k - 1]
      PROVE  AddStage(a, seq[k]) \in A[k]
  <2> DEFINE s == k - 1
             b == AddStage(a, s)
  <2>1. a \in Seq(Pair) /\ PairsMade(c, o, a, s, 0) /\ s \in Stages(c) /\ s + 1 = k /\ s \in Int
    BY <1>2
  <2>2. b \in Seq(Pair) /\ PairsMade(c, o, b, s, Len(o[s]))
    <3> HIDE DEF s
    <3> QED BY <2>1, PairsOfStage
  <2>3. ASSUME NEW t \in Stages(c), NEW j \in DOMAIN o[t]
        PROVE  Upto(s, Len(o[s]), t, j) <=> Upto(k, 0, t, j)
    <3>1. t \in Int /\ j \in Int /\ j > 0 /\ (t = s => j <= Len(o[s])) /\ k \in Int
      BY <1>2, LenProperties
    <3> HIDE DEF s
    <3> QED BY <3>1, <2>1 DEF Upto
  <2> HIDE DEF b, s
  <2>4. PairsMade(c, o, b, k, 0)
    BY <2>2, <2>3 DEF PairsMade
  <2>5. AddStage(a, seq[k]) = b
    <3> HIDE DEF AddStage, seq
    <3> QED BY <1>2 DEF b, s
  <2> QED BY <2>2, <2>4, <2>5, <1>2
<1>4. <<>> \in A[0]
  <2>1. ASSUME NEW t \in Stages(c), NEW j \in DOMAIN o[t] PROVE ~ Upto(0, 0, t, j)
    BY <1>2, LenProperties DEF Upto
  <2>2. PairsMade(c, o, <<>>, 0, 0)
    BY <2>1 DEF PairsMade
  <2> QED BY <2>2, <1>2
<1>5. \A k \in 1 .. N : \A a \in A[k - 1] : step[k][a] \in A[k]
  BY <1>3
<1> HIDE DEF N
<1>6. PICK g : Runs(g, N, A, <<>>, step)
  <2> HIDE DEF A, step
  <2> QED BY <1>2, <1>4, <1>5, LoopRuns
<1> HIDE DEF A, AddStage, seq
<1>7. ASSUME NEW k \in 1 .. N, NEW f
      PROVE  (CHOOSE r \in {AddStage(a, seq[k]) : a \in {f[k - 1]}} : TRUE) = AddStage(f[k - 1], seq[k])
  OBVIOUS
<1>8. g = [k \in 0 .. N |-> IF k = 0 THEN <<>>
               ELSE CHOOSE r \in {AddStage(a, seq[k]) : a \in {g[k - 1]}} : TRUE]
  <2>1. ASSUME NEW k \in 1 .. N PROVE step[k][g[k - 1]] = AddStage(g[k - 1], seq[k])
    <3>1. g[k - 1] \in A[k - 1]
      <4>1. k - 1 \in 0 .. N
        BY <1>2
      <4>2. \A m \in 0 .. N : g[m] \in A[m]
        BY <1>6 DEF Runs
      <4> QED BY <4>1, <4>2
    <3> QED BY <3>1
  <2> HIDE DEF step
  <2>2. ASSUME NEW k \in 0 .. N
        PROVE  (IF k = 0 THEN <<>> ELSE step[k][g[k - 1]])
             = IF k = 0 THEN <<>>
               ELSE CHOOSE r \in {AddStage(a, seq[k]) : a \in {g[k - 1]}} : TRUE
    <3>1. CASE k = 0
      BY <3>1
    <3>2. CASE k # 0
      <4>1. k \in 1 .. N
        BY <3>2
      <4> QED BY <3>2, <4>1, <2>1, <1>7
    <3> QED BY <3>1, <3>2
  <2> QED BY <1>6, <2>2 DEF Runs
<1>9. acc = [k \in 0 .. N |-> IF k = 0 THEN <<>>
                ELSE CHOOSE r \in {AddStage(a, seq[k]) : a \in {acc[k - 1]}} : TRUE]
  BY <1>8
<1> HIDE DEF acc
<1>10. \A k \in 0 .. N : acc[k] \in A[k]
  <2> DEFINE T == {k \in 0 .. N : acc[k] \in A[k]}
  <2>1. 0 \in T
    <3>1. 0 \in 0 .. N
      BY <1>2
    <3> QED BY <1>4, <1>9, <3>1
  <2>2. ASSUME NEW k \in 1 .. N, k - 1 \in T PROVE k \in T
    <3>1. k \in 0 .. N /\ k # 0
      BY <1>2
    <3>2. acc[k] = CHOOSE r \in {AddStage(a, seq[k]) : a \in {acc[k - 1]}} : TRUE
      BY <1>9, <3>1
    <3>3. acc[k] = AddStage(acc[k - 1], seq[k])
      BY <1>7, <3>2
    <3> QED BY <3>1, <3>3, <2>2, <1>3
  <2> HIDE DEF T
  <2>3. \A k \in 0 .. N : k \in T
    BY <2>1, <2>2, <1>2, UpTo
  <2> QED BY <2>3 DEF T
<1>11. acc[N] \in Seq(Pair) /\ PairsMade(c, o, acc[N], N, 0)
  BY <1>10, <1>2 DEF A
<1> QED BY <1>1, <1>11 DEF N

\* q has the elements of p in another order.
Permutes(p, q) ==
  /\ Len(q) = Len(p)
  /\ \E h \in [1 .. Len(p) -> 1 .. Len(p)] :
       /\ \A i, j \in 1 .. Len(p) : h[i] = h[j] => i = j
       /\ \A m \in 1 .. Len(p) : \E i \in 1 .. Len(p) : h[i] = m
       /\ \A i \in 1 .. Len(p) : q[i] = p[h[i]]

\* Nothing has moved.
LEMMA PermutesItself == ASSUME NEW p \in Seq(Pair) PROVE Permutes(p, p)
<1> DEFINE h == [i \in 1 .. Len(p) |-> i]
<1>1. /\ h \in [1 .. Len(p) -> 1 .. Len(p)]
      /\ \A i, j \in 1 .. Len(p) : h[i] = h[j] => i = j
      /\ \A m \in 1 .. Len(p) : \E i \in 1 .. Len(p) : h[i] = m
      /\ \A i \in 1 .. Len(p) : p[i] = p[h[i]]
  OBVIOUS
<1> HIDE DEF h
<1> QED BY <1>1 DEF Permutes

\* One reordering after the other.
LEMMA PermutesTwice ==
  ASSUME NEW p \in Seq(Pair), NEW q \in Seq(Pair), NEW r \in Seq(Pair),
         Permutes(p, q), Permutes(q, r)
  PROVE  Permutes(p, r)
<1> DEFINE I == 1 .. Len(p)
<1>1. PICK g \in [I -> I] : /\ \A i, j \in I : g[i] = g[j] => i = j
                            /\ \A m \in I : \E i \in I : g[i] = m
                            /\ \A i \in I : q[i] = p[g[i]]
  BY DEF Permutes
<1>2. Len(q) = Len(p) /\ Len(r) = Len(p)
  BY DEF Permutes
<1>3. PICK h \in [I -> I] : /\ \A i, j \in I : h[i] = h[j] => i = j
                            /\ \A m \in I : \E i \in I : h[i] = m
                            /\ \A i \in I : r[i] = q[h[i]]
  <2>1. 1 .. Len(q) = I
    BY <1>2
  <2> HIDE DEF I
  <2>2. \E h \in [1 .. Len(q) -> 1 .. Len(q)] :
          /\ \A i, j \in 1 .. Len(q) : h[i] = h[j] => i = j
          /\ \A m \in 1 .. Len(q) : \E i \in 1 .. Len(q) : h[i] = m
          /\ \A i \in 1 .. Len(q) : r[i] = q[h[i]]
    BY DEF Permutes
  <2> QED BY <2>1, <2>2
<1> DEFINE f == [i \in I |-> g[h[i]]]
<1> HIDE DEF I
<1>4. f \in [I -> I]
  BY <1>1, <1>3
<1>5. \A i, j \in I : f[i] = f[j] => i = j
  BY <1>1, <1>3
<1>6. ASSUME NEW m \in I PROVE \E i \in I : f[i] = m
  <2>1. PICK a \in I : g[a] = m
    BY <1>1
  <2>2. PICK b \in I : h[b] = a
    BY <1>3
  <2> QED BY <2>1, <2>2
<1>7. \A i \in I : r[i] = p[f[i]]
  BY <1>1, <1>3
<1> HIDE DEF f
<1> QED BY <1>2, <1>4, <1>5, <1>6, <1>7 DEF Permutes, I

\* The run in front, reversed when it descends.
LEMMA RunPermutes ==
  ASSUME NEW o, NEW ps \in Seq(Pair)
  PROVE  /\ DOMAIN SortRun(o, ps) = {"length", "pairs"}
         /\ SortRun(o, ps).pairs \in Seq(Pair) /\ Permutes(ps, SortRun(o, ps).pairs)
<1> DEFINE Less(i, j) == SentBefore(o, ps[i], ps[j])
           descending == Len(ps) > 1 /\ Less(2, 1)
           breaks     == {i \in 2 .. Len(ps) : Less(i, i - 1) # descending}
           run        == IF breaks = {} THEN Len(ps) ELSE Min(breaks) - 1
           q == [i \in DOMAIN ps |-> IF descending /\ i <= run THEN ps[run + 1 - i] ELSE ps[i]]
           N == Len(ps)
<1>1. SortRun(o, ps) = [length |-> run, pairs |-> q]
  BY DEF SortRun
<1>2. N \in Nat /\ DOMAIN ps = 1 .. N /\ \A i \in 1 .. N : ps[i] \in Pair
  BY LenProperties, ElementOfSeq
<1>3. descending => run \in 1 .. N
  <2> SUFFICES ASSUME descending PROVE run \in 1 .. N
    OBVIOUS
  <2>0. N > 1
    OBVIOUS
  <2> HIDE DEF descending, Less
  <2>1. CASE breaks = {}
    BY <2>0, <2>1, <1>2
  <2>2. CASE breaks # {}
    <3>1. breaks \in SUBSET Nat
      <4>1. \A i \in 2 .. N : i \in Nat
        BY <1>2
      <4>2. breaks \subseteq 2 .. N
        OBVIOUS
      <4> HIDE DEF breaks, N
      <4> QED BY <4>1, <4>2
    <3>2. Min(breaks) \in breaks
      BY <2>2, <3>1, MinOf
    <3>3. Min(breaks) \in 2 .. N
      BY <3>2
    <3> HIDE DEF breaks
    <3> QED BY <2>2, <3>3, <1>2
  <2> QED BY <2>1, <2>2
<1> DEFINE h == [i \in 1 .. N |-> IF descending /\ i <= run THEN run + 1 - i ELSE i]
<1> HIDE DEF descending, run, N
<1>4. h \in [1 .. N -> 1 .. N]
  BY <1>2, <1>3
<1>5. \A i \in 1 .. N : h[h[i]] = i
  BY <1>2, <1>3
<1>6. \A i \in 1 .. N : q[i] = ps[h[i]]
  BY <1>2, <1>3
<1>7. q \in Seq(Pair) /\ Len(q) = N
  <2>1. \A i \in 1 .. N : ps[h[i]] \in Pair
    BY <1>2, <1>4
  <2>2. q = [i \in 1 .. N |-> ps[h[i]]]
    BY <1>2, <1>6
  <2> HIDE DEF q, h
  <2> QED BY <2>1, <2>2, <1>2
<1> HIDE DEF h, q
<1>8. /\ \A i, j \in 1 .. N : h[i] = h[j] => i = j
      /\ \A m \in 1 .. N : \E i \in 1 .. N : h[i] = m
  BY <1>4, <1>5
<1>9. Permutes(ps, q)
  BY <1>4, <1>6, <1>7, <1>8 DEF Permutes, N
<1> QED BY <1>1, <1>7, <1>9

\* Turning a pair of two places.
LEMMA MovedBack ==
  ASSUME NEW ps \in Seq(Pair), NEW k \in 1 .. Len(ps), NEW l \in 1 .. k
  PROVE  LET q == InsertAt(RemoveAt(ps, k), l, ps[k])
         IN  q \in Seq(Pair) /\ Permutes(ps, q)
<1> DEFINE N == Len(ps)
           a == SubSeq(ps, 1, k - 1)
           b == SubSeq(ps, k + 1, N)
           rest == RemoveAt(ps, k)
           q == InsertAt(rest, l, ps[k])
           h == [i \in 1 .. N |-> IF i < l THEN i ELSE IF i = l THEN k ELSE IF i <= k THEN i - 1 ELSE i]
<1>1. N \in Nat /\ \A i \in 1 .. N : ps[i] \in Pair
  BY LenProperties, ElementOfSeq
<1>2. a \in Seq(Pair) /\ Len(a) = k - 1 /\ \A i \in 1 .. k - 1 : a[i] = ps[i]
  <2>1. \A i \in 1 .. k - 1 : ps[i] \in Pair
    BY <1>1
  <2>2. /\ a \in Seq(Pair)
        /\ Len(a) = IF 1 <= k - 1 THEN k - 1 - 1 + 1 ELSE 0
        /\ \A i \in 1 .. k - 1 - 1 + 1 : a[i] = ps[1 + i - 1]
    BY <2>1, SubSeqProperties, <1>1
  <2> QED BY <2>2, <1>1
<1>3. b \in Seq(Pair) /\ Len(b) = N - k
      /\ \A i \in 1 .. N - k : b[i] = ps[k + 1 + i - 1]
  <2>1. \A i \in k + 1 .. N : ps[i] \in Pair
    BY <1>1
  <2>2. /\ b \in Seq(Pair)
        /\ Len(b) = IF k + 1 <= N THEN N - (k + 1) + 1 ELSE 0
        /\ \A i \in 1 .. N - (k + 1) + 1 : b[i] = ps[k + 1 + i - 1]
    BY <2>1, SubSeqProperties, <1>1
  <2> QED BY <2>2, <1>1
<1> HIDE DEF a, b, N
<1>4. /\ rest \in Seq(Pair) /\ Len(rest) = N - 1
      /\ \A i \in 1 .. N - 1 : rest[i] = IF i < k THEN ps[i] ELSE ps[i + 1]
  <2>1. rest = a \o b
    BY DEF RemoveAt, a, b, N
  <2>2. /\ a \o b \in Seq(Pair) /\ Len(a \o b) = Len(a) + Len(b)
        /\ \A i \in 1 .. Len(a) + Len(b) : (a \o b)[i] = IF i <= Len(a) THEN a[i] ELSE b[i - Len(a)]
    BY <1>2, <1>3, ConcatProperties
  <2> DEFINE ab == a \o b
  <2> HIDE DEF ab, rest
  <2>3. ASSUME NEW i \in 1 .. N - 1 PROVE rest[i] = IF i < k THEN ps[i] ELSE ps[i + 1]
    <3>1. CASE i < k
      <4>1. i \in 1 .. k - 1 /\ i <= Len(a) /\ i \in 1 .. Len(a) + Len(b)
        BY <3>1, <1>1, <1>2, <1>3 DEF N
      <4> QED BY <3>1, <4>1, <2>1, <2>2, <1>2
    <3>2. CASE i >= k
      <4>1. /\ ~ (i <= Len(a)) /\ i \in 1 .. Len(a) + Len(b)
            /\ i - Len(a) \in 1 .. N - k /\ k + 1 + (i - Len(a)) - 1 = i + 1
        BY <3>2, <1>1, <1>2, <1>3 DEF N
      <4>2. b[i - Len(a)] = ps[k + 1 + (i - Len(a)) - 1]
        BY <4>1, <1>3
      <4> QED BY <3>2, <4>1, <4>2, <2>1, <2>2
    <3> QED BY <3>1, <3>2, <1>1
  <2> QED BY <2>1, <2>2, <2>3, <1>1, <1>2, <1>3 DEF N
<1> HIDE DEF rest
<1>5. ps[k] \in Pair /\ l \in 1 .. Len(rest) + 1
  BY <1>1, <1>4 DEF N
<1>6. /\ q \in Seq(Pair) /\ Len(q) = N /\ q[l] = ps[k]
      /\ \A i \in 1 .. l - 1 : q[i] = rest[i]
      /\ \A i \in l .. N - 1 : q[i + 1] = rest[i]
  <2>1. /\ q \in Seq(Pair) /\ Len(q) = Len(rest) + 1 /\ q[l] = ps[k]
        /\ \A i \in 1 .. l - 1 : q[i] = rest[i]
        /\ \A i \in l .. Len(rest) : q[i + 1] = rest[i]
    <3> DEFINE x == ps[k]
    <3>1. rest \in Seq(Pair) /\ x \in Pair /\ l \in 1 .. Len(rest) + 1
      BY <1>4, <1>5
    <3> HIDE DEF x
    <3>2. /\ InsertAt(rest, l, x) \in Seq(Pair) /\ Len(InsertAt(rest, l, x)) = Len(rest) + 1
          /\ InsertAt(rest, l, x)[l] = x
          /\ \A i \in 1 .. l - 1 : InsertAt(rest, l, x)[i] = rest[i]
          /\ \A i \in l .. Len(rest) : InsertAt(rest, l, x)[i + 1] = rest[i]
      BY <3>1, Insertion
    <3> QED BY <3>2 DEF x
  <2> HIDE DEF q
  <2> QED BY <2>1, <1>4, <1>1 DEF N
<1> HIDE DEF q
<1>7. h \in [1 .. N -> 1 .. N]
  BY <1>1 DEF N
<1>8. \A i, j \in 1 .. N : h[i] = h[j] => i = j
  BY <1>1 DEF N
<1>9. ASSUME NEW m \in 1 .. N PROVE \E i \in 1 .. N : h[i] = m
  <2>1. CASE m < l
    <3>1. h[m] = m
      BY <2>1
    <3> QED BY <3>1
  <2>2. CASE m >= l /\ m < k
    <3>1. m + 1 \in 1 .. N /\ h[m + 1] = m
      BY <2>2, <1>1 DEF N
    <3> QED BY <3>1
  <2>3. CASE m = k
    <3>1. l \in 1 .. N /\ h[l] = m
      BY <2>3, <1>1 DEF N
    <3> QED BY <3>1
  <2>4. CASE m > k
    <3>1. h[m] = m
      BY <2>4, <1>1 DEF N
    <3> QED BY <3>1
  <2> QED BY <2>1, <2>2, <2>3, <2>4, <1>1 DEF N
<1>10. ASSUME NEW i \in 1 .. N PROVE q[i] = ps[h[i]]
  <2>1. CASE i < l
    <3>1. i \in 1 .. l - 1 /\ i \in 1 .. N - 1 /\ i < k /\ h[i] = i
      BY <2>1, <1>1 DEF N
    <3> QED BY <3>1, <1>4, <1>6
  <2>2. CASE i = l
    <3>1. h[i] = k
      BY <2>2
    <3> QED BY <2>2, <3>1, <1>6
  <2>3. CASE i > l /\ i <= k
    <3>1. i - 1 \in l .. N - 1 /\ i - 1 + 1 = i /\ i - 1 \in 1 .. N - 1 /\ i - 1 < k /\ h[i] = i - 1
      BY <2>3, <1>1 DEF N
    <3> HIDE DEF h
    <3>2. q[i] = rest[i - 1]
      BY <3>1, <1>6
    <3> QED BY <3>1, <3>2, <1>4
  <2>4. CASE i > k
    <3>1. i - 1 \in l .. N - 1 /\ i - 1 + 1 = i /\ i - 1 \in 1 .. N - 1 /\ ~ (i - 1 < k) /\ h[i] = i
      BY <2>4, <1>1 DEF N
    <3> HIDE DEF h
    <3>2. q[i] = rest[i - 1]
      BY <3>1, <1>6
    <3>3. rest[i - 1] = ps[i - 1 + 1]
      BY <3>1, <1>4
    <3> QED BY <3>1, <3>2, <3>3
  <2> QED BY <2>1, <2>2, <2>3, <2>4, <1>1 DEF N
<1> HIDE DEF h
<1>11. Permutes(ps, q)
  BY <1>6, <1>7, <1>8, <1>9, <1>10 DEF Permutes, N
<1> QED BY <1>6, <1>11 DEF q, rest

\* The binary search of SortPair ends between the places it starts from.
LEMMA SortPairPermutes ==
  ASSUME NEW o, NEW ps \in Seq(Pair), NEW k \in 1 .. Len(ps)
  PROVE  SortPair(o, ps, k) \in Seq(Pair) /\ Permutes(ps, SortPair(o, ps, k))
<1> DEFINE Halve(w, i) == LET p == (w.l + w.r) \div 2
                          IN  IF w.l = w.r THEN w
                              ELSE IF SentBefore(o, ps[k], ps[p]) THEN [w EXCEPT !.r = p]
                              ELSE [w EXCEPT !.l = p + 1]
           N == k
           seq == Upwards(1, k)
           base == [l |-> 1, r |-> k]
           acc == CHOOSE f : f = [m \in 0 .. Len(seq) |-> IF m = 0 THEN base
                    ELSE CHOOSE r \in {Halve(a, seq[m]) : a \in {f[m - 1]}} : TRUE]
           A == [m \in 0 .. N |-> {w \in [l : 1 .. N, r : 1 .. N] : w.l <= w.r}]
           step == [m \in 1 .. N |-> [a \in A[m - 1] |-> Halve(a, seq[m])]]
<1>0. k \in Nat /\ Len(ps) \in Nat /\ k # 0
  BY LenProperties
<1>1. SortPair(o, ps, k) = InsertAt(RemoveAt(ps, k), acc[N].l, ps[k])
  <2>1. ForEach(Halve, base, seq) = acc[Len(seq)]
    <3> HIDE DEF seq, Halve, base
    <3> QED BY DEF ForEach
  <2>2. Len(seq) = N
    BY <1>0 DEF Upwards
  <2>3. SortPair(o, ps, k) = InsertAt(RemoveAt(ps, k), ForEach(Halve, base, seq).l, ps[k])
    BY DEF SortPair
  <2> HIDE DEF acc, seq, Halve, base
  <2> QED BY <2>1, <2>2, <2>3
<1>2. N \in Nat /\ Len(seq) = N
  BY <1>0 DEF Upwards
<1>3. ASSUME NEW m \in 1 .. N, NEW a \in A[m - 1]
      PROVE  Halve(a, seq[m]) \in A[m]
  <2>1. a \in [l : 1 .. N, r : 1 .. N] /\ a.l <= a.r
    BY <1>2
  <2>2. ASSUME a.l # a.r
        PROVE  (a.l + a.r) \div 2 \in a.l .. a.r - 1
    BY <2>1, <2>2, <1>2
  <2> DEFINE p == (a.l + a.r) \div 2
  <2> HIDE DEF p
  <2>3. CASE a.l = a.r
    BY <2>1, <2>3, <1>2
  <2>4. CASE a.l # a.r
    <3>1. p \in a.l .. a.r - 1
      BY <2>2, <2>4 DEF p
    <3>2. [a EXCEPT !.r = p] \in A[m]
      BY <3>1, <2>1, <1>2
    <3>3. [a EXCEPT !.l = p + 1] \in A[m]
      BY <3>1, <2>1, <1>2
    <3> HIDE DEF A
    <3> QED BY <3>2, <3>3, <2>4 DEF p
  <2> QED BY <2>3, <2>4
<1>4. base \in A[0]
  BY <1>0
<1>5. \A m \in 1 .. N : \A a \in A[m - 1] : step[m][a] \in A[m]
  BY <1>3
<1> HIDE DEF N, base, seq
<1>6. PICK g : Runs(g, N, A, base, step)
  <2> HIDE DEF A, step
  <2> QED BY <1>2, <1>4, <1>5, LoopRuns
<1> HIDE DEF A, Halve
<1>7. ASSUME NEW m \in 1 .. N, NEW f
      PROVE  (CHOOSE r \in {Halve(a, seq[m]) : a \in {f[m - 1]}} : TRUE) = Halve(f[m - 1], seq[m])
  OBVIOUS
<1>8. g = [m \in 0 .. N |-> IF m = 0 THEN base ELSE CHOOSE r \in {Halve(a, seq[m]) : a \in {g[m - 1]}} : TRUE]
  <2>1. ASSUME NEW m \in 1 .. N PROVE step[m][g[m - 1]] = Halve(g[m - 1], seq[m])
    <3>1. g[m - 1] \in A[m - 1]
      <4>1. m - 1 \in 0 .. N
        BY <1>2
      <4>2. \A mm \in 0 .. N : g[mm] \in A[mm]
        BY <1>6 DEF Runs
      <4> QED BY <4>1, <4>2
    <3> QED BY <3>1
  <2> HIDE DEF step
  <2>2. ASSUME NEW m \in 0 .. N
        PROVE  (IF m = 0 THEN base ELSE step[m][g[m - 1]])
             = IF m = 0 THEN base ELSE CHOOSE r \in {Halve(a, seq[m]) : a \in {g[m - 1]}} : TRUE
    <3>1. CASE m = 0
      BY <3>1
    <3>2. CASE m # 0
      <4>1. m \in 1 .. N
        BY <3>2
      <4> QED BY <3>2, <4>1, <2>1, <1>7
    <3> QED BY <3>1, <3>2
  <2> QED BY <1>6, <2>2 DEF Runs
<1>9. acc = [m \in 0 .. N |-> IF m = 0 THEN base ELSE CHOOSE r \in {Halve(a, seq[m]) : a \in {acc[m - 1]}} : TRUE]
  BY <1>2, <1>8
<1> HIDE DEF acc
<1>10. \A m \in 0 .. N : acc[m] \in A[m]
  <2> DEFINE T == {m \in 0 .. N : acc[m] \in A[m]}
  <2>1. 0 \in T
    <3>1. 0 \in 0 .. N
      BY <1>2
    <3> QED BY <1>4, <1>9, <3>1
  <2>2. ASSUME NEW m \in 1 .. N, m - 1 \in T PROVE m \in T
    <3>1. m \in 0 .. N /\ m # 0
      BY <1>2
    <3>2. acc[m] = CHOOSE r \in {Halve(a, seq[m]) : a \in {acc[m - 1]}} : TRUE
      BY <1>9, <3>1
    <3>3. acc[m] = Halve(acc[m - 1], seq[m])
      BY <1>7, <3>2
    <3> QED BY <3>1, <3>3, <2>2, <1>3
  <2> HIDE DEF T
  <2>3. \A m \in 0 .. N : m \in T
    BY <2>1, <2>2, <1>2, UpTo
  <2> QED BY <2>3 DEF T
<1>11. acc[N] \in A[N]
  BY <1>10, <1>2
<1>12. acc[N].l \in 1 .. k
  BY <1>11, <1>2 DEF A, N
<1> DEFINE l == acc[N].l
<1> HIDE DEF l
<1>13. l \in 1 .. k
  BY <1>12 DEF l
<1>14. SortPair(o, ps, k) = InsertAt(RemoveAt(ps, k), l, ps[k])
  BY <1>1 DEF l
<1> QED BY <1>13, <1>14, MovedBack

\* The pairs that insert_recv_nodes goes through are those it is given.
LEMMA SortedPermutes ==
  ASSUME NEW o, NEW ps \in Seq(Pair)
  PROVE  SortedPairs(o, ps) \in Seq(Pair) /\ Permutes(ps, SortedPairs(o, ps))
<1> DEFINE Sort(acc, k) == IF k <= acc.length THEN acc
                           ELSE [acc EXCEPT !.pairs = SortPair(o, @, k)]
           N == Len(ps)
           seq == [k \in DOMAIN ps |-> k]
           base == SortRun(o, ps)
           run == CHOOSE f : f = [k \in 0 .. N |-> IF k = 0 THEN base
                    ELSE CHOOSE r \in {Sort(a, seq[k]) : a \in {f[k - 1]}} : TRUE]
           A == [k \in 0 .. N |-> {a \in [length : {base.length}, pairs : Seq(Pair)] : Permutes(ps, a.pairs)}]
           step == [k \in 1 .. N |-> [a \in A[k - 1] |-> Sort(a, seq[k])]]
<1>2. N \in Nat /\ DOMAIN ps = 1 .. N /\ Len(seq) = N /\ \A k \in 1 .. N : seq[k] = k
  BY LenProperties
<1>1. SortedPairs(o, ps) = run[N].pairs
  <2>1. ForEach(Sort, base, seq) = run[N]
    <3> HIDE DEF seq, Sort, base, N
    <3>1. ForEach(Sort, base, seq)
          = (CHOOSE f : f = [k \in 0 .. Len(seq) |-> IF k = 0 THEN base
                    ELSE CHOOSE r \in {Sort(a, seq[k]) : a \in {f[k - 1]}} : TRUE])[Len(seq)]
      BY DEF ForEach
    <3> QED BY <3>1, <1>2
  <2>2. SortedPairs(o, ps) = ForEach(Sort, base, seq).pairs
    BY DEF SortedPairs
  <2> HIDE DEF run, seq, Sort, base
  <2> QED BY <2>1, <2>2
<1>3. ASSUME NEW k \in 1 .. N, NEW a \in A[k - 1]
      PROVE  Sort(a, seq[k]) \in A[k]
  <2> HIDE DEF base
  <2>1. a \in [length : {base.length}, pairs : Seq(Pair)] /\ Permutes(ps, a.pairs)
    BY <1>2
  <2> DEFINE b == SortPair(o, a.pairs, k)
  <2>2. k \in 1 .. Len(a.pairs) /\ a.pairs \in Seq(Pair)
    BY <2>1, <1>2 DEF Permutes
  <2>3. b \in Seq(Pair) /\ Permutes(a.pairs, b)
    BY <2>2, SortPairPermutes
  <2> HIDE DEF b
  <2>4. Permutes(ps, b)
    BY <2>1, <2>3, PermutesTwice
  <2>5. a \in A[k] /\ [a EXCEPT !.pairs = b] \in A[k]
    <3> DEFINE c == [a EXCEPT !.pairs = b]
    <3>1. c.pairs = b /\ c \in [length : {base.length}, pairs : Seq(Pair)]
      BY <2>1, <2>3
    <3> HIDE DEF c
    <3>2. a \in A[k]
      BY <2>1, <1>2
    <3>3. c \in A[k]
      BY <3>1, <2>4, <1>2
    <3> QED BY <3>2, <3>3 DEF c
  <2>6. Sort(a, k) = a \/ Sort(a, k) = [a EXCEPT !.pairs = b]
    BY DEF b
  <2> HIDE DEF A, Sort, seq
  <2> QED BY <2>5, <2>6, <1>2
<1>4. base \in A[0]
  <2>1. /\ DOMAIN base = {"length", "pairs"}
        /\ base.pairs \in Seq(Pair) /\ Permutes(ps, base.pairs)
    BY RunPermutes
  <2>2. base = [length |-> base.length, pairs |-> base.pairs]
    BY DEF SortRun
  <2> HIDE DEF base
  <2> QED BY <2>1, <2>2, <1>2
<1>5. \A k \in 1 .. N : \A a \in A[k - 1] : step[k][a] \in A[k]
  BY <1>3
<1> HIDE DEF N, base, seq
<1>6. PICK g : Runs(g, N, A, base, step)
  <2> HIDE DEF A, step
  <2> QED BY <1>2, <1>4, <1>5, LoopRuns
<1> HIDE DEF A, Sort
<1>7. ASSUME NEW k \in 1 .. N, NEW f
      PROVE  (CHOOSE r \in {Sort(a, seq[k]) : a \in {f[k - 1]}} : TRUE) = Sort(f[k - 1], seq[k])
  OBVIOUS
<1>8. g = [k \in 0 .. N |-> IF k = 0 THEN base ELSE CHOOSE r \in {Sort(a, seq[k]) : a \in {g[k - 1]}} : TRUE]
  <2>1. ASSUME NEW k \in 1 .. N PROVE step[k][g[k - 1]] = Sort(g[k - 1], seq[k])
    <3>1. g[k - 1] \in A[k - 1]
      <4>1. k - 1 \in 0 .. N
        BY <1>2
      <4>2. \A m \in 0 .. N : g[m] \in A[m]
        BY <1>6 DEF Runs
      <4> QED BY <4>1, <4>2
    <3> QED BY <3>1
  <2> HIDE DEF step
  <2>2. ASSUME NEW k \in 0 .. N
        PROVE  (IF k = 0 THEN base ELSE step[k][g[k - 1]])
             = IF k = 0 THEN base ELSE CHOOSE r \in {Sort(a, seq[k]) : a \in {g[k - 1]}} : TRUE
    <3>1. CASE k = 0
      BY <3>1
    <3>2. CASE k # 0
      <4>1. k \in 1 .. N
        BY <3>2
      <4> QED BY <3>2, <4>1, <2>1, <1>7
    <3> QED BY <3>1, <3>2
  <2> QED BY <1>6, <2>2 DEF Runs
<1>9. run = [k \in 0 .. N |-> IF k = 0 THEN base ELSE CHOOSE r \in {Sort(a, seq[k]) : a \in {run[k - 1]}} : TRUE]
  BY <1>8
<1> HIDE DEF run
<1>10. \A k \in 0 .. N : run[k] \in A[k]
  <2> DEFINE T == {k \in 0 .. N : run[k] \in A[k]}
  <2>1. 0 \in T
    <3>1. 0 \in 0 .. N
      BY <1>2
    <3> QED BY <1>4, <1>9, <3>1
  <2>2. ASSUME NEW k \in 1 .. N, k - 1 \in T PROVE k \in T
    <3>1. k \in 0 .. N /\ k # 0
      BY <1>2
    <3>2. run[k] = CHOOSE r \in {Sort(a, seq[k]) : a \in {run[k - 1]}} : TRUE
      BY <1>9, <3>1
    <3>3. run[k] = Sort(run[k - 1], seq[k])
      BY <1>7, <3>2
    <3> QED BY <3>1, <3>3, <2>2, <1>3
  <2> HIDE DEF T
  <2>3. \A k \in 0 .. N : k \in T
    BY <2>1, <2>2, <1>2, UpTo
  <2> QED BY <2>3 DEF T
<1>11. run[N] \in A[N]
  BY <1>10, <1>2
<1>12. run[N].pairs \in Seq(Pair) /\ Permutes(ps, run[N].pairs)
  BY <1>11, <1>2 DEF A
<1> QED BY <1>1, <1>12

(* Two nodes that are the same computation, or the same communication, but    *)
(* for the times; with the peers, too.                                        *)
Like(a, b) == Key(a) = Key(b) /\ a.chunk = b.chunk /\ a.stage = b.stage

Alike(a, b) == /\ Like(a, b)
               /\ a.recvPeer = b.recvPeer /\ a.sendPeer = b.sendPeer
               /\ a.peer = b.peer /\ a.pair = b.pair

(* The orders of a configuration.                                             *)
Orders(c) == [Stages(c) -> Seq(Node)]

(* The computations of o are those of src, in its order.                      *)
Kept(src, o) ==
  \A s \in DOMAIN src :
    /\ \A i \in DOMAIN o[s] : IsComputation(o[s][i]) =>
         \E k \in DOMAIN src[s] : Like(o[s][i], src[s][k])
    /\ \A k \in DOMAIN src[s] : \E i \in DOMAIN o[s] : Like(o[s][i], src[s][k])
    /\ \A k, l \in DOMAIN src[s] : \A i, j \in DOMAIN o[s] :
         Key(o[s][i]) = Key(src[s][k]) /\ Key(o[s][j]) = Key(src[s][l]) => (k < l <=> i < j)

(* A stage has no key twice.                                                  *)
Distinct(o) ==
  \A s \in DOMAIN o : \A i, j \in DOMAIN o[s] : Key(o[s][i]) = Key(o[s][j]) => i = j

(* o2 is o with some more nodes: e says where each node of o went and X where *)
(* the new ones are.                                                          *)
Grows(o, o2, e, X) ==
  /\ DOMAIN o2 = DOMAIN o
  /\ \A s \in DOMAIN o :
       /\ \A i \in DOMAIN o[s] : /\ e[s][i] \in DOMAIN o2[s] /\ e[s][i] \notin X[s]
                                 /\ Alike(o2[s][e[s][i]], o[s][i])
       /\ \A i, j \in DOMAIN o[s] : i < j <=> e[s][i] < e[s][j]
       /\ \A j \in DOMAIN o2[s] : j \notin X[s] => \E i \in DOMAIN o[s] : j = e[s][i]

-----------------------------------------------------------------------------

\* No node is at once two of these.
LEMMA Kinds ==
  /\ ComputeTypes \subseteq NodeTypes /\ SendTypes \subseteq NodeTypes /\ RecvTypes \subseteq NodeTypes
  /\ PostValidationTypes \subseteq NodeTypes
  /\ \A n : IsComputation(n) => ~ IsSend(n) /\ ~ IsRecv(n)
  /\ \A n : IsSend(n) => ~ IsRecv(n)
  /\ \A n : n.type \in SendTypes => IsSend(n)
  /\ \A n : n.type \in RecvTypes => IsRecv(n)
  /\ "SEND_POST_VALIDATION" \notin SendTypes /\ "RECV_POST_VALIDATION" \notin RecvTypes
BY DEF ComputeTypes, SendTypes, RecvTypes, CommTypes, PostValidationTypes, NodeTypes,
   IsComputation,
       IsSend, IsRecv

\* Nodes with one key are of one kind.
LEMMA LikeKind ==
  ASSUME NEW a, NEW b, Key(a) = Key(b)
  PROVE  /\ a.type = b.type /\ a.lg = b.lg /\ a.mb = b.mb /\ a.seq = b.seq
         /\ IsComputation(a) <=> IsComputation(b)
         /\ IsSend(a) <=> IsSend(b)
         /\ IsRecv(a) <=> IsRecv(b)
         /\ \A n : Carries(a, n) <=> (/\ n.type \in IF IsBackwardComm(b) THEN {"B", "BW"} ELSE {"F"}
                                      /\ n.lg = b.lg /\ n.mb = b.mb /\ n.seq = b.seq /\ n.chunk = a.chunk)
<1>1. a.type = b.type /\ a.lg = b.lg /\ a.mb = b.mb /\ a.seq = b.seq
  BY DEF Key, MakeKey
<1> QED BY <1>1 DEF IsComputation, IsSend, IsRecv, Carries, IsBackwardComm

\* Of two nodes that are alike one carries what the other does.
LEMMA LikeCarries ==
  ASSUME NEW a, NEW b, NEW c, NEW d, Like(a, b), Like(c, d)
  PROVE  Carries(a, c) <=> Carries(b, d)
<1>1. a.type = b.type /\ a.lg = b.lg /\ a.mb = b.mb /\ a.seq = b.seq /\ a.chunk = b.chunk
  BY DEF Like, Key, MakeKey
<1>2. c.type = d.type /\ c.lg = d.lg /\ c.mb = d.mb /\ c.seq = d.seq /\ c.chunk = d.chunk
  BY DEF Like, Key, MakeKey
<1> QED BY <1>1, <1>2 DEF Carries, IsBackwardComm

\* What is inserted at a place moves the nodes from there on by one.
Shift(o, s, p) == [t \in DOMAIN o |-> [i \in DOMAIN o[t] |-> IF t = s /\ i >= p THEN i + 1 ELSE i]]
Added(o, s, p) == [t \in DOMAIN o |-> IF t = s THEN {p} ELSE {}]
Insert(o, s, p, x) == [o EXCEPT ![s] = InsertAt(o[s], p, x)]

\* An insertion is such a growth.
LEMMA InsertGrows ==
  ASSUME NEW c, NEW o \in Orders(c), NEW s \in Stages(c), NEW p \in 1 .. Len(o[s]) + 1,
         NEW x \in Node
  PROVE  /\ Insert(o, s, p, x) \in Orders(c)
         /\ Grows(o, Insert(o, s, p, x), Shift(o, s, p), Added(o, s, p))
         /\ p \in DOMAIN Insert(o, s, p, x)[s] /\ Insert(o, s, p, x)[s][p] = x
         /\ \A t \in Stages(c) : \A i \in DOMAIN o[t] :
              Insert(o, s, p, x)[t][Shift(o, s, p)[t][i]] = o[t][i]
<1> SUFFICES ASSUME NEW o2, o2 = [o EXCEPT ![s] = InsertAt(o[s], p, x)]
             PROVE  /\ o2 \in Orders(c)
                    /\ Grows(o, o2, Shift(o, s, p), Added(o, s, p))
                    /\ p \in DOMAIN o2[s] /\ o2[s][p] = x
                    /\ \A t \in Stages(c) : \A i \in DOMAIN o[t] : o2[t][Shift(o, s, p)[t][i]] = o[t][i]
  BY DEF Insert
<1> DEFINE e == Shift(o, s, p)
           X == Added(o, s, p)
           q == InsertAt(o[s], p, x)
<1>1. /\ q \in Seq(Node) /\ Len(q) = Len(o[s]) + 1 /\ DOMAIN q = 1 .. Len(o[s]) + 1
      /\ q[p] = x
      /\ \A i \in 1 .. p - 1 : q[i] = o[s][i]
      /\ \A i \in p .. Len(o[s]) : q[i + 1] = o[s][i]
  <2>1. o[s] \in Seq(Node)
    BY DEF Orders
  <2> QED BY <2>1, Insertion
<1> HIDE DEF q
<1>2. DOMAIN o = Stages(c) /\ DOMAIN o2 = Stages(c) /\ o2[s] = q
      /\ (\A t \in Stages(c) : t # s => o2[t] = o[t]) /\ o2 \in Orders(c)
  BY <1>1 DEF Orders, q
<1>3. \A t \in Stages(c) : o[t] \in Seq(Node) /\ Len(o[t]) \in Nat /\ DOMAIN o[t] = 1 .. Len(o[t])
  BY LenProperties DEF Orders
<1>4. ASSUME NEW t \in Stages(c), t # s, NEW i \in DOMAIN o[t]
      PROVE  e[t][i] = i
  BY <1>2, <1>4 DEF Shift
<1>5. ASSUME NEW i \in DOMAIN o[s]
      PROVE  e[s][i] = IF i >= p THEN i + 1 ELSE i
  BY <1>2 DEF Shift
<1>6. X[s] = {p} /\ \A t \in Stages(c) : t # s => X[t] = {}
  BY <1>2 DEF Added
<1> HIDE DEF e, X
<1>7. ASSUME NEW i \in DOMAIN o[s]
      PROVE  e[s][i] \in DOMAIN q /\ e[s][i] # p /\ q[e[s][i]] = o[s][i]
  <2>1. CASE i >= p
    <3>1. i \in p .. Len(o[s])
      BY <2>1, <1>3
    <3>2. e[s][i] = i + 1
      BY <2>1, <1>5
    <3> QED BY <3>1, <3>2, <1>1, <1>3
  <2>2. CASE ~ (i >= p)
    <3>1. i \in 1 .. p - 1
      BY <2>2, <1>3
    <3>2. e[s][i] = i
      BY <2>2, <1>5
    <3> QED BY <3>1, <3>2, <1>1, <1>3
  <2> QED BY <2>1, <2>2
<1>8. ASSUME NEW t \in Stages(c), NEW i \in DOMAIN o[t]
      PROVE  /\ e[t][i] \in DOMAIN o2[t] /\ e[t][i] \notin X[t]
             /\ o2[t][e[t][i]] = o[t][i]
  <2>1. CASE t = s
    BY <2>1, <1>7, <1>6, <1>2
  <2>2. CASE t # s
    BY <2>2, <1>4, <1>6, <1>2
  <2> QED BY <2>1, <2>2
<1>9. ASSUME NEW t \in Stages(c), NEW i \in DOMAIN o[t], NEW j \in DOMAIN o[t]
      PROVE  i < j <=> e[t][i] < e[t][j]
  <2>1. CASE t = s
    <3>1. i \in Nat /\ j \in Nat
      BY <1>3
    <3>2. e[s][i] = IF i >= p THEN i + 1 ELSE i
      BY <2>1, <1>5
    <3>3. e[s][j] = IF j >= p THEN j + 1 ELSE j
      BY <2>1, <1>5
    <3> QED BY <2>1, <3>1, <3>2, <3>3
  <2>2. CASE t # s
    BY <2>2, <1>4
  <2> QED BY <2>1, <2>2
<1>10. ASSUME NEW t \in Stages(c), NEW j \in DOMAIN o2[t], j \notin X[t]
       PROVE  \E i \in DOMAIN o[t] : j = e[t][i]
  <2>1. CASE t = s
    <3>0. j \in 1 .. Len(o[s]) + 1 /\ j # p
      BY <2>1, <1>1, <1>2, <1>6, <1>10
    <3>1. CASE j > p
      <4>1. j - 1 \in DOMAIN o[s] /\ j - 1 >= p /\ j - 1 + 1 = j
        BY <3>0, <3>1, <1>3
      <4>2. e[s][j - 1] = j
        BY <4>1, <1>5
      <4> QED BY <2>1, <4>1, <4>2
    <3>2. CASE j < p
      <4>1. j \in DOMAIN o[s] /\ ~ (j >= p)
        BY <3>0, <3>2, <1>3
      <4>2. e[s][j] = j
        BY <4>1, <1>5
      <4> QED BY <2>1, <4>1, <4>2
    <3> QED BY <3>0, <3>1, <3>2, <1>3
  <2>2. CASE t # s
    BY <2>2, <1>4, <1>2
  <2> QED BY <2>1, <2>2
<1>11. Grows(o, o2, e, X)
  <2>1. ASSUME NEW t \in Stages(c), NEW i \in DOMAIN o[t]
        PROVE  Alike(o2[t][e[t][i]], o[t][i])
    BY <1>8 DEF Alike, Like
  <2> QED BY <1>2, <1>8, <1>9, <1>10, <2>1 DEF Grows
<1> QED BY <1>1, <1>2, <1>3, <1>8, <1>11 DEF e, X

\* It makes the stage one longer and no other.
LEMMA InsertLength ==
  ASSUME NEW c, NEW o \in Orders(c), NEW s \in Stages(c), NEW p \in 1 .. Len(o[s]) + 1,
         NEW x \in Node
  PROVE  /\ Len(Insert(o, s, p, x)[s]) = Len(o[s]) + 1
         /\ \A t \in Stages(c) : t # s => Insert(o, s, p, x)[t] = o[t]
<1>1. o[s] \in Seq(Node)
  BY DEF Orders
<1>2. Len(InsertAt(o[s], p, x)) = Len(o[s]) + 1
  BY <1>1, Insertion
<1>3. Insert(o, s, p, x)[s] = InsertAt(o[s], p, x) /\ \A t \in Stages(c) : t # s => Insert(o, s, p, x)[t] = o[t]
  BY DEF Insert, Orders
<1> QED BY <1>2, <1>3

(* Every send and receive of the order has its computation on the right side. *)
Placed(o) ==
  \A s \in DOMAIN o : \A i \in DOMAIN o[s] :
    /\ o[s][i].type \in SendTypes => \E j \in DOMAIN o[s] : j < i /\ Carries(o[s][i], o[s][j])
    /\ o[s][i].type \in RecvTypes => \E j \in DOMAIN o[s] : i < j /\ Carries(o[s][i], o[s][j])

(* The sends of the order are those of the first n pairs, the receives those  *)
(* of the first m.                                                            *)
Sends(o, ps, n) ==
  /\ \A s \in DOMAIN o : \A i \in DOMAIN o[s] : IsSend(o[s][i]) =>
       \E k \in 1 .. n : ps[k].send.stage = s /\ Alike(o[s][i], ps[k].send)
  /\ \A k \in 1 .. n : \E i \in DOMAIN o[ps[k].send.stage] :
       Alike(o[ps[k].send.stage][i], ps[k].send)

Recvs(o, ps, m) ==
  /\ \A s \in DOMAIN o : \A i \in DOMAIN o[s] : IsRecv(o[s][i]) =>
       \E k \in 1 .. m : ps[k].recv.stage = s /\ Alike(o[s][i], ps[k].recv)
  /\ \A k \in 1 .. m : \E i \in DOMAIN o[ps[k].recv.stage] :
       Alike(o[ps[k].recv.stage][i], ps[k].recv)

(* Of the sends in o2 those in X are of the pairs from the (n + 1)-th to the   *)
(* m-th.                                                                      *)
NewSends(o, o2, X, ps, n, m) ==
  /\ \A k \in 1 .. n : ps[k].send.stage \in DOMAIN o
  /\ \A s \in DOMAIN o : \A x \in X[s] : IsSend(o2[s][x]) =>
       \E k \in 1 .. m : ps[k].send.stage = s /\ Alike(o2[s][x], ps[k].send)
  /\ \A k \in n + 1 .. m : \E i \in DOMAIN o2[ps[k].send.stage] :
       Alike(o2[ps[k].send.stage][i], ps[k].send)

NewRecvs(o, o2, X, ps, n, m) ==
  /\ \A k \in 1 .. n : ps[k].recv.stage \in DOMAIN o
  /\ \A s \in DOMAIN o : \A x \in X[s] : IsRecv(o2[s][x]) =>
       \E k \in 1 .. m : ps[k].recv.stage = s /\ Alike(o2[s][x], ps[k].recv)
  /\ \A k \in n + 1 .. m : \E i \in DOMAIN o2[ps[k].recv.stage] :
       Alike(o2[ps[k].recv.stage][i], ps[k].recv)

-----------------------------------------------------------------------------
(* What stays true when nodes are added.                                    *)

\* Alike is transitive.
LEMMA AlikeTwice ==
  ASSUME NEW a, NEW b, NEW d, Alike(a, b), Alike(b, d)
  PROVE  Alike(a, d)
BY DEF Alike, Like

\* Nodes that are no computations leave the computations as they were.
LEMMA KeptGrows ==
  ASSUME NEW src, NEW o, NEW o2, NEW e, NEW X, DOMAIN src = DOMAIN o,
         \A s \in DOMAIN src : \A k \in DOMAIN src[s] : IsComputation(src[s][k]),
         Kept(src, o), Grows(o, o2, e, X),
         \A s \in DOMAIN o : \A x \in X[s] : ~ IsComputation(o2[s][x])
  PROVE  Kept(src, o2)
<1> SUFFICES ASSUME NEW s \in DOMAIN src
             PROVE  /\ \A i \in DOMAIN o2[s] : IsComputation(o2[s][i]) =>
                         \E k \in DOMAIN src[s] : Like(o2[s][i], src[s][k])
                    /\ \A k \in DOMAIN src[s] : \E i \in DOMAIN o2[s] : Like(o2[s][i], src[s][k])
                    /\ \A k, l \in DOMAIN src[s] : \A i, j \in DOMAIN o2[s] :
                         Key(o2[s][i]) = Key(src[s][k]) /\ Key(o2[s][j]) = Key(src[s][l]) =>
                           (k < l <=> i < j)
  BY DEF Kept
<1>1. /\ \A i \in DOMAIN o[s] : /\ e[s][i] \in DOMAIN o2[s] /\ e[s][i] \notin X[s]
                                /\ Alike(o2[s][e[s][i]], o[s][i])
      /\ \A i, j \in DOMAIN o[s] : i < j <=> e[s][i] < e[s][j]
      /\ \A j \in DOMAIN o2[s] : j \notin X[s] => \E i \in DOMAIN o[s] : j = e[s][i]
  BY DEF Grows
<1>2. /\ \A i \in DOMAIN o[s] : IsComputation(o[s][i]) =>
           \E k \in DOMAIN src[s] : Like(o[s][i], src[s][k])
      /\ \A k \in DOMAIN src[s] : \E i \in DOMAIN o[s] : Like(o[s][i], src[s][k])
      /\ \A k, l \in DOMAIN src[s] : \A i, j \in DOMAIN o[s] :
           Key(o[s][i]) = Key(src[s][k]) /\ Key(o[s][j]) = Key(src[s][l]) =>
             (k < l <=> i < j)
  BY DEF Kept
<1>3. ASSUME NEW j \in DOMAIN o2[s], IsComputation(o2[s][j])
      PROVE  \E i \in DOMAIN o[s] : j = e[s][i] /\ Alike(o2[s][j], o[s][i]) /\ IsComputation(o[s][i])
  <2>1. j \notin X[s]
    BY <1>3
  <2>2. PICK i \in DOMAIN o[s] : j = e[s][i]
    BY <1>1, <2>1
  <2>3. Alike(o2[s][j], o[s][i])
    BY <1>1, <2>2
  <2>4. IsComputation(o[s][i])
    BY <2>3, <1>3, LikeKind DEF Alike, Like
  <2> QED BY <2>2, <2>3, <2>4
<1>4. ASSUME NEW i \in DOMAIN o2[s], IsComputation(o2[s][i])
      PROVE  \E k \in DOMAIN src[s] : Like(o2[s][i], src[s][k])
  BY <1>2, <1>3, <1>4 DEF Alike, Like
<1>5. ASSUME NEW k \in DOMAIN src[s]
      PROVE  \E i \in DOMAIN o2[s] : Like(o2[s][i], src[s][k])
  BY <1>1, <1>2 DEF Alike, Like
<1>6. ASSUME NEW k \in DOMAIN src[s], NEW l \in DOMAIN src[s],
             NEW i \in DOMAIN o2[s], NEW j \in DOMAIN o2[s],
             Key(o2[s][i]) = Key(src[s][k]), Key(o2[s][j]) = Key(src[s][l])
      PROVE  k < l <=> i < j
  <2>1. IsComputation(o2[s][i]) /\ IsComputation(o2[s][j])
    BY <1>6, LikeKind
  <2>2. PICK a \in DOMAIN o[s] : i = e[s][a] /\ Alike(o2[s][i], o[s][a])
    BY <1>3, <2>1
  <2>3. PICK b \in DOMAIN o[s] : j = e[s][b] /\ Alike(o2[s][j], o[s][b])
    BY <1>3, <2>1
  <2>4. Key(o[s][a]) = Key(src[s][k]) /\ Key(o[s][b]) = Key(src[s][l])
    BY <1>6, <2>2, <2>3 DEF Alike, Like
  <2>5. k < l <=> a < b
    BY <1>2, <2>4
  <2> QED BY <1>1, <2>2, <2>3, <2>5
<1> QED BY <1>4, <1>5, <1>6

\* New keys leave the keys distinct.
LEMMA DistinctGrows ==
  ASSUME NEW o, NEW o2, NEW e, NEW X,
         Distinct(o), Grows(o, o2, e, X),
         \A s \in DOMAIN o : \A i, j \in DOMAIN o[s] : i = j \/ i < j \/ j < i,
         \A s \in DOMAIN o : \A x \in X[s] : \A i \in DOMAIN o2[s] :
           Key(o2[s][x]) = Key(o2[s][i]) => x = i
  PROVE  Distinct(o2)
<1> SUFFICES ASSUME NEW s \in DOMAIN o, NEW i \in DOMAIN o2[s], NEW j \in DOMAIN o2[s],
                    Key(o2[s][i]) = Key(o2[s][j])
             PROVE  i = j
  BY DEF Distinct, Grows
<1>1. CASE i \in X[s] \/ j \in X[s]
  BY <1>1
<1>2. CASE i \notin X[s] /\ j \notin X[s]
  <2>1. PICK a \in DOMAIN o[s] : i = e[s][a]
    BY <1>2 DEF Grows
  <2>2. PICK b \in DOMAIN o[s] : j = e[s][b]
    BY <1>2 DEF Grows
  <2>3. Alike(o2[s][i], o[s][a]) /\ Alike(o2[s][j], o[s][b])
    BY <2>1, <2>2 DEF Grows
  <2>4. Key(o[s][a]) = Key(o[s][b])
    BY <2>3 DEF Alike, Like
  <2>5. a = b
    BY <2>4 DEF Distinct
  <2> QED BY <2>1, <2>2, <2>5
<1> QED BY <1>1, <1>2

\* New nodes leave the communications on the right side of their computations.
LEMMA PlacedGrows ==
  ASSUME NEW o, NEW o2, NEW e, NEW X,
         Placed(o), Grows(o, o2, e, X),
         \A s \in DOMAIN o : \A x \in X[s] :
           /\ o2[s][x].type \in SendTypes =>
                \E j \in DOMAIN o2[s] : j < x /\ Carries(o2[s][x], o2[s][j])
           /\ o2[s][x].type \in RecvTypes =>
                \E j \in DOMAIN o2[s] : x < j /\ Carries(o2[s][x], o2[s][j])
  PROVE  Placed(o2)
<1> SUFFICES ASSUME NEW s \in DOMAIN o, NEW x \in DOMAIN o2[s], x \notin X[s]
             PROVE  /\ o2[s][x].type \in SendTypes =>
                         \E j \in DOMAIN o2[s] : j < x /\ Carries(o2[s][x], o2[s][j])
                    /\ o2[s][x].type \in RecvTypes =>
                         \E j \in DOMAIN o2[s] : x < j /\ Carries(o2[s][x], o2[s][j])
  BY DEF Placed, Grows
<1>1. PICK i \in DOMAIN o[s] : x = e[s][i]
  BY DEF Grows
<1>2. \A j \in DOMAIN o[s] : /\ e[s][j] \in DOMAIN o2[s]
                             /\ Alike(o2[s][e[s][j]], o[s][j])
                             /\ i < j <=> e[s][i] < e[s][j]
                             /\ j < i <=> e[s][j] < e[s][i]
  BY DEF Grows
<1>3. o2[s][x].type = o[s][i].type
  BY <1>1, <1>2, LikeKind DEF Alike, Like
<1>4. ASSUME NEW j \in DOMAIN o[s], Carries(o[s][i], o[s][j])
      PROVE  Carries(o2[s][x], o2[s][e[s][j]])
  BY <1>1, <1>2, <1>4, LikeCarries DEF Alike
<1>5. ASSUME o2[s][x].type \in SendTypes
      PROVE  \E j \in DOMAIN o2[s] : j < x /\ Carries(o2[s][x], o2[s][j])
  <2>1. PICK j \in DOMAIN o[s] : j < i /\ Carries(o[s][i], o[s][j])
    BY <1>3, <1>5 DEF Placed
  <2> QED BY <2>1, <1>1, <1>2, <1>4
<1>6. ASSUME o2[s][x].type \in RecvTypes
      PROVE  \E j \in DOMAIN o2[s] : x < j /\ Carries(o2[s][x], o2[s][j])
  <2>1. PICK j \in DOMAIN o[s] : i < j /\ Carries(o[s][i], o[s][j])
    BY <1>3, <1>6 DEF Placed
  <2> QED BY <2>1, <1>1, <1>2, <1>4
<1> QED BY <1>5, <1>6

\* The sends of some more pairs.
LEMMA SendsGrow ==
  ASSUME NEW o, NEW o2, NEW e, NEW X, NEW ps, NEW n \in Nat, NEW m \in Nat, n <= m,
         Sends(o, ps, n), Grows(o, o2, e, X),
         NewSends(o, o2, X, ps, n, m)
  PROVE  Sends(o2, ps, m)
<1> USE DEF NewSends
<1>1. ASSUME NEW s \in DOMAIN o2, NEW x \in DOMAIN o2[s], IsSend(o2[s][x])
      PROVE  \E k \in 1 .. m : ps[k].send.stage = s /\ Alike(o2[s][x], ps[k].send)
  <2>0. s \in DOMAIN o
    BY DEF Grows
  <2>1. CASE x \in X[s]
    BY <2>0, <2>1, <1>1
  <2>2. CASE x \notin X[s]
    <3>1. PICK i \in DOMAIN o[s] : x = e[s][i]
      BY <2>0, <2>2 DEF Grows
    <3>2. Alike(o2[s][x], o[s][i])
      BY <2>0, <3>1 DEF Grows
    <3>3. IsSend(o[s][i])
      BY <3>2, <1>1, LikeKind DEF Alike, Like
    <3>4. PICK k \in 1 .. n : ps[k].send.stage = s /\ Alike(o[s][i], ps[k].send)
      BY <2>0, <3>3 DEF Sends
    <3>5. k \in 1 .. m
      BY <3>4
    <3> QED BY <3>2, <3>4, <3>5, AlikeTwice
  <2> QED BY <2>1, <2>2
<1>2. ASSUME NEW k \in 1 .. m
      PROVE  \E i \in DOMAIN o2[ps[k].send.stage] : Alike(o2[ps[k].send.stage][i], ps[k].send)
  <2>1. CASE k \in 1 .. n
    <3> DEFINE s == ps[k].send.stage
    <3>1. PICK i \in DOMAIN o[s] : Alike(o[s][i], ps[k].send)
      BY <2>1 DEF Sends
    <3>2. e[s][i] \in DOMAIN o2[s] /\ Alike(o2[s][e[s][i]], o[s][i])
      BY <2>1, <3>1 DEF Grows
    <3> QED BY <3>1, <3>2, AlikeTwice
  <2>2. CASE k \in n + 1 .. m
    BY <2>2
  <2> QED BY <2>1, <2>2
<1> QED BY <1>1, <1>2 DEF Sends

\* The receives of some more pairs.
LEMMA RecvsGrow ==
  ASSUME NEW o, NEW o2, NEW e, NEW X, NEW ps, NEW n \in Nat, NEW m \in Nat, n <= m,
         Recvs(o, ps, n), Grows(o, o2, e, X),
         NewRecvs(o, o2, X, ps, n, m)
  PROVE  Recvs(o2, ps, m)
<1> USE DEF NewRecvs
<1>1. ASSUME NEW s \in DOMAIN o2, NEW x \in DOMAIN o2[s], IsRecv(o2[s][x])
      PROVE  \E k \in 1 .. m : ps[k].recv.stage = s /\ Alike(o2[s][x], ps[k].recv)
  <2>0. s \in DOMAIN o
    BY DEF Grows
  <2>1. CASE x \in X[s]
    BY <2>0, <2>1, <1>1
  <2>2. CASE x \notin X[s]
    <3>1. PICK i \in DOMAIN o[s] : x = e[s][i]
      BY <2>0, <2>2 DEF Grows
    <3>2. Alike(o2[s][x], o[s][i])
      BY <2>0, <3>1 DEF Grows
    <3>3. IsRecv(o[s][i])
      BY <3>2, <1>1, LikeKind DEF Alike, Like
    <3>4. PICK k \in 1 .. n : ps[k].recv.stage = s /\ Alike(o[s][i], ps[k].recv)
      BY <2>0, <3>3 DEF Recvs
    <3>5. k \in 1 .. m
      BY <3>4
    <3> QED BY <3>2, <3>4, <3>5, AlikeTwice
  <2> QED BY <2>1, <2>2
<1>2. ASSUME NEW k \in 1 .. m
      PROVE  \E i \in DOMAIN o2[ps[k].recv.stage] : Alike(o2[ps[k].recv.stage][i], ps[k].recv)
  <2>1. CASE k \in 1 .. n
    <3> DEFINE s == ps[k].recv.stage
    <3>1. PICK i \in DOMAIN o[s] : Alike(o[s][i], ps[k].recv)
      BY <2>1 DEF Recvs
    <3>2. e[s][i] \in DOMAIN o2[s] /\ Alike(o2[s][e[s][i]], o[s][i])
      BY <2>1, <3>1 DEF Grows
    <3> QED BY <3>1, <3>2, AlikeTwice
  <2>2. CASE k \in n + 1 .. m
    BY <2>2
  <2> QED BY <2>1, <2>2
<1> QED BY <1>1, <1>2 DEF Recvs

\* The place that insert_send_nodes finds is behind the producer.
LEMMA SendInserted ==
  ASSUME NEW c, NEW o \in Orders(c), NEW pair, pair.send.stage \in Stages(c),
         \E i \in DOMAIN o[pair.send.stage] : Key(o[pair.send.stage][i]) = pair.producer
  PROVE  \E p \in 1 .. Len(o[pair.send.stage]) + 1 :
           /\ InsertSend(o, pair) = Insert(o, pair.send.stage, p, pair.send)
           /\ \E j \in DOMAIN o[pair.send.stage] : j < p /\ Key(o[pair.send.stage][j]) = pair.producer
<1> DEFINE s == pair.send.stage
           nodes == o[s]
           I == {i \in 1 .. Len(nodes) : Key(nodes[i]) = pair.producer}
           at == IF I # {} THEN Min(I) ELSE 0
           J == {i \in at + 1 .. Len(nodes) : nodes[i].start >= pair.send.start}
           found == IF J # {} THEN Min(J) ELSE 0
           p == IF found = 0 THEN Len(nodes) + 1 ELSE found
<1>1. Len(nodes) \in Nat /\ DOMAIN nodes = 1 .. Len(nodes)
  BY LenProperties DEF Orders
<1>2. InsertSend(o, pair) = Insert(o, s, p, pair.send)
  BY DEF InsertSend, Insert, SelectInSeq, SelectInSubSeq
<1>3. at \in I
  <2>1. I # {} /\ I \in SUBSET Nat
    BY <1>1
  <2> HIDE DEF I
  <2> QED BY <2>1, MinOf
<1>4. at \in 1 .. Len(nodes) /\ Key(nodes[at]) = pair.producer
  BY <1>3
<1> HIDE DEF at
<1>5. p \in at + 1 .. Len(nodes) + 1
  <2>1. J \in SUBSET Nat
    BY <1>1, <1>4
  <2>2. CASE found = 0
    BY <2>2, <1>1, <1>4
  <2>3. CASE found # 0
    <3>1. found \in J
      <4> HIDE DEF J
      <4> QED BY <2>1, <2>3, MinOf
    <3>2. found \in at + 1 .. Len(nodes)
      BY <3>1
    <3> HIDE DEF found
    <3> QED BY <2>3, <3>2, <1>1
  <2> QED BY <2>2, <2>3
<1> HIDE DEF p
<1>6. p \in 1 .. Len(nodes) + 1 /\ at < p /\ at \in DOMAIN nodes
  BY <1>1, <1>4, <1>5
<1> QED BY <1>2, <1>4, <1>6

\* No barrier of the offload pass is among the nodes.
Plain(o) == \A s \in DOMAIN o : \A i \in DOMAIN o[s] : ~ HasOffloadBarrier(o[s][i])

\* Without barriers nothing else keeps up.
LEMMA NoBarriers ==
  ASSUME NEW st, NEW nodes, NEW from \in Nat, NEW to \in Nat, from <= to,
         \A i \in from .. to - 1 : ~ HasOffloadBarrier(nodes[i])
  PROVE  PassBarriers(st, nodes, from, to) = st
<1> DEFINE Pass(a, i) ==
             LET peer == PairedStage(nodes[i].stage)
                 pos  == SelectInSubSeq(a.order[peer], a.first[peer], Len(a.order[peer]),
                                        LAMBDA n : IsSend(n) \/ HasOffloadBarrier(n))
             IN  IF ~ HasOffloadBarrier(nodes[i]) THEN a
                 ELSE IF pos <= 1 \/ IsSend(a.order[peer][pos]) THEN [a EXCEPT !.ok = FALSE]
                 ELSE [a EXCEPT !.first[peer] = pos + 1]
           Turn(a, i) == IF a.ok THEN Pass(a, i) ELSE a
           N == to - from
           seq == Upwards(from, to - 1)
           acc == CHOOSE f : f = [k \in 0 .. N |-> IF k = 0 THEN st
                    ELSE CHOOSE r \in {Turn(a, seq[k]) : a \in {f[k - 1]}} : TRUE]
           A == [k \in 0 .. N |-> {st}]
           step == [k \in 1 .. N |-> [a \in A[k - 1] |-> Turn(a, seq[k])]]
<1>2. N \in Nat /\ Len(seq) = N /\ \A k \in 1 .. N : seq[k] \in from .. to - 1
  BY DEF Upwards
<1>1. PassBarriers(st, nodes, from, to) = acc[N]
  <2>1. ForEach(Turn, st, seq) = acc[N]
    <3> HIDE DEF seq, Turn, N
    <3>1. ForEach(Turn, st, seq)
          = (CHOOSE f : f = [k \in 0 .. Len(seq) |-> IF k = 0 THEN st
                    ELSE CHOOSE r \in {Turn(a, seq[k]) : a \in {f[k - 1]}} : TRUE])[Len(seq)]
      BY DEF ForEach
    <3> QED BY <3>1, <1>2
  <2>2. PassBarriers(st, nodes, from, to) = ForEach(Turn, st, seq)
    BY DEF PassBarriers, For
  <2> HIDE DEF acc, seq, Turn
  <2> QED BY <2>1, <2>2
<1>3. ASSUME NEW k \in 1 .. N, NEW a \in A[k - 1]
      PROVE  Turn(a, seq[k]) \in A[k]
  <2>1. a = st
    BY <1>2
  <2>2. ~ HasOffloadBarrier(nodes[seq[k]])
    BY <1>2
  <2>3. Turn(a, seq[k]) = st
    <3> HIDE DEF seq
    <3> QED BY <2>1, <2>2
  <2> HIDE DEF Turn, seq
  <2> QED BY <2>3, <1>2
<1>4. st \in A[0]
  BY <1>2
<1>5. \A k \in 1 .. N : \A a \in A[k - 1] : step[k][a] \in A[k]
  BY <1>3
<1> HIDE DEF N, seq
<1>6. PICK g : Runs(g, N, A, st, step)
  <2> HIDE DEF A, step
  <2> QED BY <1>2, <1>4, <1>5, LoopRuns
<1> HIDE DEF A, Turn
<1>7. ASSUME NEW k \in 1 .. N, NEW f
      PROVE  (CHOOSE r \in {Turn(a, seq[k]) : a \in {f[k - 1]}} : TRUE) = Turn(f[k - 1], seq[k])
  OBVIOUS
<1>8. g = [k \in 0 .. N |-> IF k = 0 THEN st ELSE CHOOSE r \in {Turn(a, seq[k]) : a \in {g[k - 1]}} : TRUE]
  <2>1. ASSUME NEW k \in 1 .. N PROVE step[k][g[k - 1]] = Turn(g[k - 1], seq[k])
    <3>1. g[k - 1] \in A[k - 1]
      <4>1. k - 1 \in 0 .. N
        BY <1>2
      <4>2. \A m \in 0 .. N : g[m] \in A[m]
        BY <1>6 DEF Runs
      <4> QED BY <4>1, <4>2
    <3> QED BY <3>1
  <2> HIDE DEF step
  <2>2. ASSUME NEW k \in 0 .. N
        PROVE  (IF k = 0 THEN st ELSE step[k][g[k - 1]])
             = IF k = 0 THEN st ELSE CHOOSE r \in {Turn(a, seq[k]) : a \in {g[k - 1]}} : TRUE
    <3>1. CASE k = 0
      BY <3>1
    <3>2. CASE k # 0
      <4>1. k \in 1 .. N
        BY <3>2
      <4> QED BY <3>2, <4>1, <2>1, <1>7
    <3> QED BY <3>1, <3>2
  <2> QED BY <1>6, <2>2 DEF Runs
<1>9. acc = [k \in 0 .. N |-> IF k = 0 THEN st ELSE CHOOSE r \in {Turn(a, seq[k]) : a \in {acc[k - 1]}} : TRUE]
  BY <1>8
<1> HIDE DEF acc
<1>10. \A k \in 0 .. N : acc[k] \in A[k]
  <2> DEFINE T == {k \in 0 .. N : acc[k] \in A[k]}
  <2>1. 0 \in T
    <3>1. 0 \in 0 .. N
      BY <1>2
    <3> QED BY <1>4, <1>9, <3>1
  <2>2. ASSUME NEW k \in 1 .. N, k - 1 \in T PROVE k \in T
    <3>1. k \in 0 .. N /\ k # 0
      BY <1>2
    <3>2. acc[k] = CHOOSE r \in {Turn(a, seq[k]) : a \in {acc[k - 1]}} : TRUE
      BY <1>9, <3>1
    <3>3. acc[k] = Turn(acc[k - 1], seq[k])
      BY <1>7, <3>2
    <3> QED BY <3>1, <3>3, <2>2, <1>3
  <2> HIDE DEF T
  <2>3. \A k \in 0 .. N : k \in T
    BY <2>1, <2>2, <1>2, UpTo
  <2> QED BY <2>3 DEF T
<1>11. acc[N] \in A[N]
  BY <1>10, <1>2
<1> QED BY <1>1, <1>11, <1>2 DEF A

\* What insert_recv_nodes does with a pair when it does not fail: the send is at
\* q, and the receive goes to p, no later than its deadline.
WentIn(o, f, pair, order, first) ==
  LET s == pair.send.stage
      r == pair.recv.stage
  IN  \E q \in f[s] .. Len(o[s]) : \E p \in 1 .. Len(o[r]) :
        /\ Key(o[s][q]) = Key(pair.send)
        /\ p >= [f EXCEPT ![s] = q + 1][r]
        /\ order = Insert(o, r, p, pair.recv)
        /\ first = [[f EXCEPT ![s] = q + 1] EXCEPT ![r] = p + 1]
        /\ \E j \in DOMAIN o[r] : p <= j /\ Key(o[r][j]) = pair.deadline

\* A receive that insert_recv_nodes places goes in behind its send was found.
LEMMA RecvInserted ==
  ASSUME NEW c, NEW o \in Orders(c), NEW f \in [Stages(c) -> Nat \ {0}], Plain(o),
         NEW pair, pair.send.stage \in Stages(c), pair.recv.stage \in Stages(c),
         NEW acc, acc = [ok |-> TRUE, order |-> o, first |-> f],
         InsertRecv(acc, pair).ok
  PROVE  WentIn(o, f, pair, InsertRecv(acc, pair).order, InsertRecv(acc, pair).first)
<1> DEFINE s == pair.send.stage
           r == pair.recv.stage
           I == {i \in acc.first[s] .. Len(acc.order[s]) : Key(acc.order[s][i]) = Key(pair.send)}
           q == IF I # {} THEN Min(I) ELSE 0
           st == [acc EXCEPT !.first[s] = q + 1]
           passed == PassBarriers(st, acc.order[s], acc.first[s], q)
           first == passed.first
           nodes == acc.order[r]
           J == {i \in first[r] .. Len(nodes) :
                  \/ pair.recv.start <= nodes[i].end
                  \/ Key(nodes[i]) = pair.deadline
                  \/ IsSend(nodes[i])
                  \/ HasOffloadBarrier(nodes[i])}
           p == IF J # {} THEN Min(J) ELSE 0
           K == {i \in 1 .. Len(nodes) : Key(nodes[i]) = pair.deadline}
           at == IF K # {} THEN Min(K) ELSE 0
           bad == \/ ~ acc.ok \/ q = 0 \/ ~ passed.ok \/ p = 0 \/ at < p
           res == InsertRecv(acc, pair)
<1>1. \A t \in Stages(c) : Len(o[t]) \in Nat /\ DOMAIN o[t] = 1 .. Len(o[t])
  BY LenProperties DEF Orders
<1>2. res = IF bad THEN [acc EXCEPT !.ok = FALSE]
            ELSE [ok |-> TRUE, order |-> [acc.order EXCEPT ![r] = InsertAt(nodes, p, pair.recv)],
                  first |-> [first EXCEPT ![r] = p + 1]]
  BY DEF InsertRecv, SelectInSubSeq, SelectInSeq, PositionOf
<1>2a. s \in Stages(c) /\ r \in Stages(c)
  OBVIOUS
<1> HIDE DEF s, r
<1>3. acc.ok /\ acc.order = o /\ acc.first = f /\ nodes = o[r] /\ ~ [acc EXCEPT !.ok = FALSE].ok
  OBVIOUS
<1> HIDE DEF bad, res
<1>3a. ~ bad
  BY <1>2, <1>3 DEF res
<1>4. q # 0 /\ p # 0 /\ ~ (at < p)
  BY <1>3a DEF bad
<1>5. q \in f[s] .. Len(o[s]) /\ Key(o[s][q]) = Key(pair.send)
  <2>0. f[s] \in Nat
    BY <1>2a
  <2>1. I \in SUBSET Nat
    BY <1>1, <1>2a, <1>3, <2>0
  <2>2. q \in I
    <3> HIDE DEF I
    <3> QED BY <1>4, <2>1, MinOf
  <2> HIDE DEF q
  <2> QED BY <2>2, <1>3
<1> HIDE DEF q
<1>6. passed = st
  <2>1. q \in Nat /\ f[s] \in Nat /\ f[s] <= q
    BY <1>1, <1>2a, <1>5
  <2>2. \A i \in f[s] .. q - 1 : ~ HasOffloadBarrier(o[s][i])
    <3> SUFFICES ASSUME NEW i \in f[s] .. q - 1 PROVE ~ HasOffloadBarrier(o[s][i])
      OBVIOUS
    <3>0. f[s] \in Nat \ {0}
      BY <1>2a
    <3>1. i \in DOMAIN o[s] /\ s \in DOMAIN o
      BY <1>1, <1>2a, <1>5, <2>1, <3>0 DEF Orders
    <3> QED BY <3>1 DEF Plain
  <2> HIDE DEF st
  <2>3. PassBarriers(st, o[s], f[s], q) = st
    BY <2>1, <2>2, NoBarriers
  <2> QED BY <2>3, <1>3
<1>7. first = [f EXCEPT ![s] = q + 1] /\ first \in [Stages(c) -> Nat \ {0}]
  <2>1. first = st.first
    <3> HIDE DEF st
    <3> QED BY <1>6
  <2>2. st.first = [f EXCEPT ![s] = q + 1]
    OBVIOUS
  <2>3. q + 1 \in Nat \ {0}
    BY <1>5, <1>1, <1>2a
  <2> HIDE DEF first, st
  <2> QED BY <2>1, <2>2, <2>3
<1> HIDE DEF first, nodes
<1>8. p \in 1 .. Len(o[r]) /\ p >= first[r]
  <2>0. first[r] \in Nat \ {0}
    BY <1>7, <1>2a
  <2>1. J \in SUBSET Nat
    BY <1>1, <1>2a, <1>3, <2>0
  <2>2. p \in J
    <3> HIDE DEF J
    <3> QED BY <1>4, <2>1, MinOf
  <2> HIDE DEF p
  <2> QED BY <2>2, <2>0, <1>1, <1>3
<1> HIDE DEF p
<1>9. at \in DOMAIN o[r] /\ p <= at /\ Key(o[r][at]) = pair.deadline
  <2>1. K \in SUBSET Nat
    BY <1>1, <1>3
  <2>2. at # 0
    <3>1. at = 0 => at < p
      BY <1>8
    <3> QED BY <3>1, <1>4
  <2>3. at \in K
    <3> HIDE DEF K
    <3> QED BY <2>1, <2>2, MinOf
  <2> HIDE DEF at
  <2>4. at \in 1 .. Len(o[r]) /\ Key(o[r][at]) = pair.deadline
    BY <2>3, <1>3
  <2> QED BY <2>4, <1>1, <1>4, <1>8
<1> HIDE DEF at
<1>10. /\ res.order = Insert(o, r, p, pair.recv)
       /\ res.first = [first EXCEPT ![r] = p + 1]
  BY <1>2, <1>3, <1>3a DEF Insert
<1> DEFINE order == res.order
           newfirst == res.first
<1>11. /\ order = Insert(o, r, p, pair.recv)
       /\ newfirst = [[f EXCEPT ![s] = q + 1] EXCEPT ![r] = p + 1]
  BY <1>7, <1>10
<1> HIDE DEF order, newfirst
<1>12. WentIn(o, f, pair, order, newfirst)
  BY <1>5, <1>7, <1>8, <1>9, <1>11 DEF WentIn, s, r
<1> QED BY <1>12 DEF order, newfirst, res

(* What the passes start from: a program's order, each node on its stage.     *)
Sourced(c, src) ==
  /\ c.n \in Nat \ {0} /\ c.comm \in Nat
  /\ src \in Orders(c)
  /\ \A s \in Stages(c) : \A i \in DOMAIN src[s] : IsComputation(src[s][i]) /\ src[s][i].lg \in Nat
  /\ UniqueKeys(src) /\ LayerGroupsOnOneStage(src) /\ SplitOrFused(src)

Staged(src) == \A s \in DOMAIN src : \A i \in DOMAIN src[s] : src[s][i].stage = s

(* Node b needs what node a on another stage makes.                           *)
Feeds(c, a, b) == Key(a) = PrevKey(b, NumLayerGroups(c)) /\ a.stage # b.stage

(* A node that the peers are right for.                                       *)
RightPeers(c, src, n) ==
  /\ n.recvPeer # n.stage
  /\ n.recvPeer # None <=> \E s \in DOMAIN src : \E i \in DOMAIN src[s] : Feeds(c, src[s][i], n)
  /\ n.sendPeer # None <=> \E s \in DOMAIN src : \E i \in DOMAIN src[s] : Feeds(c, n, src[s][i])

Peers(c, src, o) ==
  \A s \in DOMAIN o : \A i \in DOMAIN o[s] : IsComputation(o[s][i]) => RightPeers(c, src, o[s][i])

(* The nodes of src, some of their fields filled in.                          *)
Shape(src, o) ==
  \A s \in DOMAIN src : /\ DOMAIN o[s] = DOMAIN src[s]
                        /\ \A i \in DOMAIN src[s] : Like(o[s][i], src[s][i])

(* The pair takes a tensor from a to b.                                       *)
Joins(c, a, b, p) ==
  /\ Feeds(c, a, b) /\ a.type = b.type /\ b.type \in {"F", "B", "BW"}
  /\ p.producer = Key(a) /\ p.deadline = Key(b)
  /\ p.send.stage = a.stage /\ p.send.peer = b.stage
  /\ p.recv.stage = b.stage /\ p.recv.peer = a.stage
  /\ p.send.type = IF b.type = "F" THEN "SEND_FORWARD" ELSE "SEND_BACKWARD"
  /\ p.recv.type = IF b.type = "F" THEN "RECV_FORWARD" ELSE "RECV_BACKWARD"
  /\ p.send.lg = a.lg /\ p.send.mb = a.mb /\ p.send.seq = a.seq /\ p.send.chunk = a.chunk
  /\ p.recv.lg = b.lg /\ p.recv.mb = b.mb /\ p.recv.seq = b.seq /\ p.recv.chunk = b.chunk
  /\ p.send.pair = p.recv.pair /\ p.send.pair \in Nat

JoinsSome(c, src, p) ==
  \E s, t \in Stages(c) : \E i \in DOMAIN src[s] : \E j \in DOMAIN src[t] :
    Joins(c, src[s][i], src[t][j], p)

(* The two ends of a pair fit.                                                *)
Ends(c, p) ==
  /\ p.send.stage \in Stages(c) /\ p.recv.stage \in Stages(c)
  /\ p.send.peer = p.recv.stage /\ p.recv.peer = p.send.stage
  /\ p.send.pair = p.recv.pair
  /\ IsSend(p.send) /\ IsRecv(p.recv)
  /\ p.send.type \in SendTypes <=> p.recv.type \in RecvTypes

Apart(ps) ==
  \A k, m \in 1 .. Len(ps) : k # m => /\ Key(ps[k].send) # Key(ps[m].send)
                                      /\ Key(ps[k].recv) # Key(ps[m].recv)
                                      /\ ps[k].send.pair # ps[m].send.pair

PairsOK(c, src, ps) ==
  /\ \A k \in 1 .. Len(ps) : Ends(c, ps[k]) /\ (ps[k].send.type \in SendTypes => JoinsSome(c, src, ps[k]))
  /\ Apart(ps)

Complete(c, src, ps) ==
  \A s, t \in Stages(c) : \A i \in DOMAIN src[s] : \A j \in DOMAIN src[t] :
    Feeds(c, src[s][i], src[t][j]) /\ src[t][j].type \in {"F", "B", "BW"} =>
      \E k \in 1 .. Len(ps) : ps[k].send.type \in SendTypes /\ ps[k].deadline = Key(src[t][j])

-----------------------------------------------------------------------------
(* Keys.                                                                    *)

\* A key is four fields of its node.
LEMMA KeyFields ==
  ASSUME NEW a, NEW b
  PROVE  Key(a) = Key(b) <=> a.type = b.type /\ a.lg = b.lg /\ a.mb = b.mb /\ a.seq = b.seq
BY DEF Key, MakeKey

\* What a node waits for depends on its key.
LEMMA PrevOfKey ==
  ASSUME NEW a, NEW b, NEW L, Key(a) = Key(b)
  PROVE  PrevKey(a, L) = PrevKey(b, L)
BY KeyFields DEF PrevKey

\* A node of a schedule that waits for one on another stage is a forward or a
\* backward, and so is the other one, of the same kind.
LEMMA FeedsSameType ==
  ASSUME NEW c, NEW src, Sourced(c, src), Staged(src),
         NEW s \in Stages(c), NEW t \in Stages(c), NEW i \in DOMAIN src[s],
         NEW j \in DOMAIN src[t],
         Feeds(c, src[s][i], src[t][j])
  PROVE  /\ s # t
         /\ src[t][j].type \in {"F", "B", "BW"} /\ src[s][i].type = src[t][j].type
         /\ src[s][i].lg = IF src[t][j].type = "F" THEN src[t][j].lg - 1 ELSE src[t][j].lg + 1
         /\ src[s][i].mb = src[t][j].mb /\ src[s][i].seq = src[t][j].seq
<1> DEFINE a == src[s][i]
           b == src[t][j]
           L == NumLayerGroups(c)
<1>1. DOMAIN src = Stages(c) /\ a.stage = s /\ b.stage = t /\ s # t
  BY DEF Sourced, Orders, Staged, Feeds
<1>2. a.lg # b.lg
  <2>1. s \in DOMAIN src /\ t \in DOMAIN src
    BY <1>1
  <2> QED BY <1>1, <2>1 DEF Sourced, LayerGroupsOnOneStage
<1>3. b.type \in ComputeTypes /\ b.lg \in Nat /\ a.type \in ComputeTypes
  BY DEF Sourced, IsComputation
<1>4. Key(a) = PrevKey(b, L)
  BY DEF Feeds
<1> HIDE DEF a, b, L
<1>5. b.type \in {"F", "R", "B", "W", "BW"}
  BY <1>3 DEF ComputeTypes
<1>6. CASE b.type = "F"
  <2>1. CASE b.lg = 0
    <3>1. Key(a) = NoKey
      BY <1>4, <1>6, <2>1 DEF PrevKey
    <3>2. a.type = "none"
      BY <3>1 DEF NoKey, Key, MakeKey
    <3> QED BY <3>2, <1>3 DEF ComputeTypes
  <2>2. CASE b.lg # 0
    <3>1. Key(a) = MakeKey("F", b.lg - 1, b.mb, b.seq)
      BY <1>4, <1>6, <2>2 DEF PrevKey
    <3> QED BY <3>1, <1>1, <1>6 DEF Key, MakeKey, a, b
  <2> QED BY <2>1, <2>2
<1>7. CASE b.type \in {"B", "BW"}
  <2>1. b.lg + 1 # L
    <3> SUFFICES ASSUME b.lg + 1 = L PROVE FALSE
      OBVIOUS
    <3>1. Key(a) = MakeKey("F", b.lg, b.mb, b.seq)
      BY <1>4, <1>7 DEF PrevKey
    <3> QED BY <3>1, <1>2 DEF Key, MakeKey
  <2>2. Key(a) = MakeKey(b.type, b.lg + 1, b.mb, b.seq)
    BY <1>4, <1>7, <2>1 DEF PrevKey
  <2> QED BY <2>2, <1>1, <1>7 DEF Key, MakeKey, a, b
<1>8. CASE b.type = "R"
  <2>1. Key(a) = MakeKey("F", b.lg, b.mb, b.seq)
    BY <1>4, <1>8 DEF PrevKey
  <2> QED BY <2>1, <1>2 DEF Key, MakeKey
<1>9. CASE b.type = "W"
  <2>1. Key(a) = MakeKey("B", b.lg, b.mb, b.seq)
    BY <1>4, <1>9 DEF PrevKey
  <2> QED BY <2>1, <1>2 DEF Key, MakeKey
<1> QED BY <1>5, <1>6, <1>7, <1>8, <1>9

\* Two computations that one communication could carry are one.
LEMMA OneCarried ==
  ASSUME NEW c, NEW src, Sourced(c, src),
         NEW s \in Stages(c), NEW t \in Stages(c), NEW i \in DOMAIN src[s],
         NEW j \in DOMAIN src[t],
         LET a == src[s][i]
             b == src[t][j]
         IN  /\ a.lg = b.lg /\ a.mb = b.mb /\ a.seq = b.seq
             /\ a.type \in {"F", "B", "BW"} /\ b.type \in {"F", "B", "BW"}
             /\ a.type = "F" <=> b.type = "F"
  PROVE  s = t /\ i = j
<1> DEFINE a == src[s][i]
           b == src[t][j]
<1>1. s \in DOMAIN src /\ t \in DOMAIN src
  BY DEF Sourced, Orders
<1>2. a.type = b.type
  <2>1. SplitOrFused(src)
    BY DEF Sourced
  <2>2. ~ (a.type = "B" /\ b.type = "BW") /\ ~ (b.type = "B" /\ a.type = "BW")
    BY <1>1, <2>1 DEF SplitOrFused
  <2> QED BY <2>2
<1>3. Key(a) = Key(b)
  BY <1>2, KeyFields
<1> QED BY <1>1, <1>3 DEF Sourced, UniqueKeys

(* x is the communication of node n with another stage.                       *)
IsCommOf(x, type, n, peer, id) ==
  /\ x \in Node
  /\ x.type = type /\ x.stage = n.stage /\ x.peer = peer /\ x.pair = id
  /\ x.lg = n.lg /\ x.mb = n.mb /\ x.seq = n.seq /\ x.chunk = n.chunk

\* What a communication node is made of.
LEMMA CommNodeIs ==
  ASSUME NEW n \in Node, NEW type \in NodeTypes, NEW peer \in Int, NEW t \in Int,
         NEW dir \in {"NONE", "NEXT", "PREV"}, NEW id \in Int
  PROVE  IsCommOf(CommNode(type, n, peer, t, dir, id), type, n, peer, id)
<1> SUFFICES ASSUME NEW x, x = CommNode(type, n, peer, t, dir, id)
             PROVE  IsCommOf(x, type, n, peer, id)
  OBVIOUS
<1>1. x = [type |-> type, stage |-> n.stage, mb |-> n.mb, chunk |-> n.chunk, seq |-> n.seq,
           lg |-> n.lg, start |-> t, end |-> t, recvPeer |-> None, sendPeer |-> None,
           dir |-> dir, peer |-> peer, pair |-> id, rollback |-> n.rollback,
           recompute |-> FALSE, offload |-> FALSE]
  <2>1. n = [type |-> n.type, stage |-> n.stage, mb |-> n.mb, chunk |-> n.chunk, seq |-> n.seq,
             lg |-> n.lg, start |-> n.start, end |-> n.end, recvPeer |-> n.recvPeer,
             sendPeer |-> n.sendPeer, dir |-> n.dir, peer |-> n.peer, pair |-> n.pair,
             rollback |-> n.rollback, recompute |-> n.recompute, offload |-> n.offload]
    BY DEF Node
  <2> QED BY <2>1 DEF CommNode
<1>2. /\ n.stage \in Int /\ n.mb \in Nat /\ n.chunk \in Nat /\ n.seq \in Nat /\ n.lg \in Int
      /\ n.rollback \in BOOLEAN
  BY DEF Node
<1> QED BY <1>1, <1>2 DEF Node, None, IsCommOf

\* The nodes of the stages are all the nodes.
LEMMA InAllNodes ==
  ASSUME NEW o, NEW s \in DOMAIN o, NEW i \in DOMAIN o[s]
  PROVE  o[s][i] \in AllNodes(o)
BY DEF AllNodes

\* The nodes of an order that has the shape of src.
LEMMA ShapeKeeps ==
  ASSUME NEW c, NEW src, Sourced(c, src), NEW o \in Orders(c), Shape(src, o)
  PROVE  /\ DOMAIN o = Stages(c) /\ DOMAIN src = Stages(c)
         /\ UniqueKeys(o)
         /\ \A s \in Stages(c) : \A i \in DOMAIN o[s] :
              /\ i \in DOMAIN src[s] /\ o[s][i] \in Node /\ Like(o[s][i], src[s][i])
              /\ IsComputation(o[s][i])
<1>1. DOMAIN o = Stages(c) /\ DOMAIN src = Stages(c)
  BY DEF Sourced, Orders
<1>2. ASSUME NEW s \in Stages(c), NEW i \in DOMAIN o[s]
      PROVE  /\ i \in DOMAIN src[s] /\ o[s][i] \in Node /\ Like(o[s][i], src[s][i])
             /\ IsComputation(o[s][i])
  <2>1. i \in DOMAIN src[s] /\ Like(o[s][i], src[s][i])
    BY <1>1 DEF Shape
  <2>2. o[s] \in Seq(Node)
    BY DEF Orders
  <2>3. o[s][i] \in Node
    BY <2>2, ElementOfSeq, LenProperties
  <2>4. IsComputation(src[s][i])
    BY <2>1 DEF Sourced
  <2> QED BY <2>1, <2>3, <2>4, LikeKind DEF Like
<1>3. UniqueKeys(o)
  <2> SUFFICES ASSUME NEW s \in Stages(c), NEW t \in Stages(c), NEW i \in DOMAIN o[s],
                      NEW j \in DOMAIN o[t], Key(o[s][i]) = Key(o[t][j])
               PROVE  s = t /\ i = j
    BY <1>1 DEF UniqueKeys
  <2>1. Key(src[s][i]) = Key(src[t][j]) /\ i \in DOMAIN src[s] /\ j \in DOMAIN src[t]
    BY <1>2 DEF Like
  <2> QED BY <2>1, <1>1 DEF Sourced, UniqueKeys
<1> QED BY <1>1, <1>2, <1>3

\* The pair of a consumer takes it the tensor of the computation it waits for.
LEMMA PairMade ==
  ASSUME NEW c, NEW src, Sourced(c, src), Staged(src), NEW o \in Orders(c), Shape(src, o),
         Peers(c, src, o), NEW t \in Stages(c), NEW j \in DOMAIN o[t], RemoteConsumer(o[t][j]),
         NEW id \in Nat
  PROVE  /\ CommPair(c, o, o[t][j], id) \in Pair
         /\ CommPair(c, o, o[t][j], id).send.pair = id
         /\ \E s \in Stages(c) : \E i \in DOMAIN src[s] :
              Joins(c, src[s][i], src[t][j], CommPair(c, o, o[t][j], id))
<1> DEFINE n == o[t][j]
           b == src[t][j]
           L == NumLayerGroups(c)
           prevKey == PrevKey(n, L)
           producer == CHOOSE p \in AllNodes(o) : Key(p) = prevKey
           fromPrev == \/ n.recvPeer + 1 = n.stage
                       \/ n.stage = 0 /\ n.recvPeer = c.n - 1
           sendType == IF n.type = "F" THEN "SEND_FORWARD" ELSE "SEND_BACKWARD"
           recvType == IF n.type = "F" THEN "RECV_FORWARD" ELSE "RECV_BACKWARD"
           sendDir == IF fromPrev THEN "NEXT" ELSE "PREV"
           recvDir == IF fromPrev THEN "PREV" ELSE "NEXT"
           send == CommNode(sendType, producer, n.stage, producer.end, sendDir, id)
           recv == CommNode(recvType, n, producer.stage, producer.end, recvDir, id)
           pair == [send |-> send, recv |-> recv, producer |-> prevKey, deadline |-> Key(n)]
<1>1. CommPair(c, o, n, id) = pair
  BY DEF CommPair
<1>2. /\ DOMAIN o = Stages(c) /\ DOMAIN src = Stages(c) /\ j \in DOMAIN src[t]
      /\ n \in Node /\ Like(n, b) /\ IsComputation(n) /\ RightPeers(c, src, n) /\ UniqueKeys(o)
  BY ShapeKeeps DEF Peers
<1>3. n.recvPeer # None
  BY DEF RemoteConsumer
<1>3a. \E s \in Stages(c) : \E i \in DOMAIN src[s] : Feeds(c, src[s][i], n)
  BY <1>2, <1>3 DEF RightPeers
<1>4. PICK s \in Stages(c) : \E i \in DOMAIN src[s] : Feeds(c, src[s][i], n)
  BY <1>3a
<1>5. PICK i \in DOMAIN src[s] : Feeds(c, src[s][i], n)
  BY <1>4
<1> DEFINE a == src[s][i]
<1>6. Key(n) = Key(b) /\ n.stage = b.stage /\ b.stage = t /\ a.stage = s
  BY <1>2 DEF Like, Staged
<1>6a. PrevKey(n, L) = PrevKey(b, L)
  BY <1>6, PrevOfKey
<1>7. Feeds(c, a, b) /\ Key(a) = prevKey
  BY <1>5, <1>6, <1>6a DEF Feeds
<1>8. /\ b.type \in {"F", "B", "BW"} /\ a.type = b.type
      /\ s # t
  BY <1>7, <1>2, FeedsSameType
<1>9. producer = o[s][i] /\ i \in DOMAIN o[s]
  <2>1. i \in DOMAIN o[s] /\ Like(o[s][i], a)
    BY <1>2 DEF Shape
  <2>2. o[s][i] \in AllNodes(o) /\ Key(o[s][i]) = prevKey
    BY <2>1, <1>2, <1>7, InAllNodes DEF Like
  <2>3. ASSUME NEW p \in AllNodes(o), Key(p) = prevKey
        PROVE  p = o[s][i]
    <3>1. PICK u \in DOMAIN o : \E k \in DOMAIN o[u] : p = o[u][k]
      BY DEF AllNodes
    <3>2. PICK k \in DOMAIN o[u] : p = o[u][k]
      BY <3>1
    <3> QED BY <3>2, <2>1, <2>2, <2>3, <1>2 DEF UniqueKeys
  <2> HIDE DEF prevKey
  <2> QED BY <2>1, <2>2, <2>3
<1> HIDE DEF producer
<1>10. producer \in Node /\ Like(producer, a)
  BY <1>2, <1>9, ShapeKeeps
<1>11. n.stage \in Int /\ producer.stage \in Int /\ producer.end \in Int /\ id \in Int
  BY <1>2, <1>10 DEF Node
<1>12. sendType \in NodeTypes /\ recvType \in NodeTypes
  BY DEF NodeTypes, CommTypes, SendTypes, RecvTypes
<1>13. sendDir \in {"NONE", "NEXT", "PREV"} /\ recvDir \in {"NONE", "NEXT", "PREV"}
  OBVIOUS
<1> HIDE DEF sendType, recvType, sendDir, recvDir, producer, n, a, b
<1>14. /\ send \in Node
       /\ send.type = sendType /\ send.stage = producer.stage /\ send.peer = n.stage /\ send.pair = id
       /\ send.lg = producer.lg /\ send.mb = producer.mb /\ send.seq = producer.seq
       /\ send.chunk = producer.chunk
  <2> DEFINE peer == n.stage
             at == producer.end
  <2>1. peer \in Int /\ at \in Int
    BY <1>11
  <2> HIDE DEF peer, at
  <2>2. send = CommNode(sendType, producer, peer, at, sendDir, id)
    BY DEF peer, at
  <2>3. IsCommOf(CommNode(sendType, producer, peer, at, sendDir, id), sendType, producer, peer, id)
    BY <2>1, <1>2, <1>10, <1>11, <1>12, <1>13, CommNodeIs
  <2> HIDE DEF send
  <2> QED BY <2>2, <2>3 DEF peer, IsCommOf
<1>15. /\ recv \in Node
       /\ recv.type = recvType /\ recv.stage = n.stage /\ recv.peer = producer.stage /\ recv.pair = id
       /\ recv.lg = n.lg /\ recv.mb = n.mb /\ recv.seq = n.seq /\ recv.chunk = n.chunk
  <2> DEFINE peer == producer.stage
             at == producer.end
  <2>1. peer \in Int /\ at \in Int
    BY <1>11
  <2> HIDE DEF peer, at
  <2>2. recv = CommNode(recvType, n, peer, at, recvDir, id)
    BY DEF peer, at
  <2>3. IsCommOf(CommNode(recvType, n, peer, at, recvDir, id), recvType, n, peer, id)
    BY <2>1, <1>2, <1>10, <1>11, <1>12, <1>13, CommNodeIs
  <2> HIDE DEF recv
  <2> QED BY <2>2, <2>3 DEF peer, IsCommOf
<1> HIDE DEF send, recv
<1>16. Key(n) \in NodeKey /\ prevKey \in NodeKey
  <2>1. \A x \in Node : Key(x) \in NodeKey
    BY DEF Node, NodeKey, Key, MakeKey
  <2>2. Key(producer) = prevKey
    BY <1>7, <1>10 DEF Like
  <2> HIDE DEF prevKey
  <2> QED BY <2>1, <2>2, <1>2, <1>10
<1>17. pair \in Pair
  BY <1>14, <1>15, <1>16 DEF Pair
<1>18. /\ n.type = b.type /\ n.lg = b.lg /\ n.mb = b.mb /\ n.seq = b.seq /\ n.chunk = b.chunk
       /\ producer.lg = a.lg /\ producer.mb = a.mb /\ producer.seq = a.seq /\ producer.chunk = a.chunk
       /\ producer.stage = a.stage
  BY <1>2, <1>10, KeyFields DEF Like
<1>19. Joins(c, a, b, pair)
  <2>1. pair.producer = Key(a) /\ pair.deadline = Key(b) /\ pair.send = send /\ pair.recv = recv
    BY <1>6, <1>7
  <2>2. /\ sendType = IF b.type = "F" THEN "SEND_FORWARD" ELSE "SEND_BACKWARD"
        /\ recvType = IF b.type = "F" THEN "RECV_FORWARD" ELSE "RECV_BACKWARD"
    BY <1>18 DEF sendType, recvType
  <2> HIDE DEF pair
  <2> QED BY <2>1, <2>2, <1>6, <1>7, <1>8, <1>14, <1>15, <1>18 DEF Joins
<1>20. pair.send.pair = id
  BY <1>14
<1> HIDE DEF pair
<1> QED BY <1>1, <1>17, <1>19, <1>20 DEF n, a, b

\* Two computations of one kind that wait for one computation are one.
LEMMA OneConsumer ==
  ASSUME NEW c, NEW src, Sourced(c, src), Staged(src),
         NEW s1 \in Stages(c), NEW i1 \in DOMAIN src[s1], NEW t1 \in Stages(c),
         NEW j1 \in DOMAIN src[t1],
         NEW s2 \in Stages(c), NEW i2 \in DOMAIN src[s2], NEW t2 \in Stages(c),
         NEW j2 \in DOMAIN src[t2],
         Feeds(c, src[s1][i1], src[t1][j1]), Feeds(c, src[s2][i2], src[t2][j2]),
         src[t1][j1].type = "F" <=> src[t2][j2].type = "F",
         \/ /\ src[s1][i1].lg = src[s2][i2].lg /\ src[s1][i1].mb = src[s2][i2].mb
            /\ src[s1][i1].seq = src[s2][i2].seq
         \/ /\ src[t1][j1].lg = src[t2][j2].lg /\ src[t1][j1].mb = src[t2][j2].mb
            /\ src[t1][j1].seq = src[t2][j2].seq
  PROVE  Key(src[t1][j1]) = Key(src[t2][j2])
<1> DEFINE a1 == src[s1][i1]
           b1 == src[t1][j1]
           a2 == src[s2][i2]
           b2 == src[t2][j2]
<1>1. /\ b1.type \in {"F", "B", "BW"} /\ a1.type = b1.type
      /\ a1.lg = IF b1.type = "F" THEN b1.lg - 1 ELSE b1.lg + 1
      /\ a1.mb = b1.mb /\ a1.seq = b1.seq
  BY FeedsSameType
<1>2. /\ b2.type \in {"F", "B", "BW"} /\ a2.type = b2.type
      /\ a2.lg = IF b2.type = "F" THEN b2.lg - 1 ELSE b2.lg + 1
      /\ a2.mb = b2.mb /\ a2.seq = b2.seq
  BY FeedsSameType
<1>3. b1.lg \in Nat /\ b2.lg \in Nat
  BY DEF Sourced
<1>4. b1.lg = b2.lg /\ b1.mb = b2.mb /\ b1.seq = b2.seq
  <2> HIDE DEF a1, a2, b1, b2
  <2>1. CASE a1.lg = a2.lg /\ a1.mb = a2.mb /\ a1.seq = a2.seq
    <3>1. CASE b1.type = "F"
      <4>1. b2.type = "F"
        BY <3>1 DEF b1, b2
      <4>2. b1.lg - 1 = b2.lg - 1
        BY <2>1, <3>1, <4>1, <1>1, <1>2
      <4>3. b1.lg = b2.lg
        BY <4>2, <1>3
      <4>4. b1.mb = b2.mb /\ b1.seq = b2.seq
        BY <2>1, <1>1, <1>2
      <4> QED BY <4>3, <4>4
    <3>2. CASE b1.type # "F"
      <4>1. b2.type # "F"
        BY <3>2 DEF b1, b2
      <4>2. b1.lg + 1 = b2.lg + 1
        BY <2>1, <3>2, <4>1, <1>1, <1>2
      <4>3. b1.lg = b2.lg
        BY <4>2, <1>3
      <4>4. b1.mb = b2.mb /\ b1.seq = b2.seq
        BY <2>1, <1>1, <1>2
      <4> QED BY <4>3, <4>4
    <3> QED BY <3>1, <3>2
  <2>2. CASE b1.lg = b2.lg /\ b1.mb = b2.mb /\ b1.seq = b2.seq
    BY <2>2
  <2> QED BY <2>1, <2>2 DEF a1, a2, b1, b2
<1>5. t1 = t2 /\ j1 = j2
  BY <1>1, <1>2, <1>4, OneCarried
<1> QED BY <1>5

\* The ends of a pair that takes a tensor.
LEMMA JoinsEnds ==
  ASSUME NEW c, NEW src, Sourced(c, src), Staged(src),
         NEW s \in Stages(c), NEW i \in DOMAIN src[s], NEW t \in Stages(c),
         NEW j \in DOMAIN src[t],
         NEW p, Joins(c, src[s][i], src[t][j], p)
  PROVE  Ends(c, p) /\ p.send.type \in SendTypes
<1>1. src[s][i].stage = s /\ src[t][j].stage = t
  BY DEF Staged, Sourced, Orders
<1> QED BY <1>1 DEF Joins, Ends, IsSend, IsRecv, SendTypes, RecvTypes

\* The communication pairs join the computations that wait for another stage, each once.
LEMMA PairsSound ==
  ASSUME NEW c, NEW src, Sourced(c, src), Staged(src), NEW o \in Orders(c), Shape(src, o),
         Peers(c, src, o)
  PROVE  /\ CommPairs(c, o) \in Seq(Pair)
         /\ PairsOK(c, src, CommPairs(c, o))
         /\ Complete(c, src, CommPairs(c, o))
         /\ \A k \in 1 .. Len(CommPairs(c, o)) : CommPairs(c, o)[k].send.type \in SendTypes
<1> DEFINE ps == CommPairs(c, o)
           L == NumLayerGroups(c)
<1>1. /\ c.n \in Nat /\ o \in [Stages(c) -> Seq(Node)] /\ UniqueKeys(o)
      /\ DOMAIN o = Stages(c) /\ DOMAIN src = Stages(c)
      /\ \A t \in Stages(c) : \A j \in DOMAIN o[t] :
           j \in DOMAIN src[t] /\ Like(o[t][j], src[t][j]) /\ IsComputation(o[t][j])
  BY ShapeKeeps DEF Sourced, Orders
<1>2. \A t \in Stages(c) : \A j \in DOMAIN o[t] : \A id \in Nat :
        RemoteConsumer(o[t][j]) => CommPair(c, o, o[t][j], id) \in Pair
  BY PairMade
<1>3. ps \in Seq(Pair) /\ PairsMade(c, o, ps, c.n, 0)
  BY <1>1, <1>2, AllPairsMade
<1>4. Len(ps) \in Nat
  BY <1>3, LenProperties
<1> HIDE DEF ps
<1>5. ASSUME NEW k \in 1 .. Len(ps)
      PROVE  /\ ps[k].send.pair = k - 1
             /\ \E s, t \in Stages(c) : \E i \in DOMAIN src[s] : \E j \in DOMAIN src[t] :
                  Joins(c, src[s][i], src[t][j], ps[k])
  <2>1. PICK t \in Stages(c) : \E j \in DOMAIN o[t] :
          RemoteConsumer(o[t][j]) /\ ps[k] = CommPair(c, o, o[t][j], k - 1)
    BY <1>3 DEF PairsMade
  <2>2. PICK j \in DOMAIN o[t] : RemoteConsumer(o[t][j]) /\ ps[k] = CommPair(c, o, o[t][j], k - 1)
    BY <2>1
  <2>3. k - 1 \in Nat
    BY <1>4
  <2>4. /\ CommPair(c, o, o[t][j], k - 1).send.pair = k - 1
        /\ \E s \in Stages(c) : \E i \in DOMAIN src[s] :
             Joins(c, src[s][i], src[t][j], CommPair(c, o, o[t][j], k - 1))
    BY <2>2, <2>3, PairMade
  <2>5. j \in DOMAIN src[t]
    BY <1>1
  <2> QED BY <2>2, <2>4, <2>5
<1>6. ASSUME NEW k \in 1 .. Len(ps)
      PROVE  Ends(c, ps[k]) /\ ps[k].send.type \in SendTypes /\ JoinsSome(c, src, ps[k])
  <2>1. JoinsSome(c, src, ps[k])
    BY <1>5 DEF JoinsSome
  <2>2. PICK s \in Stages(c), t \in Stages(c) : \E i \in DOMAIN src[s] : \E j \in DOMAIN src[t] :
          Joins(c, src[s][i], src[t][j], ps[k])
    BY <1>5
  <2>3. PICK i \in DOMAIN src[s] : \E j \in DOMAIN src[t] : Joins(c, src[s][i], src[t][j], ps[k])
    BY <2>2
  <2>4. PICK j \in DOMAIN src[t] : Joins(c, src[s][i], src[t][j], ps[k])
    BY <2>3
  <2> QED BY <2>1, <2>4, JoinsEnds
<1>7. ASSUME NEW k \in 1 .. Len(ps), NEW m \in 1 .. Len(ps), k # m,
             \/ Key(ps[k].send) = Key(ps[m].send)
             \/ Key(ps[k].recv) = Key(ps[m].recv)
      PROVE  FALSE
  <2>1. PICK s1 \in Stages(c), t1 \in Stages(c) : \E i \in DOMAIN src[s1] : \E j \in DOMAIN src[t1] :
          Joins(c, src[s1][i], src[t1][j], ps[k])
    BY <1>5
  <2>2. PICK i1 \in DOMAIN src[s1] : \E j \in DOMAIN src[t1] : Joins(c, src[s1][i1], src[t1][j], ps[k])
    BY <2>1
  <2>3. PICK j1 \in DOMAIN src[t1] : Joins(c, src[s1][i1], src[t1][j1], ps[k])
    BY <2>2
  <2>4. PICK s2 \in Stages(c), t2 \in Stages(c) : \E i \in DOMAIN src[s2] : \E j \in DOMAIN src[t2] :
          Joins(c, src[s2][i], src[t2][j], ps[m])
    BY <1>5
  <2>5. PICK i2 \in DOMAIN src[s2] : \E j \in DOMAIN src[t2] : Joins(c, src[s2][i2], src[t2][j], ps[m])
    BY <2>4
  <2>6. PICK j2 \in DOMAIN src[t2] : Joins(c, src[s2][i2], src[t2][j2], ps[m])
    BY <2>5
  <2>7. Feeds(c, src[s1][i1], src[t1][j1]) /\ Feeds(c, src[s2][i2], src[t2][j2])
    BY <2>3, <2>6 DEF Joins
  <2>8. Key(src[t1][j1]) # Key(src[t2][j2])
    BY <1>3, <1>7, <2>3, <2>6 DEF Joins, PairsMade
  <2> DEFINE a1 == src[s1][i1]
             b1 == src[t1][j1]
             a2 == src[s2][i2]
             b2 == src[t2][j2]
  <2>9. /\ ps[k].send.type = IF b1.type = "F" THEN "SEND_FORWARD" ELSE "SEND_BACKWARD"
        /\ ps[k].recv.type = IF b1.type = "F" THEN "RECV_FORWARD" ELSE "RECV_BACKWARD"
        /\ ps[k].send.lg = a1.lg /\ ps[k].send.mb = a1.mb /\ ps[k].send.seq = a1.seq
        /\ ps[k].recv.lg = b1.lg /\ ps[k].recv.mb = b1.mb /\ ps[k].recv.seq = b1.seq
    BY <2>3 DEF Joins
  <2>10. /\ ps[m].send.type = IF b2.type = "F" THEN "SEND_FORWARD" ELSE "SEND_BACKWARD"
         /\ ps[m].recv.type = IF b2.type = "F" THEN "RECV_FORWARD" ELSE "RECV_BACKWARD"
         /\ ps[m].send.lg = a2.lg /\ ps[m].send.mb = a2.mb /\ ps[m].send.seq = a2.seq
         /\ ps[m].recv.lg = b2.lg /\ ps[m].recv.mb = b2.mb /\ ps[m].recv.seq = b2.seq
    BY <2>6 DEF Joins
  <2> HIDE DEF a1, a2, b1, b2
  <2>11. /\ b1.type = "F" <=> b2.type = "F"
         /\ \/ a1.lg = a2.lg /\ a1.mb = a2.mb /\ a1.seq = a2.seq
            \/ b1.lg = b2.lg /\ b1.mb = b2.mb /\ b1.seq = b2.seq
    <3>1. CASE Key(ps[k].send) = Key(ps[m].send)
      <4>1. /\ ps[k].send.type = ps[m].send.type /\ ps[k].send.lg = ps[m].send.lg
            /\ ps[k].send.mb = ps[m].send.mb /\ ps[k].send.seq = ps[m].send.seq
        BY <3>1, KeyFields
      <4> QED BY <4>1, <2>9, <2>10
    <3>2. CASE Key(ps[k].recv) = Key(ps[m].recv)
      <4>1. /\ ps[k].recv.type = ps[m].recv.type /\ ps[k].recv.lg = ps[m].recv.lg
            /\ ps[k].recv.mb = ps[m].recv.mb /\ ps[k].recv.seq = ps[m].recv.seq
        BY <3>2, KeyFields
      <4> QED BY <4>1, <2>9, <2>10
    <3> QED BY <1>7, <3>1, <3>2
  <2>12. Key(src[t1][j1]) = Key(src[t2][j2])
    BY <2>7, <2>11, OneConsumer DEF a1, a2, b1, b2
  <2> QED BY <2>8, <2>12
<1>8. ASSUME NEW k \in 1 .. Len(ps), NEW m \in 1 .. Len(ps), k # m
      PROVE  ps[k].send.pair # ps[m].send.pair
  BY <1>4, <1>5, <1>8
<1>9. PairsOK(c, src, ps)
  BY <1>6, <1>7, <1>8 DEF PairsOK, Apart
<1>10. Complete(c, src, ps)
  <2> SUFFICES ASSUME NEW s \in Stages(c), NEW t \in Stages(c), NEW i \in DOMAIN src[s],
                      NEW j \in DOMAIN src[t], Feeds(c, src[s][i], src[t][j]),
                      src[t][j].type \in {"F", "B", "BW"}
               PROVE  \E k \in 1 .. Len(ps) : ps[k].send.type \in SendTypes /\ ps[k].deadline = Key(src[t][j])
    BY DEF Complete
  <2> DEFINE n == o[t][j]
  <2>1. j \in DOMAIN o[t] /\ t \in DOMAIN o /\ Like(n, src[t][j])
    BY <1>1 DEF Shape
  <2>2. IsComputation(n)
    BY <2>1, <1>1
  <2>3. RightPeers(c, src, n)
    BY <2>1, <2>2 DEF Peers
  <2>4. Key(n) = Key(src[t][j]) /\ n.stage = src[t][j].stage
    BY <2>1 DEF Like
  <2>5. PrevKey(n, L) = PrevKey(src[t][j], L)
    BY <2>4, PrevOfKey
  <2>6. Feeds(c, src[s][i], n)
    BY <2>4, <2>5 DEF Feeds
  <2>7. n.recvPeer # None /\ n.recvPeer # n.stage
    BY <2>3, <2>6, <1>1 DEF RightPeers
  <2>8. n.type = src[t][j].type
    BY <2>4, KeyFields
  <2>9. RemoteConsumer(n)
    BY <2>7, <2>8 DEF RemoteConsumer
  <2>10. Upto(c.n, 0, t, j)
    BY DEF Upto, Stages, Sourced
  <2>11. PICK k \in 1 .. Len(ps) : ps[k] = CommPair(c, o, n, k - 1)
    BY <1>3, <2>1, <2>9, <2>10 DEF PairsMade
  <2>12. ps[k].deadline = Key(n)
    BY <2>11 DEF CommPair
  <2> QED BY <2>4, <2>12, <1>6
<1> QED BY <1>3, <1>6, <1>9, <1>10 DEF ps

(* The nodes that the passes make without offload.                            *)
Clean(o) ==
  \A s \in DOMAIN o : \A i \in DOMAIN o[s] :
    IsComputation(o[s][i]) \/ IsSend(o[s][i]) \/ IsRecv(o[s][i]) \/ o[s][i].type = "POST_VALIDATION"

(* What holds of an order after every pass.                                   *)
Whole(src, o) == Kept(src, o) /\ Distinct(o) /\ Placed(o) /\ Clean(o)

\* Without offload no node is a barrier.
LEMMA CleanPlain == ASSUME NEW o, Clean(o) PROVE Plain(o)
BY DEF Clean, Plain, HasOffloadBarrier, BarrierTypes, CopyStarts, IsComputation, IsSend, IsRecv,
   ComputeTypes,
       SendTypes, RecvTypes

\* The peers of nodes that are alike are right for both.
LEMMA PeersAlike ==
  ASSUME NEW c, NEW src, NEW a, NEW b, Alike(a, b), RightPeers(c, src, b)
  PROVE  RightPeers(c, src, a)
<1>1. Key(a) = Key(b) /\ a.stage = b.stage /\ a.recvPeer = b.recvPeer /\ a.sendPeer = b.sendPeer
  BY DEF Alike, Like
<1>2. PrevKey(a, NumLayerGroups(c)) = PrevKey(b, NumLayerGroups(c))
  BY <1>1, PrevOfKey
<1>3. \A n : (Feeds(c, n, a) <=> Feeds(c, n, b)) /\ (Feeds(c, a, n) <=> Feeds(c, b, n))
  BY <1>1, <1>2 DEF Feeds
<1> QED BY <1>1, <1>3 DEF RightPeers

\* The peers stay right when communications go in.
LEMMA PeersGrow ==
  ASSUME NEW c, NEW src, NEW o, NEW o2, NEW e, NEW X, Peers(c, src, o), Grows(o, o2, e, X),
         \A s \in DOMAIN o : \A x \in X[s] : ~ IsComputation(o2[s][x])
  PROVE  Peers(c, src, o2)
<1> SUFFICES ASSUME NEW s \in DOMAIN o, NEW j \in DOMAIN o2[s], IsComputation(o2[s][j])
             PROVE  RightPeers(c, src, o2[s][j])
  BY DEF Peers, Grows
<1>1. PICK i \in DOMAIN o[s] : j = e[s][i]
  BY DEF Grows
<1>2. Alike(o2[s][j], o[s][i])
  BY <1>1 DEF Grows
<1>3. IsComputation(o[s][i])
  BY <1>2, LikeKind DEF Alike, Like
<1>4. RightPeers(c, src, o[s][i])
  BY <1>3 DEF Peers
<1> QED BY <1>2, <1>4, PeersAlike

\* Only communications and verdicts go in.
LEMMA CleanGrows ==
  ASSUME NEW o, NEW o2, NEW e, NEW X, Clean(o), Grows(o, o2, e, X),
         \A s \in DOMAIN o : \A x \in X[s] :
           IsSend(o2[s][x]) \/ IsRecv(o2[s][x]) \/ o2[s][x].type = "POST_VALIDATION"
  PROVE  Clean(o2)
<1> SUFFICES ASSUME NEW s \in DOMAIN o, NEW j \in DOMAIN o2[s], j \notin X[s]
             PROVE  \/ IsComputation(o2[s][j]) \/ IsSend(o2[s][j]) \/ IsRecv(o2[s][j])
                    \/ o2[s][j].type = "POST_VALIDATION"
  BY DEF Clean, Grows
<1>1. PICK i \in DOMAIN o[s] : j = e[s][i]
  BY DEF Grows
<1>2. Alike(o2[s][j], o[s][i])
  BY <1>1 DEF Grows
<1>3. Key(o2[s][j]) = Key(o[s][i])
  BY <1>2 DEF Alike, Like
<1>4. \/ IsComputation(o[s][i]) \/ IsSend(o[s][i]) \/ IsRecv(o[s][i])
      \/ o[s][i].type = "POST_VALIDATION"
  BY DEF Clean
<1> QED BY <1>3, <1>4, LikeKind

\* A node goes in that has a key of its own and, when it communicates, its
\* computation on the right side.
LEMMA Inserted ==
  ASSUME NEW c, NEW src, Sourced(c, src), NEW o \in Orders(c), Whole(src, o), Peers(c, src, o),
         NEW s \in Stages(c), NEW p \in 1 .. Len(o[s]) + 1, NEW x \in Node,
         IsSend(x) \/ IsRecv(x) \/ x.type = "POST_VALIDATION",
         \A i \in DOMAIN o[s] : Key(o[s][i]) # Key(x),
         x.type \in SendTypes => \E j \in DOMAIN o[s] : j < p /\ Carries(x, o[s][j]),
         x.type \in RecvTypes => \E j \in DOMAIN o[s] : p <= j /\ Carries(x, o[s][j]),
         NEW o2, o2 = Insert(o, s, p, x)
  PROVE  /\ o2 \in Orders(c) /\ Whole(src, o2) /\ Peers(c, src, o2)
         /\ Grows(o, o2, Shift(o, s, p), Added(o, s, p))
         /\ p \in DOMAIN o2[s] /\ o2[s][p] = x
         /\ \A t \in Stages(c) : \A i \in DOMAIN o[t] : o2[t][Shift(o, s, p)[t][i]] = o[t][i]
<1> DEFINE e == Shift(o, s, p)
           X == Added(o, s, p)
<1>1. /\ o2 \in Orders(c) /\ Grows(o, o2, e, X) /\ p \in DOMAIN o2[s] /\ o2[s][p] = x
      /\ \A t \in Stages(c) : \A i \in DOMAIN o[t] : o2[t][e[t][i]] = o[t][i]
  BY InsertGrows
<1>2. /\ DOMAIN o = Stages(c) /\ DOMAIN src = Stages(c)
      /\ \A t \in DOMAIN src : \A k \in DOMAIN src[t] : IsComputation(src[t][k])
  BY DEF Orders, Sourced
<1>3. \A t \in DOMAIN o : \A i \in DOMAIN o[t] : i \in Int
  BY LenProperties DEF Orders
<1>4. \A t \in DOMAIN o : \A y \in X[t] : t = s /\ y = p /\ o2[t][y] = x
  BY <1>1 DEF Added
<1>5. \A i \in DOMAIN o[s] : e[s][i] = IF i >= p THEN i + 1 ELSE i
  BY <1>2 DEF Shift
<1>6. Grows(o, o2, e, X) /\ DOMAIN o2 = DOMAIN o /\ \A i \in DOMAIN o[s] : e[s][i] \in DOMAIN o2[s]
  BY <1>1, <1>2 DEF Grows
<1> HIDE DEF e, X
<1>7. ~ IsComputation(x)
  BY Kinds DEF IsComputation, ComputeTypes
<1>8. Kept(src, o2)
  <2>1. \A t \in DOMAIN o : \A y \in X[t] : ~ IsComputation(o2[t][y])
    BY <1>4, <1>7
  <2> QED BY <1>2, <1>6, <2>1, KeptGrows DEF Whole
<1>9. Peers(c, src, o2)
  <2>1. \A t \in DOMAIN o : \A y \in X[t] : ~ IsComputation(o2[t][y])
    BY <1>4, <1>7
  <2> QED BY <1>6, <2>1, PeersGrow
<1>10. Clean(o2)
  <2>1. \A t \in DOMAIN o : \A y \in X[t] :
          IsSend(o2[t][y]) \/ IsRecv(o2[t][y]) \/ o2[t][y].type = "POST_VALIDATION"
    BY <1>4
  <2> QED BY <1>6, <2>1, CleanGrows DEF Whole
<1>11. Distinct(o2)
  <2>1. \A t \in DOMAIN o : \A i, j \in DOMAIN o[t] : i = j \/ i < j \/ j < i
    BY <1>3
  <2>2. ASSUME NEW t \in DOMAIN o, NEW y \in X[t], NEW i \in DOMAIN o2[t], Key(o2[t][y]) = Key(o2[t][i])
        PROVE  y = i
    <3>1. t = s /\ y = p /\ o2[t][y] = x
      BY <1>4
    <3>2. CASE i \in X[t]
      BY <3>1, <3>2, <1>4
    <3>3. CASE i \notin X[t]
      <4>1. PICK k \in DOMAIN o[t] : i = e[t][k]
        BY <3>3, <1>6 DEF Grows
      <4>2. Key(o2[t][i]) = Key(o[t][k])
        BY <4>1, <1>1, <1>2
      <4> QED BY <4>2, <3>1, <2>2
    <3> QED BY <3>2, <3>3
  <2>3. Distinct(o)
    BY DEF Whole
  <2>4. \A t \in DOMAIN o : \A y \in X[t] : \A i \in DOMAIN o2[t] :
          Key(o2[t][y]) = Key(o2[t][i]) => y = i
    BY <2>2
  <2> QED BY <1>6, <2>1, <2>3, <2>4, DistinctGrows
<1>12. Placed(o2)
  <2>1. ASSUME NEW t \in DOMAIN o, NEW y \in X[t], o2[t][y].type \in SendTypes
        PROVE  \E j \in DOMAIN o2[t] : j < y /\ Carries(o2[t][y], o2[t][j])
    <3>1. t = s /\ y = p /\ o2[t][y] = x
      BY <1>4
    <3>2. PICK j \in DOMAIN o[s] : j < p /\ Carries(x, o[s][j])
      BY <2>1, <3>1
    <3>3. e[s][j] = j
      BY <3>2, <1>5, <1>3, <1>2
    <3> QED BY <3>1, <3>2, <3>3, <1>1, <1>6
  <2>2. ASSUME NEW t \in DOMAIN o, NEW y \in X[t], o2[t][y].type \in RecvTypes
        PROVE  \E j \in DOMAIN o2[t] : y < j /\ Carries(o2[t][y], o2[t][j])
    <3>1. t = s /\ y = p /\ o2[t][y] = x
      BY <1>4
    <3>2. PICK j \in DOMAIN o[s] : p <= j /\ Carries(x, o[s][j])
      BY <2>2, <3>1
    <3>3. e[s][j] = j + 1 /\ p < j + 1
      BY <3>2, <1>5, <1>3, <1>2
    <3> QED BY <3>1, <3>2, <3>3, <1>1, <1>6
  <2>3. Placed(o)
    BY DEF Whole
  <2>4. \A t \in DOMAIN o : \A y \in X[t] :
          /\ o2[t][y].type \in SendTypes => \E j \in DOMAIN o2[t] : j < y /\ Carries(o2[t][y], o2[t][j])
          /\ o2[t][y].type \in RecvTypes => \E j \in DOMAIN o2[t] : y < j /\ Carries(o2[t][y], o2[t][j])
    BY <2>1, <2>2
  <2> QED BY <1>6, <2>3, <2>4, PlacedGrows
<1> QED BY <1>1, <1>8, <1>9, <1>10, <1>11, <1>12 DEF Whole, e, X

(* The optimizer's post validation is not there.                              *)
Unverified(o) == \A s \in DOMAIN o : \A i \in DOMAIN o[s] : o[s][i].type \notin PostValidationTypes

\* A node with the key of a computation is that computation.
LEMMA TheNode ==
  ASSUME NEW c, NEW src, Sourced(c, src), NEW o, Kept(src, o),
         NEW s \in Stages(c), NEW i \in DOMAIN src[s], NEW j \in DOMAIN o[s],
         Key(o[s][j]) = Key(src[s][i])
  PROVE  Like(o[s][j], src[s][i])
<1>1. DOMAIN src = Stages(c) /\ IsComputation(src[s][i])
  BY DEF Sourced, Orders
<1>2. IsComputation(o[s][j])
  BY <1>1, LikeKind
<1>3. PICK m \in DOMAIN src[s] : Like(o[s][j], src[s][m])
  BY <1>1, <1>2 DEF Kept
<1>4. Key(src[s][m]) = Key(src[s][i])
  BY <1>3 DEF Like
<1>5. m = i
  BY <1>1, <1>4 DEF Sourced, UniqueKeys
<1> QED BY <1>3, <1>5

\* The computations of a pair are in the order, and the pair carries the
\* tensor of the one to the other.
LEMMA PairNodes ==
  ASSUME NEW c, NEW src, Sourced(c, src), Staged(src), NEW o \in Orders(c), Kept(src, o),
         NEW p, JoinsSome(c, src, p)
  PROVE  /\ p.send.stage \in Stages(c) /\ p.recv.stage \in Stages(c)
         /\ \E j \in DOMAIN o[p.send.stage] : Key(o[p.send.stage][j]) = p.producer
         /\ \A j \in DOMAIN o[p.send.stage] :
              Key(o[p.send.stage][j]) = p.producer => Carries(p.send, o[p.send.stage][j])
         /\ \A j \in DOMAIN o[p.recv.stage] :
              Key(o[p.recv.stage][j]) = p.deadline => Carries(p.recv, o[p.recv.stage][j])
<1>1. PICK s \in Stages(c), t \in Stages(c) : \E i \in DOMAIN src[s] : \E j \in DOMAIN src[t] :
        Joins(c, src[s][i], src[t][j], p)
  BY DEF JoinsSome
<1>2. PICK a \in DOMAIN src[s] : \E j \in DOMAIN src[t] : Joins(c, src[s][a], src[t][j], p)
  BY <1>1
<1>3. PICK b \in DOMAIN src[t] : Joins(c, src[s][a], src[t][b], p)
  BY <1>2
<1>4. DOMAIN src = Stages(c) /\ src[s][a].stage = s /\ src[t][b].stage = t
  BY DEF Sourced, Orders, Staged
<1>5. p.send.stage = s /\ p.recv.stage = t /\ p.producer = Key(src[s][a]) /\ p.deadline = Key(src[t][b])
  BY <1>3, <1>4 DEF Joins
<1>6. Carries(p.send, src[s][a]) /\ Carries(p.recv, src[t][b])
  BY <1>3 DEF Joins, Carries, IsBackwardComm, BackwardComm
<1>7. \E j \in DOMAIN o[s] : Like(o[s][j], src[s][a])
  BY <1>4 DEF Kept
<1>8. \E j \in DOMAIN o[s] : Key(o[s][j]) = Key(src[s][a])
  BY <1>7 DEF Like
<1>9. ASSUME NEW j \in DOMAIN o[s], Key(o[s][j]) = Key(src[s][a])
      PROVE  Carries(p.send, o[s][j])
  <2>1. Like(o[s][j], src[s][a]) /\ Like(p.send, p.send)
    BY <1>9, TheNode DEF Like
  <2> QED BY <2>1, <1>6, LikeCarries
<1>10. ASSUME NEW j \in DOMAIN o[t], Key(o[t][j]) = Key(src[t][b])
       PROVE  Carries(p.recv, o[t][j])
  <2>1. Like(o[t][j], src[t][b]) /\ Like(p.recv, p.recv)
    BY <1>10, TheNode DEF Like
  <2> QED BY <2>1, <1>6, LikeCarries
<1> QED BY <1>5, <1>8, <1>9, <1>10

\* What the insertion of a node does to the sends and the receives.
LEMMA CommsGrow ==
  ASSUME NEW c, NEW o \in Orders(c), NEW s \in Stages(c), NEW p \in 1 .. Len(o[s]) + 1,
         NEW x \in Node,
         NEW o2, o2 = Insert(o, s, p, x), NEW ps, NEW n \in Nat, NEW n2 \in Nat, NEW m \in Nat,
         NEW m2 \in Nat,
         Sends(o, ps, n), Recvs(o, ps, m), n <= n2, m <= m2, n2 <= n + 1, m2 <= m + 1,
         \A k \in 1 .. n : ps[k].send.stage \in Stages(c),
         \A k \in 1 .. m : ps[k].recv.stage \in Stages(c),
         IsSend(x) => n2 = n + 1, IsRecv(x) => m2 = m + 1,
         n2 = n + 1 => ps[n2].send.stage = s /\ Alike(x, ps[n2].send),
         m2 = m + 1 => ps[m2].recv.stage = s /\ Alike(x, ps[m2].recv)
  PROVE  Sends(o2, ps, n2) /\ Recvs(o2, ps, m2)
<1> DEFINE e == Shift(o, s, p)
           X == Added(o, s, p)
<1>1. Grows(o, o2, e, X) /\ p \in DOMAIN o2[s] /\ o2[s][p] = x
  BY InsertGrows
<1>2. DOMAIN o = Stages(c)
  BY DEF Orders
<1>3. \A t \in DOMAIN o : \A y \in X[t] : t = s /\ y = p /\ o2[t][y] = x
  BY <1>1 DEF Added
<1> HIDE DEF e, X
<1>5. \A t \in DOMAIN o : \A y \in X[t] : IsSend(o2[t][y]) =>
        \E k \in 1 .. n2 : ps[k].send.stage = t /\ Alike(o2[t][y], ps[k].send)
  <2> SUFFICES ASSUME NEW t \in DOMAIN o, NEW y \in X[t], IsSend(o2[t][y])
               PROVE  \E k \in 1 .. n2 : ps[k].send.stage = t /\ Alike(o2[t][y], ps[k].send)
    OBVIOUS
  <2>1. t = s /\ o2[t][y] = x /\ n2 = n + 1 /\ n2 \in 1 .. n2
    BY <1>3
  <2> QED BY <2>1
<1>6. \A t \in DOMAIN o : \A y \in X[t] : IsRecv(o2[t][y]) =>
        \E k \in 1 .. m2 : ps[k].recv.stage = t /\ Alike(o2[t][y], ps[k].recv)
  <2> SUFFICES ASSUME NEW t \in DOMAIN o, NEW y \in X[t], IsRecv(o2[t][y])
               PROVE  \E k \in 1 .. m2 : ps[k].recv.stage = t /\ Alike(o2[t][y], ps[k].recv)
    OBVIOUS
  <2>1. t = s /\ o2[t][y] = x /\ m2 = m + 1 /\ m2 \in 1 .. m2
    BY <1>3
  <2> QED BY <2>1
<1>7. \A k \in n + 1 .. n2 : \E i \in DOMAIN o2[ps[k].send.stage] :
        Alike(o2[ps[k].send.stage][i], ps[k].send)
  <2> SUFFICES ASSUME NEW k \in n + 1 .. n2
               PROVE  \E i \in DOMAIN o2[ps[k].send.stage] : Alike(o2[ps[k].send.stage][i], ps[k].send)
    OBVIOUS
  <2>1. k = n2 /\ n2 = n + 1
    OBVIOUS
  <2> QED BY <2>1, <1>1
<1>8. \A k \in m + 1 .. m2 : \E i \in DOMAIN o2[ps[k].recv.stage] :
        Alike(o2[ps[k].recv.stage][i], ps[k].recv)
  <2> SUFFICES ASSUME NEW k \in m + 1 .. m2
               PROVE  \E i \in DOMAIN o2[ps[k].recv.stage] : Alike(o2[ps[k].recv.stage][i], ps[k].recv)
    OBVIOUS
  <2>1. k = m2 /\ m2 = m + 1
    OBVIOUS
  <2> QED BY <2>1, <1>1
<1>8a. /\ \A k \in 1 .. n : ps[k].send.stage \in DOMAIN o
       /\ \A k \in 1 .. m : ps[k].recv.stage \in DOMAIN o
  BY <1>2
<1>9. Sends(o2, ps, n2)
  <2>1. NewSends(o, o2, X, ps, n, n2)
    BY <1>8a, <1>5, <1>7 DEF NewSends
  <2> QED BY <1>1, <2>1, SendsGrow
<1>10. Recvs(o2, ps, m2)
  <2>1. NewRecvs(o, o2, X, ps, m, m2)
    BY <1>8a, <1>6, <1>8 DEF NewRecvs
  <2> QED BY <1>1, <2>1, RecvsGrow
<1> QED BY <1>9, <1>10

(* The receive of the pair m + 1 joins those of the first m.                   *)
LEMMA RecvGrows ==
  ASSUME NEW c, NEW o \in Orders(c), NEW s \in Stages(c), NEW p \in 1 .. Len(o[s]) + 1,
         NEW x \in Node,
         NEW ps, NEW n \in Nat, NEW m \in Nat, Sends(o, ps, n), Recvs(o, ps, m),
         \A k \in 1 .. n : ps[k].send.stage \in Stages(c),
         \A k \in 1 .. m : ps[k].recv.stage \in Stages(c),
         ~ IsSend(x), ps[m + 1].recv.stage = s, Alike(x, ps[m + 1].recv)
  PROVE  Sends(Insert(o, s, p, x), ps, n) /\ Recvs(Insert(o, s, p, x), ps, m + 1)
<1> DEFINE o2 == Insert(o, s, p, x)
           m2 == m + 1
<1>1. /\ n <= n /\ n <= n + 1 /\ ~ (n = n + 1)
      /\ m2 \in Nat /\ m <= m2 /\ m2 <= m + 1 /\ m2 = m + 1
  OBVIOUS
<1>2. ps[m2].recv.stage = s /\ Alike(x, ps[m2].recv)
  OBVIOUS
<1>3. o2 = Insert(o, s, p, x)
  OBVIOUS
<1> HIDE DEF o2, m2
<1>4. Sends(o2, ps, n) /\ Recvs(o2, ps, m2)
  BY <1>1, <1>2, <1>3, CommsGrow
<1> QED BY <1>4 DEF o2, m2

(* The order while the sends of the first n pairs are in it.                  *)
Sending(c, src, o, ps, n) ==
  o \in Orders(c) /\ Whole(src, o) /\ Peers(c, src, o) /\ Unverified(o) /\ Sends(o, ps, n) /\ Recvs(o, ps, 0)

\* insert_send_nodes: one more pair has its send.
LEMMA SendPlaced ==
  ASSUME NEW c, NEW src, Sourced(c, src), Staged(src), NEW ps \in Seq(Pair), PairsOK(c, src, ps),
         NEW k \in 1 .. Len(ps), ps[k].send.type \in SendTypes, NEW o,
         Sending(c, src, o, ps, k - 1)
  PROVE  Sending(c, src, InsertSend(o, ps[k]), ps, k)
<1> DEFINE s == ps[k].send.stage
           x == ps[k].send
<1>1. /\ o \in Orders(c) /\ Whole(src, o) /\ Peers(c, src, o) /\ Unverified(o)
      /\ Sends(o, ps, k - 1) /\ Recvs(o, ps, 0) /\ Kept(src, o)
  BY DEF Sending, Whole
<1>2. /\ Ends(c, ps[k]) /\ JoinsSome(c, src, ps[k])
      /\ \A m \in 1 .. Len(ps) : Ends(c, ps[m])
  BY DEF PairsOK
<1>3. /\ s \in Stages(c) /\ \E j \in DOMAIN o[s] : Key(o[s][j]) = ps[k].producer
      /\ \A j \in DOMAIN o[s] : Key(o[s][j]) = ps[k].producer => Carries(x, o[s][j])
  BY <1>1, <1>2, PairNodes
<1>4. PICK p \in 1 .. Len(o[s]) + 1 :
        /\ InsertSend(o, ps[k]) = Insert(o, s, p, x)
        /\ \E j \in DOMAIN o[s] : j < p /\ Key(o[s][j]) = ps[k].producer
  BY <1>1, <1>3, SendInserted
<1> DEFINE o2 == Insert(o, s, p, x)
<1>5. InsertSend(o, ps[k]) = o2
  BY <1>4
<1>6. /\ Len(ps) \in Nat /\ k \in Nat /\ k - 1 \in Nat
      /\ ps[k] \in Pair /\ x \in Node /\ x.type \notin RecvTypes
      /\ x.type \notin PostValidationTypes /\ IsSend(x) /\ ~ IsRecv(x)
  <2>1. Len(ps) \in Nat /\ k \in Nat /\ k - 1 \in Nat
    BY LenProperties
  <2>2. ps[k] \in Pair
    BY ElementOfSeq
  <2>3. x \in Node
    BY <2>2 DEF Pair
  <2>4. /\ x.type \notin RecvTypes
        /\ x.type \notin PostValidationTypes /\ IsSend(x) /\ ~ IsRecv(x)
    BY DEF SendTypes, RecvTypes, PostValidationTypes, IsSend, IsRecv
  <2> QED BY <2>1, <2>2, <2>3, <2>4
<1>7. \A i \in DOMAIN o[s] : Key(o[s][i]) # Key(x)
  <2> SUFFICES ASSUME NEW i \in DOMAIN o[s], Key(o[s][i]) = Key(x) PROVE FALSE
    OBVIOUS
  <2>1. IsSend(o[s][i])
    BY <1>6, LikeKind
  <2>2. s \in DOMAIN o
    BY <1>1, <1>3 DEF Orders
  <2>3. PICK m \in 1 .. k - 1 : Alike(o[s][i], ps[m].send)
    BY <1>1, <2>1, <2>2 DEF Sends
  <2>4. Key(ps[m].send) = Key(ps[k].send) /\ m \in 1 .. Len(ps) /\ m # k
    BY <2>3, <1>6 DEF Alike, Like
  <2> QED BY <2>4 DEF PairsOK, Apart
<1> HIDE DEF s, x, o2
<1>8. x.type \in SendTypes => \E j \in DOMAIN o[s] : j < p /\ Carries(x, o[s][j])
  BY <1>3, <1>4
<1>9. /\ o2 \in Orders(c) /\ Whole(src, o2) /\ Peers(c, src, o2)
      /\ Grows(o, o2, Shift(o, s, p), Added(o, s, p)) /\ o2[s][p] = x
      /\ \A t \in Stages(c) : \A i \in DOMAIN o[t] : o2[t][Shift(o, s, p)[t][i]] = o[t][i]
  BY <1>1, <1>3, <1>6, <1>7, <1>8, Inserted DEF o2
<1>10. Unverified(o2)
  <2> SUFFICES ASSUME NEW t \in DOMAIN o2, NEW i \in DOMAIN o2[t]
               PROVE  o2[t][i].type \notin PostValidationTypes
    BY DEF Unverified
  <2>1. t \in DOMAIN o /\ DOMAIN o = Stages(c)
    BY <1>1, <1>9 DEF Grows, Orders
  <2>2. CASE i \in Added(o, s, p)[t]
    BY <2>1, <2>2, <1>6, <1>9 DEF Added
  <2>3. CASE i \notin Added(o, s, p)[t]
    <3>1. PICK j \in DOMAIN o[t] : i = Shift(o, s, p)[t][j]
      BY <2>1, <2>3, <1>9 DEF Grows
    <3> QED BY <3>1, <2>1, <1>1, <1>9 DEF Unverified
  <2> QED BY <2>2, <2>3
<1>11. /\ \A m \in 1 .. k - 1 : ps[m].send.stage \in Stages(c)
       /\ ps[k].send.stage = s /\ Alike(x, ps[k].send) /\ k - 1 + 1 = k
  BY <1>2, <1>6 DEF Ends, s, x, Alike, Like
<1>12. Sends(o2, ps, k) /\ Recvs(o2, ps, 0)
  <2> DEFINE n == k - 1
  <2>1. n \in Nat /\ n <= k /\ k <= n + 1 /\ k = n + 1 /\ Sends(o, ps, n) /\ \A m \in 1 .. n : ps[m].send.stage \in Stages(c)
    BY <1>1, <1>6, <1>11
  <2>2. 0 \in Nat /\ 0 <= 0 /\ 0 <= 0 + 1 /\ \A m \in 1 .. 0 : ps[m].recv.stage \in Stages(c)
    OBVIOUS
  <2>3. ~ (0 = 0 + 1)
    OBVIOUS
  <2> HIDE DEF n
  <2> QED BY <2>1, <2>2, <2>3, <1>1, <1>3, <1>6, <1>11, CommsGrow DEF o2
<1> QED BY <1>5, <1>9, <1>10, <1>12 DEF Sending

(* Of the first n pairs those between the same stages come, at both ends, in  *)
(* their order ...                                                            *)
InStep(o, ps, n) ==
  \A k, m \in 1 .. n : k < m =>
    /\ ps[k].send.stage = ps[m].send.stage =>
         \A i, j \in DOMAIN o[ps[k].send.stage] :
           Key(o[ps[k].send.stage][i]) = Key(ps[k].send) /\ Key(o[ps[k].send.stage][j]) = Key(ps[m].send) =>
             i < j
    /\ ps[k].recv.stage = ps[m].recv.stage =>
         \A i, j \in DOMAIN o[ps[k].recv.stage] :
           Key(o[ps[k].recv.stage][i]) = Key(ps[k].recv) /\ Key(o[ps[k].recv.stage][j]) = Key(ps[m].recv) =>
             i < j

(* ... and before the place from which their stage may take an insertion.     *)
Behind(o, ps, n, f) ==
  \A k \in 1 .. n :
    /\ \A i \in DOMAIN o[ps[k].send.stage] :
         Key(o[ps[k].send.stage][i]) = Key(ps[k].send) => i < f[ps[k].send.stage]
    /\ \A i \in DOMAIN o[ps[k].recv.stage] :
         Key(o[ps[k].recv.stage][i]) = Key(ps[k].recv) => i < f[ps[k].recv.stage]

Places(c, o, f) ==
  f \in [Stages(c) -> Nat \ {0}] /\ \A s \in Stages(c) : f[s] <= Len(o[s]) + 1

(* The order while the receives of the first n pairs are in it.               *)
Receiving(c, src, o, ps, n, f) ==
  /\ o \in Orders(c) /\ Whole(src, o) /\ Peers(c, src, o)
  /\ Sends(o, ps, Len(ps)) /\ Recvs(o, ps, n)
  /\ InStep(o, ps, n) /\ Behind(o, ps, n, f) /\ Places(c, o, f)

\* Where a node was before the insertion of another.
LEMMA WasThere ==
  ASSUME NEW c, NEW o \in Orders(c), NEW r \in Stages(c), NEW p \in 1 .. Len(o[r]) + 1,
         NEW x \in Node,
         NEW t \in Stages(c), NEW i \in DOMAIN Insert(o, r, p, x)[t],
         Key(Insert(o, r, p, x)[t][i]) # Key(x)
  PROVE  \E j \in DOMAIN o[t] : /\ i = IF t = r /\ j >= p THEN j + 1 ELSE j
                                /\ Key(o[t][j]) = Key(Insert(o, r, p, x)[t][i])
<1> DEFINE o2 == Insert(o, r, p, x)
           e == Shift(o, r, p)
           X == Added(o, r, p)
<1>1. /\ Grows(o, o2, e, X) /\ o2[r][p] = x
      /\ \A u \in Stages(c) : \A j \in DOMAIN o[u] : o2[u][e[u][j]] = o[u][j]
  BY InsertGrows
<1>2. DOMAIN o = Stages(c)
  BY DEF Orders
<1>3. i \notin X[t]
  <2> SUFFICES ASSUME i \in X[t] PROVE FALSE
    OBVIOUS
  <2>1. t = r /\ i = p
    BY <1>2 DEF Added
  <2> HIDE DEF o2
  <2> QED BY <2>1, <1>1 DEF o2
<1>4. \A j \in DOMAIN o[t] : e[t][j] = IF t = r /\ j >= p THEN j + 1 ELSE j
  BY <1>2 DEF Shift
<1> HIDE DEF e, X, o2
<1>5. PICK j \in DOMAIN o[t] : i = e[t][j]
  BY <1>1, <1>2, <1>3 DEF Grows, o2
<1>6. o2[t][i] = o[t][j]
  BY <1>1, <1>5
<1> QED BY <1>4, <1>5, <1>6 DEF o2

\* insert_recv_nodes: one more pair has its receive.
LEMMA RecvPlaced ==
  ASSUME NEW c, NEW src, Sourced(c, src), Staged(src), NEW ps \in Seq(Pair), PairsOK(c, src, ps),
         NEW k \in 1 .. Len(ps), NEW o, NEW f, Receiving(c, src, o, ps, k - 1, f),
         NEW acc, acc = [ok |-> TRUE, order |-> o, first |-> f],
         InsertRecv(acc, ps[k]).ok
  PROVE  Receiving(c, src, InsertRecv(acc, ps[k]).order, ps, k, InsertRecv(acc, ps[k]).first)
<1> DEFINE s == ps[k].send.stage
           r == ps[k].recv.stage
           x == ps[k].recv
<1>1. /\ o \in Orders(c) /\ Whole(src, o) /\ Peers(c, src, o)
      /\ Sends(o, ps, Len(ps)) /\ Recvs(o, ps, k - 1)
      /\ InStep(o, ps, k - 1) /\ Behind(o, ps, k - 1, f)
      /\ f \in [Stages(c) -> Nat \ {0}] /\ \A t \in Stages(c) : f[t] <= Len(o[t]) + 1
      /\ Kept(src, o) /\ Distinct(o) /\ Plain(o)
  BY CleanPlain DEF Receiving, Whole, Places
<1>2. /\ Ends(c, ps[k]) /\ (ps[k].send.type \in SendTypes => JoinsSome(c, src, ps[k]))
      /\ \A m \in 1 .. Len(ps) : Ends(c, ps[m])
  BY DEF PairsOK
<1>3. s \in Stages(c) /\ r \in Stages(c) /\ IsRecv(x) /\ IsSend(ps[k].send)
  BY <1>2 DEF Ends
<1>4a. WentIn(o, f, ps[k], InsertRecv(acc, ps[k]).order, InsertRecv(acc, ps[k]).first)
  <2> DEFINE pair == ps[k]
  <2>1. pair.send.stage \in Stages(c) /\ pair.recv.stage \in Stages(c) /\ InsertRecv(acc, pair).ok
    BY <1>3
  <2> HIDE DEF pair
  <2>2. WentIn(o, f, pair, InsertRecv(acc, pair).order, InsertRecv(acc, pair).first)
    BY <2>1, <1>1, RecvInserted
  <2> QED BY <2>2 DEF pair
<1>4b. PICK q \in f[s] .. Len(o[s]) : \E p \in 1 .. Len(o[r]) :
        /\ Key(o[s][q]) = Key(ps[k].send)
        /\ p >= [f EXCEPT ![s] = q + 1][r]
        /\ InsertRecv(acc, ps[k]).order = Insert(o, r, p, x)
        /\ InsertRecv(acc, ps[k]).first = [[f EXCEPT ![s] = q + 1] EXCEPT ![r] = p + 1]
        /\ \E j \in DOMAIN o[r] : p <= j /\ Key(o[r][j]) = ps[k].deadline
  BY <1>4a DEF WentIn
<1>4. PICK p \in 1 .. Len(o[r]) :
        /\ Key(o[s][q]) = Key(ps[k].send)
        /\ p >= [f EXCEPT ![s] = q + 1][r]
        /\ InsertRecv(acc, ps[k]).order = Insert(o, r, p, x)
        /\ InsertRecv(acc, ps[k]).first = [[f EXCEPT ![s] = q + 1] EXCEPT ![r] = p + 1]
        /\ \E j \in DOMAIN o[r] : p <= j /\ Key(o[r][j]) = ps[k].deadline
  BY <1>4b
<1> DEFINE o2 == Insert(o, r, p, x)
           f2 == [[f EXCEPT ![s] = q + 1] EXCEPT ![r] = p + 1]
<1>5. InsertRecv(acc, ps[k]).order = o2 /\ InsertRecv(acc, ps[k]).first = f2
  BY <1>4
<1>6. /\ Len(ps) \in Nat /\ k \in Nat /\ k - 1 \in Nat
      /\ x \in Node /\ ~ IsSend(x) /\ x.type \notin SendTypes
  <2>1. Len(ps) \in Nat /\ k \in Nat /\ k - 1 \in Nat
    BY LenProperties
  <2>2. ps[k] \in Pair
    BY ElementOfSeq
  <2>3. x \in Node
    BY <2>2 DEF Pair
  <2>4. ~ IsSend(x)
    BY <1>3, Kinds
  <2>5. x.type \notin SendTypes
    BY <2>4, Kinds
  <2> QED BY <2>1, <2>3, <2>4, <2>5
<1>7. \A i \in DOMAIN o[r] : Key(o[r][i]) # Key(x)
  <2> SUFFICES ASSUME NEW i \in DOMAIN o[r], Key(o[r][i]) = Key(x) PROVE FALSE
    OBVIOUS
  <2>1. IsRecv(o[r][i])
    BY <1>3, LikeKind
  <2>2. r \in DOMAIN o
    BY <1>1, <1>3 DEF Orders
  <2>3. PICK m \in 1 .. k - 1 : Alike(o[r][i], ps[m].recv)
    BY <1>1, <2>1, <2>2 DEF Recvs
  <2>4. Key(ps[m].recv) = Key(ps[k].recv) /\ m \in 1 .. Len(ps) /\ m # k
    BY <2>3, <1>6 DEF Alike, Like
  <2> QED BY <2>4 DEF PairsOK, Apart
<1>8. x.type \in RecvTypes => \E j \in DOMAIN o[r] : p <= j /\ Carries(x, o[r][j])
  <2> SUFFICES ASSUME x.type \in RecvTypes
               PROVE  \E j \in DOMAIN o[r] : p <= j /\ Carries(x, o[r][j])
    OBVIOUS
  <2>1. JoinsSome(c, src, ps[k])
    BY <1>2 DEF Ends
  <2>2. \A j \in DOMAIN o[r] : Key(o[r][j]) = ps[k].deadline => Carries(x, o[r][j])
    BY <1>1, <2>1, PairNodes
  <2> QED BY <2>2, <1>4
<1>9. \A t \in Stages(c) : /\ Len(o[t]) \in Nat /\ DOMAIN o[t] = 1 .. Len(o[t])
                           /\ f[t] \in Nat /\ f[t] > 0
  BY <1>1, LenProperties DEF Orders
<1>10. /\ f2 \in [Stages(c) -> Nat \ {0}] /\ f2[r] = p + 1
       /\ \A t \in Stages(c) : t # r => f2[t] = IF t = s THEN q + 1 ELSE f[t]
       /\ p >= IF s = r THEN q + 1 ELSE f[r]
       /\ q \in Nat /\ p \in Nat /\ q >= f[s] /\ q <= Len(o[s]) /\ p <= Len(o[r])
  <2>1. q \in Nat /\ p \in Nat /\ q >= f[s] /\ q <= Len(o[s]) /\ p <= Len(o[r])
    BY <1>3, <1>9
  <2>2. f2 \in [Stages(c) -> Nat \ {0}]
    BY <1>1, <1>3, <2>1
  <2>3. f2[r] = p + 1 /\ \A t \in Stages(c) : t # r => f2[t] = IF t = s THEN q + 1 ELSE f[t]
    BY <1>1, <1>3
  <2>4. [f EXCEPT ![s] = q + 1][r] = IF s = r THEN q + 1 ELSE f[r]
    BY <1>1, <1>3
  <2> HIDE DEF f2
  <2> QED BY <2>1, <2>2, <2>3, <2>4, <1>4
<1>11. p \in 1 .. Len(o[r]) + 1
  BY <1>3, <1>9
<1> HIDE DEF s, r, x, o2, f2
<1>12. /\ o2 \in Orders(c) /\ Whole(src, o2) /\ Peers(c, src, o2)
       /\ Grows(o, o2, Shift(o, r, p), Added(o, r, p)) /\ p \in DOMAIN o2[r] /\ o2[r][p] = x
  BY <1>1, <1>3, <1>6, <1>7, <1>8, <1>11, Inserted DEF o2
<1>13. Sends(o2, ps, Len(ps)) /\ Recvs(o2, ps, k)
  <2> DEFINE m == k - 1
             N == Len(ps)
  <2>1. m \in Nat /\ m <= k /\ k <= m + 1 /\ k = m + 1 /\ Recvs(o, ps, m)
        /\ (\A l \in 1 .. m : ps[l].recv.stage \in Stages(c))
        /\ ps[k].recv.stage = r /\ Alike(x, ps[k].recv) /\ k \in Nat
    BY <1>1, <1>2, <1>6 DEF Ends, r, x, Alike, Like
  <2>2. N \in Nat /\ N <= N /\ N <= N + 1 /\ ~ (N = N + 1) /\ Sends(o, ps, N)
        /\ (\A l \in 1 .. N : ps[l].send.stage \in Stages(c))
    BY <1>1, <1>2, <1>6 DEF Ends
  <2> HIDE DEF m, N
  <2>3. Sends(o2, ps, N) /\ Recvs(o2, ps, k)
    <3>1. x \in Node /\ ~ IsSend(x) /\ p \in 1 .. Len(o[r]) + 1 /\ o \in Orders(c) /\ r \in Stages(c)
      BY <1>1, <1>3, <1>6, <1>11
    <3>2. m \in Nat /\ N \in Nat /\ Sends(o, ps, N) /\ Recvs(o, ps, m)
      BY <2>1, <2>2
    <3>3. /\ \A l \in 1 .. N : ps[l].send.stage \in Stages(c)
          /\ \A l \in 1 .. m : ps[l].recv.stage \in Stages(c)
      BY <2>1, <2>2
    <3>4. ps[m + 1].recv.stage = r /\ Alike(x, ps[m + 1].recv)
      BY <2>1
    <3>5. Sends(Insert(o, r, p, x), ps, N) /\ Recvs(Insert(o, r, p, x), ps, m + 1)
      BY <3>1, <3>2, <3>3, <3>4, RecvGrows
    <3> QED BY <3>5, <2>1 DEF o2
  <2> QED BY <2>3 DEF N
\* Where the communications are that the first k - 1 pairs have put in place,
\* and that of the k-th.
<1>14. ASSUME NEW t \in Stages(c), NEW K, K # Key(x), NEW i \in DOMAIN o2[t], Key(o2[t][i]) = K
       PROVE  \E j \in DOMAIN o[t] : /\ Key(o[t][j]) = K
                                     /\ i = IF t = r /\ j >= p THEN j + 1 ELSE j
  <2>1. i \in DOMAIN Insert(o, r, p, x)[t] /\ Key(Insert(o, r, p, x)[t][i]) # Key(x)
    BY <1>14 DEF o2
  <2>2. \E j \in DOMAIN o[t] : /\ i = IF t = r /\ j >= p THEN j + 1 ELSE j
                               /\ Key(o[t][j]) = Key(Insert(o, r, p, x)[t][i])
    <3>1. /\ o \in Orders(c) /\ r \in Stages(c) /\ p \in 1 .. Len(o[r]) + 1 /\ x \in Node
          /\ t \in Stages(c)
      BY <1>1, <1>3, <1>6, <1>11, <1>14
    <3> QED BY <3>1, <2>1, WasThere
  <2> QED BY <2>2, <1>14 DEF o2
<1>15. ASSUME NEW t \in Stages(c), NEW K, K # Key(x), NEW i \in DOMAIN o2[t], Key(o2[t][i]) = K,
              \A j \in DOMAIN o[t] : Key(o[t][j]) = K => j < f[t]
       PROVE  i \in DOMAIN o[t] /\ Key(o[t][i]) = K /\ i < f[t] /\ i < f2[t]
  <2>1. PICK j \in DOMAIN o[t] : Key(o[t][j]) = K /\ i = IF t = r /\ j >= p THEN j + 1 ELSE j
    BY <1>14, <1>15
  <2>2. j \in Nat /\ j < f[t] /\ f[t] \in Nat
    BY <2>1, <1>9, <1>15
  <2>3. CASE t = r
    <3>1. j < p
      <4>1. CASE s = r
        BY <4>1, <2>2, <2>3, <1>10
      <4>2. CASE s # r
        BY <4>2, <2>2, <2>3, <1>10
      <4> QED BY <4>1, <4>2
    <3>2. ~ (j >= p)
      BY <3>1, <2>2, <1>10
    <3> QED BY <2>1, <2>2, <2>3, <3>1, <3>2, <1>10
  <2>4. CASE t # r
    <3>1. i = j
      BY <2>1, <2>4
    <3>2. CASE t = s
      BY <3>1, <3>2, <2>1, <2>2, <2>4, <1>10
    <3>3. CASE t # s
      BY <3>1, <3>3, <2>1, <2>2, <2>4, <1>10
    <3> QED BY <3>2, <3>3
  <2> QED BY <2>3, <2>4
<1>16. ASSUME NEW i \in DOMAIN o2[s], Key(o2[s][i]) = Key(ps[k].send)
       PROVE  i = q /\ i >= f[s] /\ i < f2[s]
  <2>1. Key(ps[k].send) # Key(x)
    BY <1>3, <1>6, LikeKind
  <2>2. PICK j \in DOMAIN o[s] : /\ Key(o[s][j]) = Key(ps[k].send)
                                 /\ i = IF s = r /\ j >= p THEN j + 1 ELSE j
    BY <1>3, <1>14, <1>16, <2>1
  <2>3. j = q
    <3>1. s \in DOMAIN o /\ q \in DOMAIN o[s]
      BY <1>1, <1>3, <1>9, <1>10 DEF Orders
    <3> QED BY <3>1, <2>2, <1>1, <1>4 DEF Distinct, s
  <2>4. CASE s = r
    BY <2>2, <2>3, <2>4, <1>10
  <2>5. CASE s # r
    BY <2>2, <2>3, <2>5, <1>3, <1>10
  <2> QED BY <2>4, <2>5
<1>17. ASSUME NEW i \in DOMAIN o2[r], Key(o2[r][i]) = Key(x)
       PROVE  i = p /\ i >= f[r] /\ i < f2[r]
  <2>1. i = p
    <3>1. Distinct(o2) /\ r \in DOMAIN o2
      BY <1>12, <1>3 DEF Whole, Orders
    <3> QED BY <3>1, <1>12, <1>17 DEF Distinct
  <2>2. CASE s = r
    BY <2>1, <2>2, <1>3, <1>9, <1>10
  <2>3. CASE s # r
    BY <2>1, <2>3, <1>3, <1>9, <1>10
  <2> QED BY <2>2, <2>3
<1>18. ASSUME NEW m \in 1 .. k - 1
       PROVE  /\ ps[m].send.stage \in Stages(c) /\ ps[m].recv.stage \in Stages(c)
              /\ Key(ps[m].send) # Key(x) /\ Key(ps[m].recv) # Key(x)
              /\ \A i \in DOMAIN o[ps[m].send.stage] :
                   Key(o[ps[m].send.stage][i]) = Key(ps[m].send) => i < f[ps[m].send.stage]
              /\ \A i \in DOMAIN o[ps[m].recv.stage] :
                   Key(o[ps[m].recv.stage][i]) = Key(ps[m].recv) => i < f[ps[m].recv.stage]
  <2>1. m \in 1 .. Len(ps) /\ m # k
    BY <1>6
  <2>2. Ends(c, ps[m])
    BY <2>1, <1>2
  <2>3. Key(ps[m].send) # Key(x)
    BY <2>2, <1>6, LikeKind DEF Ends
  <2>4. Key(ps[m].recv) # Key(x)
    BY <2>1 DEF PairsOK, Apart, x
  <2> QED BY <2>2, <2>3, <2>4, <1>1 DEF Ends, Behind
<1>19. ASSUME NEW m \in 1 .. k
       PROVE  m \in 1 .. k - 1 \/ m = k
  BY <1>6
<1>20. Behind(o2, ps, k, f2)
  <2> SUFFICES ASSUME NEW m \in 1 .. k
               PROVE  /\ \A i \in DOMAIN o2[ps[m].send.stage] :
                           Key(o2[ps[m].send.stage][i]) = Key(ps[m].send) => i < f2[ps[m].send.stage]
                      /\ \A i \in DOMAIN o2[ps[m].recv.stage] :
                           Key(o2[ps[m].recv.stage][i]) = Key(ps[m].recv) => i < f2[ps[m].recv.stage]
    BY DEF Behind
  <2>1. CASE m = k
    BY <2>1, <1>16, <1>17 DEF s, r, x
  <2>2. CASE m \in 1 .. k - 1
    BY <2>2, <1>18, <1>15
  <2> QED BY <2>1, <2>2, <1>19
<1>21. InStep(o2, ps, k)
  <2> SUFFICES ASSUME NEW l \in 1 .. k, NEW m \in 1 .. k, l < m
               PROVE  /\ ps[l].send.stage = ps[m].send.stage =>
                           \A i, j \in DOMAIN o2[ps[l].send.stage] :
                             Key(o2[ps[l].send.stage][i]) = Key(ps[l].send) /\ Key(o2[ps[l].send.stage][j]) = Key(ps[m].send) =>
                               i < j
                      /\ ps[l].recv.stage = ps[m].recv.stage =>
                           \A i, j \in DOMAIN o2[ps[l].recv.stage] :
                             Key(o2[ps[l].recv.stage][i]) = Key(ps[l].recv) /\ Key(o2[ps[l].recv.stage][j]) = Key(ps[m].recv) =>
                               i < j
    BY DEF InStep
  <2>0. l \in 1 .. k - 1
    BY <1>6
  <2>1. ASSUME ps[l].send.stage = ps[m].send.stage
        PROVE  \A i, j \in DOMAIN o2[ps[l].send.stage] :
                 Key(o2[ps[l].send.stage][i]) = Key(ps[l].send) /\ Key(o2[ps[l].send.stage][j]) = Key(ps[m].send) =>
                   i < j
    <3> DEFINE t == ps[l].send.stage
    <3> SUFFICES ASSUME NEW i \in DOMAIN o2[t], NEW j \in DOMAIN o2[t],
                        Key(o2[t][i]) = Key(ps[l].send), Key(o2[t][j]) = Key(ps[m].send)
                 PROVE  i < j
      OBVIOUS
    <3>1. t \in Stages(c) /\ i \in DOMAIN o[t] /\ Key(o[t][i]) = Key(ps[l].send) /\ i < f[t]
      BY <2>0, <2>1, <1>15, <1>18
    <3>2. CASE m = k
      <4>1. t = s
        BY <3>2, <2>1 DEF s
      <4>2. j >= f[t] /\ j = q
        BY <4>1, <3>2, <2>1, <1>16
      <4> QED BY <4>2, <3>1, <1>9, <1>10
    <3>3. CASE m \in 1 .. k - 1
      <4>0. /\ j \in DOMAIN o2[t] /\ Key(o2[t][j]) = Key(ps[m].send) /\ Key(ps[m].send) # Key(x)
            /\ \A i2 \in DOMAIN o[t] : Key(o[t][i2]) = Key(ps[m].send) => i2 < f[t]
        BY <3>3, <2>1, <1>18
      <4>1. j \in DOMAIN o[t] /\ Key(o[t][j]) = Key(ps[m].send)
        <5> HIDE DEF t
        <5> QED BY <3>1, <4>0, <1>15
      <4> QED BY <3>1, <3>3, <4>1, <2>0, <2>1, <1>1 DEF InStep
    <3> QED BY <3>2, <3>3, <1>19
  <2>2. ASSUME ps[l].recv.stage = ps[m].recv.stage
        PROVE  \A i, j \in DOMAIN o2[ps[l].recv.stage] :
                 Key(o2[ps[l].recv.stage][i]) = Key(ps[l].recv) /\ Key(o2[ps[l].recv.stage][j]) = Key(ps[m].recv) =>
                   i < j
    <3> DEFINE t == ps[l].recv.stage
    <3> SUFFICES ASSUME NEW i \in DOMAIN o2[t], NEW j \in DOMAIN o2[t],
                        Key(o2[t][i]) = Key(ps[l].recv), Key(o2[t][j]) = Key(ps[m].recv)
                 PROVE  i < j
      OBVIOUS
    <3>1. t \in Stages(c) /\ i \in DOMAIN o[t] /\ Key(o[t][i]) = Key(ps[l].recv) /\ i < f[t]
      BY <2>0, <2>2, <1>15, <1>18
    <3>2. CASE m = k
      <4>1. t = r /\ Key(ps[m].recv) = Key(x)
        BY <3>2, <2>2 DEF r, x
      <4>2. j >= f[t] /\ j = p
        BY <4>1, <2>2, <1>17
      <4> QED BY <4>2, <3>1, <1>9, <1>10
    <3>3. CASE m \in 1 .. k - 1
      <4>0. /\ j \in DOMAIN o2[t] /\ Key(o2[t][j]) = Key(ps[m].recv) /\ Key(ps[m].recv) # Key(x)
            /\ \A i2 \in DOMAIN o[t] : Key(o[t][i2]) = Key(ps[m].recv) => i2 < f[t]
        BY <3>3, <2>2, <1>18
      <4>1. j \in DOMAIN o[t] /\ Key(o[t][j]) = Key(ps[m].recv)
        <5> HIDE DEF t
        <5> QED BY <3>1, <4>0, <1>15
      <4> QED BY <3>1, <3>3, <4>1, <2>0, <2>2, <1>1 DEF InStep
    <3> QED BY <3>2, <3>3, <1>19
  <2> QED BY <2>1, <2>2
<1>22. Places(c, o2, f2)
  <2>1. Len(o2[r]) = Len(o[r]) + 1 /\ \A t \in Stages(c) : t # r => o2[t] = o[t]
    BY <1>1, <1>3, <1>6, <1>11, InsertLength DEF o2
  <2>2. Len(o2[r]) = Len(o[r]) + 1
    BY <2>1
  <2>3. ASSUME NEW t \in Stages(c) PROVE f2[t] <= Len(o2[t]) + 1
    <3>1. CASE t = r
      BY <3>1, <2>2, <1>3, <1>9, <1>10
    <3>2. CASE t # r
      <4>1. o2[t] = o[t] /\ f2[t] = IF t = s THEN q + 1 ELSE f[t]
        BY <3>2, <2>1, <1>10
      <4> QED BY <4>1, <1>1, <1>3, <1>9, <1>10
    <3> QED BY <3>1, <3>2
  <2> QED BY <2>3, <1>10 DEF Places
<1> QED BY <1>5, <1>12, <1>13, <1>20, <1>21, <1>22 DEF Receiving

\* What is said of the pairs does not depend on their order.
LEMMA SortedKeep ==
  ASSUME NEW c, NEW src, NEW o, NEW ps \in Seq(Pair), NEW qs \in Seq(Pair), Permutes(ps, qs)
  PROVE  /\ PairsOK(c, src, ps) => PairsOK(c, src, qs)
         /\ Complete(c, src, ps) => Complete(c, src, qs)
         /\ Sends(o, ps, Len(ps)) => Sends(o, qs, Len(qs))
         /\ Recvs(o, ps, 0) => Recvs(o, qs, 0)
<1> DEFINE N == Len(ps)
<1>1. N \in Nat /\ Len(qs) = N
  BY LenProperties DEF Permutes
<1>2. PICK h \in [1 .. N -> 1 .. N] :
        /\ \A i, j \in 1 .. N : h[i] = h[j] => i = j
        /\ \A m \in 1 .. N : \E i \in 1 .. N : h[i] = m
        /\ \A i \in 1 .. N : qs[i] = ps[h[i]]
  BY DEF Permutes
<1>3. \A i \in 1 .. N : h[i] \in 1 .. N
  BY <1>2
<1> HIDE DEF N
<1>4. ASSUME PairsOK(c, src, ps) PROVE PairsOK(c, src, qs)
  <2>1. \A k \in 1 .. N : Ends(c, ps[k]) /\ (ps[k].send.type \in SendTypes => JoinsSome(c, src, ps[k]))
    BY <1>4 DEF PairsOK, N
  <2>2. \A k \in 1 .. N : Ends(c, qs[k]) /\ (qs[k].send.type \in SendTypes => JoinsSome(c, src, qs[k]))
    BY <2>1, <1>2, <1>3
  <2>3. \A k, m \in 1 .. N : k # m => /\ Key(ps[k].send) # Key(ps[m].send)
                                      /\ Key(ps[k].recv) # Key(ps[m].recv)
                                      /\ ps[k].send.pair # ps[m].send.pair
    BY <1>4 DEF PairsOK, Apart, N
  <2>4. \A k, m \in 1 .. N : k # m => /\ Key(qs[k].send) # Key(qs[m].send)
                                      /\ Key(qs[k].recv) # Key(qs[m].recv)
                                      /\ qs[k].send.pair # qs[m].send.pair
    <3> SUFFICES ASSUME NEW k \in 1 .. N, NEW m \in 1 .. N, k # m
                 PROVE  /\ Key(qs[k].send) # Key(qs[m].send)
                        /\ Key(qs[k].recv) # Key(qs[m].recv)
                        /\ qs[k].send.pair # qs[m].send.pair
      OBVIOUS
    <3>1. qs[k] = ps[h[k]] /\ qs[m] = ps[h[m]] /\ h[k] # h[m] /\ h[k] \in 1 .. N /\ h[m] \in 1 .. N
      BY <1>2, <1>3
    <3> QED BY <3>1, <2>3
  <2> QED BY <2>2, <2>4, <1>1 DEF PairsOK, Apart
<1>5. ASSUME Complete(c, src, ps) PROVE Complete(c, src, qs)
  <2> SUFFICES ASSUME NEW s \in Stages(c), NEW t \in Stages(c), NEW i \in DOMAIN src[s], NEW j \in DOMAIN src[t],
                      Feeds(c, src[s][i], src[t][j]), src[t][j].type \in {"F", "B", "BW"}
               PROVE  \E k \in 1 .. Len(qs) : qs[k].send.type \in SendTypes /\ qs[k].deadline = Key(src[t][j])
    BY DEF Complete
  <2>1. PICK m \in 1 .. N : ps[m].send.type \in SendTypes /\ ps[m].deadline = Key(src[t][j])
    BY <1>5 DEF Complete, N
  <2>2. PICK k \in 1 .. N : h[k] = m
    BY <1>2
  <2>3. qs[k] = ps[m]
    BY <1>2, <2>2
  <2> QED BY <2>1, <2>3, <1>1
<1>6. ASSUME Sends(o, ps, N) PROVE Sends(o, qs, N)
  <2>1. ASSUME NEW s \in DOMAIN o, NEW i \in DOMAIN o[s], IsSend(o[s][i])
        PROVE  \E k \in 1 .. N : qs[k].send.stage = s /\ Alike(o[s][i], qs[k].send)
    <3>1. PICK m \in 1 .. N : ps[m].send.stage = s /\ Alike(o[s][i], ps[m].send)
      BY <1>6, <2>1 DEF Sends
    <3>2. PICK k \in 1 .. N : h[k] = m
      BY <1>2
    <3> QED BY <3>1, <3>2, <1>2
  <2>2. ASSUME NEW k \in 1 .. N
        PROVE  \E i \in DOMAIN o[qs[k].send.stage] : Alike(o[qs[k].send.stage][i], qs[k].send)
    <3>1. qs[k] = ps[h[k]] /\ h[k] \in 1 .. N
      BY <1>2, <1>3
    <3> QED BY <3>1, <1>6 DEF Sends
  <2> QED BY <2>1, <2>2 DEF Sends
<1>7. ASSUME Recvs(o, ps, 0) PROVE Recvs(o, qs, 0)
  <2>1. \A k \in 1 .. 0 : FALSE
    OBVIOUS
  <2> QED BY <1>7, <2>1 DEF Recvs
<1> QED BY <1>1, <1>4, <1>5, <1>6, <1>7 DEF N

-----------------------------------------------------------------------------
(* add_send_recv_peer_stage.                                                *)

\* An order that has only the computations of src is whole.
LEMMA ShapeWhole ==
  ASSUME NEW c, NEW src, Sourced(c, src), NEW o \in Orders(c), Shape(src, o)
  PROVE  Whole(src, o) /\ Unverified(o)
<1>1. /\ DOMAIN o = Stages(c) /\ DOMAIN src = Stages(c)
      /\ UniqueKeys(o)
      /\ \A s \in Stages(c) : \A i \in DOMAIN o[s] :
           /\ i \in DOMAIN src[s] /\ o[s][i] \in Node /\ Like(o[s][i], src[s][i])
           /\ IsComputation(o[s][i])
  BY ShapeKeeps
<1>2. Kept(src, o)
  <2>1. ASSUME NEW s \in Stages(c), NEW i \in DOMAIN o[s], NEW k \in DOMAIN src[s],
               Key(o[s][i]) = Key(src[s][k])
        PROVE  i = k
    <3>1. Key(o[s][k]) = Key(src[s][k]) /\ k \in DOMAIN o[s]
      BY <1>1 DEF Shape, Like
    <3> QED BY <1>1, <2>1, <3>1 DEF UniqueKeys
  <2>2. \A s \in Stages(c) : DOMAIN o[s] = DOMAIN src[s]
    BY <1>1 DEF Shape
  <2> QED BY <1>1, <2>1, <2>2 DEF Kept
<1>3. Distinct(o)
  BY <1>1 DEF UniqueKeys, Distinct
<1>4. \A s \in Stages(c) : \A i \in DOMAIN o[s] :
        /\ o[s][i].type \notin SendTypes /\ o[s][i].type \notin RecvTypes
        /\ o[s][i].type \notin PostValidationTypes
  <2>1. \A s \in Stages(c) : \A i \in DOMAIN o[s] : o[s][i].type \in ComputeTypes
    BY <1>1 DEF IsComputation
  <2> QED BY <2>1 DEF ComputeTypes, SendTypes, RecvTypes, PostValidationTypes
<1>5. Placed(o)
  BY <1>1, <1>4 DEF Placed
<1>6. Clean(o)
  BY <1>1 DEF Clean
<1>7. Unverified(o)
  BY <1>1, <1>4 DEF Unverified
<1> QED BY <1>2, <1>3, <1>5, <1>6, <1>7 DEF Whole

\* Finding the peers, their fields are right and all else stays.
LEMMA PeersFound ==
  ASSUME NEW c, NEW src, Sourced(c, src), Staged(src)
  PROVE  LET o == AddSendRecvPeerStage(c, src)
         IN  /\ o \in Orders(c) /\ Shape(src, o) /\ Peers(c, src, o)
             /\ \A s \in Stages(c) : \A i \in DOMAIN src[s] :
                  o[s][i].start = src[s][i].start /\ o[s][i].end = src[s][i].end
<1> DEFINE L == NumLayerGroups(c)
           nodes == AllNodes(src)
           Other(n, related) == LET peers == {p.stage : p \in related} \ {n.stage}
                                IN  IF peers = {} THEN None ELSE CHOOSE s \in peers : TRUE
           From(n) == Other(n, {p \in nodes : Key(p) = PrevKey(n, L)})
           To(n) == Other(n, {p \in nodes : PrevKey(p, L) = Key(n)})
           new(n) == [n EXCEPT !.recvPeer = From(n), !.sendPeer = To(n)]
           o == AddSendRecvPeerStage(c, src)
<1>1. DOMAIN src = Stages(c) /\ src \in Orders(c) /\ \A s \in Stages(c) : src[s] \in Seq(Node)
  BY DEF Sourced, Orders
<1>2. o = [s \in Stages(c) |-> [i \in DOMAIN src[s] |-> new(src[s][i])] \o <<>>]
  BY <1>1 DEF AddSendRecvPeerStage
<1> HIDE DEF o
<1>3. \A n \in nodes : n \in Node /\ n.stage \in Stages(c) /\ n.stage # None /\ n.stage \in Int
  BY <1>1, ElementOfSeq DEF AllNodes, Staged, Stages, None, Sourced
<1>4. ASSUME NEW n \in nodes, NEW related \in SUBSET nodes
      PROVE  /\ Other(n, related) \in Int
             /\ Other(n, related) # n.stage
             /\ Other(n, related) # None <=> \E p \in related : p.stage # n.stage
  <2> DEFINE peers == {p.stage : p \in related} \ {n.stage}
  <2> HIDE DEF nodes
  <2>1. \A s \in peers : s \in Int /\ s # None /\ s # n.stage
    BY <1>3
  <2>2. None \in Int
    BY DEF None
  <2>3. peers # {} <=> \E p \in related : p.stage # n.stage
    OBVIOUS
  <2>4. Other(n, related) = IF peers = {} THEN None ELSE CHOOSE s \in peers : TRUE
    OBVIOUS
  <2> HIDE DEF Other, peers
  <2>5. CASE peers = {}
    BY <2>2, <2>3, <2>4, <2>5, <1>3
  <2>6. CASE peers # {}
    <3>1. Other(n, related) \in peers
      BY <2>4, <2>6
    <3> QED BY <2>1, <2>3, <2>6, <3>1
  <2> QED BY <2>5, <2>6
<1>5. ASSUME NEW s \in Stages(c), NEW i \in DOMAIN src[s]
      PROVE  LET n == src[s][i]
             IN  /\ n \in nodes /\ From(n) \in Int /\ To(n) \in Int
                 /\ From(n) # n.stage
                 /\ From(n) # None <=> \E t \in DOMAIN src : \E j \in DOMAIN src[t] : Feeds(c, src[t][j], n)
                 /\ To(n) # None <=> \E t \in DOMAIN src : \E j \in DOMAIN src[t] : Feeds(c, n, src[t][j])
  <2> DEFINE n == src[s][i]
             before == {p \in nodes : Key(p) = PrevKey(n, L)}
             behind == {p \in nodes : PrevKey(p, L) = Key(n)}
  <2>1. n \in nodes
    BY <1>1, InAllNodes
  <2>2. \A p : p \in nodes <=> \E t \in DOMAIN src : \E j \in DOMAIN src[t] : p = src[t][j]
    BY DEF AllNodes
  <2>3. (\E p \in before : p.stage # n.stage) <=> \E t \in DOMAIN src : \E j \in DOMAIN src[t] : Feeds(c, src[t][j], n)
    BY <2>2 DEF Feeds
  <2>4. (\E p \in behind : p.stage # n.stage) <=> \E t \in DOMAIN src : \E j \in DOMAIN src[t] : Feeds(c, n, src[t][j])
    BY <2>2 DEF Feeds
  <2>5. before \in SUBSET nodes /\ behind \in SUBSET nodes
    OBVIOUS
  <2>6. From(n) = Other(n, before) /\ To(n) = Other(n, behind)
    OBVIOUS
  <2> HIDE DEF n, before, behind, Other, nodes, From, To
  <2> QED BY <2>1, <2>3, <2>4, <2>5, <2>6, <1>4 DEF n
<1> HIDE DEF From, To, Other, nodes
<1>6. ASSUME NEW s \in Stages(c), NEW i \in DOMAIN src[s]
      PROVE  LET n == src[s][i]
             IN  /\ new(n) \in Node
                 /\ Like(new(n), n) /\ new(n).start = n.start /\ new(n).end = n.end
                 /\ new(n).recvPeer = From(n) /\ new(n).sendPeer = To(n)
  <2> DEFINE n == src[s][i]
  <2>1. n \in Node /\ From(n) \in Int /\ To(n) \in Int
    BY <1>1, <1>5, ElementOfSeq
  <2> HIDE DEF n
  <2>2. new(n) \in Node
    BY <2>1 DEF Node
  <2>3. Like(new(n), n) /\ new(n).start = n.start /\ new(n).end = n.end
    BY <2>1 DEF Node, Like, Key, MakeKey
  <2>4. new(n).recvPeer = From(n) /\ new(n).sendPeer = To(n)
    BY <2>1 DEF Node
  <2> QED BY <2>2, <2>3, <2>4 DEF n
<1> HIDE DEF new
<1>7. ASSUME NEW s \in Stages(c)
      PROVE  /\ o[s] \in Seq(Node) /\ DOMAIN o[s] = DOMAIN src[s]
             /\ \A i \in DOMAIN src[s] : o[s][i] = new(src[s][i])
  <2> DEFINE q == [i \in DOMAIN src[s] |-> new(src[s][i])]
  <2>1. DOMAIN src[s] = 1 .. Len(src[s]) /\ Len(src[s]) \in Nat
    BY <1>1, LenProperties
  <2>2. q \in Seq(Node) /\ DOMAIN q = DOMAIN src[s]
    <3>1. q \in [1 .. Len(src[s]) -> Node]
      BY <2>1, <1>6
    <3> HIDE DEF q
    <3> QED BY <2>1, <3>1, SeqDef
  <2>3. o[s] = q \o <<>>
    BY <1>2
  <2>4. \A i \in DOMAIN src[s] : q[i] = new(src[s][i])
    OBVIOUS
  <2> HIDE DEF q
  <2>5. q \o <<>> = q
    BY <2>2
  <2> QED BY <2>2, <2>3, <2>4, <2>5
<1>8. o \in Orders(c) /\ DOMAIN o = Stages(c)
  <2>1. o = [s \in Stages(c) |-> o[s]]
    BY <1>2
  <2> QED BY <2>1, <1>7 DEF Orders
<1>9. Shape(src, o)
  BY <1>1, <1>6, <1>7 DEF Shape
<1>10. Peers(c, src, o)
  <2> SUFFICES ASSUME NEW s \in Stages(c), NEW i \in DOMAIN o[s]
               PROVE  RightPeers(c, src, o[s][i])
    BY <1>8 DEF Peers
  <2> DEFINE n == src[s][i]
             m == o[s][i]
  <2>1. i \in DOMAIN src[s] /\ m = new(n)
    BY <1>7
  <2>2. Like(m, n) /\ m.recvPeer = From(n) /\ m.sendPeer = To(n)
    BY <2>1, <1>6
  <2>3. /\ From(n) # n.stage
        /\ From(n) # None <=> \E t \in DOMAIN src : \E j \in DOMAIN src[t] : Feeds(c, src[t][j], n)
        /\ To(n) # None <=> \E t \in DOMAIN src : \E j \in DOMAIN src[t] : Feeds(c, n, src[t][j])
    BY <2>1, <1>5
  <2> HIDE DEF n, m
  <2>4. \A a : (Feeds(c, a, n) <=> Feeds(c, a, m)) /\ (Feeds(c, n, a) <=> Feeds(c, m, a))
    BY <2>2, PrevOfKey DEF Feeds, Like
  <2>5. RightPeers(c, src, m)
    BY <2>2, <2>3, <2>4 DEF RightPeers, Like
  <2> QED BY <2>5 DEF m
<1>11. \A s \in Stages(c) : \A i \in DOMAIN src[s] :
         o[s][i].start = src[s][i].start /\ o[s][i].end = src[s][i].end
  BY <1>6, <1>7
<1> QED BY <1>8, <1>9, <1>10, <1>11 DEF o

(* The costs of a configuration.                                              *)
Costed(c) == \A s \in Stages(c) : c.f[s] \in Nat /\ c.b[s] \in Nat /\ c.w[s] \in Nat

(* What add_time has simulated of the order lo: of each stage the nodes in    *)
(* front, at times that can happen and not after the stage is free again,     *)
(* none before that it waits for.                                             *)
Simulated(c, lo, sim) ==
  /\ sim.order \in Orders(c) /\ sim.time \in [Stages(c) -> Nat]
  /\ \A s \in Stages(c) :
       /\ Len(sim.order[s]) <= Len(lo[s])
       /\ \A i \in DOMAIN sim.order[s] : /\ Alike(sim.order[s][i], lo[s][i])
                                         /\ sim.order[s][i].end <= sim.time[s]
  /\ NoOverlap(sim.order) /\ AfterDependency(c, sim.order)
  /\ \A s \in Stages(c) : \A i \in DOMAIN sim.order[s] :
       LET prev == PrevKey(sim.order[s][i], NumLayerGroups(c))
       IN  prev = NoKey \/ \E t \in Stages(c) : \E j \in DOMAIN sim.order[t] : Key(sim.order[t][j]) = prev

-----------------------------------------------------------------------------
(* add_time.                                                                *)

\* Before the first round nothing has run.
LEMMA NotRunYet ==
  ASSUME NEW c, NEW lo \in Orders(c)
  PROVE  Simulated(c, lo, EmptySim(c))
<1> DEFINE o == [s \in Stages(c) |-> <<>>]
           time == [s \in Stages(c) |-> 0]
<1>1. EmptySim(c).order = o /\ EmptySim(c).time = time
  BY DEF EmptySim
<1>2. o \in Orders(c) /\ time \in [Stages(c) -> Nat] /\ DOMAIN o = Stages(c)
  BY DEF Orders
<1>3. \A s \in Stages(c) : Len(o[s]) = 0 /\ DOMAIN o[s] = {} /\ Len(lo[s]) \in Nat
  BY LenProperties DEF Orders
<1> HIDE DEF o, time
<1>4. NoOverlap(o) /\ AfterDependency(c, o)
  BY <1>2, <1>3 DEF NoOverlap, AfterDependency
<1> QED BY <1>1, <1>2, <1>3, <1>4 DEF Simulated

\* A node that is given its times.
Timed(n, t, end) == [n EXCEPT !.start = t, !.end = end]

\* It is the same computation.
LEMMA TimedNode ==
  ASSUME NEW n \in Node, NEW t \in Nat, NEW end \in Nat
  PROVE  /\ Timed(n, t, end) \in Node /\ Alike(Timed(n, t, end), n)
         /\ Timed(n, t, end).start = t /\ Timed(n, t, end).end = end
<1> SUFFICES ASSUME NEW m, m = [n EXCEPT !.start = t, !.end = end]
             PROVE  m \in Node /\ Alike(m, n) /\ m.start = t /\ m.end = end
  BY DEF Timed
<1>1. n = [type |-> n.type, stage |-> n.stage, mb |-> n.mb, chunk |-> n.chunk, seq |-> n.seq,
           lg |-> n.lg, start |-> n.start, end |-> n.end, recvPeer |-> n.recvPeer,
           sendPeer |-> n.sendPeer, dir |-> n.dir, peer |-> n.peer, pair |-> n.pair,
           rollback |-> n.rollback, recompute |-> n.recompute, offload |-> n.offload]
  BY DEF Node
<1>2. m = [type |-> n.type, stage |-> n.stage, mb |-> n.mb, chunk |-> n.chunk, seq |-> n.seq,
           lg |-> n.lg, start |-> t, end |-> end, recvPeer |-> n.recvPeer,
           sendPeer |-> n.sendPeer, dir |-> n.dir, peer |-> n.peer, pair |-> n.pair,
           rollback |-> n.rollback, recompute |-> n.recompute, offload |-> n.offload]
  BY <1>1
<1>3. m \in Node
  BY <1>2 DEF Node
<1>4. Alike(m, n)
  BY <1>2 DEF Alike, Like, Key, MakeKey
<1> QED BY <1>2, <1>3, <1>4

\* A round of add_time runs one more node, at a time that can happen.
LEMMA NodeRun ==
  ASSUME NEW c, NEW src, Sourced(c, src), Staged(src), Costed(c), NEW lo \in Orders(c),
         Shape(src, lo),
         NEW sim, Simulated(c, lo, sim), NEW s \in Stages(c), CanRun(c, lo, sim, s)
  PROVE  Simulated(c, lo, RunNode(c, lo, sim, s))
<1> DEFINE L == NumLayerGroups(c)
           n == NextNode(lo, sim, s)
           prev == PrevKey(n, L)
           avail == Available(c, sim, s, prev)
           t == IF avail > sim.time[s] THEN avail ELSE sim.time[s]
           end == t + SimulatedCost(c, n)
           m == Timed(n, t, end)
           o == sim.order
           o2 == [o EXCEPT ![s] = Append(o[s], m)]
           time2 == [sim.time EXCEPT ![s] = end]
           k == Len(o[s]) + 1
<1>1. RunNode(c, lo, sim, s).order = o2 /\ RunNode(c, lo, sim, s).time = time2
  BY DEF RunNode, Timed
<1>2. /\ o \in Orders(c) /\ sim.time \in [Stages(c) -> Nat] /\ DOMAIN o = Stages(c)
      /\ \A u \in Stages(c) :
           /\ Len(o[u]) \in Nat /\ DOMAIN o[u] = 1 .. Len(o[u]) /\ Len(o[u]) <= Len(lo[u])
           /\ Len(lo[u]) \in Nat /\ DOMAIN lo[u] = 1 .. Len(lo[u])
           /\ \A i \in DOMAIN o[u] : i \in DOMAIN lo[u] /\ Alike(o[u][i], lo[u][i]) /\ o[u][i].end <= sim.time[u]
  BY LenProperties DEF Simulated, Orders
<1>3. /\ DOMAIN lo = Stages(c) /\ DOMAIN src = Stages(c) /\ UniqueKeys(lo)
      /\ \A u \in Stages(c) : \A i \in DOMAIN lo[u] :
           /\ i \in DOMAIN src[u] /\ lo[u][i] \in Node /\ Like(lo[u][i], src[u][i])
           /\ IsComputation(lo[u][i]) /\ lo[u][i].stage = u
  <2>1. /\ DOMAIN lo = Stages(c) /\ DOMAIN src = Stages(c) /\ UniqueKeys(lo)
        /\ \A u \in Stages(c) : \A i \in DOMAIN lo[u] :
             /\ i \in DOMAIN src[u] /\ lo[u][i] \in Node /\ Like(lo[u][i], src[u][i])
             /\ IsComputation(lo[u][i])
    BY ShapeKeeps
  <2>2. \A u \in Stages(c) : \A i \in DOMAIN lo[u] : lo[u][i].stage = u
    BY <2>1 DEF Staged, Like
  <2> QED BY <2>1, <2>2
<1>4. k \in DOMAIN lo[s] /\ n = lo[s][k] /\ k \in Nat
  <2>1. Len(o[s]) < Len(lo[s])
    BY DEF CanRun
  <2> QED BY <2>1, <1>2 DEF NextNode
<1>5. n \in Node /\ IsComputation(n) /\ n.stage = s
  BY <1>3, <1>4
<1>6. prev = NoKey \/ \E u \in Stages(c) : \E j \in DOMAIN o[u] : Key(o[u][j]) = prev
  BY <1>2 DEF CanRun, AllNodes
<1> HIDE DEF n, k
<1>7. \A u \in Stages(c) : \A i \in DOMAIN o[u] :
        /\ o[u][i] \in Node /\ o[u][i].stage = u /\ IsComputation(o[u][i])
        /\ Key(o[u][i]) # Key(n)
        /\ Key(o[u][i]) = Key(lo[u][i])
  <2> SUFFICES ASSUME NEW u \in Stages(c), NEW i \in DOMAIN o[u]
               PROVE  /\ o[u][i] \in Node /\ o[u][i].stage = u /\ IsComputation(o[u][i])
                      /\ Key(o[u][i]) # Key(n)
                      /\ Key(o[u][i]) = Key(lo[u][i])
    OBVIOUS
  <2>1. Alike(o[u][i], lo[u][i]) /\ i \in DOMAIN lo[u]
    BY <1>2
  <2>2. o[u][i] \in Node
    BY <1>2, ElementOfSeq DEF Orders
  <2>3. o[u][i].stage = u /\ IsComputation(o[u][i]) /\ Key(o[u][i]) = Key(lo[u][i])
    BY <2>1, <1>3, LikeKind DEF Alike, Like
  <2>4. Key(o[u][i]) # Key(n)
    <3> SUFFICES ASSUME Key(lo[u][i]) = Key(n) PROVE FALSE
      BY <2>3
    <3>1. u = s /\ i = k
      BY <2>1, <1>3, <1>4 DEF UniqueKeys
    <3> QED BY <3>1, <1>2 DEF k
  <2> QED BY <2>2, <2>3, <2>4
<1>8. \A u, v \in Stages(c) : \A i \in DOMAIN o[u], j \in DOMAIN o[v] :
        Key(o[u][i]) = Key(o[v][j]) => u = v /\ i = j
  BY <1>2, <1>3, <1>7 DEF UniqueKeys
<1>9. \A a : IsComputation(a) => Key(a) # NoKey
  BY DEF IsComputation, ComputeTypes, Key, MakeKey, NoKey
<1>10. c.comm \in Nat /\ SimulatedCost(c, n) \in Nat
  <2>1. c.comm \in Nat
    BY DEF Sourced
  <2>2. c.f[n.stage] \in Nat /\ c.b[n.stage] \in Nat /\ c.w[n.stage] \in Nat
    BY <1>5 DEF Costed
  <2> QED BY <2>1, <2>2 DEF SimulatedCost
<1>11. /\ avail \in Int
       /\ \A u \in Stages(c) : \A j \in DOMAIN o[u] : Key(o[u][j]) = prev =>
            o[u][j].end + (IF s = u THEN 0 ELSE c.comm) <= avail
  <2> DEFINE from == CHOOSE d \in AllNodes(o) : Key(d) = prev
  <2>1. CASE prev = NoKey
    <3>1. avail = 0
      BY <2>1 DEF Available
    <3>2. \A u \in Stages(c) : \A j \in DOMAIN o[u] : Key(o[u][j]) # prev
      BY <2>1, <1>7, <1>9
    <3> HIDE DEF avail, prev
    <3> QED BY <3>1, <3>2
  <2>2. CASE prev # NoKey
    <3> HIDE DEF prev
    <3>0. PICK u \in Stages(c) : \E j \in DOMAIN o[u] : Key(o[u][j]) = prev
      BY <2>2, <1>6
    <3>1. PICK j \in DOMAIN o[u] : Key(o[u][j]) = prev
      BY <3>0
    <3>2. o[u][j] \in AllNodes(o)
      BY <1>2, InAllNodes
    <3>3. from \in AllNodes(o) /\ Key(from) = prev
      BY <3>1, <3>2
    <3>4. from = o[u][j]
      <4> HIDE DEF from
      <4>0. PICK v \in Stages(c) : \E i \in DOMAIN o[v] : from = o[v][i]
        BY <3>3, <1>2 DEF AllNodes
      <4>1. PICK i \in DOMAIN o[v] : from = o[v][i]
        BY <4>0
      <4> QED BY <4>1, <3>1, <3>3, <1>8
    <3>5. avail = from.end + (IF from.stage # s THEN c.comm ELSE 0)
      BY <2>2 DEF Available
    <3> HIDE DEF from, avail
    <3>6. from.end \in Int /\ from.stage = u
      BY <3>4, <1>7 DEF Node
    <3>7. \A v \in Stages(c) : \A i \in DOMAIN o[v] : Key(o[v][i]) = prev => v = u /\ i = j
      BY <3>1, <1>8
    <3> QED BY <3>4, <3>5, <3>6, <3>7, <1>10
  <2> QED BY <2>1, <2>2
<1>12. /\ sim.time[s] \in Nat /\ t \in Nat /\ end \in Nat
       /\ avail <= t /\ sim.time[s] <= t /\ t <= end /\ sim.time[s] <= end
  <2> HIDE DEF avail
  <2>1. sim.time[s] \in Nat
    BY <1>2
  <2>2. t \in Nat /\ avail <= t /\ sim.time[s] <= t
    BY <2>1, <1>11
  <2> HIDE DEF t
  <2> QED BY <2>1, <2>2, <1>10
<1> HIDE DEF t, end, avail
<1>13. /\ m \in Node /\ Alike(m, n) /\ m.start = t /\ m.end = end
  BY <1>5, <1>12, TimedNode
<1> HIDE DEF m
<1>14. /\ o2 \in Orders(c) /\ DOMAIN o2 = Stages(c)
       /\ Len(o2[s]) = k /\ DOMAIN o2[s] = 1 .. k /\ o2[s][k] = m
       /\ \A i \in DOMAIN o[s] : i \in DOMAIN o2[s] /\ o2[s][i] = o[s][i]
       /\ \A u \in Stages(c) : u # s => o2[u] = o[u]
  <2> DEFINE q == o[s]
             q2 == Append(q, m)
  <2>1. q \in Seq(Node)
    BY <1>2 DEF Orders
  <2>2. /\ q2 \in Seq(Node) /\ Len(q2) = Len(q) + 1 /\ q2[Len(q) + 1] = m
        /\ \A i \in 1 .. Len(q) : q2[i] = q[i]
    BY <2>1, <1>13, AppendProperties
  <2> HIDE DEF q2
  <2>3. DOMAIN q2 = 1 .. Len(q) + 1 /\ Len(q) \in Nat
    BY <2>1, <2>2, LenProperties
  <2>4. o2[s] = q2 /\ (\A u \in Stages(c) : u # s => o2[u] = o[u]) /\ o2 \in Orders(c) /\ DOMAIN o2 = Stages(c)
    BY <1>2, <2>2 DEF Orders, q2
  <2> QED BY <2>2, <2>3, <2>4, <1>2 DEF k
<1> HIDE DEF o2, o
<1>15. ASSUME NEW u \in Stages(c), NEW i \in DOMAIN o2[u]
       PROVE  (u = s /\ i = k /\ o2[u][i] = m) \/ (i \in DOMAIN o[u] /\ o2[u][i] = o[u][i])
  <2>1. CASE u # s
    BY <2>1, <1>14
  <2>2. CASE u = s
    <3>1. i \in 1 .. k
      BY <2>2, <1>14
    <3>2. i = k \/ i \in 1 .. Len(o[s])
      BY <3>1, <1>2 DEF k
    <3> QED BY <3>2, <2>2, <1>2, <1>14
  <2> QED BY <2>1, <2>2
<1>16. /\ time2 \in [Stages(c) -> Nat] /\ time2[s] = end
       /\ \A u \in Stages(c) : u # s => time2[u] = sim.time[u]
  BY <1>2, <1>12
<1> HIDE DEF time2
<1>17. ASSUME NEW u \in Stages(c)
       PROVE  /\ Len(o2[u]) <= Len(lo[u])
              /\ \A i \in DOMAIN o2[u] : Alike(o2[u][i], lo[u][i]) /\ o2[u][i].end <= time2[u]
  <2>1. Len(o2[u]) <= Len(lo[u])
    BY <1>2, <1>4, <1>14
  <2>2. ASSUME NEW i \in DOMAIN o2[u] PROVE Alike(o2[u][i], lo[u][i]) /\ o2[u][i].end <= time2[u]
    <3>1. CASE u = s /\ i = k /\ o2[u][i] = m
      BY <3>1, <1>4, <1>12, <1>13, <1>16
    <3>2. CASE i \in DOMAIN o[u] /\ o2[u][i] = o[u][i]
      <4>1. /\ Alike(o[u][i], lo[u][i]) /\ o[u][i].end <= sim.time[u]
            /\ o[u][i].end \in Int /\ sim.time[u] \in Nat
        BY <3>2, <1>2, <1>7 DEF Node
      <4> QED BY <4>1, <3>2, <1>12, <1>16
    <3> QED BY <3>1, <3>2, <1>15
  <2> QED BY <2>1, <2>2
<1>18. NoOverlap(o2)
  <2> SUFFICES ASSUME NEW u \in Stages(c), NEW i \in DOMAIN o2[u], NEW j \in DOMAIN o2[u], i < j
               PROVE  o2[u][i].end <= o2[u][j].start
    BY <1>14 DEF NoOverlap
  <2>1. CASE j \in DOMAIN o[u] /\ o2[u][j] = o[u][j]
    <3>1. i \in DOMAIN o[u] /\ o2[u][i] = o[u][i]
      <4>1. i # k \/ u # s
        BY <2>1, <1>2 DEF k
      <4> QED BY <4>1, <1>15
    <3>2. IsComputation(o[u][i]) /\ IsComputation(o[u][j])
      BY <2>1, <3>1, <1>7
    <3>3. NoOverlap(o)
      BY DEF Simulated, o
    <3> QED BY <2>1, <3>1, <3>2, <3>3, <1>2 DEF NoOverlap
  <2>2. CASE u = s /\ j = k /\ o2[u][j] = m
    <3>1. i \in DOMAIN o[u] /\ o2[u][i] = o[u][i]
      <4>1. i # k
        BY <2>2, <1>4, <1>14
      <4> QED BY <4>1, <1>15
    <3>2. o[u][i].end <= sim.time[s] /\ o[u][i].end \in Int
      BY <2>2, <3>1, <1>2, <1>7 DEF Node
    <3> QED BY <2>2, <3>1, <3>2, <1>12, <1>13
  <2> QED BY <2>1, <2>2, <1>15
\* What a node waits for is in the order before it is.
<1>19. PrevKey(m, L) = prev /\ Key(m) = Key(n)
  BY <1>13, PrevOfKey DEF Alike, Like
<1>20. ASSUME NEW u \in Stages(c), NEW i \in DOMAIN o[u]
       PROVE  LET p == PrevKey(o[u][i], L)
              IN  /\ p = NoKey \/ \E v \in Stages(c) : \E j \in DOMAIN o[v] : Key(o[v][j]) = p
                  /\ p # Key(n)
  <2>1. LET p == PrevKey(o[u][i], L)
        IN  p = NoKey \/ \E v \in Stages(c) : \E j \in DOMAIN o[v] : Key(o[v][j]) = p
    BY DEF Simulated, o
  <2> QED BY <2>1, <1>5, <1>7, <1>9
<1>21. prev # Key(n)
  BY <1>5, <1>6, <1>7, <1>9
<1> HIDE DEF prev, L
<1>22. AfterDependency(c, o2)
  <2> SUFFICES ASSUME NEW u \in Stages(c), NEW v \in Stages(c), NEW i \in DOMAIN o2[u], NEW j \in DOMAIN o2[v],
                      Key(o2[v][j]) = PrevKey(o2[u][i], L)
               PROVE  o2[v][j].end + (IF u = v THEN 0 ELSE c.comm) <= o2[u][i].start
    BY <1>14 DEF AfterDependency, L
  <2>1. CASE u = s /\ i = k /\ o2[u][i] = m
    <3>1. j \in DOMAIN o[v] /\ o2[v][j] = o[v][j]
      BY <2>1, <1>15, <1>19, <1>21
    <3>2. Key(o[v][j]) = prev
      BY <2>1, <3>1, <1>19
    <3>3. o[v][j].end + (IF s = v THEN 0 ELSE c.comm) <= avail /\ o[v][j].end \in Int
      BY <3>1, <3>2, <1>7, <1>11 DEF Node
    <3> QED BY <2>1, <3>1, <3>3, <1>10, <1>11, <1>12, <1>13
  <2>2. CASE i \in DOMAIN o[u] /\ o2[u][i] = o[u][i]
    <3>1. j \in DOMAIN o[v] /\ o2[v][j] = o[v][j]
      BY <2>2, <1>15, <1>19, <1>20
    <3>2. AfterDependency(c, o)
      BY DEF Simulated, o
    <3>3. Key(o[v][j]) = PrevKey(o[u][i], NumLayerGroups(c))
      BY <2>2, <3>1 DEF L
    <3> QED BY <2>2, <3>1, <3>2, <3>3, <1>2, <1>7 DEF AfterDependency
  <2> QED BY <2>1, <2>2, <1>15
<1>23. ASSUME NEW u \in Stages(c), NEW i \in DOMAIN o2[u]
       PROVE  LET p == PrevKey(o2[u][i], L)
              IN  p = NoKey \/ \E v \in Stages(c) : \E j \in DOMAIN o2[v] : Key(o2[v][j]) = p
  <2>1. \A v \in Stages(c) : \A j \in DOMAIN o[v] : j \in DOMAIN o2[v] /\ o2[v][j] = o[v][j]
    BY <1>14
  <2>2. CASE u = s /\ i = k /\ o2[u][i] = m
    BY <2>1, <2>2, <1>6, <1>19
  <2>3. CASE i \in DOMAIN o[u] /\ o2[u][i] = o[u][i]
    BY <2>1, <2>3, <1>20
  <2> QED BY <2>2, <2>3, <1>15
<1> DEFINE res == RunNode(c, lo, sim, s)
<1>24. res.order = o2 /\ res.time = time2
  BY <1>1 DEF o, o2, time2
<1> HIDE DEF res
<1>25. /\ o2 \in Orders(c) /\ time2 \in [Stages(c) -> Nat] /\ NoOverlap(o2) /\ AfterDependency(c, o2)
       /\ \A u \in Stages(c) :
            /\ Len(o2[u]) <= Len(lo[u])
            /\ \A i \in DOMAIN o2[u] : Alike(o2[u][i], lo[u][i]) /\ o2[u][i].end <= time2[u]
       /\ \A u \in Stages(c) : \A i \in DOMAIN o2[u] :
            LET p == PrevKey(o2[u][i], NumLayerGroups(c))
            IN  p = NoKey \/ \E v \in Stages(c) : \E j \in DOMAIN o2[v] : Key(o2[v][j]) = p
  BY <1>14, <1>16, <1>17, <1>18, <1>22, <1>23 DEF L
<1>26. Simulated(c, lo, res)
  BY <1>24, <1>25 DEF Simulated
<1> QED BY <1>26 DEF res

\* When every node has run the simulated order has the shape of the program's.
LEMMA AllSimulated ==
  ASSUME NEW c, NEW src, Sourced(c, src), NEW lo \in Orders(c), Shape(src, lo), Peers(c, src, lo),
         NEW sim, Simulated(c, lo, sim), \A s \in Stages(c) : Len(sim.order[s]) = Len(lo[s])
  PROVE  /\ sim.order \in Orders(c) /\ Shape(src, sim.order) /\ Peers(c, src, sim.order)
         /\ NoOverlap(sim.order) /\ AfterDependency(c, sim.order)
<1> DEFINE o == sim.order
<1>1. /\ o \in Orders(c) /\ DOMAIN o = Stages(c) /\ DOMAIN lo = Stages(c) /\ DOMAIN src = Stages(c)
      /\ \A s \in Stages(c) : \A i \in DOMAIN o[s] : Alike(o[s][i], lo[s][i])
      /\ NoOverlap(o) /\ AfterDependency(c, o)
  BY DEF Simulated, Orders, Sourced
<1>2. \A s \in Stages(c) : DOMAIN o[s] = DOMAIN lo[s]
  BY LenProperties DEF Simulated, Orders
<1> HIDE DEF o
<1>3. Shape(src, o)
  BY <1>1, <1>2 DEF Shape, Alike, Like
<1>4. Peers(c, src, o)
  <2> SUFFICES ASSUME NEW s \in Stages(c), NEW i \in DOMAIN o[s], IsComputation(o[s][i])
               PROVE  RightPeers(c, src, o[s][i])
    BY <1>1 DEF Peers
  <2>1. Alike(o[s][i], lo[s][i]) /\ i \in DOMAIN lo[s]
    BY <1>1, <1>2
  <2>2. IsComputation(lo[s][i])
    BY <2>1, LikeKind DEF Alike, Like
  <2>3. RightPeers(c, src, lo[s][i])
    BY <1>1, <2>1, <2>2 DEF Peers
  <2> QED BY <2>1, <2>3, PeersAlike
<1> QED BY <1>1, <1>3, <1>4 DEF o

-----------------------------------------------------------------------------
(* The other fields of the nodes.                                           *)

(* o2 is o with other values in some fields.                                  *)
Relabels(o, o2) ==
  /\ DOMAIN o2 = DOMAIN o
  /\ \A s \in DOMAIN o : /\ DOMAIN o2[s] = DOMAIN o[s]
                         /\ \A i \in DOMAIN o[s] : Alike(o2[s][i], o[s][i])

\* What is said of the nodes stays true with other values in those fields.
LEMMA Relabelled ==
  ASSUME NEW c, NEW src, Sourced(c, src), NEW o \in Orders(c), Whole(src, o), Peers(c, src, o),
         NEW o2 \in Orders(c), Relabels(o, o2), NEW ps, NEW n \in Nat, NEW m \in Nat,
         \A k \in 1 .. n : ps[k].send.stage \in Stages(c),
         \A k \in 1 .. m : ps[k].recv.stage \in Stages(c),
         Sends(o, ps, n), Recvs(o, ps, m)
  PROVE  Whole(src, o2) /\ Peers(c, src, o2) /\ Sends(o2, ps, n) /\ Recvs(o2, ps, m)
<1> DEFINE e == [s \in DOMAIN o |-> [i \in DOMAIN o[s] |-> i]]
           X == [s \in DOMAIN o |-> {}]
<1>1. DOMAIN o = Stages(c) /\ DOMAIN src = Stages(c) /\ DOMAIN o2 = DOMAIN o
  BY DEF Orders, Sourced
<1>2. \A s \in DOMAIN o : X[s] = {} /\ \A i \in DOMAIN o[s] : e[s][i] = i
  OBVIOUS
<1> HIDE DEF e, X
<1>3. Grows(o, o2, e, X)
  BY <1>1, <1>2 DEF Grows, Relabels
<1>4. \A s \in DOMAIN o : \A i, j \in DOMAIN o[s] : i = j \/ i < j \/ j < i
  <2>1. \A s \in DOMAIN o : DOMAIN o[s] = 1 .. Len(o[s]) /\ Len(o[s]) \in Nat
    BY LenProperties DEF Orders
  <2> QED BY <2>1
<1>5. Kept(src, o2)
  <2>1. \A s \in DOMAIN src : \A k \in DOMAIN src[s] : IsComputation(src[s][k])
    BY <1>1 DEF Sourced
  <2>2. \A s \in DOMAIN o : \A x \in X[s] : ~ IsComputation(o2[s][x])
    BY <1>2
  <2> QED BY <1>1, <1>3, <2>1, <2>2, KeptGrows DEF Whole
<1>6. Distinct(o2)
  <2>1. \A s \in DOMAIN o : \A x \in X[s] : \A i \in DOMAIN o2[s] : Key(o2[s][x]) = Key(o2[s][i]) => x = i
    BY <1>2
  <2> QED BY <1>3, <1>4, <2>1, DistinctGrows DEF Whole
<1>7. Placed(o2)
  <2>1. \A s \in DOMAIN o : \A x \in X[s] :
           /\ o2[s][x].type \in SendTypes =>
                \E j \in DOMAIN o2[s] : j < x /\ Carries(o2[s][x], o2[s][j])
           /\ o2[s][x].type \in RecvTypes =>
                \E j \in DOMAIN o2[s] : x < j /\ Carries(o2[s][x], o2[s][j])
    BY <1>2
  <2> QED BY <1>3, <2>1, PlacedGrows DEF Whole
<1>8. Clean(o2)
  <2>1. \A s \in DOMAIN o : \A x \in X[s] :
           IsSend(o2[s][x]) \/ IsRecv(o2[s][x]) \/ o2[s][x].type = "POST_VALIDATION"
    BY <1>2
  <2> QED BY <1>3, <2>1, CleanGrows DEF Whole
<1>9. Peers(c, src, o2)
  <2>1. \A s \in DOMAIN o : \A x \in X[s] : ~ IsComputation(o2[s][x])
    BY <1>2
  <2> QED BY <1>3, <2>1, PeersGrow
<1>10. Sends(o2, ps, n)
  <2>1. NewSends(o, o2, X, ps, n, n)
    BY <1>1, <1>2 DEF NewSends
  <2> QED BY <1>3, <2>1, SendsGrow
<1>11. Recvs(o2, ps, m)
  <2>1. NewRecvs(o, o2, X, ps, m, m)
    BY <1>1, <1>2 DEF NewRecvs
  <2> QED BY <1>3, <2>1, RecvsGrow
<1> QED BY <1>5, <1>6, <1>7, <1>8, <1>9, <1>10, <1>11 DEF Whole

\* So does the order of the communications.
LEMMA InStepRelabelled ==
  ASSUME NEW o, NEW o2, Relabels(o, o2), NEW ps, NEW n \in Nat,
         \A k \in 1 .. n : ps[k].send.stage \in DOMAIN o /\ ps[k].recv.stage \in DOMAIN o,
         InStep(o, ps, n)
  PROVE  InStep(o2, ps, n)
<1>1. \A s \in DOMAIN o : /\ DOMAIN o2[s] = DOMAIN o[s]
                          /\ \A i \in DOMAIN o[s] : Key(o2[s][i]) = Key(o[s][i])
  BY DEF Relabels, Alike, Like
<1> QED BY <1>1 DEF InStep

\* The tag of a receive is a field that nothing else looks at.
Tagged(n, b) == [n EXCEPT !.rollback = b]

\* It is the same communication.
LEMMA TaggedNode ==
  ASSUME NEW n \in Node, NEW b \in BOOLEAN
  PROVE  Tagged(n, b) \in Node /\ Alike(Tagged(n, b), n)
<1> SUFFICES ASSUME NEW m, m = [n EXCEPT !.rollback = b]
             PROVE  m \in Node /\ Alike(m, n)
  BY DEF Tagged
<1>1. n = [type |-> n.type, stage |-> n.stage, mb |-> n.mb, chunk |-> n.chunk, seq |-> n.seq,
           lg |-> n.lg, start |-> n.start, end |-> n.end, recvPeer |-> n.recvPeer,
           sendPeer |-> n.sendPeer, dir |-> n.dir, peer |-> n.peer, pair |-> n.pair,
           rollback |-> n.rollback, recompute |-> n.recompute, offload |-> n.offload]
  BY DEF Node
<1>2. m = [type |-> n.type, stage |-> n.stage, mb |-> n.mb, chunk |-> n.chunk, seq |-> n.seq,
           lg |-> n.lg, start |-> n.start, end |-> n.end, recvPeer |-> n.recvPeer,
           sendPeer |-> n.sendPeer, dir |-> n.dir, peer |-> n.peer, pair |-> n.pair,
           rollback |-> b, recompute |-> n.recompute, offload |-> n.offload]
  BY <1>1
<1>3. m \in Node
  BY <1>2 DEF Node
<1>4. Alike(m, n)
  BY <1>2 DEF Alike, Like, Key, MakeKey
<1> QED BY <1>3, <1>4

\* Tagging relabels.
LEMMA RollbackTagged ==
  ASSUME NEW c, NEW o \in Orders(c)
  PROVE  TagRollback(o) \in Orders(c) /\ Relabels(o, TagRollback(o))
<1> DEFINE Sent(s) == {o[s][i].mb : i \in {j \in SentBeforeVerdict(o, s) : o[s][j].type = "SEND_FORWARD"}}
           Of(n)   == n.type = "RECV_FORWARD" /\ n.chunk = 0
           tag(s, i) == /\ s > 0 /\ Of(o[s][i]) /\ o[s][i].mb \in Sent(s - 1)
                        /\ \A j \in 1 .. i - 1 : ~ (Of(o[s][j]) /\ o[s][j].mb = o[s][i].mb)
           o2 == TagRollback(o)
<1>1. DOMAIN o = Stages(c)
  BY DEF Orders
<1>2. o2 = [s \in Stages(c) |-> [i \in DOMAIN o[s] |-> Tagged(o[s][i], tag(s, i))]]
  BY <1>1 DEF TagRollback, Tagged
<1>3. \A s \in Stages(c) : \A i \in DOMAIN o[s] : tag(s, i) \in BOOLEAN
  OBVIOUS
<1> HIDE DEF o2, tag
<1>4. ASSUME NEW s \in Stages(c)
      PROVE  /\ o2[s] \in Seq(Node) /\ DOMAIN o2[s] = DOMAIN o[s]
             /\ \A i \in DOMAIN o[s] : Alike(o2[s][i], o[s][i])
  <2>1. o2[s] = [i \in DOMAIN o[s] |-> Tagged(o[s][i], tag(s, i))]
    BY <1>2
  <2>2. o[s] \in Seq(Node) /\ DOMAIN o[s] = 1 .. Len(o[s]) /\ Len(o[s]) \in Nat
    BY LenProperties DEF Orders
  <2>3. \A i \in DOMAIN o[s] : Tagged(o[s][i], tag(s, i)) \in Node /\ Alike(Tagged(o[s][i], tag(s, i)), o[s][i])
    <3> SUFFICES ASSUME NEW i \in DOMAIN o[s]
                 PROVE  Tagged(o[s][i], tag(s, i)) \in Node /\ Alike(Tagged(o[s][i], tag(s, i)), o[s][i])
      OBVIOUS
    <3>1. o[s][i] \in Node /\ tag(s, i) \in BOOLEAN
      BY <2>2, <1>3, ElementOfSeq
    <3> QED BY <3>1, TaggedNode
  <2>4. o2[s] \in [1 .. Len(o[s]) -> Node]
    BY <2>1, <2>2, <2>3
  <2> QED BY <2>1, <2>2, <2>3, <2>4, SeqDef
<1>5. o2 \in Orders(c) /\ DOMAIN o2 = Stages(c)
  <2>1. o2 = [s \in Stages(c) |-> o2[s]]
    BY <1>2
  <2> QED BY <2>1, <1>4 DEF Orders
<1> QED BY <1>1, <1>4, <1>5 DEF Relabels, o2

(* What the order is when it has all the communication.                       *)
Communicated(c, src, o, ps) ==
  /\ o \in Orders(c) /\ Whole(src, o) /\ Peers(c, src, o)
  /\ ps \in Seq(Pair) /\ PairsOK(c, src, ps) /\ Complete(c, src, ps)
  /\ Sends(o, ps, Len(ps)) /\ Recvs(o, ps, Len(ps)) /\ InStep(o, ps, Len(ps))

-----------------------------------------------------------------------------
(* ComputationsKept.                                                        *)

\* A key is found where its node is.
LEMMA PositionIs ==
  ASSUME NEW q \in Seq(Node), NEW i \in DOMAIN q,
         \A j \in DOMAIN q : Key(q[j]) = Key(q[i]) => j = i,
         NEW K, K = Key(q[i])
  PROVE  PositionOf(q, K) = i
<1> DEFINE I == {j \in 1 .. Len(q) : Key(q[j]) = K}
<1>1. DOMAIN q = 1 .. Len(q) /\ Len(q) \in Nat
  BY LenProperties
<1>2. I = {i}
  BY <1>1
<1>3. PositionOf(q, K) = IF I # {} THEN Min(I) ELSE 0
  BY DEF PositionOf, SelectInSeq, SelectInSubSeq
<1>4. I \in SUBSET Nat /\ I # {}
  BY <1>1, <1>2
<1> HIDE DEF I
<1>5. Min(I) \in I
  BY <1>4, MinOf
<1> QED BY <1>2, <1>3, <1>4, <1>5

\* The places of the computations of a whole order.
LEMMA KeptComputations ==
  ASSUME NEW c, NEW src, Sourced(c, src), NEW o \in Orders(c), Whole(src, o), NEW s \in Stages(c)
  PROVE  LET place == [k \in DOMAIN src[s] |-> PositionOf(o[s], Key(src[s][k]))]
         IN  /\ {place[k] : k \in DOMAIN place} = {i \in DOMAIN o[s] : IsComputation(o[s][i])}
             /\ \A k, l \in DOMAIN place : k < l => place[k] < place[l]
<1> DEFINE place == [k \in DOMAIN src[s] |-> PositionOf(o[s], Key(src[s][k]))]
<1>1. /\ \A i \in DOMAIN o[s] : IsComputation(o[s][i]) =>
           \E k \in DOMAIN src[s] : Like(o[s][i], src[s][k])
      /\ \A k \in DOMAIN src[s] : \E i \in DOMAIN o[s] : Like(o[s][i], src[s][k])
      /\ \A k, l \in DOMAIN src[s] : \A i, j \in DOMAIN o[s] :
           Key(o[s][i]) = Key(src[s][k]) /\ Key(o[s][j]) = Key(src[s][l]) => (k < l <=> i < j)
  BY DEF Whole, Kept, Sourced, Orders
<1>2. \A i, j \in DOMAIN o[s] : Key(o[s][i]) = Key(o[s][j]) => i = j
  BY DEF Whole, Distinct, Orders
<1>3. o[s] \in Seq(Node)
  BY DEF Orders
<1>4. \A k \in DOMAIN src[s] : IsComputation(src[s][k])
  BY DEF Sourced
<1>5. ASSUME NEW k \in DOMAIN src[s], NEW i \in DOMAIN o[s], Key(o[s][i]) = Key(src[s][k])
      PROVE  PositionOf(o[s], Key(src[s][k])) = i
  <2>1. \A j \in DOMAIN o[s] : Key(o[s][j]) = Key(o[s][i]) => j = i
    BY <1>2
  <2> QED BY <2>1, <1>3, <1>5, PositionIs
<1>6. \A k \in DOMAIN src[s] : place[k] \in DOMAIN o[s] /\ Key(o[s][place[k]]) = Key(src[s][k])
  BY <1>1, <1>5 DEF Like
<1>7. \A k \in DOMAIN src[s] : \A i \in DOMAIN o[s] : Key(o[s][i]) = Key(src[s][k]) => place[k] = i
  BY <1>5
<1>8. DOMAIN place = DOMAIN src[s]
  OBVIOUS
<1> HIDE DEF place
<1>9. \A k \in DOMAIN src[s] : IsComputation(o[s][place[k]])
  BY <1>4, <1>6, LikeKind
<1>10. \A i \in DOMAIN o[s] : IsComputation(o[s][i]) => \E k \in DOMAIN src[s] : place[k] = i
  BY <1>1, <1>7 DEF Like
<1>11. {place[k] : k \in DOMAIN place} = {i \in DOMAIN o[s] : IsComputation(o[s][i])}
  BY <1>6, <1>8, <1>9, <1>10
<1>12. \A k, l \in DOMAIN place : k < l => place[k] < place[l]
  BY <1>1, <1>6, <1>8
<1> QED BY <1>11, <1>12 DEF place

-----------------------------------------------------------------------------
(* LinksAgree.                                                              *)

\* The two ends of a link, when all the communication is in place.
LEMMA LinksAgreed ==
  ASSUME NEW c, NEW src, NEW o, NEW ps, Communicated(c, src, o, ps),
         NEW s \in Stages(c), NEW t \in Stages(c), s # t
  PROVE  LET sends == {i \in DOMAIN o[s] : o[s][i].type \in SendTypes /\ o[s][i].peer = t}
             recvs == {j \in DOMAIN o[t] : o[t][j].type \in RecvTypes /\ o[t][j].peer = s}
             Paired(i, j) == o[s][i].pair = o[t][j].pair
         IN  /\ \A i \in sends : \E j \in recvs : Paired(i, j)
             /\ \A j \in recvs : \E i \in sends : Paired(i, j)
             /\ \A i \in sends, j \in recvs : Paired(i, j) =>
                  \A i2 \in sends, j2 \in recvs : Paired(i2, j2) => (i < i2 <=> j < j2)
<1> DEFINE sends == {i \in DOMAIN o[s] : o[s][i].type \in SendTypes /\ o[s][i].peer = t}
           recvs == {j \in DOMAIN o[t] : o[t][j].type \in RecvTypes /\ o[t][j].peer = s}
           N == Len(ps)
           OfSend(i, k) == Alike(o[s][i], ps[k].send) /\ ps[k].send.stage = s
           OfRecv(j, k) == Alike(o[t][j], ps[k].recv) /\ ps[k].recv.stage = t
<1>1. /\ DOMAIN o = Stages(c) /\ N \in Nat
      /\ \A k \in 1 .. N : Ends(c, ps[k])
      /\ \A k, m \in 1 .. N : k # m => ps[k].send.pair # ps[m].send.pair
      /\ \A i, j \in DOMAIN o[s] : Key(o[s][i]) = Key(o[s][j]) => i = j
      /\ \A i, j \in DOMAIN o[t] : Key(o[t][i]) = Key(o[t][j]) => i = j
      /\ Sends(o, ps, N) /\ Recvs(o, ps, N) /\ InStep(o, ps, N)
      /\ \A i \in DOMAIN o[s] : i \in Int
      /\ \A j \in DOMAIN o[t] : j \in Int
  BY LenProperties DEF Communicated, Orders, PairsOK, Apart, Whole, Distinct
<1> HIDE DEF N
<1>2. ASSUME NEW i \in sends
      PROVE  \E k \in 1 .. N : OfSend(i, k) /\ ps[k].send.pair = o[s][i].pair /\ ps[k].recv.stage = t
                               /\ ps[k].recv.type \in RecvTypes
  <2>1. IsSend(o[s][i])
    BY Kinds
  <2>2. PICK k \in 1 .. N : OfSend(i, k)
    BY <1>1, <2>1 DEF Sends
  <2>3. ps[k].send.type \in SendTypes /\ ps[k].send.peer = t /\ ps[k].send.pair = o[s][i].pair
    BY <2>2, LikeKind DEF Alike, Like
  <2> QED BY <1>1, <2>2, <2>3 DEF Ends
<1>3. ASSUME NEW j \in recvs
      PROVE  \E k \in 1 .. N : OfRecv(j, k) /\ ps[k].send.pair = o[t][j].pair /\ ps[k].send.stage = s
                               /\ ps[k].send.type \in SendTypes
  <2>1. IsRecv(o[t][j])
    BY Kinds
  <2>2. PICK k \in 1 .. N : OfRecv(j, k)
    BY <1>1, <2>1 DEF Recvs
  <2>3. ps[k].recv.type \in RecvTypes /\ ps[k].recv.peer = s /\ ps[k].recv.pair = o[t][j].pair
    BY <2>2, LikeKind DEF Alike, Like
  <2> QED BY <1>1, <2>2, <2>3 DEF Ends
<1>4. ASSUME NEW i \in sends PROVE \E j \in recvs : o[s][i].pair = o[t][j].pair
  <2>1. PICK k \in 1 .. N : OfSend(i, k) /\ ps[k].send.pair = o[s][i].pair /\ ps[k].recv.stage = t
                            /\ ps[k].recv.type \in RecvTypes
    BY <1>2
  <2>2. PICK j \in DOMAIN o[t] : Alike(o[t][j], ps[k].recv)
    BY <1>1, <2>1 DEF Recvs
  <2>3. o[t][j].type \in RecvTypes /\ o[t][j].peer = s /\ o[t][j].pair = ps[k].send.pair
    BY <1>1, <2>1, <2>2, LikeKind DEF Alike, Like, Ends
  <2> QED BY <2>1, <2>3
<1>5. ASSUME NEW j \in recvs PROVE \E i \in sends : o[s][i].pair = o[t][j].pair
  <2>1. PICK k \in 1 .. N : OfRecv(j, k) /\ ps[k].send.pair = o[t][j].pair /\ ps[k].send.stage = s
                            /\ ps[k].send.type \in SendTypes
    BY <1>3
  <2>2. PICK i \in DOMAIN o[s] : Alike(o[s][i], ps[k].send)
    BY <1>1, <2>1 DEF Sends
  <2>3. o[s][i].type \in SendTypes /\ o[s][i].peer = t /\ o[s][i].pair = ps[k].send.pair
    BY <1>1, <2>1, <2>2, LikeKind DEF Alike, Like, Ends
  <2> QED BY <2>1, <2>3
\* The two ends of a pair in the order are of one pair of ps.
<1>6. ASSUME NEW i \in sends, NEW j \in recvs, o[s][i].pair = o[t][j].pair
      PROVE  \E k \in 1 .. N : OfSend(i, k) /\ OfRecv(j, k)
  <2>1. PICK k \in 1 .. N : OfSend(i, k) /\ ps[k].send.pair = o[s][i].pair
    BY <1>2
  <2>2. PICK m \in 1 .. N : OfRecv(j, m) /\ ps[m].send.pair = o[t][j].pair
    BY <1>3
  <2>3. k = m
    BY <1>1, <1>6, <2>1, <2>2
  <2> QED BY <2>1, <2>2, <2>3
<1>7. ASSUME NEW k \in 1 .. N, NEW m \in 1 .. N, k < m,
             NEW i \in sends, NEW j \in recvs, OfSend(i, k), OfRecv(j, k),
             NEW i2 \in sends, NEW j2 \in recvs, OfSend(i2, m), OfRecv(j2, m)
      PROVE  i < i2 /\ j < j2
  BY <1>1, <1>7 DEF InStep, Alike, Like
<1>8. ASSUME NEW i \in sends, NEW j \in recvs, o[s][i].pair = o[t][j].pair,
             NEW i2 \in sends, NEW j2 \in recvs, o[s][i2].pair = o[t][j2].pair
      PROVE  i < i2 <=> j < j2
  <2>1. PICK k \in 1 .. N : OfSend(i, k) /\ OfRecv(j, k)
    BY <1>6, <1>8
  <2>2. PICK m \in 1 .. N : OfSend(i2, m) /\ OfRecv(j2, m)
    BY <1>6, <1>8
  <2>3. i \in Int /\ i2 \in Int /\ j \in Int /\ j2 \in Int /\ k \in Int /\ m \in Int
    BY <1>1
  <2>4. CASE k < m
    BY <2>1, <2>2, <2>4, <1>7
  <2>5. CASE m < k
    <3>1. i2 < i /\ j2 < j
      BY <2>1, <2>2, <2>5, <1>7
    <3> QED BY <3>1, <2>3
  <2>6. CASE k = m
    <3>1. i = i2 /\ j = j2
      BY <2>1, <2>2, <2>6, <1>1 DEF Alike, Like
    <3> QED BY <3>1, <2>3
  <2> QED BY <2>3, <2>4, <2>5, <2>6
<1> QED BY <1>4, <1>5, <1>8

\* A set of equal elements has one of them or none.
LEMMA NoneOrOne ==
  ASSUME NEW S, \A x, y \in S : x = y
  PROVE  Cardinality(S) = IF S = {} THEN 0 ELSE 1
<1>1. CASE S = {}
  BY <1>1, FS_EmptySet
<1>2. CASE S # {}
  <2>1. PICK x \in S : TRUE
    BY <1>2
  <2>2. S = {x}
    BY <2>1
  <2> QED BY <1>2, <2>2, FS_Singleton
<1> QED BY <1>1, <1>2

\* Two communications of one kind that one computation could have are one.
LEMMA OneComm ==
  ASSUME NEW a, NEW b, NEW n, Carries(a, n), Carries(b, n), NEW types \in {SendTypes, RecvTypes},
         a.type \in types, b.type \in types
  PROVE  Key(a) = Key(b)
<1>1. IsBackwardComm(a) <=> IsBackwardComm(b)
  BY DEF Carries
<1>2. a.type = b.type
  BY <1>1 DEF IsBackwardComm, BackwardComm, SendTypes, RecvTypes
<1> QED BY <1>2, KeyFields DEF Carries

\* A computation that another stage feeds has one receive, one that feeds another stage one send.
LEMMA AllOnceCommunicated ==
  ASSUME NEW c, NEW src, Sourced(c, src), Staged(src), NEW o, NEW ps, Communicated(c, src, o, ps),
         NEW s \in Stages(c), NEW i \in DOMAIN o[s], o[s][i].type \in {"F", "B", "BW"}
  PROVE  LET n == o[s][i]
             of(types, q) == {j \in DOMAIN q : q[j].type \in types /\ Carries(q[j], n)}
         IN  /\ Cardinality(of(SendTypes, o[s])) = IF n.sendPeer = None THEN 0 ELSE 1
             /\ Cardinality(of(RecvTypes, o[s])) = IF n.recvPeer = None THEN 0 ELSE 1
<1> DEFINE n == o[s][i]
           N == Len(ps)
           sends == {j \in DOMAIN o[s] : o[s][j].type \in SendTypes /\ Carries(o[s][j], n)}
           recvs == {j \in DOMAIN o[s] : o[s][j].type \in RecvTypes /\ Carries(o[s][j], n)}
<1>1. /\ DOMAIN o = Stages(c) /\ DOMAIN src = Stages(c) /\ N \in Nat
      /\ \A k \in 1 .. N : Ends(c, ps[k]) /\ (ps[k].send.type \in SendTypes => JoinsSome(c, src, ps[k]))
      /\ \A j, l \in DOMAIN o[s] : Key(o[s][j]) = Key(o[s][l]) => j = l
      /\ Sends(o, ps, N) /\ Recvs(o, ps, N)
  BY LenProperties DEF Communicated, Orders, Sourced, PairsOK, Whole, Distinct
<1>2. IsComputation(n) /\ RightPeers(c, src, n)
  BY <1>1 DEF Communicated, Peers, IsComputation, ComputeTypes
<1>3. PICK x \in DOMAIN src[s] : Like(n, src[s][x])
  BY <1>1, <1>2 DEF Communicated, Whole, Kept
<1> DEFINE m == src[s][x]
<1>4. /\ m.type = n.type /\ m.lg = n.lg /\ m.mb = n.mb /\ m.seq = n.seq /\ m.chunk = n.chunk
      /\ m.stage = n.stage /\ m.stage = s /\ m.type \in {"F", "B", "BW"} /\ Key(m) = Key(n)
      /\ PrevKey(m, NumLayerGroups(c)) = PrevKey(n, NumLayerGroups(c))
  BY <1>1, <1>3, LikeKind, PrevOfKey DEF Like, Staged
<1>5. \A a : (Feeds(c, a, m) <=> Feeds(c, a, n)) /\ (Feeds(c, m, a) <=> Feeds(c, n, a))
  BY <1>4 DEF Feeds
<1> HIDE DEF n, m, N
<1>6. \A j, l \in sends : j = l
  <2> SUFFICES ASSUME NEW j \in sends, NEW l \in sends PROVE j = l
    OBVIOUS
  <2>1. Key(o[s][j]) = Key(o[s][l])
    BY OneComm
  <2> QED BY <2>1, <1>1
<1>7. \A j, l \in recvs : j = l
  <2> SUFFICES ASSUME NEW j \in recvs, NEW l \in recvs PROVE j = l
    OBVIOUS
  <2>1. Key(o[s][j]) = Key(o[s][l])
    BY OneComm
  <2> QED BY <2>1, <1>1
\* A pair whose tensor n makes, or needs, joins n to another computation.
<1>8. ASSUME NEW j \in sends PROVE n.sendPeer # None
  <2>1. IsSend(o[s][j])
    BY Kinds
  <2>2. PICK k \in 1 .. N : ps[k].send.stage = s /\ Alike(o[s][j], ps[k].send)
    BY <1>1, <2>1 DEF Sends
  <2>3. ps[k].send.type \in SendTypes /\ Carries(ps[k].send, n)
    BY <2>2, LikeKind DEF Alike, Like, Carries
  <2>4. PICK s1 \in Stages(c), t1 \in Stages(c) : \E i1 \in DOMAIN src[s1] : \E j1 \in DOMAIN src[t1] :
          Joins(c, src[s1][i1], src[t1][j1], ps[k])
    BY <1>1, <2>3 DEF JoinsSome
  <2>5. PICK i1 \in DOMAIN src[s1] : \E j1 \in DOMAIN src[t1] : Joins(c, src[s1][i1], src[t1][j1], ps[k])
    BY <2>4
  <2>6. PICK j1 \in DOMAIN src[t1] : Joins(c, src[s1][i1], src[t1][j1], ps[k])
    BY <2>5
  <2> DEFINE a == src[s1][i1]
             b == src[t1][j1]
             p == ps[k]
  <2>7. /\ Feeds(c, a, b) /\ a.type = b.type /\ b.type \in {"F", "B", "BW"}
        /\ p.send.type = IF b.type = "F" THEN "SEND_FORWARD" ELSE "SEND_BACKWARD"
        /\ a.lg = p.send.lg /\ a.mb = p.send.mb /\ a.seq = p.send.seq
    BY <2>6 DEF Joins
  <2> HIDE DEF a, b, p
  <2>8. a.lg = m.lg /\ a.mb = m.mb /\ a.seq = m.seq /\ (a.type = "F" <=> m.type = "F")
        /\ a.type \in {"F", "B", "BW"}
    <3>1. a.lg = m.lg /\ a.mb = m.mb /\ a.seq = m.seq
      BY <2>3, <2>7, <1>4 DEF Carries, p
    <3>2. n.type \in IF p.send.type \in BackwardComm THEN {"B", "BW"} ELSE {"F"}
      BY <2>3 DEF Carries, IsBackwardComm, p
    <3>3. a.type = "F" <=> m.type = "F"
      BY <3>2, <2>7, <1>4 DEF BackwardComm
    <3> QED BY <3>1, <3>3, <2>7
  <2>9. s1 = s /\ i1 = x
    BY <2>8, <1>4, OneCarried DEF a, m
  <2>10. Feeds(c, m, b)
    BY <2>7, <2>9 DEF a, m
  <2> QED BY <2>10, <1>1, <1>2, <1>5 DEF RightPeers, b
<1>9. ASSUME NEW j \in recvs PROVE n.recvPeer # None
  <2>1. IsRecv(o[s][j])
    BY Kinds
  <2>2. PICK k \in 1 .. N : ps[k].recv.stage = s /\ Alike(o[s][j], ps[k].recv)
    BY <1>1, <2>1 DEF Recvs
  <2>3. ps[k].recv.type \in RecvTypes /\ Carries(ps[k].recv, n) /\ ps[k].send.type \in SendTypes
    <3>1. ps[k].recv.type \in RecvTypes /\ Carries(ps[k].recv, n)
      BY <2>2, LikeKind DEF Alike, Like, Carries
    <3> QED BY <3>1, <1>1 DEF Ends
  <2>4. PICK s1 \in Stages(c), t1 \in Stages(c) : \E i1 \in DOMAIN src[s1] : \E j1 \in DOMAIN src[t1] :
          Joins(c, src[s1][i1], src[t1][j1], ps[k])
    BY <1>1, <2>3 DEF JoinsSome
  <2>5. PICK i1 \in DOMAIN src[s1] : \E j1 \in DOMAIN src[t1] : Joins(c, src[s1][i1], src[t1][j1], ps[k])
    BY <2>4
  <2>6. PICK j1 \in DOMAIN src[t1] : Joins(c, src[s1][i1], src[t1][j1], ps[k])
    BY <2>5
  <2> DEFINE a == src[s1][i1]
             b == src[t1][j1]
             p == ps[k]
  <2>7. /\ Feeds(c, a, b) /\ a.type = b.type /\ b.type \in {"F", "B", "BW"}
        /\ p.recv.type = IF b.type = "F" THEN "RECV_FORWARD" ELSE "RECV_BACKWARD"
        /\ b.lg = p.recv.lg /\ b.mb = p.recv.mb /\ b.seq = p.recv.seq
    BY <2>6 DEF Joins
  <2> HIDE DEF a, b, p
  <2>8. b.lg = m.lg /\ b.mb = m.mb /\ b.seq = m.seq /\ (b.type = "F" <=> m.type = "F")
    <3>1. b.lg = m.lg /\ b.mb = m.mb /\ b.seq = m.seq
      BY <2>3, <2>7, <1>4 DEF Carries, p
    <3>2. n.type \in IF p.recv.type \in BackwardComm THEN {"B", "BW"} ELSE {"F"}
      BY <2>3 DEF Carries, IsBackwardComm, p
    <3>3. b.type = "F" <=> m.type = "F"
      BY <3>2, <2>7, <1>4 DEF BackwardComm
    <3> QED BY <3>1, <3>3
  <2>9. t1 = s /\ j1 = x
    BY <2>7, <2>8, <1>4, OneCarried DEF b, m
  <2>10. Feeds(c, a, m)
    BY <2>7, <2>9 DEF b, m
  <2> QED BY <2>10, <1>1, <1>2, <1>5 DEF RightPeers, a
\* The pair of a consumer.
<1>10. ASSUME NEW s1 \in Stages(c), NEW i1 \in DOMAIN src[s1], NEW t1 \in Stages(c), NEW j1 \in DOMAIN src[t1],
              Feeds(c, src[s1][i1], src[t1][j1])
       PROVE  \E k \in 1 .. N : Joins(c, src[s1][i1], src[t1][j1], ps[k])
  <2>1. src[t1][j1].type \in {"F", "B", "BW"}
    BY <1>10, FeedsSameType
  <2>2. PICK k \in 1 .. N : ps[k].send.type \in SendTypes /\ ps[k].deadline = Key(src[t1][j1])
    BY <1>10, <2>1 DEF Communicated, Complete, N
  <2>3. PICK s2 \in Stages(c), t2 \in Stages(c) : \E i2 \in DOMAIN src[s2] : \E j2 \in DOMAIN src[t2] :
          Joins(c, src[s2][i2], src[t2][j2], ps[k])
    BY <1>1, <2>2 DEF JoinsSome
  <2>4. PICK i2 \in DOMAIN src[s2] : \E j2 \in DOMAIN src[t2] : Joins(c, src[s2][i2], src[t2][j2], ps[k])
    BY <2>3
  <2>5. PICK j2 \in DOMAIN src[t2] : Joins(c, src[s2][i2], src[t2][j2], ps[k])
    BY <2>4
  <2>6. ps[k].deadline = Key(src[t2][j2]) /\ Key(src[s2][i2]) = PrevKey(src[t2][j2], NumLayerGroups(c))
    BY <2>5 DEF Joins, Feeds
  <2>7. UniqueKeys(src)
    BY DEF Sourced
  <2>8. t2 = t1 /\ j2 = j1
    <3>1. Key(src[t2][j2]) = Key(src[t1][j1])
      BY <2>2, <2>6
    <3> QED BY <3>1, <2>7, <1>1 DEF UniqueKeys
  <2>9. Key(src[s2][i2]) = Key(src[s1][i1])
    BY <2>6, <2>8, <1>10 DEF Feeds
  <2>10. s2 = s1 /\ i2 = i1
    BY <2>7, <2>9, <1>1 DEF UniqueKeys
  <2> QED BY <2>5, <2>8, <2>10
<1>11. ASSUME n.sendPeer # None PROVE sends # {}
  <2>1. PICK t1 \in Stages(c) : \E j1 \in DOMAIN src[t1] : Feeds(c, m, src[t1][j1])
    BY <1>11, <1>1, <1>2, <1>5 DEF RightPeers
  <2>2. PICK j1 \in DOMAIN src[t1] : Feeds(c, m, src[t1][j1])
    BY <2>1
  <2>3. PICK k \in 1 .. N : Joins(c, src[s][x], src[t1][j1], ps[k])
    BY <2>2, <1>10 DEF m
  <2>4. /\ m.type = src[t1][j1].type /\ ps[k].send.stage = s
        /\ ps[k].send.type = IF m.type = "F" THEN "SEND_FORWARD" ELSE "SEND_BACKWARD"
        /\ m.lg = ps[k].send.lg /\ m.mb = ps[k].send.mb /\ m.seq = ps[k].send.seq /\ m.chunk = ps[k].send.chunk
    BY <2>3, <1>4 DEF Joins, m
  <2>5. ps[k].send.type \in SendTypes /\ Carries(ps[k].send, n)
    BY <2>4, <1>4 DEF Carries, IsBackwardComm, BackwardComm, SendTypes
  <2>6. PICK j \in DOMAIN o[s] : Alike(o[s][j], ps[k].send)
    BY <1>1, <2>4 DEF Sends
  <2>7. o[s][j].type \in SendTypes /\ Carries(o[s][j], n)
    BY <2>5, <2>6, LikeKind DEF Alike, Like, Carries
  <2> QED BY <2>7
<1>12. ASSUME n.recvPeer # None PROVE recvs # {}
  <2>1. PICK s1 \in Stages(c) : \E i1 \in DOMAIN src[s1] : Feeds(c, src[s1][i1], m)
    BY <1>12, <1>1, <1>2, <1>5 DEF RightPeers
  <2>2. PICK i1 \in DOMAIN src[s1] : Feeds(c, src[s1][i1], m)
    BY <2>1
  <2>3. PICK k \in 1 .. N : Joins(c, src[s1][i1], src[s][x], ps[k])
    BY <2>2, <1>10 DEF m
  <2>4. /\ ps[k].recv.stage = s
        /\ ps[k].recv.type = IF m.type = "F" THEN "RECV_FORWARD" ELSE "RECV_BACKWARD"
        /\ m.lg = ps[k].recv.lg /\ m.mb = ps[k].recv.mb /\ m.seq = ps[k].recv.seq /\ m.chunk = ps[k].recv.chunk
    BY <2>3, <1>4 DEF Joins, m
  <2>5. ps[k].recv.type \in RecvTypes /\ Carries(ps[k].recv, n)
    BY <2>4, <1>4 DEF Carries, IsBackwardComm, BackwardComm, RecvTypes
  <2>6. PICK j \in DOMAIN o[s] : Alike(o[s][j], ps[k].recv)
    BY <1>1, <2>4 DEF Recvs
  <2>7. o[s][j].type \in RecvTypes /\ Carries(o[s][j], n)
    BY <2>5, <2>6, LikeKind DEF Alike, Like, Carries
  <2> QED BY <2>7
<1>13. Cardinality(sends) = IF n.sendPeer = None THEN 0 ELSE 1
  <2>1. sends = {} <=> n.sendPeer = None
    BY <1>8, <1>11
  <2>2. Cardinality(sends) = IF sends = {} THEN 0 ELSE 1
    <3> HIDE DEF sends
    <3> QED BY <1>6, NoneOrOne
  <2> HIDE DEF sends
  <2> QED BY <2>1, <2>2
<1>14. Cardinality(recvs) = IF n.recvPeer = None THEN 0 ELSE 1
  <2>1. recvs = {} <=> n.recvPeer = None
    BY <1>9, <1>12
  <2>2. Cardinality(recvs) = IF recvs = {} THEN 0 ELSE 1
    <3> HIDE DEF recvs
    <3> QED BY <1>7, NoneOrOne
  <2> HIDE DEF recvs
  <2> QED BY <2>1, <2>2
<1> QED BY <1>13, <1>14 DEF n

(* The node that sends the verdict of stage s to the one below, and the one    *)
(* that receives it there, but for the times.                                 *)
VerdictSend(s) == PostValidationNode("SEND_POST_VALIDATION", s, 0, s - 1, -s)
VerdictRecv(s) == PostValidationNode("RECV_POST_VALIDATION", s - 1, 0, s, -s)

Verdicts(c) ==
  [m \in 1 .. c.n - 1 |-> [send |-> VerdictSend(c.n - m), recv |-> VerdictRecv(c.n - m),
                           producer |-> NoKey, deadline |-> NoKey]]

-----------------------------------------------------------------------------

\* What a node of the post validation is made of.
LEMMA PostValidationNodeIs ==
  ASSUME NEW type \in PostValidationTypes, NEW s \in Int, NEW t \in Int, NEW peer \in Int,
         NEW pair \in Int
  PROVE  LET x == PostValidationNode(type, s, t, peer, pair)
         IN  /\ x \in Node /\ x.type = type /\ x.stage = s /\ x.peer = peer /\ x.pair = pair
             /\ x.lg = -s /\ x.mb = 0 /\ x.seq = 0
             /\ Alike(x, PostValidationNode(type, s, 0, peer, pair))
<1> SUFFICES ASSUME NEW x, x = PostValidationNode(type, s, t, peer, pair),
                    NEW y, y = PostValidationNode(type, s, 0, peer, pair)
             PROVE  /\ x \in Node /\ x.type = type /\ x.stage = s /\ x.peer = peer /\ x.pair = pair
                    /\ x.lg = -s /\ x.mb = 0 /\ x.seq = 0
                    /\ Alike(x, y)
  OBVIOUS
<1>1. x = [type |-> type, stage |-> s, mb |-> 0, chunk |-> 0, seq |-> 0, lg |-> -s,
           start |-> t, end |-> t, recvPeer |-> None, sendPeer |-> None,
           dir |-> "NONE", peer |-> peer, pair |-> pair, rollback |-> FALSE,
           recompute |-> FALSE, offload |-> FALSE]
  BY DEF PostValidationNode, ComputeNode
<1>2. y = [type |-> type, stage |-> s, mb |-> 0, chunk |-> 0, seq |-> 0, lg |-> -s,
           start |-> 0, end |-> 0, recvPeer |-> None, sendPeer |-> None,
           dir |-> "NONE", peer |-> peer, pair |-> pair, rollback |-> FALSE,
           recompute |-> FALSE, offload |-> FALSE]
  BY DEF PostValidationNode, ComputeNode
<1>3. type \in NodeTypes /\ -s \in Int /\ None \in Int /\ 0 \in Nat
  BY DEF NodeTypes, None
<1>4. x \in Node
  BY <1>1, <1>3 DEF Node
<1>5. Alike(x, y)
  BY <1>1, <1>2 DEF Alike, Like, Key, MakeKey
<1> QED BY <1>1, <1>4, <1>5

\* The verdicts' pairs.
LEMMA VerdictPairs ==
  ASSUME NEW c, NEW src, Sourced(c, src), NEW ps \in Seq(Pair), PairsOK(c, src, ps),
         Complete(c, src, ps),
         \A k \in 1 .. Len(ps) : ps[k].send.type \in SendTypes
  PROVE  LET all == ps \o Verdicts(c)
         IN  /\ all \in Seq(Pair) /\ Len(all) = Len(ps) + c.n - 1
             /\ \A k \in 1 .. Len(ps) : all[k] = ps[k]
             /\ \A m \in 1 .. c.n - 1 : all[Len(ps) + m] = Verdicts(c)[m]
             /\ PairsOK(c, src, all) /\ Complete(c, src, all)
<1> DEFINE W == Verdicts(c)
           all == ps \o W
           N == Len(ps)
           M == c.n - 1
<1>1. N \in Nat /\ M \in Nat /\ c.n \in Nat /\ M = c.n - 1
  BY LenProperties DEF Sourced
<1>2. ASSUME NEW m \in 1 .. M
      PROVE  /\ W[m] \in Pair
             /\ W[m].send.type = "SEND_POST_VALIDATION" /\ W[m].recv.type = "RECV_POST_VALIDATION"
             /\ W[m].send.stage = c.n - m /\ W[m].recv.stage = c.n - m - 1
             /\ W[m].send.peer = c.n - m - 1 /\ W[m].recv.peer = c.n - m
             /\ W[m].send.pair = -(c.n - m) /\ W[m].recv.pair = -(c.n - m)
             /\ W[m].send.lg = -(c.n - m) /\ W[m].recv.lg = -(c.n - m - 1)
  <2> DEFINE s == c.n - m
             t == s - 1
  <2>1. s \in Int /\ t \in Int /\ -s \in Int /\ 0 \in Int
    BY <1>1
  <2>2. W[m] = [send |-> VerdictSend(s), recv |-> VerdictRecv(s), producer |-> NoKey, deadline |-> NoKey]
    BY DEF Verdicts
  <2>3. "SEND_POST_VALIDATION" \in PostValidationTypes /\ "RECV_POST_VALIDATION" \in PostValidationTypes
    BY DEF PostValidationTypes
  <2>4. NoKey \in NodeKey
    BY DEF NoKey, NodeKey, MakeKey, None
  <2> HIDE DEF s, W
  <2>5. LET x == VerdictSend(s)
        IN  /\ x \in Node /\ x.type = "SEND_POST_VALIDATION" /\ x.stage = s /\ x.peer = t /\ x.pair = -s
            /\ x.lg = -s
    BY <2>1, <2>3, PostValidationNodeIs DEF VerdictSend
  <2>6. LET x == VerdictRecv(s)
        IN  /\ x \in Node /\ x.type = "RECV_POST_VALIDATION" /\ x.stage = t /\ x.peer = s /\ x.pair = -s
            /\ x.lg = -t
    BY <2>1, <2>3, PostValidationNodeIs DEF VerdictRecv
  <2>7. W[m] \in Pair
    <3> DEFINE x == VerdictSend(s)
               y == VerdictRecv(s)
    <3>1. x \in Node /\ y \in Node /\ W[m] = [send |-> x, recv |-> y, producer |-> NoKey, deadline |-> NoKey]
      BY <2>2, <2>5, <2>6
    <3> HIDE DEF x, y
    <3> QED BY <3>1, <2>4 DEF Pair
  <2>8. W[m].send = VerdictSend(s) /\ W[m].recv = VerdictRecv(s)
    BY <2>2
  <2> QED BY <2>5, <2>6, <2>7, <2>8 DEF s
<1>3. W \in Seq(Pair) /\ Len(W) = M
  <2>1. W \in [1 .. M -> Pair]
    BY <1>2 DEF Verdicts
  <2> HIDE DEF W, M
  <2>2. W \in Seq(Pair)
    BY <1>1, <2>1, SeqDef
  <2>3. 1 .. Len(W) = 1 .. M /\ Len(W) \in Nat
    BY <2>1, <2>2, LenProperties
  <2> QED BY <1>1, <2>2, <2>3
<1> HIDE DEF W, M
<1>4. /\ all \in Seq(Pair) /\ Len(all) = N + M
      /\ \A k \in 1 .. N : all[k] = ps[k]
      /\ \A m \in 1 .. M : all[N + m] = W[m]
  <2>1. all \in Seq(Pair) /\ Len(all) = N + M
    BY <1>3, ConcatProperties
  <2>2. \A i \in 1 .. N + M : all[i] = IF i <= N THEN ps[i] ELSE W[i - N]
    BY <1>3, ConcatProperties
  <2> HIDE DEF all, N
  <2>3. ASSUME NEW k \in 1 .. N PROVE all[k] = ps[k]
    <3>1. k \in 1 .. N + M /\ k <= N
      BY <1>1
    <3> QED BY <3>1, <2>2
  <2>4. ASSUME NEW m \in 1 .. M PROVE all[N + m] = W[m]
    <3> DEFINE i == N + m
    <3>1. i \in 1 .. N + M /\ ~ (i <= N) /\ i - N = m
      BY <1>1
    <3> HIDE DEF i
    <3>2. all[i] = W[i - N]
      BY <3>1, <2>2
    <3> QED BY <3>1, <3>2 DEF i
  <2> QED BY <2>1, <2>3, <2>4
<1> HIDE DEF all
<1>5. ASSUME NEW k \in 1 .. N + M
      PROVE  (k \in 1 .. N /\ all[k] = ps[k]) \/ (\E m \in 1 .. M : k = N + m /\ all[k] = W[m])
  <2>1. CASE k <= N
    BY <2>1, <1>1, <1>4
  <2>2. CASE ~ (k <= N)
    <3>1. k - N \in 1 .. M /\ k = N + (k - N)
      BY <2>2, <1>1
    <3> QED BY <3>1, <1>4
  <2> QED BY <2>1, <2>2
<1>6. ASSUME NEW k \in 1 .. N
      PROVE  /\ Ends(c, ps[k]) /\ JoinsSome(c, src, ps[k]) /\ ps[k].send.pair \in Nat
             /\ ps[k].send.type # "SEND_POST_VALIDATION" /\ ps[k].recv.type # "RECV_POST_VALIDATION"
  <2>1. Ends(c, ps[k]) /\ JoinsSome(c, src, ps[k])
    BY DEF PairsOK, N
  <2>2. ps[k].send.pair \in Nat
    BY <2>1 DEF JoinsSome, Joins
  <2> QED BY <2>1, <2>2, Kinds DEF Ends, N
<1>7. ASSUME NEW m \in 1 .. M
      PROVE  Ends(c, W[m]) /\ W[m].send.type \notin SendTypes
  <2>1. c.n - m \in Stages(c) /\ c.n - m - 1 \in Stages(c)
    BY <1>1 DEF Stages
  <2>2. IsSend(W[m].send) /\ IsRecv(W[m].recv)
    BY <1>2 DEF IsSend, IsRecv
  <2> QED BY <2>1, <2>2, <1>2, Kinds DEF Ends
<1>8. ASSUME NEW k \in 1 .. N + M
      PROVE  Ends(c, all[k]) /\ (all[k].send.type \in SendTypes => JoinsSome(c, src, all[k]))
  BY <1>5, <1>6, <1>7
<1>9. ASSUME NEW k \in 1 .. N + M, NEW l \in 1 .. N + M, k # l
      PROVE  /\ Key(all[k].send) # Key(all[l].send)
             /\ Key(all[k].recv) # Key(all[l].recv)
             /\ all[k].send.pair # all[l].send.pair
  <2>1. CASE k \in 1 .. N /\ l \in 1 .. N
    BY <2>1, <1>4, <1>9 DEF PairsOK, Apart, N
  <2>2. ASSUME NEW a \in 1 .. N, NEW m \in 1 .. M
        PROVE  /\ Key(ps[a].send) # Key(W[m].send)
               /\ Key(ps[a].recv) # Key(W[m].recv)
               /\ ps[a].send.pair # W[m].send.pair
    <3>1. ps[a].send.type # W[m].send.type /\ ps[a].recv.type # W[m].recv.type
      BY <1>2, <1>6
    <3>2. ps[a].send.pair # W[m].send.pair
      BY <1>1, <1>2, <1>6
    <3> QED BY <3>1, <3>2, KeyFields
  <2>3. ASSUME NEW a \in 1 .. M, NEW m \in 1 .. M, a # m
        PROVE  /\ Key(W[a].send) # Key(W[m].send)
               /\ Key(W[a].recv) # Key(W[m].recv)
               /\ W[a].send.pair # W[m].send.pair
    <3>a. \A n, u, v \in Int : u # v => -(n - u) # -(n - v) /\ -(n - u - 1) # -(n - v - 1)
      OBVIOUS
    <3>b. c.n \in Int /\ a \in Int /\ m \in Int
      BY <1>1
    <3>0. -(c.n - a) # -(c.n - m) /\ -(c.n - a - 1) # -(c.n - m - 1)
      BY <3>a, <3>b, <2>3
    <3>1. /\ W[a].send.lg # W[m].send.lg /\ W[a].recv.lg # W[m].recv.lg
          /\ W[a].send.pair # W[m].send.pair
      BY <3>0, <1>2
    <3> QED BY <3>1, KeyFields
  <2>4. CASE k \in 1 .. N /\ l \notin 1 .. N
    <3>1. PICK m \in 1 .. M : all[l] = W[m]
      BY <2>4, <1>5
    <3> QED BY <3>1, <2>2, <2>4, <1>4
  <2>5. CASE k \notin 1 .. N /\ l \in 1 .. N
    <3>1. PICK m \in 1 .. M : all[k] = W[m]
      BY <2>5, <1>5
    <3> QED BY <3>1, <2>2, <2>5, <1>4
  <2>6. CASE k \notin 1 .. N /\ l \notin 1 .. N
    <3>1. PICK a \in 1 .. M : k = N + a /\ all[k] = W[a]
      BY <2>6, <1>5
    <3>2. PICK m \in 1 .. M : l = N + m /\ all[l] = W[m]
      BY <2>6, <1>5
    <3>3. a # m
      BY <3>1, <3>2, <1>9
    <3> QED BY <3>1, <3>2, <3>3, <2>3
  <2> QED BY <2>1, <2>4, <2>5, <2>6
<1>10. PairsOK(c, src, all)
  BY <1>4, <1>8, <1>9 DEF PairsOK, Apart
<1>11. Complete(c, src, all)
  <2>1. \A k \in 1 .. N : k \in 1 .. Len(all) /\ all[k] = ps[k]
    BY <1>1, <1>4
  <2> QED BY <2>1 DEF Complete, N
<1>12. Len(all) = N + c.n - 1
  BY <1>1, <1>4
<1> QED BY <1>4, <1>10, <1>11, <1>12 DEF all, W, M

\* Pairs that differ from others in the times of the verdicts only.
LEMMA PairsAlike ==
  ASSUME NEW c, NEW src, NEW o, NEW ps \in Seq(Pair), NEW qs \in Seq(Pair), Len(qs) = Len(ps),
         \A k \in 1 .. Len(ps) : /\ Alike(ps[k].send, qs[k].send) /\ Alike(ps[k].recv, qs[k].recv)
                                 /\ ps[k].send.type \in SendTypes => qs[k] = ps[k],
         PairsOK(c, src, ps), Complete(c, src, ps), Sends(o, ps, Len(ps)), Recvs(o, ps, 0)
  PROVE  PairsOK(c, src, qs) /\ Complete(c, src, qs) /\ Sends(o, qs, Len(qs)) /\ Recvs(o, qs, 0)
<1> DEFINE N == Len(ps)
<1>1. \A k \in 1 .. N : Alike(ps[k].send, qs[k].send) /\ Alike(ps[k].recv, qs[k].recv)
  OBVIOUS
<1>2. ASSUME NEW k \in 1 .. N
      PROVE  /\ Key(ps[k].send) = Key(qs[k].send) /\ Key(ps[k].recv) = Key(qs[k].recv)
             /\ ps[k].send.pair = qs[k].send.pair /\ ps[k].recv.pair = qs[k].recv.pair
             /\ ps[k].send.stage = qs[k].send.stage /\ ps[k].recv.stage = qs[k].recv.stage
             /\ ps[k].send.peer = qs[k].send.peer /\ ps[k].recv.peer = qs[k].recv.peer
             /\ ps[k].send.type = qs[k].send.type /\ ps[k].recv.type = qs[k].recv.type
             /\ IsSend(ps[k].send) = IsSend(qs[k].send) /\ IsRecv(ps[k].recv) = IsRecv(qs[k].recv)
  <2>1. Alike(ps[k].send, qs[k].send) /\ Alike(ps[k].recv, qs[k].recv)
    OBVIOUS
  <2>2. ps[k].send.type = qs[k].send.type /\ ps[k].recv.type = qs[k].recv.type
    BY <2>1, LikeKind DEF Alike, Like
  <2> QED BY <2>1, <2>2 DEF Alike, Like, IsSend, IsRecv
<1>3. \A k \in 1 .. N : Ends(c, qs[k]) /\ (qs[k].send.type \in SendTypes => JoinsSome(c, src, qs[k]))
  <2> SUFFICES ASSUME NEW k \in 1 .. N
               PROVE  Ends(c, qs[k]) /\ (qs[k].send.type \in SendTypes => JoinsSome(c, src, qs[k]))
    OBVIOUS
  <2>1. Ends(c, ps[k]) /\ (ps[k].send.type \in SendTypes => JoinsSome(c, src, ps[k]))
    BY DEF PairsOK
  <2>2. Ends(c, qs[k])
    BY <2>1, <1>2 DEF Ends
  <2> QED BY <2>1, <2>2, <1>2
<1>4. PairsOK(c, src, qs)
  <2>1. \A k, m \in 1 .. N : k # m => /\ Key(ps[k].send) # Key(ps[m].send)
                                      /\ Key(ps[k].recv) # Key(ps[m].recv)
                                      /\ ps[k].send.pair # ps[m].send.pair
    BY DEF PairsOK, Apart
  <2> HIDE DEF N
  <2>2. \A k, m \in 1 .. N : k # m => /\ Key(qs[k].send) # Key(qs[m].send)
                                      /\ Key(qs[k].recv) # Key(qs[m].recv)
                                      /\ qs[k].send.pair # qs[m].send.pair
    BY <2>1, <1>2
  <2> QED BY <2>2, <1>3 DEF PairsOK, Apart, N
<1>5. Complete(c, src, qs)
  <2>1. \A k \in 1 .. N : ps[k].send.type \in SendTypes => qs[k] = ps[k]
    OBVIOUS
  <2> QED BY <2>1 DEF Complete
<1>6. Sends(o, qs, N)
  <2> HIDE DEF N
  <2>1. Sends(o, ps, N)
    BY DEF N
  <2>2. ASSUME NEW s \in DOMAIN o, NEW i \in DOMAIN o[s], IsSend(o[s][i])
        PROVE  \E k \in 1 .. N : qs[k].send.stage = s /\ Alike(o[s][i], qs[k].send)
    <3>1. PICK k \in 1 .. N : ps[k].send.stage = s /\ Alike(o[s][i], ps[k].send)
      BY <2>1, <2>2 DEF Sends
    <3>2. qs[k].send.stage = s /\ Alike(o[s][i], qs[k].send)
      BY <3>1, <1>1, <1>2, AlikeTwice
    <3> QED BY <3>2
  <2>3. ASSUME NEW k \in 1 .. N
        PROVE  \E i \in DOMAIN o[qs[k].send.stage] : Alike(o[qs[k].send.stage][i], qs[k].send)
    <3>1. PICK i \in DOMAIN o[ps[k].send.stage] : Alike(o[ps[k].send.stage][i], ps[k].send)
      BY <2>1 DEF Sends
    <3> QED BY <3>1, <1>1, <1>2, AlikeTwice
  <2> QED BY <2>2, <2>3 DEF Sends
<1>7. Recvs(o, qs, 0)
  <2>1. \A k \in 1 .. 0 : FALSE
    OBVIOUS
  <2> QED BY <2>1 DEF Recvs
<1> QED BY <1>4, <1>5, <1>6, <1>7

(* The accumulators of AddPostValidation.                                     *)
Verification(c) == [ok : BOOLEAN, order : Orders(c), pairs : Seq(Pair), send : Node, time : Int, deadline : Int]

(* The accumulator of AddPostValidation after the last k stages, when all is   *)
(* the sequence of the pairs, the verdicts' included, and n the number of the  *)
(* other ones.                                                                *)
Verifying(c, src, all, n, acc, k) ==
  /\ acc \in Verification(c) /\ Whole(src, acc.order) /\ Peers(c, src, acc.order)
  /\ \A s \in Stages(c) : s < c.n - k =>
       \A i \in DOMAIN acc.order[s] : acc.order[s][i].type \notin PostValidationTypes
  /\ Sends(acc.order, all, n + (IF k = c.n THEN c.n - 1 ELSE k)) /\ Recvs(acc.order, all, 0)
  /\ k > 0 => Alike(acc.send, VerdictSend(c.n - k))
  /\ Len(acc.pairs) = IF k = 0 THEN 0 ELSE k - 1
  /\ \A m \in 1 .. Len(acc.pairs) : /\ Alike(acc.pairs[m].send, VerdictSend(c.n - m))
                                    /\ Alike(acc.pairs[m].recv, VerdictRecv(c.n - m))

(* The pairs of the verdicts are behind the n other ones.                     *)
VerdictsLast(c, all, n) ==
  Len(all) = n + c.n - 1 /\ \A m \in 1 .. c.n - 1 : all[n + m] = Verdicts(c)[m]

-----------------------------------------------------------------------------
(* add_post_validation_nodes_before_deadline.                               *)

\* A stage still has a computation that the verdict must be before.
LEMMA DeadlineThere ==
  ASSUME NEW c, NEW src, Sourced(c, src), HasDeadlines(src), NEW o, Whole(src, o),
         NEW s \in Stages(c)
  PROVE  \E i \in DOMAIN o[s] : IsComputation(o[s][i]) /\ (o[s][i].type # "F" \/ o[s][i].chunk # 0)
<1>1. s \in DOMAIN src
  BY DEF Sourced, Orders
<1>2. PICK k \in DOMAIN src[s] : src[s][k].type # "F" \/ src[s][k].chunk # 0
  BY <1>1 DEF HasDeadlines
<1>3. PICK i \in DOMAIN o[s] : Like(o[s][i], src[s][k])
  BY <1>1 DEF Whole, Kept
<1>4. IsComputation(src[s][k])
  BY <1>1 DEF Sourced
<1> QED BY <1>2, <1>3, <1>4, LikeKind DEF Like

\* The verdict of the next stage is received on this one.
LEMMA VerdictReceived ==
  ASSUME NEW s \in Int
  PROVE  VerdictRecv(s + 1) = PostValidationNode("RECV_POST_VALIDATION", s, 0, s + 1, -(s + 1))
<1> DEFINE u == s + 1
<1>1. u - 1 = s
  OBVIOUS
<1>2. VerdictRecv(u) = PostValidationNode("RECV_POST_VALIDATION", s, 0, u, -u)
  <2> HIDE DEF u
  <2> QED BY <1>1 DEF VerdictRecv
<1> QED BY <1>2

(* o2 is o with x, a verdict or its send, on stage s: the sends of the first n *)
(* pairs are in it.                                                           *)
WithVerdict(c, src, o, s, x, ps, n, o2) ==
  /\ o2 \in Orders(c) /\ Whole(src, o2) /\ Peers(c, src, o2)
  /\ Sends(o2, ps, n) /\ Recvs(o2, ps, 0)
  /\ Len(o2[s]) = Len(o[s]) + 1
  /\ \A t \in Stages(c) : t # s => o2[t] = o[t]
  /\ \A i \in DOMAIN o2[s] :
       Key(o2[s][i]) # Key(x) => \E j \in DOMAIN o[s] : Key(o2[s][i]) = Key(o[s][j])

\* A verdict, or its send, goes in.
LEMMA VerdictInserted ==
  ASSUME NEW c, NEW src, Sourced(c, src), NEW o \in Orders(c), Whole(src, o), Peers(c, src, o),
         NEW s \in Stages(c), NEW p \in 1 .. Len(o[s]) + 1, NEW x \in Node,
         IsSend(x) \/ x.type = "POST_VALIDATION", x.type \notin SendTypes,
         \A i \in DOMAIN o[s] : Key(o[s][i]) # Key(x),
         NEW ps, NEW n \in Nat, NEW n2 \in Nat, Sends(o, ps, n), Recvs(o, ps, 0), n <= n2,
         n2 <= n + 1,
         \A k \in 1 .. n : ps[k].send.stage \in Stages(c),
         IsSend(x) => n2 = n + 1,
         n2 = n + 1 => ps[n2].send.stage = s /\ Alike(x, ps[n2].send)
  PROVE  WithVerdict(c, src, o, s, x, ps, n2, Insert(o, s, p, x))
<1> DEFINE o2 == Insert(o, s, p, x)
<1>0. o2 = Insert(o, s, p, x)
  OBVIOUS
<1> HIDE DEF o2
<1>1. ~ IsRecv(x) /\ x.type \notin RecvTypes
  BY DEF IsSend, IsRecv, RecvTypes
<1>2. o2 \in Orders(c) /\ Whole(src, o2) /\ Peers(c, src, o2)
  <2> HIDE DEF Orders
  <2> QED BY <1>0, <1>1, Inserted
<1>3. Sends(o2, ps, n2) /\ Recvs(o2, ps, 0)
  <2>1. 0 \in Nat /\ 0 <= 0 /\ 0 <= 0 + 1 /\ ~ (0 = 0 + 1)
        /\ \A k \in 1 .. 0 : ps[k].recv.stage \in Stages(c)
    OBVIOUS
  <2> QED BY <2>1, <1>0, <1>1, CommsGrow
<1>4. Len(o2[s]) = Len(o[s]) + 1 /\ \A t \in Stages(c) : t # s => o2[t] = o[t]
  BY <1>0, InsertLength
<1>5. \A i \in DOMAIN o2[s] : Key(o2[s][i]) # Key(x) => \E j \in DOMAIN o[s] : Key(o2[s][i]) = Key(o[s][j])
  <2> SUFFICES ASSUME NEW i \in DOMAIN o2[s], Key(o2[s][i]) # Key(x)
               PROVE  \E j \in DOMAIN o[s] : Key(o2[s][i]) = Key(o[s][j])
    OBVIOUS
  <2>1. i \in DOMAIN Insert(o, s, p, x)[s] /\ Key(Insert(o, s, p, x)[s][i]) # Key(x)
    BY <1>0
  <2>2. \E j \in DOMAIN o[s] : Key(o[s][j]) = Key(Insert(o, s, p, x)[s][i])
    BY <2>1, WasThere
  <2> QED BY <2>2, <1>0
<1> QED BY <1>0, <1>2, <1>3, <1>4, <1>5 DEF WithVerdict

\* One more stage has its verdict, and sends it to the one below.
LEMMA StageVerified ==
  ASSUME NEW c, NEW src, Sourced(c, src), HasDeadlines(src),
         NEW all \in Seq(Pair), NEW n \in Nat, PairsOK(c, src, all), VerdictsLast(c, all, n),
         NEW k \in 1 .. c.n, NEW acc, Verifying(c, src, all, n, acc, k - 1)
  PROVE  Verifying(c, src, all, n, PostValidateStage(acc, c.n - k), k)
<1> DEFINE s == c.n - k
           o == acc.order
           nodes == o[s]
           last == DOMAIN o = 0 .. s
           D == {i \in 1 .. Len(nodes) : IsComputation(nodes[i]) /\ (nodes[i].type # "F" \/ nodes[i].chunk # 0)}
           deadline == IF D # {} THEN Min(D) ELSE 0
           J == {i \in 1 .. deadline - 1 : nodes[i].start > acc.time}
           later == IF J # {} THEN Min(J) ELSE 0
           at == IF later = 0 THEN deadline ELSE later
           own == IF at = 1 THEN nodes[1].start ELSE nodes[at - 1].end
           t == IF acc.time > own THEN acc.time ELSE own
           send == PostValidationNode("SEND_POST_VALIDATION", s, t, s - 1, -s)
           recv == PostValidationNode("RECV_POST_VALIDATION", s, acc.time, s + 1, -(s + 1))
           validate == PostValidationNode("POST_VALIDATION", s, t, None, None)
           placed == InsertAt(nodes, at, validate)
           pair == [send |-> acc.send, recv |-> recv, producer |-> NoKey,
                    deadline |-> Key(IF s = 0 THEN validate ELSE send)]
           res == PostValidateStage(acc, s)
<1>0. /\ acc.ok \in BOOLEAN /\ acc.order \in Orders(c) /\ acc.pairs \in Seq(Pair) /\ acc.send \in Node
      /\ acc.time \in Int /\ acc.deadline \in Int
  BY DEF Verifying, Verification
<1> DEFINE ok == acc.ok /\ (last \/ own < acc.deadline)
           order == [o EXCEPT ![s] = IF s = 0 THEN placed ELSE InsertAt(placed, at, send)]
           newPairs == IF last THEN <<>> ELSE Append(acc.pairs, pair)
           until == nodes[deadline].end
<1>a. res = [ok |-> ok, order |-> order, pairs |-> newPairs, send |-> send, time |-> t, deadline |-> until]
  BY DEF PostValidateStage, SelectInSeq, SelectInSubSeq
<1>b. ok \in BOOLEAN
  <2> DEFINE inTime == last \/ own < acc.deadline
  <2> HIDE DEF inTime
  <2>1. (acc.ok /\ inTime) \in BOOLEAN
    BY Zenon
  <2> QED BY <2>1 DEF inTime
<1> HIDE DEF ok, order, newPairs, until, res, send, t
<1>1. /\ res.order = order /\ res.pairs = newPairs /\ res.send = send /\ res.time = t /\ res.deadline = until
      /\ res.ok = ok
  BY <1>a
<1>2. /\ c.n \in Nat \ {0} /\ k \in Nat /\ k > 0 /\ k <= c.n /\ s \in Nat /\ s < c.n
      /\ s \in Stages(c) /\ Stages(c) = 0 .. c.n - 1
  BY DEF Sourced, Stages
<1>3. /\ o \in Orders(c) /\ Whole(src, o) /\ Peers(c, src, o) /\ DOMAIN o = Stages(c) /\ nodes \in Seq(Node)
      /\ Len(nodes) \in Nat /\ DOMAIN nodes = 1 .. Len(nodes)
      /\ acc.time \in Int
  BY <1>0, <1>2, LenProperties DEF Verifying, Orders
<1>4. \A u \in Stages(c) : u <= s => \A i \in DOMAIN o[u] : o[u][i].type \notin PostValidationTypes
  <2>1. \A u \in Stages(c) : u < c.n - (k - 1) =>
          \A i \in DOMAIN o[u] : o[u][i].type \notin PostValidationTypes
    BY DEF Verifying
  <2>2. \A u \in Stages(c) : u <= s => u < c.n - (k - 1)
    BY <1>2
  <2> QED BY <2>1, <2>2
<1> USE DEF send, t
<1> HIDE DEF s, o, nodes
<1>5. deadline \in 1 .. Len(nodes)
  <2>1. D # {}
    <3>1. \E i \in DOMAIN o[s] : IsComputation(o[s][i]) /\ (o[s][i].type # "F" \/ o[s][i].chunk # 0)
      <4>1. Sourced(c, src) /\ HasDeadlines(src)
        OBVIOUS
      <4>2. Whole(src, o) /\ s \in Stages(c)
        BY <1>2, <1>3
      <4> QED BY <4>1, <4>2, DeadlineThere
    <3> QED BY <3>1, <1>3 DEF nodes
  <2>2. D \in SUBSET Nat
    BY <1>3
  <2>3. deadline \in D
    <3> HIDE DEF D
    <3> QED BY <2>1, <2>2, MinOf
  <2> QED BY <2>3
<1> HIDE DEF deadline
<1>6. at \in 1 .. Len(nodes)
  <2>1. J \in SUBSET Nat
    BY <1>3, <1>5
  <2>2. CASE later = 0
    BY <2>2, <1>5
  <2>3. CASE later # 0
    <3>1. later \in J
      <4> HIDE DEF J
      <4> QED BY <2>1, <2>3, MinOf
    <3>2. later \in 1 .. deadline - 1
      BY <3>1
    <3> HIDE DEF later
    <3> QED BY <2>3, <3>2, <1>3, <1>5
  <2> QED BY <2>2, <2>3
<1> HIDE DEF at
<1>7. own \in Int /\ t \in Int
  <2>1. \A i \in 1 .. Len(nodes) : nodes[i].start \in Int /\ nodes[i].end \in Int
    <3> SUFFICES ASSUME NEW i \in 1 .. Len(nodes) PROVE nodes[i].start \in Int /\ nodes[i].end \in Int
      OBVIOUS
    <3>1. nodes[i] \in Node
      BY <1>3, ElementOfSeq
    <3> HIDE DEF nodes
    <3> QED BY <3>1 DEF Node
  <2>2. own \in Int
    <3>1. CASE at = 1
      BY <3>1, <2>1, <1>6
    <3>2. CASE at # 1
      <4>1. at - 1 \in 1 .. Len(nodes)
        BY <3>2, <1>3, <1>6
      <4> QED BY <3>2, <4>1, <2>1
    <3> QED BY <3>1, <3>2
  <2> HIDE DEF own
  <2> QED BY <2>2, <1>3
<1> HIDE DEF t
<1>8. /\ validate \in Node /\ validate.type = "POST_VALIDATION"
      /\ send \in Node /\ send.type = "SEND_POST_VALIDATION" /\ send.stage = s /\ Alike(send, VerdictSend(s))
      /\ recv \in Node /\ recv.type = "RECV_POST_VALIDATION" /\ Alike(recv, VerdictRecv(s + 1))
  <2>1. /\ "POST_VALIDATION" \in PostValidationTypes /\ "SEND_POST_VALIDATION" \in PostValidationTypes
        /\ "RECV_POST_VALIDATION" \in PostValidationTypes
    BY DEF PostValidationTypes
  <2>2. s \in Int /\ t \in Int /\ s - 1 \in Int /\ -s \in Int /\ None \in Int /\ s + 1 \in Int /\ -(s + 1) \in Int
    BY <1>2, <1>7 DEF None
  <2>3. validate \in Node /\ validate.type = "POST_VALIDATION"
    BY <2>1, <2>2, PostValidationNodeIs
  <2>4. send \in Node /\ send.type = "SEND_POST_VALIDATION" /\ send.stage = s /\ Alike(send, VerdictSend(s))
    BY <2>1, <2>2, PostValidationNodeIs DEF VerdictSend
  <2>5. recv \in Node /\ recv.type = "RECV_POST_VALIDATION"
        /\ Alike(recv, PostValidationNode("RECV_POST_VALIDATION", s, 0, s + 1, -(s + 1)))
    BY <2>1, <2>2, <1>3, PostValidationNodeIs
  <2>7. VerdictRecv(s + 1) = PostValidationNode("RECV_POST_VALIDATION", s, 0, s + 1, -(s + 1))
    BY <2>2, VerdictReceived
  <2> HIDE DEF validate, send, recv
  <2> QED BY <2>3, <2>4, <2>5, <2>7
<1> HIDE DEF validate, send, recv, pair, placed
<1>9. /\ ~ IsSend(validate) /\ ~ IsRecv(validate)
      /\ validate.type \notin SendTypes /\ validate.type \notin RecvTypes
      /\ IsSend(send) /\ ~ IsRecv(send) /\ send.type \notin SendTypes /\ send.type \notin RecvTypes
  BY <1>8 DEF IsSend, IsRecv, SendTypes, RecvTypes
\* The verdict itself ...
<1> DEFINE o1 == Insert(o, s, at, validate)
           N == n + (k - 1)
<1>10. /\ N \in Nat /\ Sends(o, all, N) /\ Recvs(o, all, 0)
       /\ \A m \in 1 .. N : all[m].send.stage \in Stages(c)
       /\ N + 1 = n + k /\ N <= Len(all) /\ (k < c.n => N + 1 <= Len(all))
  <2>1. N \in Nat /\ N + 1 = n + k /\ N <= Len(all) /\ (k < c.n => N + 1 <= Len(all))
    BY <1>2 DEF VerdictsLast
  <2>2. Sends(o, all, N) /\ Recvs(o, all, 0)
    <3>1. k - 1 # c.n
      BY <1>2
    <3> QED BY <3>1 DEF Verifying, o
  <2>3. \A m \in 1 .. Len(all) : Ends(c, all[m])
    BY DEF PairsOK
  <2>4. \A m \in 1 .. N : m \in 1 .. Len(all)
    BY <2>1, LenProperties
  <2> HIDE DEF N
  <2> QED BY <2>1, <2>2, <2>3, <2>4 DEF Ends
<1> HIDE DEF N
<1>11. \A x : x.type \in PostValidationTypes => \A i \in DOMAIN o[s] : Key(o[s][i]) # Key(x)
  <2>1. \A i \in DOMAIN o[s] : o[s][i].type \notin PostValidationTypes
    BY <1>2, <1>4
  <2> QED BY <2>1, KeyFields
<1>12. at \in 1 .. Len(o[s]) + 1
  BY <1>3, <1>6 DEF nodes
<1> HIDE DEF o1
<1>13. o1 = Insert(o, s, at, validate)
  BY DEF o1
<1>14. /\ o1 \in Orders(c) /\ Whole(src, o1) /\ Peers(c, src, o1)
       /\ Sends(o1, all, N) /\ Recvs(o1, all, 0)
       /\ Len(o1[s]) = Len(o[s]) + 1
       /\ \A u \in Stages(c) : u # s => o1[u] = o[u]
       /\ \A i \in DOMAIN o1[s] :
            Key(o1[s][i]) # Key(validate) => \E j \in DOMAIN o[s] : Key(o1[s][i]) = Key(o[s][j])
  <2>1. \A i \in DOMAIN o[s] : Key(o[s][i]) # Key(validate)
    BY <1>8, <1>11 DEF PostValidationTypes
  <2> DEFINE M == N
  <2>2. M \in Nat /\ N <= M /\ M <= N + 1 /\ ~ (M = N + 1)
    BY <1>10
  <2> HIDE DEF M
  <2>3. /\ validate \in Node /\ ~ IsSend(validate) /\ validate.type = "POST_VALIDATION"
        /\ validate.type \notin SendTypes
    BY <1>8, <1>9
  <2>4. o \in Orders(c) /\ Whole(src, o) /\ Peers(c, src, o) /\ s \in Stages(c)
    BY <1>2, <1>3
  <2>5. N \in Nat /\ Sends(o, all, N) /\ Recvs(o, all, 0) /\ \A m \in 1 .. N : all[m].send.stage \in Stages(c)
    BY <1>10
  <2>6. WithVerdict(c, src, o, s, validate, all, M, Insert(o, s, at, validate))
    <3>1. IsSend(validate) => M = N + 1
      BY <2>3
    <3>2. M = N + 1 => all[M].send.stage = s /\ Alike(validate, all[M].send)
      BY <2>2
    <3>3. IsSend(validate) \/ validate.type = "POST_VALIDATION"
      BY <2>3
    <3>4. M \in Nat /\ N <= M /\ M <= N + 1
      BY <2>2
    <3>5. validate \in Node /\ validate.type \notin SendTypes
      BY <2>3
    <3> QED BY <2>1, <3>1, <3>2, <3>3, <3>4, <3>5, <2>4, <2>5, <1>12, VerdictInserted
  <2> QED BY <2>6, <1>13 DEF M, WithVerdict
<1>16. \A i \in DOMAIN o1[s] : Key(o1[s][i]) # Key(send)
  <2> SUFFICES ASSUME NEW i \in DOMAIN o1[s], Key(o1[s][i]) = Key(send) PROVE FALSE
    OBVIOUS
  <2>1. Key(send) # Key(validate)
    BY <1>8, KeyFields
  <2>2. PICK j \in DOMAIN o[s] : Key(o1[s][i]) = Key(o[s][j])
    BY <2>1, <1>14
  <2>3. Key(o[s][j]) # Key(send)
    <3>1. send.type \in PostValidationTypes
      BY <1>8 DEF PostValidationTypes
    <3> QED BY <3>1, <1>11
  <2> QED BY <2>2, <2>3
\* ... and its send, on a stage other than the first.
<1> DEFINE o2 == Insert(o1, s, at, send)
<1>17. at \in 1 .. Len(o1[s]) + 1
  <2>1. Len(o[s]) \in Nat
    BY <1>3 DEF nodes
  <2> QED BY <2>1, <1>12, <1>14
<1> HIDE DEF o2
<1>18. o2 = Insert(o1, s, at, send)
  BY DEF o2
<1>19. ASSUME s # 0
       PROVE  /\ o2 \in Orders(c) /\ Whole(src, o2) /\ Peers(c, src, o2)
              /\ Sends(o2, all, N + 1) /\ Recvs(o2, all, 0)
              /\ \A u \in Stages(c) : u # s => o2[u] = o1[u]
  <2>1. k < c.n /\ k \in 1 .. c.n - 1
    BY <1>19, <1>2 DEF s
  <2>2. all[N + 1].send.stage = s /\ Alike(send, all[N + 1].send)
    <3>1. all[N + 1] = Verdicts(c)[k]
      BY <2>1, <1>10 DEF VerdictsLast
    <3>2. Verdicts(c)[k].send = VerdictSend(s)
      BY <2>1 DEF Verdicts, s
    <3>3. send.stage = VerdictSend(s).stage
      BY <1>8 DEF Alike, Like
    <3> QED BY <3>1, <3>2, <3>3, <1>8
  <2> DEFINE M == N + 1
  <2>3. M \in Nat /\ N <= M /\ M <= N + 1 /\ M = N + 1
    BY <1>10
  <2>4. all[M].send.stage = s /\ Alike(send, all[M].send)
    BY <2>2
  <2> HIDE DEF M
  <2>5. send \in Node /\ IsSend(send) /\ send.type \notin SendTypes
    BY <1>8, <1>9
  <2>6. o1 \in Orders(c) /\ Whole(src, o1) /\ Peers(c, src, o1) /\ s \in Stages(c)
    BY <1>2, <1>14
  <2>7. N \in Nat /\ Sends(o1, all, N) /\ Recvs(o1, all, 0) /\ \A m \in 1 .. N : all[m].send.stage \in Stages(c)
    BY <1>10, <1>14
  <2>8. WithVerdict(c, src, o1, s, send, all, M, Insert(o1, s, at, send))
    BY <2>3, <2>4, <2>5, <2>6, <2>7, <1>16, <1>17, VerdictInserted
  <2> QED BY <2>8, <1>18 DEF M, WithVerdict
<1> DEFINE o3 == IF s = 0 THEN o1 ELSE o2
<1>21. order = o3
  <2>1. o1[s] = placed /\ o1 = [o EXCEPT ![s] = placed]
    BY <1>2, <1>3 DEF o1, Insert, placed, nodes
  <2>2. o2 = [o1 EXCEPT ![s] = InsertAt(placed, at, send)]
    BY <2>1 DEF o2, Insert
  <2>3. o2 = [o EXCEPT ![s] = InsertAt(placed, at, send)]
    BY <2>1, <2>2, <1>2, <1>3
  <2> QED BY <2>1, <2>3 DEF order
<1>22. /\ o3 \in Orders(c) /\ Whole(src, o3) /\ Peers(c, src, o3)
       /\ Sends(o3, all, n + (IF k = c.n THEN c.n - 1 ELSE k)) /\ Recvs(o3, all, 0)
  <2>1. CASE s = 0
    <3>1. k = c.n /\ N = n + (c.n - 1)
      BY <2>1, <1>2 DEF s, N
    <3> QED BY <2>1, <3>1, <1>14
  <2>2. CASE s # 0
    <3>1. k # c.n /\ N + 1 = n + k
      BY <2>2, <1>2, <1>10 DEF s
    <3> QED BY <2>2, <3>1, <1>19
  <2> QED BY <2>1, <2>2
<1>23. \A u \in Stages(c) : u < c.n - k =>
         \A i \in DOMAIN o3[u] : o3[u][i].type \notin PostValidationTypes
  <2> SUFFICES ASSUME NEW u \in Stages(c), u < s
               PROVE  \A i \in DOMAIN o3[u] : o3[u][i].type \notin PostValidationTypes
    BY DEF s
  <2>0. u \in Nat /\ u < s
    BY <1>2
  <2>1. u # s /\ u <= s
    BY <1>2, <2>0
  <2>2. o3[u] = o[u]
    <3>1. s # 0
      BY <1>2, <2>0
    <3> QED BY <3>1, <2>1, <1>14, <1>19
  <2> QED BY <2>1, <2>2, <1>4
<1>24. last <=> k = 1
  <2>1. 0 .. c.n - 1 = 0 .. s <=> c.n - 1 = s
    BY <1>2
  <2> QED BY <2>1, <1>2, <1>3 DEF s
<1>25. /\ newPairs \in Seq(Pair) /\ Len(newPairs) = k - 1
       /\ \A m \in 1 .. Len(newPairs) : /\ Alike(newPairs[m].send, VerdictSend(c.n - m))
                                        /\ Alike(newPairs[m].recv, VerdictRecv(c.n - m))
  <2>1. CASE k = 1
    <3>1. newPairs = <<>>
      BY <2>1, <1>24 DEF newPairs
    <3> QED BY <2>1, <3>1
  <2>2. CASE k # 1
    <3>1. newPairs = Append(acc.pairs, pair)
      BY <2>2, <1>24 DEF newPairs
    <3>2. /\ acc.pairs \in Seq(Pair) /\ Len(acc.pairs) = k - 2
          /\ \A m \in 1 .. Len(acc.pairs) : /\ Alike(acc.pairs[m].send, VerdictSend(c.n - m))
                                            /\ Alike(acc.pairs[m].recv, VerdictRecv(c.n - m))
          /\ acc.send \in Node /\ Alike(acc.send, VerdictSend(c.n - (k - 1)))
      <4>1. k - 1 # 0 /\ k - 1 > 0 /\ k - 1 - 1 = k - 2
        BY <2>2, <1>2
      <4> QED BY <4>1, <1>0 DEF Verifying
    <3>3. pair \in Pair
      <4>1. Key(IF s = 0 THEN validate ELSE send) \in NodeKey
        <5>1. \A x \in Node : Key(x) \in NodeKey
          BY DEF Node, Key, MakeKey, NodeKey
        <5> QED BY <5>1, <1>8
      <4>2. NoKey \in NodeKey
        BY DEF NoKey, NodeKey, MakeKey, None
      <4> QED BY <4>1, <4>2, <3>2, <1>8 DEF pair, Pair
    <3>4. pair.send = acc.send /\ pair.recv = recv
      BY DEF pair
    <3>5. /\ newPairs \in Seq(Pair) /\ Len(newPairs) = Len(acc.pairs) + 1
          /\ newPairs[Len(acc.pairs) + 1] = pair
          /\ \A m \in 1 .. Len(acc.pairs) : newPairs[m] = acc.pairs[m]
      BY <3>1, <3>2, <3>3, AppendProperties
    <3>6. Len(acc.pairs) + 1 = k - 1 /\ c.n - (k - 1) = s + 1
      BY <3>2, <1>2 DEF s
    <3>7. ASSUME NEW m \in 1 .. k - 1
          PROVE  Alike(newPairs[m].send, VerdictSend(c.n - m)) /\ Alike(newPairs[m].recv, VerdictRecv(c.n - m))
      <4>1. CASE m = k - 1
        <5>1. newPairs[m] = pair /\ c.n - m = s + 1
          BY <4>1, <3>5, <3>6
        <5> QED BY <5>1, <3>2, <3>4, <3>6, <1>8
      <4>2. CASE m # k - 1
        <5>1. m \in 1 .. Len(acc.pairs)
          BY <4>2, <3>2, <1>2
        <5> QED BY <5>1, <3>2, <3>5
      <4> QED BY <4>1, <4>2
    <3> QED BY <3>5, <3>6, <3>7
  <2> QED BY <2>1, <2>2
<1> HIDE DEF o3
<1>c. until \in Int
  <2>1. nodes[deadline] \in Node
    BY <1>3, <1>5, ElementOfSeq
  <2> QED BY <2>1 DEF Node, until
<1>26. Verifying(c, src, all, n, res, k)
  <2>1. send \in Node /\ Alike(send, VerdictSend(c.n - k)) /\ k # 0
    BY <1>2, <1>8 DEF s
  <2>2. res \in Verification(c)
    BY <2>1, <1>a, <1>b, <1>c, <1>7, <1>21, <1>22, <1>25 DEF Verification
  <2> QED BY <2>1, <2>2, <1>1, <1>21, <1>22, <1>23, <1>25 DEF Verifying
<1> QED BY <1>26 DEF res, s

\* All the stages have their verdicts.
LEMMA AllVerified ==
  ASSUME NEW c, NEW src, Sourced(c, src), HasDeadlines(src), NEW all \in Seq(Pair), NEW n \in Nat,
         PairsOK(c, src, all), VerdictsLast(c, all, n),
         NEW o, o \in Orders(c), Whole(src, o), Peers(c, src, o), Unverified(o), Sends(o, all, n),
         Recvs(o, all, 0)
  PROVE  Verifying(c, src, all, n, AddPostValidation(c, o), c.n)
<1> DEFINE N == c.n
           seq == [k \in 1 .. N |-> N - k]
           none == PostValidationNode("SEND_POST_VALIDATION", N, None, None, None)
           base == [ok |-> TRUE, order |-> o, pairs |-> <<>>, send |-> none, time |-> None, deadline |-> None]
           acc == CHOOSE f : f = [k \in 0 .. N |-> IF k = 0 THEN base
                    ELSE CHOOSE r \in {PostValidateStage(a, seq[k]) : a \in {f[k - 1]}} : TRUE]
           A == [k \in 0 .. N |-> {a \in Verification(c) : Verifying(c, src, all, n, a, k)}]
           step == [k \in 1 .. N |-> [a \in A[k - 1] |-> PostValidateStage(a, seq[k])]]
<1>2. N \in Nat /\ N > 0 /\ Len(seq) = N /\ \A k \in 1 .. N : seq[k] = N - k
  BY DEF Sourced
<1>1. AddPostValidation(c, o) = acc[N]
  <2>1. ForEach(PostValidateStage, base, seq) = acc[N]
    <3> HIDE DEF seq, base, N
    <3>1. ForEach(PostValidateStage, base, seq)
          = (CHOOSE f : f = [k \in 0 .. Len(seq) |-> IF k = 0 THEN base
                    ELSE CHOOSE r \in {PostValidateStage(a, seq[k]) : a \in {f[k - 1]}} : TRUE])[Len(seq)]
      BY DEF ForEach
    <3> QED BY <3>1, <1>2
  <2>2. AddPostValidation(c, o) = ForEach(PostValidateStage, base, seq)
    BY DEF AddPostValidation
  <2> HIDE DEF acc, seq, base
  <2> QED BY <2>1, <2>2
<1>3. ASSUME NEW k \in 1 .. N, NEW a \in A[k - 1]
      PROVE  PostValidateStage(a, seq[k]) \in A[k]
  <2>1. k - 1 \in 0 .. N /\ k \in 0 .. N /\ k \in 1 .. c.n
    BY <1>2
  <2>2. Verifying(c, src, all, n, a, k - 1)
    BY <2>1
  <2>3. Verifying(c, src, all, n, PostValidateStage(a, c.n - k), k)
    BY <2>1, <2>2, StageVerified
  <2>4. PostValidateStage(a, seq[k]) = PostValidateStage(a, c.n - k)
    BY <1>2
  <2> DEFINE b == PostValidateStage(a, seq[k])
  <2>5. Verifying(c, src, all, n, b, k)
    BY <2>3, <2>4
  <2> HIDE DEF b
  <2>6. b \in Verification(c)
    BY <2>5 DEF Verifying
  <2>7. b \in A[k]
    BY <2>1, <2>5, <2>6
  <2> QED BY <2>7 DEF b
<1>4. base \in A[0]
  <2>1. none \in Node
    <3>1. "SEND_POST_VALIDATION" \in PostValidationTypes /\ None \in Int /\ N \in Int
      BY <1>2 DEF PostValidationTypes, None
    <3> QED BY <3>1, PostValidationNodeIs
  <2>2. None \in Int /\ <<>> \in Seq(Pair) /\ Len(<<>>) = 0 /\ TRUE \in BOOLEAN
    BY DEF None
  <2> HIDE DEF none
  <2>3. base \in Verification(c)
    BY <2>1, <2>2 DEF Verification
  <2>4. base.order = o /\ base.pairs = <<>>
    OBVIOUS
  <2> HIDE DEF base
  <2>5. Verifying(c, src, all, n, base, 0)
    <3>1. \A s \in Stages(c) : s < c.n - 0 =>
            \A i \in DOMAIN o[s] : o[s][i].type \notin PostValidationTypes
      BY DEF Unverified, Orders
    <3>2. Sends(o, all, n + (IF 0 = c.n THEN c.n - 1 ELSE 0))
      <4>1. n + (IF 0 = c.n THEN c.n - 1 ELSE 0) = n
        BY <1>2
      <4> QED BY <4>1
    <3>3. /\ Len(base.pairs) = IF 0 = 0 THEN 0 ELSE 0 - 1
          /\ \A m \in 1 .. Len(base.pairs) : /\ Alike(base.pairs[m].send, VerdictSend(c.n - m))
                                             /\ Alike(base.pairs[m].recv, VerdictRecv(c.n - m))
      <4>1. Len(base.pairs) = 0
        BY <2>2, <2>4
      <4> QED BY <4>1
    <3> QED BY <2>3, <2>4, <3>1, <3>2, <3>3 DEF Verifying
  <2> QED BY <2>3, <2>5, <1>2
<1>5. \A k \in 1 .. N : \A a \in A[k - 1] : step[k][a] \in A[k]
  BY <1>3
<1> HIDE DEF N, base, seq
<1>6. PICK g : Runs(g, N, A, base, step)
  <2> HIDE DEF A, step
  <2> QED BY <1>2, <1>4, <1>5, LoopRuns
<1> HIDE DEF A
<1>7. ASSUME NEW k \in 1 .. N, NEW f
      PROVE  (CHOOSE r \in {PostValidateStage(a, seq[k]) : a \in {f[k - 1]}} : TRUE) = PostValidateStage(f[k - 1], seq[k])
  OBVIOUS
<1>8. g = [k \in 0 .. N |-> IF k = 0 THEN base ELSE CHOOSE r \in {PostValidateStage(a, seq[k]) : a \in {g[k - 1]}} : TRUE]
  <2>1. ASSUME NEW k \in 1 .. N PROVE step[k][g[k - 1]] = PostValidateStage(g[k - 1], seq[k])
    <3>1. g[k - 1] \in A[k - 1]
      <4>1. k - 1 \in 0 .. N
        BY <1>2
      <4>2. \A m \in 0 .. N : g[m] \in A[m]
        BY <1>6 DEF Runs
      <4> QED BY <4>1, <4>2
    <3> QED BY <3>1
  <2> HIDE DEF step
  <2>2. ASSUME NEW k \in 0 .. N
        PROVE  (IF k = 0 THEN base ELSE step[k][g[k - 1]])
             = IF k = 0 THEN base ELSE CHOOSE r \in {PostValidateStage(a, seq[k]) : a \in {g[k - 1]}} : TRUE
    <3>1. CASE k = 0
      BY <3>1
    <3>2. CASE k # 0
      <4>1. k \in 1 .. N
        BY <3>2
      <4> QED BY <3>2, <4>1, <2>1, <1>7
    <3> QED BY <3>1, <3>2
  <2> QED BY <1>6, <2>2 DEF Runs
<1>9. acc = [k \in 0 .. N |-> IF k = 0 THEN base ELSE CHOOSE r \in {PostValidateStage(a, seq[k]) : a \in {acc[k - 1]}} : TRUE]
  BY <1>2, <1>8
<1> HIDE DEF acc
<1>10. \A k \in 0 .. N : acc[k] \in A[k]
  <2> DEFINE T == {k \in 0 .. N : acc[k] \in A[k]}
  <2>1. 0 \in T
    <3>1. 0 \in 0 .. N
      BY <1>2
    <3> QED BY <1>4, <1>9, <3>1
  <2>2. ASSUME NEW k \in 1 .. N, k - 1 \in T PROVE k \in T
    <3>1. k \in 0 .. N /\ k # 0
      BY <1>2
    <3>2. acc[k] = CHOOSE r \in {PostValidateStage(a, seq[k]) : a \in {acc[k - 1]}} : TRUE
      BY <1>9, <3>1
    <3>3. acc[k] = PostValidateStage(acc[k - 1], seq[k])
      BY <1>7, <3>2
    <3> QED BY <3>1, <3>3, <2>2, <1>3
  <2> HIDE DEF T
  <2>3. \A k \in 0 .. N : k \in T
    BY <2>1, <2>2, <1>2, UpTo
  <2> QED BY <2>3 DEF T
<1>11. acc[N] \in A[N]
  BY <1>10, <1>2
<1>12. Verifying(c, src, all, n, acc[N], N)
  BY <1>11, <1>2 DEF A
<1> QED BY <1>1, <1>12 DEF N

\* The sends of pairs that are the same.
LEMMA SamePairs ==
  ASSUME NEW o, NEW ps, NEW qs, NEW n, \A k \in 1 .. n : qs[k] = ps[k], Sends(o, ps, n)
  PROVE  Sends(o, qs, n)
<1>1. ASSUME NEW s \in DOMAIN o, NEW i \in DOMAIN o[s], IsSend(o[s][i])
      PROVE  \E k \in 1 .. n : qs[k].send.stage = s /\ Alike(o[s][i], qs[k].send)
  <2>1. PICK k \in 1 .. n : ps[k].send.stage = s /\ Alike(o[s][i], ps[k].send)
    BY <1>1 DEF Sends
  <2>2. qs[k] = ps[k]
    OBVIOUS
  <2> QED BY <2>1, <2>2
<1>2. ASSUME NEW k \in 1 .. n
      PROVE  \E i \in DOMAIN o[qs[k].send.stage] : Alike(o[qs[k].send.stage][i], qs[k].send)
  <2>1. qs[k] = ps[k]
    OBVIOUS
  <2> QED BY <2>1 DEF Sends
<1> QED BY <1>1, <1>2 DEF Sends

\* The pairs with those of the verdicts, whose times are now known.
LEMMA Verified ==
  ASSUME NEW c, NEW src, Sourced(c, src), HasDeadlines(src), NEW ps \in Seq(Pair),
         PairsOK(c, src, ps),
         Complete(c, src, ps), \A k \in 1 .. Len(ps) : ps[k].send.type \in SendTypes,
         NEW o, Sending(c, src, o, ps, Len(ps)), NEW post, post = AddPostValidation(c, o), NEW qs,
         qs = ps \o post.pairs
  PROVE  /\ post.order \in Orders(c) /\ Whole(src, post.order) /\ Peers(c, src, post.order)
         /\ qs \in Seq(Pair) /\ Len(qs) >= Len(ps) /\ PairsOK(c, src, qs) /\ Complete(c, src, qs)
         /\ Sends(post.order, qs, Len(qs)) /\ Recvs(post.order, qs, 0)
<1> DEFINE all == ps \o Verdicts(c)
           n == Len(ps)
<1>1. /\ all \in Seq(Pair) /\ Len(all) = n + c.n - 1
      /\ \A k \in 1 .. n : all[k] = ps[k]
      /\ \A m \in 1 .. c.n - 1 : all[n + m] = Verdicts(c)[m]
      /\ PairsOK(c, src, all) /\ Complete(c, src, all)
  BY VerdictPairs
<1>2. n \in Nat /\ c.n \in Nat /\ c.n > 0
  BY DEF Sourced
<1> HIDE DEF all, n
<1>3. VerdictsLast(c, all, n)
  BY <1>1 DEF VerdictsLast
<1>4. /\ o \in Orders(c) /\ Whole(src, o) /\ Peers(c, src, o) /\ Unverified(o)
      /\ Sends(o, ps, n) /\ Recvs(o, ps, 0)
  BY DEF Sending, n
<1>5. Sends(o, all, n) /\ Recvs(o, all, 0)
  <2>1. \A k \in 1 .. n : all[k] = ps[k]
    BY <1>1
  <2>2. Sends(o, all, n)
    BY <2>1, <1>4, SamePairs
  <2> QED BY <2>2, <1>2, <1>4 DEF Recvs
<1>6. Verifying(c, src, all, n, post, c.n)
  BY <1>1, <1>2, <1>3, <1>4, <1>5, AllVerified
<1>7. /\ post.order \in Orders(c) /\ Whole(src, post.order) /\ Peers(c, src, post.order)
      /\ post.pairs \in Seq(Pair) /\ Len(post.pairs) = c.n - 1
      /\ Sends(post.order, all, Len(all)) /\ Recvs(post.order, all, 0)
      /\ \A m \in 1 .. c.n - 1 : /\ Alike(post.pairs[m].send, VerdictSend(c.n - m))
                                /\ Alike(post.pairs[m].recv, VerdictRecv(c.n - m))
  <2>1. c.n # 0 /\ n + (c.n - 1) = Len(all)
    BY <1>1, <1>2
  <2> QED BY <2>1, <1>6 DEF Verifying, Verification
<1>8. /\ qs \in Seq(Pair) /\ Len(qs) = Len(all)
      /\ \A k \in 1 .. n : qs[k] = ps[k]
      /\ \A m \in 1 .. c.n - 1 : qs[n + m] = post.pairs[m]
  <2>1. Len(ps) = n /\ Len(qs) = n + (c.n - 1) /\ qs \in Seq(Pair)
    BY <1>2, <1>7, ConcatProperties DEF n
  <2>2. \A k \in 1 .. n : qs[k] = ps[k]
    BY <2>1, <1>2, <1>7, ConcatProperties
  <2>3. ASSUME NEW m \in 1 .. c.n - 1 PROVE qs[n + m] = post.pairs[m]
    <3>1. n + m \in 1 .. Len(ps) + Len(post.pairs) /\ n + m > Len(ps) /\ n + m - Len(ps) = m
      BY <2>1, <1>2, <1>7
    <3> DEFINE i == n + m
    <3>2. i \in 1 .. Len(ps) + Len(post.pairs) /\ ~ (i <= Len(ps)) /\ i - Len(ps) = m
      BY <3>1, <2>1, <1>2
    <3> HIDE DEF i
    <3>3. \A j \in 1 .. Len(ps) + Len(post.pairs) :
            (ps \o post.pairs)[j] = IF j <= Len(ps) THEN ps[j] ELSE post.pairs[j - Len(ps)]
      BY <1>7, ConcatProperties
    <3>4. qs[i] = post.pairs[i - Len(ps)]
      BY <3>2, <3>3
    <3>5. qs[i] = post.pairs[m]
      BY <3>2, <3>4
    <3> QED BY <3>5 DEF i
  <2> QED BY <2>1, <2>2, <2>3, <1>1, <1>2
<1>9. ASSUME NEW k \in 1 .. Len(all)
      PROVE  /\ Alike(all[k].send, qs[k].send) /\ Alike(all[k].recv, qs[k].recv)
             /\ all[k].send.type \in SendTypes => qs[k] = all[k]
  <2>0. \A a, b : Alike(a, b) => Alike(b, a)
    BY DEF Alike, Like
  <2>1. CASE k \in 1 .. n
    <3>1. qs[k] = all[k]
      BY <2>1, <1>1, <1>8
    <3> QED BY <3>1 DEF Alike, Like
  <2>2. CASE k \notin 1 .. n
    <3>1. k - n \in 1 .. c.n - 1 /\ n + (k - n) = k
      BY <2>2, <1>1, <1>2
    <3> DEFINE m == k - n
    <3>2. m \in 1 .. c.n - 1 /\ n + m = k
      BY <3>1
    <3> HIDE DEF m
    <3>3. qs[k] = post.pairs[m] /\ all[k] = Verdicts(c)[m]
      BY <3>2, <1>1, <1>8
    <3>4. all[k].send = VerdictSend(c.n - m) /\ all[k].recv = VerdictRecv(c.n - m)
      BY <3>2, <3>3 DEF Verdicts
    <3>5. VerdictSend(c.n - m).type \notin SendTypes
      <4>1. "SEND_POST_VALIDATION" \in PostValidationTypes
        BY DEF PostValidationTypes
      <4>2. c.n - m \in Int /\ c.n - m - 1 \in Int /\ -(c.n - m) \in Int
        BY <3>2, <1>2
      <4>3. VerdictSend(c.n - m).type = "SEND_POST_VALIDATION"
        BY <4>1, <4>2, PostValidationNodeIs DEF VerdictSend
      <4> QED BY <4>3 DEF SendTypes
    <3>6. Alike(qs[k].send, all[k].send) /\ Alike(qs[k].recv, all[k].recv)
      BY <3>2, <3>3, <3>4, <1>7
    <3> QED BY <3>4, <3>5, <3>6, <2>0
  <2> QED BY <2>1, <2>2
<1> DEFINE o2 == post.order
<1> HIDE DEF o2
<1>10. /\ PairsOK(c, src, qs) /\ Complete(c, src, qs)
       /\ Sends(post.order, qs, Len(qs)) /\ Recvs(post.order, qs, 0)
  <2>1. all \in Seq(Pair) /\ qs \in Seq(Pair) /\ Len(qs) = Len(all)
    BY <1>1, <1>8
  <2>2. PairsOK(c, src, all) /\ Complete(c, src, all) /\ Sends(o2, all, Len(all)) /\ Recvs(o2, all, 0)
    BY <1>1, <1>7 DEF o2
  <2>3. \A k \in 1 .. Len(all) : /\ Alike(all[k].send, qs[k].send) /\ Alike(all[k].recv, qs[k].recv)
                                 /\ all[k].send.type \in SendTypes => qs[k] = all[k]
    BY <1>9
  <2>4. PairsOK(c, src, qs) /\ Complete(c, src, qs) /\ Sends(o2, qs, Len(qs)) /\ Recvs(o2, qs, 0)
    BY <2>1, <2>2, <2>3, PairsAlike
  <2> QED BY <2>4 DEF o2
<1>11. Len(qs) >= Len(ps)
  BY <1>1, <1>2, <1>8 DEF n
<1> QED BY <1>7, <1>8, <1>10, <1>11

Phases == {"built", "timing", "timed", "sends", "sorting", "receives", "validation", "compiled", "failed"}

(* What holds in every phase, where no activations are offloaded: the types,  *)
(* and that the order is whole.                                               *)
Typed ==
  /\ phase \in Phases
  /\ localOrder \in Orders(prog.cfg) /\ Whole(prog.order, localOrder)
  /\ simulation.order \in Orders(prog.cfg) /\ simulation.time \in [Stages(prog.cfg) -> Nat]
  /\ \A s \in Stages(prog.cfg) : \A i \in DOMAIN simulation.order[s] : IsComputation(simulation.order[s][i])
  /\ cursor \in 0 .. prog.cfg.n /\ ranOne \in BOOLEAN
  /\ pairs \in Seq(Pair) /\ PairsOK(prog.cfg, prog.order, pairs)
  /\ next \in 1 .. Len(pairs) + 1
  /\ Places(prog.cfg, localOrder, startIndices)
  /\ matched \subseteq PairIds(localOrder)

(* What waits for its pass is still what it was in the beginning.             *)
Waiting ==
  /\ phase = "built" => localOrder = prog.order /\ simulation = EmptySim(prog.cfg)
  /\ phase \in {"built", "timing", "timed"} => next = 1
  /\ phase \in {"built", "timing", "timed", "sends", "sorting"} =>
       startIndices = [s \in Stages(prog.cfg) |-> 1]
  /\ phase \in {"built", "timing", "timed", "sends", "sorting", "receives"} => matched = {}

(* What the passes up to here have done, ...                                  *)
PeersKnown ==
  phase \notin {"built", "failed"} => Staged(prog.order) /\ Peers(prog.cfg, prog.order, localOrder)

Simulating ==
  phase = "timing" => Shape(prog.order, localOrder) /\ Simulated(prog.cfg, localOrder, simulation)

TimesSet ==
  /\ phase = "timed" => Shape(prog.order, localOrder)
  /\ phase = "timed" \/ (phase = "sends" /\ next = 1) =>
       NoOverlap(localOrder) /\ AfterDependency(prog.cfg, localOrder)

SendsPlaced ==
  phase = "sends" => /\ Complete(prog.cfg, prog.order, pairs)
                     /\ \A k \in 1 .. Len(pairs) : pairs[k].send.type \in SendTypes
                     /\ Sending(prog.cfg, prog.order, localOrder, pairs, next - 1)

AllSent ==
  phase = "sorting" => /\ Complete(prog.cfg, prog.order, pairs)
                       /\ Sends(localOrder, pairs, Len(pairs)) /\ Recvs(localOrder, pairs, 0)

RecvsPlaced ==
  phase = "receives" => /\ Complete(prog.cfg, prog.order, pairs)
                        /\ Receiving(prog.cfg, prog.order, localOrder, pairs, next - 1, startIndices)

(* ... and that all the communication is in place at the end.                 *)
AllPlaced ==
  phase \in {"validation", "compiled"} => Communicated(prog.cfg, prog.order, localOrder, pairs)

Passed == /\ Waiting /\ PeersKnown /\ Simulating /\ TimesSet
          /\ SendsPlaced /\ AllSent /\ RecvsPlaced /\ AllPlaced

IInv == prog \in Programs /\ (prog.offload = None => Typed /\ Passed)

\* What the assumptions say of a program.
LEMMA ProgramIs ==
  ASSUME NEW p \in Programs
  PROVE  /\ Sourced(p.cfg, p.order) /\ Costed(p.cfg)
         /\ p.postValidation => HasDeadlines(p.order)
         /\ IsTimed(p.order) => NoOverlap(p.order) /\ AfterDependency(p.cfg, p.order)
<1>1. IsProgram(p) /\ UniqueKeys(p.order) /\ LayerGroupsOnOneStage(p.order) /\ SplitOrFused(p.order)
  BY ProgramsOK, OrdersOK
<1> DEFINE Made == [type : ComputeTypes, stage : Int, mb : Nat, chunk : Nat, seq : Nat, lg : Nat,
                    start : Int, end : Int, recvPeer : Int, sendPeer : Int,
                    dir : {"NONE", "NEXT", "PREV"}, peer : Int, pair : Int, rollback : BOOLEAN,
                    recompute : BOOLEAN, offload : BOOLEAN]
<1>2. p.order \in [Stages(p.cfg) -> Seq(Made)]
  BY <1>1 DEF IsProgram
<1>3. Made \subseteq Node /\ \A n \in Made : IsComputation(n) /\ n.lg \in Nat
  BY Kinds DEF Node, IsComputation
<1> HIDE DEF Made
<1>4. \A s \in Stages(p.cfg) : p.order[s] \in Seq(Made)
  BY <1>2
<1>5. \A s \in Stages(p.cfg) : \A i \in DOMAIN p.order[s] : p.order[s][i] \in Made
  BY <1>4, ElementOfSeq, LenProperties
<1>6. p.order \in Orders(p.cfg)
  <2>1. \A s \in Stages(p.cfg) : p.order[s] \in Seq(Node)
    BY <1>3, <1>4
  <2> QED BY <1>2, <2>1 DEF Orders
<1>7. Sourced(p.cfg, p.order)
  BY <1>1, <1>3, <1>5, <1>6 DEF Sourced, IsProgram
<1>8. Costed(p.cfg)
  BY <1>1 DEF IsProgram, Costed
<1> QED BY <1>7, <1>8, TimedOK, DeadlinesOK

(* A pass that raises.                                                        *)
LEMMA FailKeeps ==
  ASSUME Typed, Fail
  PROVE  Typed' /\ Passed'
<1>1. /\ phase' = "failed" /\ prog' = prog /\ localOrder' = localOrder /\ simulation' = simulation
      /\ cursor' = cursor /\ ranOne' = ranOne /\ pairs' = pairs /\ next' = next
      /\ startIndices' = startIndices /\ matched' = matched
  BY DEF Fail
<1>2. Typed'
  BY <1>1 DEF Typed, Phases
<1>3. Passed'
  BY <1>1 DEF Passed, Waiting, PeersKnown, Simulating, TimesSet, SendsPlaced, AllSent, RecvsPlaced,
     AllPlaced
<1> QED BY <1>2, <1>3

\* In the beginning.
LEMMA InitMakes ==
  ASSUME Init
  PROVE  prog \in Programs /\ Typed /\ Passed
<1>1. /\ prog \in Programs /\ phase = "built" /\ localOrder = prog.order
      /\ simulation = EmptySim(prog.cfg) /\ cursor = 0 /\ ranOne = FALSE /\ pairs = <<>> /\ next = 1
      /\ startIndices = [s \in Stages(prog.cfg) |-> 1] /\ matched = {}
  BY DEF Init, Cfg
<1> DEFINE c == prog.cfg
           src == prog.order
<1>2. Sourced(c, src)
  BY <1>1, ProgramIs
<1>3. src \in Orders(c) /\ c.n \in Nat /\ c.n > 0
  BY <1>2 DEF Sourced
<1>4. Whole(src, src)
  <2>1. Shape(src, src)
    BY DEF Shape, Like
  <2> QED BY <1>2, <1>3, <2>1, ShapeWhole
<1>5. Simulated(c, src, simulation)
  BY <1>1, <1>3, NotRunYet
<1>6. /\ simulation.order \in Orders(c) /\ simulation.time \in [Stages(c) -> Nat]
      /\ \A s \in Stages(c) : \A i \in DOMAIN simulation.order[s] : IsComputation(simulation.order[s][i])
  <2>1. \A s \in Stages(c) : simulation.order[s] = <<>>
    BY <1>1 DEF EmptySim
  <2> QED BY <1>5, <2>1 DEF Simulated
<1>7. pairs \in Seq(Pair) /\ Len(pairs) = 0
  BY <1>1
<1>8. PairsOK(c, src, pairs)
  BY <1>7 DEF PairsOK, Apart
<1>9. Places(c, localOrder, startIndices)
  <2>1. \A s \in Stages(c) : Len(src[s]) \in Nat
    BY <1>3, LenProperties DEF Orders
  <2> QED BY <1>1, <2>1 DEF Places
<1>10. Typed
  <2>1. phase \in Phases
    BY <1>1 DEF Phases
  <2>2. ranOne \in BOOLEAN /\ matched \subseteq PairIds(localOrder)
    BY <1>1
  <2>3. cursor \in 0 .. prog.cfg.n /\ next \in 1 .. Len(pairs) + 1
    BY <1>1, <1>3, <1>7
  <2> QED BY <1>1, <1>3, <1>4, <1>6, <1>7, <1>8, <1>9, <2>1, <2>2, <2>3 DEF Typed
<1>11. Passed
  BY <1>1 DEF Passed, Waiting, PeersKnown, Simulating, TimesSet, SendsPlaced, AllSent, RecvsPlaced,
     AllPlaced
<1> QED BY <1>1, <1>10, <1>11

\* pre_validate and add_send_recv_peer_stage.
LEMMA FindPeersKeeps ==
  ASSUME prog \in Programs, Typed, Passed, FindPeers
  PROVE  Typed' /\ Passed'
<1> DEFINE c == prog.cfg
           src == prog.order
<1>1. phase = "built" /\ localOrder = src /\ simulation = EmptySim(c) /\ next = 1 /\ matched = {}
      /\ startIndices = [s \in Stages(c) |-> 1]
  BY DEF FindPeers, Passed, Waiting
<1>2. Sourced(c, src) /\ (IsTimed(src) => NoOverlap(src) /\ AfterDependency(c, src))
  BY ProgramIs
<1>3. CASE Fail
  BY <1>3, FailKeeps
<1>4. CASE ~ Fail
  <2>1. /\ ~ \E s \in Stages(c) : \E i \in DOMAIN src[s] : src[s][i].stage # s
        /\ localOrder' = AddSendRecvPeerStage(c, src)
        /\ phase' = IF IsTimed(src) THEN "timed" ELSE "timing"
        /\ prog' = prog /\ simulation' = simulation /\ cursor' = cursor /\ ranOne' = ranOne
        /\ pairs' = pairs /\ next' = next /\ startIndices' = startIndices /\ matched' = matched
    BY <1>1, <1>4 DEF FindPeers, Cfg
  <2>2. Staged(src)
    BY <2>1, <1>2 DEF Staged, Sourced, Orders
  <2> DEFINE o == localOrder'
  <2>3. /\ o \in Orders(c) /\ Shape(src, o) /\ Peers(c, src, o)
        /\ \A s \in Stages(c) : \A i \in DOMAIN src[s] : o[s][i].start = src[s][i].start /\ o[s][i].end = src[s][i].end
    BY <1>2, <2>1, <2>2, PeersFound
  <2> HIDE DEF o
  <2>4. Whole(src, o)
    BY <1>2, <2>3, ShapeWhole
  <2>5. Simulated(c, o, simulation)
    BY <1>1, <2>3, NotRunYet
  <2>6. DOMAIN o = Stages(c) /\ DOMAIN src = Stages(c)
        /\ \A s \in Stages(c) : DOMAIN o[s] = DOMAIN src[s] /\ \A i \in DOMAIN src[s] : Like(o[s][i], src[s][i])
    BY <1>2, <2>3 DEF Shape, Orders, Sourced
  <2>7. IsTimed(src) => NoOverlap(o) /\ AfterDependency(c, o)
    <3> SUFFICES ASSUME IsTimed(src) PROVE NoOverlap(o) /\ AfterDependency(c, o)
      OBVIOUS
    <3>1. \A s \in Stages(c) : \A i \in DOMAIN src[s] :
            IsComputation(o[s][i]) /\ IsComputation(src[s][i]) /\ Key(o[s][i]) = Key(src[s][i])
      BY <1>2, <2>6, LikeKind DEF Sourced, Like
    <3>2. NoOverlap(o)
      BY <1>2, <2>3, <2>6, <3>1 DEF NoOverlap
    <3>3. AfterDependency(c, o)
      <4> SUFFICES ASSUME NEW s \in Stages(c), NEW t \in Stages(c), NEW i \in DOMAIN src[s], NEW j \in DOMAIN src[t],
                          Key(o[t][j]) = PrevKey(o[s][i], NumLayerGroups(c))
                   PROVE  o[t][j].end + (IF s = t THEN 0 ELSE c.comm) <= o[s][i].start
        BY <2>6 DEF AfterDependency
      <4>1. Key(src[t][j]) = PrevKey(src[s][i], NumLayerGroups(c))
        BY <3>1, PrevOfKey
      <4>2. src[t][j].end + (IF s = t THEN 0 ELSE c.comm) <= src[s][i].start
        BY <4>1, <3>1, <1>2, <2>6 DEF AfterDependency
      <4> QED BY <4>2, <2>3
    <3> QED BY <3>2, <3>3
  <2>8. Places(c, o, startIndices)
    <3>1. \A s \in Stages(c) : Len(o[s]) \in Nat
      BY <2>3, LenProperties DEF Orders
    <3> QED BY <1>1, <3>1 DEF Places
  <2>9. Typed'
    <3>1. phase' \in Phases /\ matched' \subseteq PairIds(o)
      BY <1>1, <2>1 DEF Phases
    <3> QED BY <2>1, <2>3, <2>4, <2>8, <3>1 DEF Typed, o
  <2>10. phase' \in {"timed", "timing"} /\ (phase' = "timed" => IsTimed(src))
    BY <2>1
  <2>11. Waiting'
    BY <1>1, <2>1, <2>10 DEF Waiting
  <2>12. PeersKnown' /\ Simulating'
    BY <2>1, <2>2, <2>3, <2>5 DEF PeersKnown, Simulating, o
  <2>13. TimesSet'
    BY <2>1, <2>3, <2>7, <2>10 DEF TimesSet, o
  <2>14. SendsPlaced' /\ AllSent' /\ RecvsPlaced' /\ AllPlaced'
    BY <2>10 DEF SendsPlaced, AllSent, RecvsPlaced, AllPlaced
  <2> QED BY <2>9, <2>11, <2>12, <2>13, <2>14 DEF Passed
<1> QED BY <1>3, <1>4

\* The simulation runs computations.
LEMMA SimulatedComputes ==
  ASSUME NEW c, NEW src, Sourced(c, src), NEW lo \in Orders(c), Shape(src, lo), NEW sim,
         Simulated(c, lo, sim)
  PROVE  /\ sim.order \in Orders(c) /\ sim.time \in [Stages(c) -> Nat]
         /\ \A s \in Stages(c) : \A i \in DOMAIN sim.order[s] : IsComputation(sim.order[s][i])
<1>1. \A s \in Stages(c) : \A i \in DOMAIN lo[s] : IsComputation(lo[s][i])
  BY ShapeKeeps
<1>2. ASSUME NEW s \in Stages(c), NEW i \in DOMAIN sim.order[s]
      PROVE  IsComputation(sim.order[s][i])
  <2>1. sim.order[s] \in Seq(Node) /\ lo[s] \in Seq(Node)
    BY DEF Simulated, Orders
  <2>2. i \in DOMAIN lo[s]
    <3>1. Len(sim.order[s]) <= Len(lo[s])
      BY DEF Simulated
    <3> QED BY <2>1, <3>1, LenProperties
  <2>3. Alike(sim.order[s][i], lo[s][i])
    BY DEF Simulated
  <2> QED BY <2>2, <2>3, <1>1, LikeKind DEF Alike, Like
<1> QED BY <1>2 DEF Simulated

\* add_time runs a node or passes a stage over.
LEMMA VisitStageKeeps ==
  ASSUME prog \in Programs, Typed, Passed, VisitStage
  PROVE  Typed' /\ Passed'
<1> DEFINE c == prog.cfg
           src == prog.order
<1>1. /\ phase = "timing" /\ cursor < c.n /\ cursor' = cursor + 1
      /\ phase' = phase /\ localOrder' = localOrder /\ prog' = prog /\ pairs' = pairs /\ next' = next
      /\ startIndices' = startIndices /\ matched' = matched
  BY DEF VisitStage, Cfg
<1>2. Sourced(c, src) /\ Costed(c)
  BY ProgramIs
<1>3. /\ localOrder \in Orders(c) /\ Shape(src, localOrder) /\ Simulated(c, localOrder, simulation)
      /\ Staged(src) /\ Peers(c, src, localOrder)
  BY <1>1 DEF Typed, Passed, Simulating, PeersKnown
<1>4. cursor \in Stages(c) /\ cursor' \in 0 .. c.n
  BY <1>1, <1>2 DEF Typed, Stages, Sourced
<1>5. Simulated(c, localOrder, simulation') /\ ranOne' \in BOOLEAN
  <2>1. CASE CanRun(c, localOrder, simulation, cursor)
    <3>1. simulation' = RunNode(c, localOrder, simulation, cursor) /\ ranOne' = TRUE
      BY <2>1 DEF VisitStage, Cfg
    <3>2. Simulated(c, localOrder, RunNode(c, localOrder, simulation, cursor))
      BY <2>1, <1>2, <1>3, <1>4, NodeRun
    <3> QED BY <3>1, <3>2
  <2>2. CASE ~ CanRun(c, localOrder, simulation, cursor)
    <3>1. simulation' = simulation /\ ranOne' = ranOne
      BY <2>2 DEF VisitStage, Cfg
    <3> QED BY <3>1, <1>3 DEF Typed
  <2> QED BY <2>1, <2>2
<1>6. /\ simulation'.order \in Orders(c) /\ simulation'.time \in [Stages(c) -> Nat]
      /\ \A s \in Stages(c) : \A i \in DOMAIN simulation'.order[s] : IsComputation(simulation'.order[s][i])
  BY <1>2, <1>3, <1>5, SimulatedComputes
<1>7. Typed'
  BY <1>1, <1>4, <1>5, <1>6 DEF Typed
<1>8. Waiting' /\ PeersKnown'
  BY <1>1 DEF Passed, Waiting, PeersKnown
<1>9. Simulating'
  BY <1>1, <1>3, <1>5 DEF Simulating
<1>10. TimesSet' /\ SendsPlaced' /\ AllSent' /\ RecvsPlaced' /\ AllPlaced'
  BY <1>1 DEF TimesSet, SendsPlaced, AllSent, RecvsPlaced, AllPlaced
<1> QED BY <1>7, <1>8, <1>9, <1>10 DEF Passed

\* add_time ends a round, or is done.
LEMMA EndRoundKeeps ==
  ASSUME prog \in Programs, Typed, Passed, EndRound
  PROVE  Typed' /\ Passed'
<1> DEFINE c == prog.cfg
           src == prog.order
<1>1. phase = "timing"
  BY DEF EndRound
<1>2. Sourced(c, src)
  BY ProgramIs
<1>3. /\ localOrder \in Orders(c) /\ Shape(src, localOrder) /\ Simulated(c, localOrder, simulation)
      /\ Staged(src) /\ Peers(c, src, localOrder)
      /\ startIndices = [s \in Stages(c) |-> 1] /\ next = 1 /\ matched = {}
  BY <1>1 DEF Typed, Passed, Simulating, PeersKnown, Waiting
<1>4. CASE Fail
  BY <1>4, FailKeeps
<1>5. CASE AllRun
  <2>1. /\ localOrder' = simulation.order /\ phase' = "timed"
        /\ prog' = prog /\ simulation' = simulation /\ cursor' = cursor /\ ranOne' = ranOne
        /\ pairs' = pairs /\ next' = next /\ startIndices' = startIndices /\ matched' = matched
    BY <1>5 DEF EndRound
  <2> DEFINE o == localOrder'
  <2>2. o \in Orders(c) /\ Shape(src, o) /\ Peers(c, src, o) /\ NoOverlap(o) /\ AfterDependency(c, o)
    <3>1. \A s \in Stages(c) : Len(simulation.order[s]) = Len(localOrder[s])
      BY <1>5 DEF AllRun, Cfg
    <3> QED BY <3>1, <2>1, <1>2, <1>3, AllSimulated
  <2> HIDE DEF o
  <2>3. Whole(src, o)
    BY <1>2, <2>2, ShapeWhole
  <2>4. Places(c, o, startIndices)
    <3>1. \A s \in Stages(c) : Len(o[s]) \in Nat
      BY <2>2, LenProperties DEF Orders
    <3> QED BY <1>3, <3>1 DEF Places
  <2>5. Typed'
    <3>1. phase' \in Phases /\ matched' \subseteq PairIds(o)
      BY <1>3, <2>1 DEF Phases
    <3> QED BY <2>1, <2>2, <2>3, <2>4, <3>1 DEF Typed, o
  <2>6. Waiting'
    BY <1>3, <2>1 DEF Waiting
  <2>7. PeersKnown' /\ TimesSet'
    BY <2>1, <2>2, <1>3 DEF PeersKnown, TimesSet, o
  <2>8. Simulating' /\ SendsPlaced' /\ AllSent' /\ RecvsPlaced' /\ AllPlaced'
    BY <2>1 DEF Simulating, SendsPlaced, AllSent, RecvsPlaced, AllPlaced
  <2> QED BY <2>5, <2>6, <2>7, <2>8 DEF Passed
<1>6. CASE ~ AllRun /\ ~ Fail
  <2>1. /\ cursor' = 0 /\ ranOne' = FALSE
        /\ prog' = prog /\ phase' = phase /\ localOrder' = localOrder /\ simulation' = simulation
        /\ pairs' = pairs /\ next' = next /\ startIndices' = startIndices /\ matched' = matched
    BY <1>6 DEF EndRound
  <2>2. cursor' \in 0 .. c.n
    BY <2>1, <1>2 DEF Sourced
  <2>3. ranOne' \in BOOLEAN
    BY <2>1
  <2>4. Typed'
    BY <2>1, <2>2, <2>3 DEF Typed
  <2>5. Waiting' /\ PeersKnown' /\ Simulating'
    BY <2>1, <1>1 DEF Passed, Waiting, PeersKnown, Simulating
  <2>6. TimesSet' /\ SendsPlaced' /\ AllSent' /\ RecvsPlaced' /\ AllPlaced'
    BY <2>1, <1>1 DEF TimesSet, SendsPlaced, AllSent, RecvsPlaced, AllPlaced
  <2> QED BY <2>4, <2>5, <2>6 DEF Passed
<1> QED BY <1>4, <1>5, <1>6

(* The communication pairs.                                                   *)
LEMMA OffloadKeeps ==
  ASSUME prog \in Programs, prog.offload = None, Typed, Passed, Offload
  PROVE  Typed' /\ Passed'
<1> DEFINE c == prog.cfg
           src == prog.order
           planned == [ok |-> TRUE, order |-> localOrder]
<1>1. /\ phase = "timed" /\ localOrder' = localOrder /\ pairs' = CommPairs(c, localOrder) /\ phase' = "sends"
      /\ prog' = prog /\ simulation' = simulation /\ cursor' = cursor /\ ranOne' = ranOne
      /\ next' = next /\ startIndices' = startIndices /\ matched' = matched
  BY DEF Offload, Cfg
<1>2. Sourced(c, src)
  BY ProgramIs
<1>3. /\ localOrder \in Orders(c) /\ Shape(src, localOrder) /\ NoOverlap(localOrder) /\ AfterDependency(c, localOrder)
      /\ Staged(src) /\ Peers(c, src, localOrder) /\ Whole(src, localOrder)
      /\ startIndices = [s \in Stages(c) |-> 1] /\ next = 1 /\ matched = {}
  BY <1>1 DEF Typed, Passed, TimesSet, PeersKnown, Waiting
<1> DEFINE ps == pairs'
<1>4. /\ ps \in Seq(Pair) /\ PairsOK(c, src, ps) /\ Complete(c, src, ps)
      /\ \A k \in 1 .. Len(ps) : ps[k].send.type \in SendTypes
  BY <1>1, <1>2, <1>3, PairsSound
<1> HIDE DEF ps
<1>5. 1 \in 1 .. Len(ps) + 1
  BY <1>4, LenProperties
<1>6. Typed'
  <2>1. phase' \in Phases /\ next' \in 1 .. Len(ps) + 1
    BY <1>1, <1>3, <1>5 DEF Phases
  <2> QED BY <2>1, <1>1, <1>4 DEF Typed, ps
<1>7. Unverified(localOrder)
  BY <1>2, <1>3, ShapeWhole
<1>8. Sending(c, src, localOrder, ps, 0)
  <2>1. \A s \in Stages(c) : \A i \in DOMAIN localOrder[s] : IsComputation(localOrder[s][i])
    BY <1>2, <1>3, ShapeKeeps
  <2>2. DOMAIN localOrder = Stages(c)
    BY <1>3 DEF Orders
  <2>3. \A s \in DOMAIN localOrder : \A i \in DOMAIN localOrder[s] : ~ IsSend(localOrder[s][i]) /\ ~ IsRecv(localOrder[s][i])
    BY <2>1, <2>2, Kinds
  <2>4. Sends(localOrder, ps, 0) /\ Recvs(localOrder, ps, 0)
    BY <2>3 DEF Sends, Recvs
  <2> QED BY <2>4, <1>3, <1>7 DEF Sending
<1>9. Waiting'
  BY <1>1, <1>3 DEF Waiting
<1>10. PeersKnown' /\ TimesSet'
  BY <1>1, <1>3 DEF PeersKnown, TimesSet
<1>11. SendsPlaced'
  <2>1. next' - 1 = 0
    BY <1>1, <1>3
  <2> QED BY <2>1, <1>1, <1>4, <1>8 DEF SendsPlaced, ps
<1>12. Simulating' /\ AllSent' /\ RecvsPlaced' /\ AllPlaced'
  BY <1>1 DEF Simulating, AllSent, RecvsPlaced, AllPlaced
<1> QED BY <1>6, <1>9, <1>10, <1>11, <1>12 DEF Passed

\* Where every stage may take an insertion at first.
LEMMA FirstPlaces ==
  ASSUME NEW c, NEW o \in Orders(c), NEW f, f = [s \in Stages(c) |-> 1]
  PROVE  Places(c, o, f)
<1>1. \A s \in Stages(c) : Len(o[s]) \in Nat
  BY LenProperties DEF Orders
<1> QED BY <1>1 DEF Places

\* insert_send_nodes, one pair.
LEMMA PlaceSendKeeps ==
  ASSUME prog \in Programs, Typed, Passed, PlaceSend
  PROVE  Typed' /\ Passed'
<1> DEFINE c == prog.cfg
           src == prog.order
<1>1. phase = "sends" /\ next <= Len(pairs)
  BY DEF PlaceSend
<1>2. Sourced(c, src)
  BY ProgramIs
<1>3. /\ pairs \in Seq(Pair) /\ PairsOK(c, src, pairs) /\ next \in 1 .. Len(pairs) + 1 /\ Staged(src)
      /\ Complete(c, src, pairs) /\ \A k \in 1 .. Len(pairs) : pairs[k].send.type \in SendTypes
      /\ Sending(c, src, localOrder, pairs, next - 1)
      /\ startIndices = [s \in Stages(c) |-> 1] /\ matched = {}
  BY <1>1 DEF Typed, Passed, PeersKnown, SendsPlaced, Waiting
<1>4. CASE Fail
  BY <1>4, FailKeeps
<1>5. CASE ~ Fail
  <2>1. /\ localOrder' = InsertSend(localOrder, pairs[next]) /\ next' = next + 1 /\ phase' = phase
        /\ prog' = prog /\ simulation' = simulation /\ cursor' = cursor /\ ranOne' = ranOne
        /\ pairs' = pairs /\ startIndices' = startIndices /\ matched' = matched
    BY <1>5 DEF PlaceSend
  <2>2. /\ Len(pairs) \in Nat /\ next \in 1 .. Len(pairs) /\ next' \in 1 .. Len(pairs) + 1 /\ next' # 1
        /\ next' - 1 = next
    BY <1>1, <1>3, <2>1, LenProperties
  <2> DEFINE o == localOrder'
  <2>3. Sending(c, src, o, pairs, next)
    <3>1. pairs[next].send.type \in SendTypes
      BY <1>3, <2>2
    <3>2. Sending(c, src, InsertSend(localOrder, pairs[next]), pairs, next)
      BY <3>1, <1>2, <1>3, <2>2, SendPlaced
    <3> QED BY <3>2, <2>1
  <2>4. o \in Orders(c) /\ Whole(src, o) /\ Peers(c, src, o)
    BY <2>3 DEF Sending
  <2>5. Places(c, o, startIndices)
    BY <1>3, <2>4, FirstPlaces
  <2> HIDE DEF o
  <2>6. Typed'
    <3>1. matched' \subseteq PairIds(o)
      BY <1>3, <2>1
    <3> QED BY <2>1, <2>2, <2>4, <2>5, <3>1 DEF Typed, o
  <2>7. Waiting' /\ PeersKnown'
    BY <1>1, <1>3, <2>1, <2>4 DEF Waiting, PeersKnown, o
  <2>8. SendsPlaced'
    BY <1>3, <2>1, <2>2, <2>3 DEF SendsPlaced, o
  <2>9. Simulating' /\ TimesSet' /\ AllSent' /\ RecvsPlaced' /\ AllPlaced'
    BY <1>1, <2>1, <2>2 DEF Simulating, TimesSet, AllSent, RecvsPlaced, AllPlaced
  <2> QED BY <2>6, <2>7, <2>8, <2>9 DEF Passed
<1> QED BY <1>4, <1>5

\* add_post_validation_nodes_before_deadline.
LEMMA PostValidateKeeps ==
  ASSUME prog \in Programs, Typed, Passed, PostValidate
  PROVE  Typed' /\ Passed'
<1> DEFINE c == prog.cfg
           src == prog.order
           post == AddPostValidation(c, localOrder)
<1>1. phase = "sends" /\ next = Len(pairs) + 1 /\ prog.postValidation
  BY DEF PostValidate
<1>2. Sourced(c, src) /\ HasDeadlines(src)
  BY <1>1, ProgramIs
<1>3. /\ pairs \in Seq(Pair) /\ PairsOK(c, src, pairs) /\ Staged(src) /\ Len(pairs) \in Nat
      /\ Complete(c, src, pairs) /\ \A k \in 1 .. Len(pairs) : pairs[k].send.type \in SendTypes
      /\ Sending(c, src, localOrder, pairs, next - 1)
      /\ startIndices = [s \in Stages(c) |-> 1] /\ matched = {}
  BY <1>1, LenProperties DEF Typed, Passed, PeersKnown, SendsPlaced, Waiting
<1>4. CASE ~ post.ok
  <2>1. Fail
    BY <1>4 DEF PostValidate, Cfg
  <2> QED BY <2>1, FailKeeps
<1>5. CASE post.ok
  <2>1. /\ localOrder' = post.order /\ pairs' = pairs \o post.pairs /\ phase' = "sorting"
        /\ prog' = prog /\ simulation' = simulation /\ cursor' = cursor /\ ranOne' = ranOne
        /\ next' = next /\ startIndices' = startIndices /\ matched' = matched
    BY <1>5 DEF PostValidate, Cfg
  <2>2. next - 1 = Len(pairs) /\ Sending(c, src, localOrder, pairs, Len(pairs))
    BY <1>1, <1>3
  <2> HIDE DEF post
  <2> DEFINE o == localOrder'
             qs == pairs'
  <2>3. /\ o \in Orders(c) /\ Whole(src, o) /\ Peers(c, src, o)
        /\ qs \in Seq(Pair) /\ Len(qs) >= Len(pairs) /\ PairsOK(c, src, qs) /\ Complete(c, src, qs)
        /\ Sends(o, qs, Len(qs)) /\ Recvs(o, qs, 0)
    <3>1. post = AddPostValidation(c, localOrder)
      BY DEF post
    <3> QED BY <3>1, <2>1, <2>2, <1>2, <1>3, Verified
  <2>4. Places(c, o, startIndices)
    BY <1>3, <2>3, FirstPlaces
  <2>5. next' \in 1 .. Len(qs) + 1
    BY <1>1, <1>3, <2>1, <2>3, LenProperties
  <2> HIDE DEF o, qs
  <2>6. Typed'
    <3>1. phase' \in Phases /\ matched' \subseteq PairIds(o)
      BY <1>3, <2>1 DEF Phases
    <3> QED BY <2>1, <2>3, <2>4, <2>5, <3>1 DEF Typed, o, qs
  <2>7. Waiting' /\ PeersKnown'
    BY <1>3, <2>1, <2>3 DEF Waiting, PeersKnown, o
  <2>8. AllSent'
    BY <2>1, <2>3 DEF AllSent, o, qs
  <2>9. Simulating' /\ TimesSet' /\ SendsPlaced' /\ RecvsPlaced' /\ AllPlaced'
    BY <2>1 DEF Simulating, TimesSet, SendsPlaced, RecvsPlaced, AllPlaced
  <2> QED BY <2>6, <2>7, <2>8, <2>9 DEF Passed
<1> QED BY <1>4, <1>5

\* insert_recv_nodes sorts the pairs.
LEMMA SortPairsKeeps ==
  ASSUME prog \in Programs, Typed, Passed, SortPairs
  PROVE  Typed' /\ Passed'
<1> DEFINE c == prog.cfg
           src == prog.order
           qs == SortedPairs(localOrder, pairs)
<1>1. /\ phase \in {"sends", "sorting"} /\ (phase = "sends" => next = Len(pairs) + 1)
      /\ pairs' = qs /\ next' = 1 /\ phase' = "receives"
      /\ prog' = prog /\ localOrder' = localOrder /\ simulation' = simulation /\ cursor' = cursor
      /\ ranOne' = ranOne /\ startIndices' = startIndices /\ matched' = matched
  BY DEF SortPairs
<1>2. Sourced(c, src)
  BY ProgramIs
<1>3. /\ pairs \in Seq(Pair) /\ PairsOK(c, src, pairs) /\ Len(pairs) \in Nat
      /\ localOrder \in Orders(c) /\ Whole(src, localOrder) /\ Staged(src) /\ Peers(c, src, localOrder)
      /\ Places(c, localOrder, startIndices)
      /\ startIndices = [s \in Stages(c) |-> 1] /\ matched = {}
  BY <1>1, LenProperties DEF Typed, Passed, PeersKnown, Waiting
<1>4. Complete(c, src, pairs) /\ Sends(localOrder, pairs, Len(pairs)) /\ Recvs(localOrder, pairs, 0)
  <2>1. CASE phase = "sends"
    <3>1. next - 1 = Len(pairs)
      BY <2>1, <1>1, <1>3
    <3> QED BY <2>1, <3>1 DEF Passed, SendsPlaced, Sending
  <2>2. CASE phase = "sorting"
    BY <2>2 DEF Passed, AllSent
  <2> QED BY <2>1, <2>2, <1>1
<1>5. /\ qs \in Seq(Pair) /\ Permutes(pairs, qs)
  BY <1>3, SortedPermutes
<1> HIDE DEF qs
<1>6. PairsOK(c, src, qs) /\ Complete(c, src, qs) /\ Sends(localOrder, qs, Len(qs)) /\ Recvs(localOrder, qs, 0)
  BY <1>3, <1>4, <1>5, SortedKeep
<1>7. Receiving(c, src, localOrder, qs, 0, startIndices)
  <2>1. InStep(localOrder, qs, 0) /\ Behind(localOrder, qs, 0, startIndices)
    BY DEF InStep, Behind
  <2> QED BY <2>1, <1>3, <1>6 DEF Receiving
<1>8. Typed'
  <2>1. phase' \in Phases
    BY <1>1 DEF Phases
  <2>2. next' \in 1 .. Len(qs) + 1
    BY <1>1, <1>5, LenProperties
  <2> QED BY <1>1, <1>5, <1>6, <2>1, <2>2 DEF Typed
<1>9. Waiting' /\ PeersKnown'
  BY <1>1, <1>3 DEF Waiting, PeersKnown
<1>10. RecvsPlaced'
  <2>1. next' - 1 = 0
    BY <1>1
  <2> QED BY <2>1, <1>1, <1>6, <1>7 DEF RecvsPlaced
<1>11. Simulating' /\ TimesSet' /\ SendsPlaced' /\ AllSent' /\ AllPlaced'
  BY <1>1 DEF Simulating, TimesSet, SendsPlaced, AllSent, AllPlaced
<1> QED BY <1>8, <1>9, <1>10, <1>11 DEF Passed

\* insert_recv_nodes, one pair.
LEMMA PlaceRecvKeeps ==
  ASSUME prog \in Programs, Typed, Passed, PlaceRecv
  PROVE  Typed' /\ Passed'
<1> DEFINE c == prog.cfg
           src == prog.order
           acc == [ok |-> TRUE, order |-> localOrder, first |-> startIndices]
           went == InsertRecv(acc, pairs[next])
<1>1. phase = "receives" /\ next <= Len(pairs)
  BY DEF PlaceRecv
<1>2. Sourced(c, src)
  BY ProgramIs
<1>3. /\ pairs \in Seq(Pair) /\ PairsOK(c, src, pairs) /\ next \in 1 .. Len(pairs) + 1 /\ Staged(src)
      /\ Complete(c, src, pairs) /\ Receiving(c, src, localOrder, pairs, next - 1, startIndices)
      /\ matched = {}
  BY <1>1 DEF Typed, Passed, PeersKnown, RecvsPlaced, Waiting
<1>4. CASE ~ went.ok
  <2>1. Fail
    BY <1>4 DEF PlaceRecv
  <2> QED BY <2>1, FailKeeps
<1>5. CASE went.ok
  <2>1. /\ localOrder' = went.order /\ startIndices' = went.first /\ next' = next + 1 /\ phase' = phase
        /\ prog' = prog /\ simulation' = simulation /\ cursor' = cursor /\ ranOne' = ranOne
        /\ pairs' = pairs /\ matched' = matched
    BY <1>5 DEF PlaceRecv
  <2>2. /\ Len(pairs) \in Nat /\ next \in 1 .. Len(pairs) /\ next' \in 1 .. Len(pairs) + 1
        /\ next' - 1 = next
    BY <1>1, <1>3, <2>1, LenProperties
  <2> DEFINE o == localOrder'
  <2>3. Receiving(c, src, o, pairs, next, startIndices')
    <3>1. acc = [ok |-> TRUE, order |-> localOrder, first |-> startIndices]
      OBVIOUS
    <3>2. Receiving(c, src, InsertRecv(acc, pairs[next]).order, pairs, next, InsertRecv(acc, pairs[next]).first)
      <4>1. InsertRecv(acc, pairs[next]).ok
        BY <1>5
      <4> HIDE DEF acc
      <4> QED BY <3>1, <4>1, <1>2, <1>3, <2>2, RecvPlaced
    <3> QED BY <3>2, <2>1
  <2> HIDE DEF o
  <2>4. o \in Orders(c) /\ Whole(src, o) /\ Peers(c, src, o) /\ Places(c, o, startIndices')
    BY <2>3 DEF Receiving
  <2>5. Typed'
    <3>1. matched' \subseteq PairIds(o)
      BY <1>3, <2>1
    <3> QED BY <2>1, <2>2, <2>4, <3>1 DEF Typed, o
  <2>6. Waiting' /\ PeersKnown'
    BY <1>1, <1>3, <2>1, <2>4 DEF Waiting, PeersKnown, o
  <2>7. RecvsPlaced'
    BY <1>3, <2>1, <2>2, <2>3 DEF RecvsPlaced, o
  <2>8. Simulating' /\ TimesSet' /\ SendsPlaced' /\ AllSent' /\ AllPlaced'
    BY <1>1, <2>1 DEF Simulating, TimesSet, SendsPlaced, AllSent, AllPlaced
  <2> QED BY <2>5, <2>6, <2>7, <2>8 DEF Passed
<1> QED BY <1>4, <1>5

\* The tags of the rollback, or none.
LEMMA TaggedCommunicated ==
  ASSUME NEW c, NEW src, Sourced(c, src), NEW o, NEW ps, Communicated(c, src, o, ps), NEW f,
         Places(c, o, f)
  PROVE  Communicated(c, src, TagRollback(o), ps) /\ Places(c, TagRollback(o), f)
<1> DEFINE o2 == TagRollback(o)
<1>1. o \in Orders(c) /\ ps \in Seq(Pair) /\ Len(ps) \in Nat
  BY LenProperties DEF Communicated
<1>2. o2 \in Orders(c) /\ Relabels(o, o2)
  BY <1>1, RollbackTagged
<1> HIDE DEF o2
<1>3. \A k \in 1 .. Len(ps) : ps[k].send.stage \in Stages(c) /\ ps[k].recv.stage \in Stages(c)
  BY DEF Communicated, PairsOK, Ends
<1>4. Whole(src, o2) /\ Peers(c, src, o2) /\ Sends(o2, ps, Len(ps)) /\ Recvs(o2, ps, Len(ps))
  BY <1>1, <1>2, <1>3, Relabelled DEF Communicated
<1>5. InStep(o2, ps, Len(ps))
  <2>1. DOMAIN o = Stages(c)
    BY <1>1 DEF Orders
  <2> QED BY <2>1, <1>1, <1>2, <1>3, InStepRelabelled DEF Communicated
<1>6. Places(c, o2, f)
  <2>1. \A s \in Stages(c) : DOMAIN o2[s] = DOMAIN o[s]
    BY <1>1, <1>2 DEF Relabels, Orders
  <2>2. \A s \in Stages(c) : o[s] \in Seq(Node) /\ o2[s] \in Seq(Node)
    BY <1>1, <1>2 DEF Orders
  <2>3. \A s \in Stages(c) : Len(o2[s]) = Len(o[s])
    BY <2>1, <2>2, LenProperties
  <2> QED BY <2>3 DEF Places
<1>7. Communicated(c, src, o2, ps)
  BY <1>2, <1>4, <1>5 DEF Communicated
<1> QED BY <1>6, <1>7 DEF o2

\* tag_rollback_communication, or nothing more.
LEMMA EndRecvsKeeps ==
  ASSUME prog \in Programs, Typed, Passed, EndRecvs
  PROVE  Typed' /\ Passed'
<1> DEFINE c == prog.cfg
           src == prog.order
<1>1. phase = "receives" /\ next = Len(pairs) + 1
  BY DEF EndRecvs
<1>2. Sourced(c, src)
  BY ProgramIs
<1>3. /\ pairs \in Seq(Pair) /\ PairsOK(c, src, pairs) /\ Len(pairs) \in Nat /\ Staged(src)
      /\ Complete(c, src, pairs) /\ Receiving(c, src, localOrder, pairs, next - 1, startIndices)
      /\ matched = {}
  BY <1>1, LenProperties DEF Typed, Passed, PeersKnown, RecvsPlaced, Waiting
<1>4. Communicated(c, src, localOrder, pairs) /\ Places(c, localOrder, startIndices)
  <2>1. next - 1 = Len(pairs)
    BY <1>1, <1>3
  <2> QED BY <2>1, <1>3 DEF Receiving, Communicated
<1>5. CASE Fail
  BY <1>5, FailKeeps
<1>6. CASE ~ Fail
  <2>1. /\ localOrder' = (IF prog.postValidation THEN TagRollback(localOrder) ELSE localOrder)
        /\ phase' = (IF prog.validate THEN "validation" ELSE "compiled")
        /\ prog' = prog /\ simulation' = simulation /\ cursor' = cursor /\ ranOne' = ranOne
        /\ pairs' = pairs /\ next' = next /\ startIndices' = startIndices /\ matched' = matched
    BY <1>6 DEF EndRecvs
  <2> DEFINE o == localOrder'
  <2>2. Communicated(c, src, o, pairs) /\ Places(c, o, startIndices)
    BY <2>1, <1>2, <1>4, TaggedCommunicated
  <2> HIDE DEF o
  <2>3. o \in Orders(c) /\ Whole(src, o) /\ Peers(c, src, o)
    BY <2>2 DEF Communicated
  <2>4. phase' \in {"validation", "compiled"}
    BY <2>1
  <2>5. Typed'
    <3>1. phase' \in Phases /\ matched' \subseteq PairIds(o)
      BY <1>3, <2>1, <2>4 DEF Phases
    <3> QED BY <2>1, <2>2, <2>3, <3>1 DEF Typed, o
  <2>6. Waiting' /\ PeersKnown'
    BY <1>3, <2>1, <2>3, <2>4 DEF Waiting, PeersKnown, o
  <2>7. AllPlaced'
    BY <2>1, <2>2 DEF AllPlaced, o
  <2>8. Simulating' /\ TimesSet' /\ SendsPlaced' /\ AllSent' /\ RecvsPlaced'
    BY <2>4 DEF Simulating, TimesSet, SendsPlaced, AllSent, RecvsPlaced
  <2> QED BY <2>5, <2>6, <2>7, <2>8 DEF Passed
<1> QED BY <1>5, <1>6

\* A round of matching finds pairs of the order.
LEMMA RoundMatches ==
  ASSUME NEW o, \A s \in DOMAIN o : o[s] \in Seq(Node), NEW done \in SUBSET PairIds(o)
  PROVE  MatchRound(o, done) \subseteq PairIds(o)
<1>1. ASSUME NEW s \in DOMAIN o
      PROVE  HeadKernel(o[s], done) \subseteq PairIds(o)
  <2> DEFINE I == {k \in 1 .. Len(o[s]) : InKernel(o[s][k]) /\ o[s][k].pair \notin done}
             i == IF I # {} THEN Min(I) ELSE 0
             J == {x \in i .. Len(o[s]) : \A k \in i .. x : InKernel(o[s][k])}
  <2>1. HeadKernel(o[s], done) = IF i = 0 THEN {} ELSE {o[s][j].pair : j \in J} \ done
    BY DEF HeadKernel, SelectInSeq
  <2>2. Len(o[s]) \in Nat /\ DOMAIN o[s] = 1 .. Len(o[s])
    BY LenProperties
  <2>3. i # 0 => i \in 1 .. Len(o[s])
    <3>1. I \in SUBSET Nat
      BY <2>2
    <3>2. I # {} => Min(I) \in I
      <4> HIDE DEF I
      <4> QED BY <3>1, MinOf
    <3> QED BY <3>2
  <2> HIDE DEF i
  <2>4. ASSUME i # 0, NEW j \in J
        PROVE  o[s][j].pair \in PairIds(o)
    <3>1. j \in DOMAIN o[s] /\ InKernel(o[s][j])
      BY <2>2, <2>3, <2>4
    <3>2. o[s][j] \in AllNodes(o)
      BY <3>1, InAllNodes
    <3> QED BY <3>1, <3>2 DEF PairIds
  <2> HIDE DEF J
  <2> QED BY <2>1, <2>4
<1>2. ASSUME NEW x \in MatchRound(o, done)
      PROVE  x \in PairIds(o)
  <2>1. CASE x \in done
    BY <2>1
  <2>2. CASE x \notin done
    <3>1. PICK st \in (DOMAIN o) \X (DOMAIN o) : x \in HeadKernel(o[st[1]], done)
      BY <2>2 DEF MatchRound
    <3> QED BY <3>1, <1>1
  <2> QED BY <2>1, <2>2
<1> QED BY <1>2

\* validate_communication, one round.
LEMMA MatchPairsKeeps ==
  ASSUME prog \in Programs, Typed, Passed, MatchPairs
  PROVE  Typed' /\ Passed'
<1>1. /\ phase = "validation"
      /\ prog' = prog /\ localOrder' = localOrder /\ simulation' = simulation /\ cursor' = cursor
      /\ ranOne' = ranOne /\ pairs' = pairs /\ next' = next /\ startIndices' = startIndices
  BY DEF MatchPairs
<1>2. phase' \in {"validation", "compiled", "failed"} /\ matched' \subseteq PairIds(localOrder)
  <2>1. matched \subseteq PairIds(localOrder) /\ \A s \in DOMAIN localOrder : localOrder[s] \in Seq(Node)
    BY DEF Typed, Orders
  <2>2. MatchRound(localOrder, matched) \subseteq PairIds(localOrder)
    BY <2>1, RoundMatches
  <2> QED BY <2>1, <2>2, <1>1 DEF MatchPairs
<1>3. Typed'
  <2>1. phase' \in Phases
    BY <1>2 DEF Phases
  <2> QED BY <2>1, <1>1, <1>2 DEF Typed
<1>4. Waiting' /\ PeersKnown'
  BY <1>1, <1>2 DEF Passed, Waiting, PeersKnown
<1>5. AllPlaced'
  BY <1>1, <1>2 DEF Passed, AllPlaced
<1>6. Simulating' /\ TimesSet' /\ SendsPlaced' /\ AllSent' /\ RecvsPlaced'
  BY <1>2 DEF Simulating, TimesSet, SendsPlaced, AllSent, RecvsPlaced
<1> QED BY <1>3, <1>4, <1>5, <1>6 DEF Passed

\* Every step keeps the invariant.
LEMMA NextKeeps ==
  ASSUME IInv, [Next]_vars
  PROVE  IInv'
<1>1. prog \in Programs /\ prog' = prog
  BY DEF IInv, Next, vars, Fail, FindPeers, VisitStage, EndRound, Offload, PlaceSend, PostValidate,
     SortPairs,
         PlaceRecv, EndRecvs, MatchPairs, Stop
<1>2. ASSUME prog.offload = None
      PROVE  Typed' /\ Passed'
  <2>1. Typed /\ Passed
    BY <1>2 DEF IInv
  <2>2. CASE FindPeers
    BY <2>1, <2>2, <1>1, FindPeersKeeps
  <2>3. CASE VisitStage
    BY <2>1, <2>3, <1>1, VisitStageKeeps
  <2>4. CASE EndRound
    BY <2>1, <2>4, <1>1, EndRoundKeeps
  <2>5. CASE Offload
    BY <2>1, <2>5, <1>1, <1>2, OffloadKeeps
  <2>6. CASE PlaceSend
    BY <2>1, <2>6, <1>1, PlaceSendKeeps
  <2>7. CASE PostValidate
    BY <2>1, <2>7, <1>1, PostValidateKeeps
  <2>8. CASE SortPairs
    BY <2>1, <2>8, <1>1, SortPairsKeeps
  <2>9. CASE PlaceRecv
    BY <2>1, <2>9, <1>1, PlaceRecvKeeps
  <2>10. CASE EndRecvs
    BY <2>1, <2>10, <1>1, EndRecvsKeeps
  <2>11. CASE MatchPairs
    BY <2>1, <2>11, <1>1, MatchPairsKeeps
  <2>12. CASE Stop \/ UNCHANGED vars
    <3>1. UNCHANGED vars
      BY <2>12 DEF Stop
    <3>2. /\ phase' = phase /\ prog' = prog /\ localOrder' = localOrder /\ simulation' = simulation
          /\ cursor' = cursor /\ ranOne' = ranOne /\ pairs' = pairs /\ next' = next
          /\ startIndices' = startIndices /\ matched' = matched
      BY <3>1 DEF vars
    <3>3. Typed'
      BY <2>1, <3>2 DEF Typed
    <3>4. Waiting' /\ PeersKnown' /\ Simulating' /\ TimesSet'
      BY <2>1, <3>2 DEF Passed, Waiting, PeersKnown, Simulating, TimesSet
    <3>5. SendsPlaced' /\ AllSent' /\ RecvsPlaced' /\ AllPlaced'
      BY <2>1, <3>2 DEF Passed, SendsPlaced, AllSent, RecvsPlaced, AllPlaced
    <3> QED BY <3>3, <3>4, <3>5 DEF Passed
  <2> QED BY <2>2, <2>3, <2>4, <2>5, <2>6, <2>7, <2>8, <2>9, <2>10, <2>11, <2>12 DEF Next
<1> QED BY <1>1, <1>2 DEF IInv

\* The invariant holds in every state.
LEMMA IInvHolds == Spec => []IInv
<1>1. Init => IInv
  BY InitMakes DEF IInv
<1>2. IInv /\ [Next]_vars => IInv'
  BY NextKeeps
<1> QED BY <1>1, <1>2, PTL DEF Spec

-----------------------------------------------------------------------------

\* The variables of the compilation keep their types: in particular every stage
\* may take an insertion within its order, next points at a pair or behind the
\* last, and only pairs of the order are matched.
THEOREM CompilerTypes == Spec => [](prog.offload = None => TypeOK)
<1>1. ASSUME IInv, prog.offload = None
      PROVE  TypeOK
  <2> DEFINE c == prog.cfg
  <2>1. prog \in Programs /\ Typed
    BY <1>1 DEF IInv
  <2>2. Sourced(c, prog.order)
    BY <2>1, ProgramIs
  <2>3. \A s \in Stages(c) : localOrder[s] \in Seq(Node) /\ Len(localOrder[s]) \in Nat
    BY <2>1, LenProperties DEF Typed, Orders
  <2>4. \A s \in Stages(c) : \A i \in DOMAIN localOrder[s] : localOrder[s][i].type \in NodeTypes
    <3> SUFFICES ASSUME NEW s \in Stages(c), NEW i \in DOMAIN localOrder[s]
                 PROVE  localOrder[s][i].type \in NodeTypes
      OBVIOUS
    <3>1. localOrder[s][i] \in Node
      BY <2>3, LenProperties, ElementOfSeq
    <3> QED BY <3>1 DEF Node
  <2>5. \A s \in Stages(c) : \A i \in DOMAIN simulation.order[s] : simulation.order[s][i].type \in ComputeTypes
    BY <2>1 DEF Typed, IsComputation
  <2>6. \A s \in Stages(c) : simulation.time[s] \in Nat /\ startIndices[s] \in 1 .. Len(localOrder[s]) + 1
    BY <2>1, <2>3 DEF Typed, Places
  <2>7. \A k \in DOMAIN pairs : IsSend(pairs[k].send) /\ IsRecv(pairs[k].recv)
    <3>1. DOMAIN pairs = 1 .. Len(pairs)
      BY <2>1, LenProperties DEF Typed
    <3> QED BY <3>1, <2>1 DEF Typed, PairsOK, Ends
  <2>8. phase \in Phases /\ cursor \in 0 .. c.n /\ ranOne \in BOOLEAN /\ next \in 1 .. Len(pairs) + 1
        /\ matched \subseteq PairIds(localOrder)
    BY <2>1 DEF Typed
  <2> QED BY <2>1, <2>4, <2>5, <2>6, <2>7, <2>8 DEF TypeOK, Cfg, Phases
<1>2. IInv => (prog.offload = None => TypeOK)
  BY <1>1
<1> QED BY <1>2, IInvHolds, PTL

\* The times that add_time gives, at every moment of its simulation, can happen:
\* no stage runs two computations at once and none starts before its operand is
\* there (add_time, and TimedOK for a builder that sets the times).
THEOREM TimesHappen == Spec => [](prog.offload = None => TimesOK)
<1>1. ASSUME IInv, prog.offload = None
      PROVE  TimesOK
  BY <1>1 DEF IInv, Passed, Simulating, Simulated, TimesSet, TimesOK, Cfg
<1>2. IInv => (prog.offload = None => TimesOK)
  BY <1>1
<1> QED BY <1>2, IInvHolds, PTL

\* No pass loses, repeats or reorders a computation of a stage: what the runtime
\* gets computes what the builder scheduled, in its order.
THEOREM ComputationsStay == Spec => [](prog.offload = None => ComputationsKept)
<1>1. ASSUME IInv, prog.offload = None
      PROVE  ComputationsKept
  <2>1. prog \in Programs /\ Typed
    BY <1>1 DEF IInv
  <2>2. Sourced(prog.cfg, prog.order) /\ localOrder \in Orders(prog.cfg) /\ Whole(prog.order, localOrder)
    BY <2>1, ProgramIs DEF Typed
  <2> QED BY <2>2, KeptComputations DEF ComputationsKept, Cfg
<1>2. IInv => (prog.offload = None => ComputationsKept)
  BY <1>1
<1> QED BY <1>2, IInvHolds, PTL

\* At every moment of the insertions a send stands behind the computation that
\* produces its tensor and a receive before the one that consumes it.
THEOREM AllWellPlaced == Spec => [](prog.offload = None => WellPlaced)
<1>1. ASSUME IInv, prog.offload = None
      PROVE  WellPlaced
  <2>1. localOrder \in Orders(prog.cfg) /\ Placed(localOrder)
    BY <1>1 DEF IInv, Typed, Whole
  <2> SUFFICES ASSUME NEW s \in Stages(prog.cfg), NEW i \in DOMAIN localOrder[s]
               PROVE  /\ localOrder[s][i].type \in SendTypes =>
                           \E j \in 1 .. i - 1 : Carries(localOrder[s][i], localOrder[s][j])
                      /\ localOrder[s][i].type \in RecvTypes =>
                           \E j \in i + 1 .. Len(localOrder[s]) : Carries(localOrder[s][i], localOrder[s][j])
    BY DEF WellPlaced, Cfg
  <2>2. s \in DOMAIN localOrder /\ Len(localOrder[s]) \in Nat /\ DOMAIN localOrder[s] = 1 .. Len(localOrder[s])
    BY <2>1, LenProperties DEF Orders
  <2>3. \A j \in DOMAIN localOrder[s] : (j < i => j \in 1 .. i - 1) /\ (i < j => j \in i + 1 .. Len(localOrder[s]))
    BY <2>2
  <2> QED BY <2>1, <2>2, <2>3 DEF Placed
<1>2. IInv => (prog.offload = None => WellPlaced)
  BY <1>1
<1> QED BY <1>2, IInvHolds, PTL

\* In a compiled order the two ends of a link agree: stage t receives from s in
\* the order in which s sends to t, though insert_send_nodes goes by start times,
\* insert_recv_nodes by a sort whose comparison is not transitive, and NCCL
\* matches by rank alone.
THEOREM LinksOfCompiled == Spec => [](prog.offload = None => LinksAgree)
<1>1. ASSUME IInv, prog.offload = None
      PROVE  LinksAgree
  <2> SUFFICES ASSUME phase = "compiled", NEW s \in Stages(prog.cfg), NEW t \in Stages(prog.cfg), s # t
               PROVE  LET sends == Link(s, t, SendTypes)
                          recvs == Link(t, s, RecvTypes)
                          Paired(i, j) == localOrder[s][i].pair = localOrder[t][j].pair
                      IN  /\ \A i \in sends : \E j \in recvs : Paired(i, j)
                          /\ \A j \in recvs : \E i \in sends : Paired(i, j)
                          /\ \A i \in sends, j \in recvs : Paired(i, j) =>
                               \A i2 \in sends, j2 \in recvs : Paired(i2, j2) => (i < i2 <=> j < j2)
    BY DEF LinksAgree, Cfg
  <2>1. Communicated(prog.cfg, prog.order, localOrder, pairs)
    BY <1>1 DEF IInv, Passed, AllPlaced
  <2> QED BY <2>1, LinksAgreed DEF Link
<1>2. IInv => (prog.offload = None => LinksAgree)
  BY <1>1
<1> QED BY <1>2, IInvHolds, PTL

\* In a compiled order every dependency across stages has its send and its receive,
\* once each.
THEOREM CompiledCommunicates == Spec => [](prog.offload = None => AllCommunicated)
<1>1. ASSUME IInv, prog.offload = None
      PROVE  AllCommunicated
  <2> SUFFICES ASSUME phase = "compiled", NEW s \in Stages(prog.cfg), NEW i \in DOMAIN localOrder[s],
                      localOrder[s][i].type \in {"F", "B", "BW"}
               PROVE  LET n == localOrder[s][i]
                          of(types, o) == {j \in DOMAIN o : o[j].type \in types /\ Carries(o[j], n)}
                      IN  /\ Cardinality(of(SendTypes, localOrder[s])) = IF n.sendPeer = None THEN 0 ELSE 1
                          /\ Cardinality(of(RecvTypes, localOrder[s])) = IF n.recvPeer = None THEN 0 ELSE 1
    BY DEF AllCommunicated, Cfg
  <2>1. prog \in Programs /\ Communicated(prog.cfg, prog.order, localOrder, pairs) /\ Staged(prog.order)
    BY <1>1 DEF IInv, Passed, AllPlaced, PeersKnown
  <2>2. Sourced(prog.cfg, prog.order)
    BY <2>1, ProgramIs
  <2> QED BY <2>1, <2>2, AllOnceCommunicated
<1>2. IInv => (prog.offload = None => AllCommunicated)
  BY <1>1
<1> QED BY <1>2, IInvHolds, PTL
==============================================================================
