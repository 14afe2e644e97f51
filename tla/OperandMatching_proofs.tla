------------------------ MODULE OperandMatching_proofs ------------------------
(* Every computation consumes the tensor it depends on, for every number of   *)
(* stages, chunks and splits and all orders whose ends match (MatchedOrders), *)
(* whatever the interleaving of the stages and of the network.                *)
EXTENDS MatchedOrders, ExecutableOrders, PipelineRuntime_proofs,
        FiniteSetTheorems

(* The tensors that the stages have produced.                                 *)
Produced ==
  UNION {{Key(Node(u, i)) : i \in Executed(u, {"F", "B", "BW"})} : u \in Stage}

-------------------------------------------------------------------------------
(* The buffers.                                                               *)

T(s, i) == TensorTaken(Node(s, i))
G(s, i) == TensorGiven(Node(s, i))

(* When the takes before x and the gives before y are done, buffer b of stage *)
(* s holds what is given and not taken, oldest first.                         *)
Holds(s, b, q, x, y) ==
  /\ \A c, d \in 1 .. Len(q) : c < d => q[c] < q[d]
  /\ \A c \in 1 .. Len(q) :
       /\ q[c] \in Givers(conf, s, b) /\ q[c] < y
       /\ \A i \in Takers(conf, s, b) : i < x => T(s, i) # G(s, q[c])
  /\ \A p \in Givers(conf, s, b) :
       /\ p < y
       /\ \A i \in Takers(conf, s, b) : i < x => T(s, i) # G(s, p)
       => \E c \in 1 .. Len(q) : q[c] = p
  /\ \A i \in Takers(conf, s, b) :
       i < x => \E p \in Givers(conf, s, b) : p < y /\ G(s, p) = T(s, i)

BuffersOK ==
  \A s \in Stage : \A b \in Buffers : Holds(s, b, buf[s][b], it[s], it[s])

(* The assumptions about buffers, for the orders of this iteration.           *)
LEMMA BufferPairs ==
  ASSUME conf \in Conf, NEW s \in Stage, NEW b \in Buffers
  PROVE  /\ \A i \in Takers(conf, s, b) : \E j \in Givers(conf, s, b) : G(s, j) = T(s, i)
         /\ \A j \in Givers(conf, s, b) : \E i \in Takers(conf, s, b) : G(s, j) = T(s, i)
         /\ \A i, k \in Takers(conf, s, b), j, l \in Givers(conf, s, b) :
              G(s, j) = T(s, i) /\ G(s, l) = T(s, k) => (j < l <=> i < k)
BY BuffersMatched DEF T, G, Node

LEMMA PositionsAreNumbers ==
  ASSUME conf \in Conf, NEW s \in Stage
  PROVE  /\ DOMAIN Order(s) = 1 .. Len(Order(s)) /\ Len(Order(s)) \in Nat
         /\ Live(conf, s) \subseteq DOMAIN Order(s)
         /\ \A b : Givers(conf, s, b) \subseteq Nat /\ Takers(conf, s, b) \subseteq Nat
<1>1. Order(s) \in Seq(Nodes)
  BY ConfOK DEF IsConf, Order
<1>2. Live(conf, s) \subseteq DOMAIN Order(s)
  BY DEF Live, Order
<1> QED
  BY <1>1, <1>2 DEF Givers, Takers

(* A taker finds its tensor at the head of its buffer.                        *)
LEMMA TakeHead ==
  ASSUME conf \in Conf, NEW s \in Stage, NEW b \in Buffers, NEW q \in Seq(Nat), q # <<>>,
         NEW i \in Takers(conf, s, b), Holds(s, b, q, i, i)
  PROVE  /\ Head(q) \in Givers(conf, s, b) /\ Head(q) < i
         /\ G(s, Head(q)) = T(s, i)
         /\ Holds(s, b, Tail(q), i + 1, i)
<1> DEFINE p == Head(q)
<1>1. p = q[1] /\ 1 \in 1 .. Len(q) /\ Len(q) \in Nat
  OBVIOUS
<1>2. p \in Givers(conf, s, b) /\ p < i /\ \A k \in Takers(conf, s, b) : k < i => T(s, k) # G(s, p)
  BY <1>1 DEF Holds
<1>3. \A b1 : Givers(conf, s, b1) \subseteq Nat /\ Takers(conf, s, b1) \subseteq Nat
  BY PositionsAreNumbers
<1>4. PICK k \in Takers(conf, s, b) : G(s, p) = T(s, k)
  BY <1>2, BufferPairs
<1>5. PICK o \in Givers(conf, s, b) : G(s, o) = T(s, i)
  BY BufferPairs
<1>6. ~ k < i
  BY <1>2, <1>4
<1>7. ~ i < k
  <2> SUFFICES ASSUME i < k PROVE FALSE
    OBVIOUS
  <2>1. o < p
    BY <1>2, <1>4, <1>5, BufferPairs
  <2>2. o < i
    BY <1>2, <1>3, <2>1
  <2>3. \A j \in Takers(conf, s, b) : j < i => T(s, j) # G(s, o)
    <3>1. ASSUME NEW j \in Takers(conf, s, b), j < i, T(s, j) = G(s, o) PROVE FALSE
      <4>1. o < o <=> j < i
        BY <1>5, <3>1, BufferPairs
      <4> QED
        BY <1>3, <3>1, <4>1
    <3> QED
      BY <3>1
  <2>4. PICK c \in 1 .. Len(q) : q[c] = o
    BY <2>2, <2>3 DEF Holds
  <2>5. c = 1 \/ q[1] < q[c]
    BY <1>1 DEF Holds
  <2> QED
    BY <1>1, <1>3, <2>1, <2>4, <2>5
<1>8. k = i
  BY <1>3, <1>6, <1>7
<1>9. G(s, p) = T(s, i)
  BY <1>4, <1>8
<1> DEFINE r == Tail(q)
<1>10. /\ r \in Seq(Nat) /\ Len(r) = Len(q) - 1
       /\ \A c \in 1 .. Len(r) : r[c] = q[c + 1] /\ c + 1 \in 1 .. Len(q)
  OBVIOUS
<1> HIDE DEF p, r
<1>11. \A c, d \in 1 .. Len(r) : c < d => r[c] < r[d]
  <2> SUFFICES ASSUME NEW c \in 1 .. Len(r), NEW d \in 1 .. Len(r), c < d PROVE r[c] < r[d]
    OBVIOUS
  <2>1. c + 1 < d + 1 /\ c + 1 \in 1 .. Len(q) /\ d + 1 \in 1 .. Len(q)
    BY <1>10
  <2>2. q[c + 1] < q[d + 1]
    BY <2>1 DEF Holds
  <2> QED
    BY <1>10, <2>2
<1>12. \A c \in 1 .. Len(r) :
         /\ r[c] \in Givers(conf, s, b) /\ r[c] < i
         /\ \A j \in Takers(conf, s, b) : j < i + 1 => T(s, j) # G(s, r[c])
  <2> SUFFICES ASSUME NEW c \in 1 .. Len(r)
               PROVE  /\ r[c] \in Givers(conf, s, b) /\ r[c] < i
                      /\ \A j \in Takers(conf, s, b) : j < i + 1 => T(s, j) # G(s, r[c])
    OBVIOUS
  <2>1. /\ r[c] \in Givers(conf, s, b) /\ r[c] < i
        /\ \A j \in Takers(conf, s, b) : j < i => T(s, j) # G(s, r[c])
    BY <1>10 DEF Holds
  <2>2. p < r[c]
    <3>1. 1 < c + 1 /\ c + 1 \in 1 .. Len(q)
      BY <1>1, <1>10
    <3> QED
      BY <1>1, <1>10, <3>1 DEF Holds
  <2>3. T(s, i) # G(s, r[c])
    <3> SUFFICES ASSUME T(s, i) = G(s, r[c]) PROVE FALSE
      OBVIOUS
    <3>1. p < r[c] <=> i < i
      BY <1>2, <1>9, <2>1, BufferPairs
    <3> QED
      BY <1>3, <2>2, <3>1
  <2> QED
    BY <1>3, <2>1, <2>3
<1>13. \A o1 \in Givers(conf, s, b) :
         /\ o1 < i
         /\ \A j \in Takers(conf, s, b) : j < i + 1 => T(s, j) # G(s, o1)
         => \E c \in 1 .. Len(r) : r[c] = o1
  <2> SUFFICES ASSUME NEW o1 \in Givers(conf, s, b), o1 < i,
                      \A j \in Takers(conf, s, b) : j < i + 1 => T(s, j) # G(s, o1)
               PROVE  \E c \in 1 .. Len(r) : r[c] = o1
    OBVIOUS
  <2>1. PICK c \in 1 .. Len(q) : q[c] = o1
    BY <1>3 DEF Holds
  <2>2. c # 1
    BY <1>1, <1>3, <1>9, <2>1
  <2>3. c - 1 \in 1 .. Len(r) /\ r[c - 1] = q[c]
    BY <1>1, <1>10, <2>2
  <2> QED
    BY <2>1, <2>3
<1>14. \A j \in Takers(conf, s, b) :
         j < i + 1 => \E o1 \in Givers(conf, s, b) : o1 < i /\ G(s, o1) = T(s, j)
  BY <1>2, <1>3, <1>9 DEF Holds
<1>15. Holds(s, b, r, i + 1, i)
  BY <1>11, <1>12, <1>13, <1>14 DEF Holds
<1> QED
  BY <1>2, <1>9, <1>15 DEF p, r

(* What is given goes last.                                                   *)
LEMMA GiveLast ==
  ASSUME conf \in Conf, NEW s \in Stage, NEW b \in Buffers, NEW q \in Seq(Nat),
         NEW i \in Givers(conf, s, b), NEW x \in {i, i + 1}, Holds(s, b, q, x, i)
  PROVE  Holds(s, b, Append(q, i), x, i + 1)
<1> DEFINE r == Append(q, i)
<1>1. \A b1 : Givers(conf, s, b1) \subseteq Nat /\ Takers(conf, s, b1) \subseteq Nat
  BY PositionsAreNumbers
<1>2. /\ r \in Seq(Nat) /\ Len(r) = Len(q) + 1 /\ Len(q) \in Nat
      /\ \A c \in 1 .. Len(r) : r[c] = IF c = Len(q) + 1 THEN i ELSE q[c]
      /\ \A c \in 1 .. Len(r) : c # Len(q) + 1 => c \in 1 .. Len(q)
      /\ \A c \in 1 .. Len(q) : c \in 1 .. Len(r)
  BY <1>1
<1> HIDE DEF r
<1>3. \A k \in Takers(conf, s, b) : k < x => T(s, k) # G(s, i)
  <2> SUFFICES ASSUME NEW k \in Takers(conf, s, b), k < x, T(s, k) = G(s, i)
               PROVE  FALSE
    OBVIOUS
  <2>1. PICK p \in Givers(conf, s, b) : p < i /\ G(s, p) = T(s, k)
    BY DEF Holds
  <2>2. p < i <=> k < k
    BY <2>1, BufferPairs
  <2> QED
    BY <1>1, <2>1, <2>2
<1>4. \A c, d \in 1 .. Len(r) : c < d => r[c] < r[d]
  <2> SUFFICES ASSUME NEW c \in 1 .. Len(r), NEW d \in 1 .. Len(r), c < d PROVE r[c] < r[d]
    OBVIOUS
  <2>1. c \in 1 .. Len(q) /\ r[c] = q[c]
    BY <1>2
  <2>2. CASE d = Len(q) + 1
    BY <1>2, <2>1, <2>2 DEF Holds
  <2>3. CASE d # Len(q) + 1
    BY <1>2, <2>1, <2>3 DEF Holds
  <2> QED
    BY <2>2, <2>3
<1>5. \A c \in 1 .. Len(r) :
        /\ r[c] \in Givers(conf, s, b) /\ r[c] < i + 1
        /\ \A k \in Takers(conf, s, b) : k < x => T(s, k) # G(s, r[c])
  <2> SUFFICES ASSUME NEW c \in 1 .. Len(r)
               PROVE  /\ r[c] \in Givers(conf, s, b) /\ r[c] < i + 1
                      /\ \A k \in Takers(conf, s, b) : k < x => T(s, k) # G(s, r[c])
    OBVIOUS
  <2>1. CASE c = Len(q) + 1
    BY <1>1, <1>2, <1>3, <2>1
  <2>2. CASE c # Len(q) + 1
    <3>1. c \in 1 .. Len(q) /\ r[c] = q[c]
      BY <1>2, <2>2
    <3>2. /\ q[c] \in Givers(conf, s, b) /\ q[c] < i
          /\ \A k \in Takers(conf, s, b) : k < x => T(s, k) # G(s, q[c])
      BY <3>1 DEF Holds
    <3> QED
      BY <1>1, <3>1, <3>2
  <2> QED
    BY <2>1, <2>2
<1>6. \A p \in Givers(conf, s, b) :
        /\ p < i + 1
        /\ \A k \in Takers(conf, s, b) : k < x => T(s, k) # G(s, p)
        => \E c \in 1 .. Len(r) : r[c] = p
  <2> SUFFICES ASSUME NEW p \in Givers(conf, s, b), p < i + 1,
                      \A k \in Takers(conf, s, b) : k < x => T(s, k) # G(s, p)
               PROVE  \E c \in 1 .. Len(r) : r[c] = p
    OBVIOUS
  <2>1. CASE p = i
    BY <1>2, <2>1
  <2>2. CASE p # i
    <3>1. p < i
      BY <1>1, <2>2
    <3>2. PICK c \in 1 .. Len(q) : q[c] = p
      BY <3>1 DEF Holds
    <3>3. c \in 1 .. Len(r) /\ r[c] = p
      BY <1>2, <3>2
    <3> QED
      BY <3>3
  <2> QED
    BY <2>1, <2>2
<1>7. \A k \in Takers(conf, s, b) :
        k < x => \E p \in Givers(conf, s, b) : p < i + 1 /\ G(s, p) = T(s, k)
  <2> SUFFICES ASSUME NEW k \in Takers(conf, s, b), k < x
               PROVE  \E p \in Givers(conf, s, b) : p < i + 1 /\ G(s, p) = T(s, k)
    OBVIOUS
  <2>1. PICK p \in Givers(conf, s, b) : p < i /\ G(s, p) = T(s, k)
    BY DEF Holds
  <2>2. p < i + 1
    BY <1>1, <2>1
  <2> QED
    BY <2>1, <2>2
<1>8. Holds(s, b, r, x, i + 1)
  BY <1>4, <1>5, <1>6, <1>7 DEF Holds
<1> QED
  BY <1>8 DEF r

(* A node that does not use a buffer does not disturb it.                     *)
LEMMA NotTaken ==
  ASSUME conf \in Conf, NEW s \in Stage, NEW b, NEW q, NEW i \in Nat, NEW y,
         i \notin Takers(conf, s, b), Holds(s, b, q, i, y)
  PROVE  Holds(s, b, q, i + 1, y)
<1>1. \A k \in Takers(conf, s, b) : k < i + 1 <=> k < i
  BY PositionsAreNumbers
<1> QED
  BY <1>1 DEF Holds

LEMMA NotGiven ==
  ASSUME conf \in Conf, NEW s \in Stage, NEW b, NEW q, NEW i \in Nat, NEW x,
         i \notin Givers(conf, s, b), Holds(s, b, q, x, i)
  PROVE  Holds(s, b, q, x, i + 1)
<1>1. \A p \in Givers(conf, s, b) : p < i + 1 <=> p < i
  BY PositionsAreNumbers
<1> QED
  BY <1>1 DEF Holds

LEMMA NotUsed ==
  ASSUME conf \in Conf, NEW s \in Stage, NEW b, NEW q, NEW i \in Nat,
         i \notin Live(conf, s), Holds(s, b, q, i, i)
  PROVE  Holds(s, b, q, i + 1, i + 1)
<1>1. i \notin Takers(conf, s, b) /\ i \notin Givers(conf, s, b)
  BY DEF Takers, Givers
<1>2. Holds(s, b, q, i + 1, i)
  BY <1>1, NotTaken
<1>3. \A p \in Givers(conf, s, b) : p < i + 1 <=> p < i
  BY <1>1, PositionsAreNumbers
<1> QED
  BY <1>2, <1>3 DEF Holds

(* A live node takes from its one buffer and gives to its other.              *)
LEMMA TakeAndGive ==
  ASSUME conf \in Conf, NEW s \in Stage, NEW i \in Live(conf, s),
         NEW f \in [Buffers -> Seq(Nat)],
         \A b \in Buffers : Holds(s, b, f[b], i, i),
         NEW src \in Buffers \cup {NoBuffer}, src = TakesFrom(s, Node(s, i)),
         NEW snk \in Buffers \cup {NoBuffer}, snk = GivesTo(s, Node(s, i)),
         src # NoBuffer => f[src] # <<>>
  PROVE  /\ \A b \in Buffers : Holds(s, b, Pushed(Popped(f, src), snk, i)[b], i + 1, i + 1)
         /\ src # NoBuffer => /\ Head(f[src]) \in Givers(conf, s, src) /\ Head(f[src]) < i
                              /\ G(s, Head(f[src])) = T(s, i)
<1> DEFINE g == Popped(f, src)
           h == Pushed(g, snk, i)
<1>1. i \in Nat
  BY PositionsAreNumbers
<1>2. NoBuffer \notin Buffers
  BY DEF NoBuffer, Buffers, CommTypes, SendTypes, RecvTypes
<1>3. \A b \in Buffers : /\ i \in Takers(conf, s, b) <=> b = src
                         /\ i \in Givers(conf, s, b) <=> b = snk
  BY DEF Takers, Givers, Node
<1>4. \A b \in Buffers : g[b] = IF b = src THEN Tail(f[b]) ELSE f[b]
  BY <1>2 DEF Popped
<1>5. g \in [Buffers -> Seq(Nat)]
  BY <1>2 DEF Popped
<1>6. \A b \in Buffers : h[b] = IF b = snk THEN Append(g[b], i) ELSE g[b]
  BY <1>2, <1>5 DEF Pushed
<1> HIDE DEF g, h
<1>7. \A b \in Buffers : Holds(s, b, g[b], i + 1, i)
  <2> SUFFICES ASSUME NEW b \in Buffers PROVE Holds(s, b, g[b], i + 1, i)
    OBVIOUS
  <2>1. CASE b = src
    <3>1. f[b] \in Seq(Nat) /\ f[b] # <<>> /\ i \in Takers(conf, s, b)
      BY <1>2, <1>3, <2>1
    <3>2. Holds(s, b, Tail(f[b]), i + 1, i)
      BY <3>1, TakeHead
    <3> QED
      BY <1>4, <2>1, <3>2
  <2>2. CASE b # src
    BY <1>1, <1>3, <1>4, <2>2, NotTaken
  <2> QED
    BY <2>1, <2>2
<1>8. \A b \in Buffers : Holds(s, b, h[b], i + 1, i + 1)
  <2> SUFFICES ASSUME NEW b \in Buffers PROVE Holds(s, b, h[b], i + 1, i + 1)
    OBVIOUS
  <2>1. CASE b = snk
    <3>1. g[b] \in Seq(Nat) /\ i \in Givers(conf, s, b) /\ Holds(s, b, g[b], i + 1, i)
      BY <1>3, <1>5, <1>7, <2>1
    <3>2. Holds(s, b, Append(g[b], i), i + 1, i + 1)
      BY <3>1, GiveLast
    <3> QED
      BY <1>6, <2>1, <3>2
  <2>2. CASE b # snk
    <3>1. Holds(s, b, g[b], i + 1, i) /\ i \notin Givers(conf, s, b)
      BY <1>3, <1>7, <2>2
    <3>2. Holds(s, b, g[b], i + 1, i + 1)
      BY <1>1, <3>1, NotGiven
    <3> QED
      BY <1>6, <2>2, <3>2
  <2> QED
    BY <2>1, <2>2
<1>9. ASSUME src # NoBuffer
      PROVE  /\ Head(f[src]) \in Givers(conf, s, src) /\ Head(f[src]) < i
             /\ G(s, Head(f[src])) = T(s, i)
  <2>1. src \in Buffers /\ f[src] \in Seq(Nat) /\ f[src] # <<>> /\ i \in Takers(conf, s, src)
    BY <1>3, <1>9
  <2>2. Holds(s, src, f[src], i, i)
    BY <2>1
  <2> QED
    BY <2>1, <2>2, TakeHead
<1> QED
  BY <1>8, <1>9 DEF g, h

-------------------------------------------------------------------------------
(* The groups of a stage.                                                     *)

(* Since position i stage s has not flushed.                                  *)
Unflushed(s, i, y) ==
  \A x \in DOMAIN Order(s) : i <= x /\ x < y => ~ FlushesIn(conf, s, x)

LiveComm(s, i) == i \in Live(conf, s) /\ Node(s, i).type \in CommTypes

Apart(s, i, j) == i < j /\ ~ SameGroup(conf, s, i, j)

(* A group holds the communications between two flushes; those of the batch   *)
(* come after all of them.                                                    *)
GroupsOK(s) ==
  /\ \A g \in 1 .. Len(posted[s]) :
       /\ posted[s][g].left \subseteq posted[s][g].ops
       /\ \A i \in posted[s][g].ops :
            /\ LiveComm(s, i) /\ i < it[s] /\ ~ Unflushed(s, i, it[s])
            /\ \A j \in posted[s][g].ops : SameGroup(conf, s, i, j)
            /\ \A h \in 1 .. Len(posted[s]) : g < h => \A j \in posted[s][h].ops : Apart(s, i, j)
            /\ \A j \in batch[s] : Apart(s, i, j)
  /\ \A i \in batch[s] : LiveComm(s, i) /\ i < it[s] /\ Unflushed(s, i, it[s])

(* Communication i has been added and is not over.                            *)
InFlight(s, i) ==
  i \in batch[s] \/ \E g \in 1 .. Len(posted[s]) : i \in posted[s][g].left

Passed(s, i) == i < it[s] /\ ~ InFlight(s, i)

LEMMA GroupTypes ==
  ASSUME Inv, NEW s \in Stage
  PROVE  /\ posted[s] \in Seq([ops : SUBSET Nat, left : SUBSET Nat]) /\ Len(posted[s]) \in Nat
         /\ \A g \in 1 .. Len(posted[s]) :
              /\ posted[s][g] \in [ops : SUBSET Nat, left : SUBSET Nat]
              /\ posted[s][g].ops \subseteq Nat /\ posted[s][g].left \subseteq Nat
         /\ posted[s] # <<>> => 1 \in 1 .. Len(posted[s]) /\ Head(posted[s]) = posted[s][1]
         /\ batch[s] \subseteq Nat
<1> DEFINE Groups == [ops : SUBSET Nat, left : SUBSET Nat]
<1>1. posted[s] \in Seq(Groups) /\ batch[s] \subseteq Nat
  BY DEF Inv, TypeOK
<1>2. \A g \in Groups : g.ops \subseteq Nat /\ g.left \subseteq Nat
  OBVIOUS
<1> HIDE DEF Groups
<1>3. /\ \A g \in 1 .. Len(posted[s]) : posted[s][g] \in Groups
      /\ Len(posted[s]) \in Nat
      /\ posted[s] # <<>> => 1 \in 1 .. Len(posted[s]) /\ Head(posted[s]) = posted[s][1]
  BY <1>1
<1> QED
  BY <1>1, <1>2, <1>3 DEF Groups

(* The next operation of a stage with a peer is the first that is not over.   *)
LEMMA NextIsFirst ==
  ASSUME Inv, NEW s \in Stage, GroupsOK(s), NEW t \in Stage, NEW types,
         NEW i, NextOf(s, t, types, i),
         NEW k \in Live(conf, s), Node(s, k).type \in types, Node(s, k).peer = t,
         ~ Passed(s, k), k # i
  PROVE  EarlierOp(conf, s, i, k)
<1>1. /\ i \in posted[s][1].left /\ 1 \in 1 .. Len(posted[s])
      /\ posted[s][1].left \subseteq Nat /\ Len(posted[s]) \in Nat
      /\ \A j \in posted[s][1].left :
           Node(s, j).type \in types /\ Node(s, j).peer = t /\ j # i => ListedBefore(s, i, j)
  BY GroupTypes DEF NextOf
<1>2. i \in posted[s][1].ops
  BY <1>1 DEF GroupsOK
<1>3. i \in Nat /\ k \in Nat /\ it[s] \in Nat
  <2>2. conf \in Conf /\ it[s] \in Nat
    BY DEF Inv, TypeOK
  <2> QED
    BY <1>1, <2>2, PositionsAreNumbers
<1>4. CASE k \in posted[s][1].left
  <2>1. SameGroup(conf, s, i, k)
    BY <1>1, <1>2, <1>4 DEF GroupsOK
  <2>2. ListedBefore(s, i, k)
    BY <1>1, <1>4
  <2> QED
    BY <2>1, <2>2 DEF EarlierOp, ListedBefore, Node
<1>5. ASSUME Apart(s, i, k) PROVE EarlierOp(conf, s, i, k)
  BY <1>5 DEF Apart, EarlierOp
<1>6. ASSUME NEW g \in 1 .. Len(posted[s]), g # 1, k \in posted[s][g].left
      PROVE  Apart(s, i, k)
  <2>1. 1 < g /\ k \in posted[s][g].ops
    BY <1>6 DEF GroupsOK
  <2> QED
    BY <1>1, <1>2, <2>1 DEF GroupsOK
<1>7. CASE k \in batch[s]
  BY <1>1, <1>2, <1>5, <1>7 DEF GroupsOK
<1>8. CASE ~ k < it[s]
  <2>1. i < it[s] /\ ~ Unflushed(s, i, it[s])
    BY <1>1, <1>2 DEF GroupsOK
  <2>2. PICK x \in DOMAIN Order(s) : i <= x /\ x < it[s] /\ FlushesIn(conf, s, x)
    BY <2>1 DEF Unflushed
  <2>3. x \in Nat
    BY <2>2, PositionsAreNumbers DEF Inv, TypeOK
  <2>4. i < k /\ i <= x /\ x < k
    BY <1>3, <1>8, <2>1, <2>2, <2>3
  <2>5. ~ SameGroup(conf, s, i, k)
    BY <2>2, <2>4 DEF SameGroup, Order
  <2> QED
    BY <1>5, <2>4, <2>5 DEF Apart
<1> QED
  BY <1>4, <1>5, <1>6, <1>7, <1>8 DEF Passed, InFlight

(* EarlierOp orders the operations of a stage strictly.                       *)
LEMMA EarlierOpStrict ==
  ASSUME conf \in Conf, NEW s \in Stage, NEW i \in Live(conf, s), NEW j \in Live(conf, s)
  PROVE  /\ ~ EarlierOp(conf, s, i, i)
         /\ EarlierOp(conf, s, i, j) => ~ EarlierOp(conf, s, j, i)
<1>1. i \in Nat /\ j \in Nat
  BY PositionsAreNumbers
<1>2. SameGroup(conf, s, i, j) <=> SameGroup(conf, s, j, i)
  BY DEF SameGroup
<1> QED
  BY <1>1, <1>2 DEF EarlierOp

-------------------------------------------------------------------------------
(* The links.                                                                 *)

(* Both ends of a transfer are over, or neither.                              *)
LinksOK ==
  \A s, t \in Stage : s # t =>
    \A i \in Sends(conf, s, t), j \in Recvs(conf, t, s) :
      T(s, i) = G(t, j) => (Passed(s, i) <=> Passed(t, j))

LEMMA LinkPairs ==
  ASSUME conf \in Conf, NEW s \in Stage, NEW t \in Stage, s # t
  PROVE  /\ \A i \in Sends(conf, s, t) : \E j \in Recvs(conf, t, s) : T(s, i) = G(t, j)
         /\ \A j \in Recvs(conf, t, s) : \E i \in Sends(conf, s, t) : T(s, i) = G(t, j)
         /\ \A i, k \in Sends(conf, s, t), j, l \in Recvs(conf, t, s) :
              T(s, i) = G(t, j) /\ T(s, k) = G(t, l) =>
                (EarlierOp(conf, s, i, k) <=> EarlierOp(conf, t, j, l))
BY LinksMatched DEF T, G, Node

(* An operation that the network takes is one of its link, not over.          *)
LEMMA NextIsLive ==
  ASSUME Inv, NEW s \in Stage, GroupsOK(s), NEW t \in Stage, NEW types,
         NEW i, NextOf(s, t, types, i)
  PROVE  /\ LiveComm(s, i) /\ Node(s, i).type \in types /\ Node(s, i).peer = t
         /\ i < it[s] /\ ~ Passed(s, i)
         /\ 1 \in 1 .. Len(posted[s]) /\ i \in posted[s][1].left
<1>1. /\ i \in posted[s][1].left /\ 1 \in 1 .. Len(posted[s])
      /\ Node(s, i).type \in types /\ Node(s, i).peer = t
  BY GroupTypes DEF NextOf
<1>2. LiveComm(s, i) /\ i < it[s]
  BY <1>1 DEF GroupsOK
<1> QED
  BY <1>1, <1>2 DEF Passed, InFlight

(* NCCL matches what belongs together.                                        *)
LEMMA TransferMatches ==
  ASSUME Inv, NEW s \in Stage, NEW t \in Stage, s # t, GroupsOK(s), GroupsOK(t), LinksOK,
         NEW i, NextOf(s, t, SendTypes, i), NEW j, NextOf(t, s, RecvTypes, j)
  PROVE  i \in Sends(conf, s, t) /\ j \in Recvs(conf, t, s) /\ T(s, i) = G(t, j)
<1>1. conf \in Conf
  BY DEF Inv, TypeOK
<1>2. i \in Sends(conf, s, t) /\ ~ Passed(s, i)
  BY NextIsLive DEF LiveComm, Sends, Node
<1>3. j \in Recvs(conf, t, s) /\ ~ Passed(t, j)
  BY NextIsLive DEF LiveComm, Recvs, Node
<1>4. PICK l \in Recvs(conf, t, s) : T(s, i) = G(t, l)
  BY <1>1, <1>2, LinkPairs
<1>5. PICK k \in Sends(conf, s, t) : T(s, k) = G(t, j)
  BY <1>1, <1>3, LinkPairs
<1>6. ~ Passed(t, l) /\ ~ Passed(s, k)
  BY <1>2, <1>3, <1>4, <1>5 DEF LinksOK
<1>7. i # k => EarlierOp(conf, s, i, k)
  BY <1>6, NextIsFirst DEF Sends, Node
<1>8. j # l => EarlierOp(conf, t, j, l)
  BY <1>6, NextIsFirst DEF Recvs, Node
<1>9. EarlierOp(conf, s, i, k) <=> EarlierOp(conf, t, l, j)
  BY <1>1, <1>2, <1>3, <1>4, <1>5, LinkPairs
<1>10. j \in Live(conf, t) /\ l \in Live(conf, t)
  BY <1>3 DEF Recvs
<1>11. i = k
  BY <1>1, <1>7, <1>8, <1>9, <1>10, EarlierOpStrict
<1> QED
  BY <1>2, <1>3, <1>5, <1>11

(* What a transfer leaves of the groups of a stage.                           *)
LEMMA ThroughGroups ==
  ASSUME Inv, NEW s \in Stage, GroupsOK(s),
         NEW i, 1 \in 1 .. Len(posted[s]), i \in posted[s][1].left,
         NEW groups, groups = Through(posted[s], i)
  PROVE  /\ \E d \in {0, 1} :
              /\ Len(groups) = Len(posted[s]) - d
              /\ \A g \in 1 .. Len(groups) :
                   /\ g + d \in 1 .. Len(posted[s])
                   /\ groups[g].ops = posted[s][g + d].ops
                   /\ groups[g].left \subseteq posted[s][g + d].left
         /\ \A x : (\E g \in 1 .. Len(groups) : x \in groups[g].left) <=>
                 x # i /\ \E g \in 1 .. Len(posted[s]) : x \in posted[s][g].left
<1> DEFINE Groups == [ops : SUBSET Nat, left : SUBSET Nat]
           old    == posted[s]
<1>1. /\ old \in Seq(Groups) /\ Len(old) \in Nat
      /\ \A g \in 1 .. Len(old) : old[g] \in Groups /\ old[g].ops \subseteq Nat
      /\ Head(old) = old[1]
  BY GroupTypes
<1>2. \A g \in 1 .. Len(old) : old[g].left \subseteq old[g].ops
  BY DEF GroupsOK
<1>3. \A g \in 1 .. Len(old) : g # 1 => i \notin old[g].left
  <2> SUFFICES ASSUME NEW g \in 1 .. Len(old), g # 1, i \in old[g].left PROVE FALSE
    OBVIOUS
  <2>1. 1 < g /\ i \in old[1].ops /\ i \in old[g].ops
    BY <1>2
  <2>2. i < i
    BY <2>1 DEF GroupsOK, Apart
  <2>3. i \in Nat
    BY <1>1, <2>1
  <2> QED
    BY <2>2, <2>3
<1>4. Head(old) = old[1] /\ old[1] \in Groups
  BY <1>1
<1> HIDE DEF Groups
<1>5. CASE old[1].left = {i}
  <2>1. groups = Tail(old)
    BY <1>4, <1>5 DEF Through
  <2>2. /\ Len(groups) = Len(old) - 1
        /\ \A g \in 1 .. Len(groups) : g + 1 \in 1 .. Len(old) /\ groups[g] = old[g + 1]
    BY <1>1, <2>1
  <2>3. \A x : (\E g \in 1 .. Len(groups) : x \in groups[g].left) <=>
              x # i /\ \E g \in 1 .. Len(old) : x \in old[g].left
    <3>1. ASSUME NEW x, NEW g \in 1 .. Len(groups), x \in groups[g].left
          PROVE  x # i /\ \E h \in 1 .. Len(old) : x \in old[h].left
      <4>1. g + 1 \in 1 .. Len(old) /\ x \in old[g + 1].left /\ g + 1 # 1
        BY <2>2, <3>1
      <4> QED
        BY <1>3, <4>1
    <3>2. ASSUME NEW x, x # i, NEW h \in 1 .. Len(old), x \in old[h].left
          PROVE  \E g \in 1 .. Len(groups) : x \in groups[g].left
      <4>1. h # 1
        BY <1>5, <3>2
      <4>2. h - 1 \in 1 .. Len(groups) /\ (h - 1) + 1 = h
        BY <1>1, <2>2, <4>1
      <4> QED
        BY <2>2, <3>2, <4>2
    <3> QED
      BY <3>1, <3>2
  <2> QED
    BY <2>2, <2>3
<1>6. CASE old[1].left # {i}
  <2>1. groups = [old EXCEPT ![1].left = old[1].left \ {i}]
    BY <1>4, <1>6 DEF Through
  <2>2. /\ Len(groups) = Len(old)
        /\ groups[1].ops = old[1].ops /\ groups[1].left = old[1].left \ {i}
        /\ \A g \in 1 .. Len(old) : g # 1 => groups[g] = old[g]
    BY <1>1, <1>4, <2>1 DEF Groups
  <2>3. \A x : (\E g \in 1 .. Len(groups) : x \in groups[g].left) <=>
              x # i /\ \E g \in 1 .. Len(old) : x \in old[g].left
    BY <1>3, <2>2
  <2>4. \A g \in 1 .. Len(groups) :
          /\ g + 0 \in 1 .. Len(old)
          /\ groups[g].ops = old[g + 0].ops
          /\ groups[g].left \subseteq old[g + 0].left
    BY <2>2
  <2> QED
    BY <1>1, <2>2, <2>3, <2>4
<1> QED
  BY <1>5, <1>6

-------------------------------------------------------------------------------
(* What a step does to orders, buffers, groups and activations.               *)

Waits == UNCHANGED <<conf, it, buf, acts, batch, posted, payload, operand, saved>>

Passes(s) ==
  /\ it[s] \in DOMAIN Order(s) /\ it[s] \notin Live(conf, s)
  /\ Advance(s)
  /\ UNCHANGED <<conf, buf, acts, batch, posted, payload, operand, saved>>

Computes(s) ==
  LET i   == it[s]
      n   == Node(s, i)
      src == Source(s, n)
  IN  /\ i \in Live(conf, s) /\ n.type \in {"F", "B", "BW"}
      /\ ~ Missing(s, src) /\ Arrived(s, src)
      /\ Advance(s)
      /\ buf' = [buf EXCEPT ![s] = Pushed(Popped(buf[s], src), Sink(s, n), i)]
      /\ operand' = [operand EXCEPT ![s][i] = TensorIn(s, src)]
      /\ n.type = "F" =>
           /\ acts' = IF conf.forwardOnly THEN acts
                      ELSE [acts EXCEPT ![s][n.chunk] = SpPush(acts[s][n.chunk], Key(n))]
           /\ saved' = saved
      /\ n.type # "F" =>
           /\ acts[s][n.chunk].ready # <<>>
           /\ acts' = [acts EXCEPT ![s][n.chunk] = SpPop(acts[s][n.chunk])]
           /\ saved' = [saved EXCEPT ![s][i] = SpTop(acts[s][n.chunk])]
      /\ UNCHANGED <<conf, batch, posted, payload>>

Adds(s) ==
  LET i   == it[s]
      n   == Node(s, i)
      b   == BufferMap(n)
      ops == batch[s] \cup {i}
  IN  /\ LiveComm(s, i)
      /\ n.type \in SendTypes => ~ Missing(s, b)
      /\ Advance(s)
      /\ IF n.type \in SendTypes
         THEN /\ buf' = [buf EXCEPT ![s] = Popped(buf[s], b)]
              /\ payload' = [payload EXCEPT ![s][i] = TensorIn(s, b)]
         ELSE /\ buf' = [buf EXCEPT ![s] = Pushed(buf[s], b, i)]
              /\ payload' = payload
      /\ IF FlushesIn(conf, s, i)
         THEN /\ batch' = [batch EXCEPT ![s] = {}]
              /\ posted' = [posted EXCEPT ![s] = Append(posted[s], [ops |-> ops, left |-> ops])]
         ELSE batch' = [batch EXCEPT ![s] = ops] /\ posted' = posted
      /\ UNCHANGED <<conf, acts, operand, saved>>

Transfers(s, t, i, j) ==
  /\ s # t /\ NextOf(s, t, SendTypes, i) /\ NextOf(t, s, RecvTypes, j)
  /\ payload' = [payload EXCEPT ![t][j] = payload[s][i]]
  /\ posted' = [posted EXCEPT ![s] = Through(posted[s], i), ![t] = Through(posted[t], j)]
  /\ UNCHANGED <<conf, it, buf, acts, batch, operand, saved>>

LEMMA SkipPasses ==
  ASSUME Inv, NEW s \in Stage, it[s] \in DOMAIN Order(s), it[s] \notin Live(conf, s), Skip(s)
  PROVE  Passes(s)
BY DEF Skip, Passes, weights, network

LEMMA SkippedNotLive ==
  ASSUME NEW s \in Stage, NEW i, Skipped(Node(s, i))
  PROVE  i \notin Live(conf, s)
BY DEF Live, Skipped, Node

LEMMA IsLive ==
  ASSUME NEW s \in Stage, NEW i \in DOMAIN Order(s), ~ Skipped(Node(s, i)),
         Node(s, i).type \in {"F", "B", "BW"} \cup CommTypes
  PROVE  i \in Live(conf, s)
BY DEF Live, Skipped, Node, Order

LEMMA ForwardFComputes ==
  ASSUME Inv, NEW s \in Stage, ForwardF(s)
  PROVE  Waits \/ Computes(s)
<1> DEFINE i == it[s]
           n == Node(s, i)
<1>1. i \in DOMAIN Order(s) /\ n.type = "F"
  BY DEF ForwardF, AtNode
<1>2. CASE Missing(s, Source(s, n)) \/ ~ LocalOK(s, n)
  <2>1. Raise(s)
    BY <1>2 DEF ForwardF
  <2> QED
    BY <2>1 DEF Raise, Waits, network
<1>3. CASE ~ (Missing(s, Source(s, n)) \/ ~ LocalOK(s, n))
  <2>1. ~ Skipped(n)
    BY <1>1 DEF Skipped, SkippedIn, BackwardComm
  <2>2. i \in Live(conf, s)
    BY <1>1, <2>1, IsLive
  <2> QED
    BY <1>1, <1>3, <2>2 DEF ForwardF, Computes, network
<1> QED
  BY <1>2, <1>3

LEMMA BackwardBComputes ==
  ASSUME Inv, NEW s \in Stage, BackwardB(s)
  PROVE  Waits \/ Passes(s) \/ Computes(s)
<1> DEFINE i   == it[s]
           n   == Node(s, i)
           bad == \/ acts[s][n.chunk].ready = <<>> \/ Missing(s, Source(s, n))
                  \/ ~ LocalOK(s, n)
<1>1. i \in DOMAIN Order(s) /\ n.type \in {"B", "BW"}
  BY DEF BackwardB, AtNode
<1>2. CASE Skipped(n)
  <2>1. Skip(s)
    BY <1>2 DEF BackwardB
  <2> QED
    BY <1>1, <1>2, <2>1, SkippedNotLive, SkipPasses
<1>3. CASE ~ Skipped(n) /\ bad
  <2>1. Raise(s)
    BY <1>3 DEF BackwardB
  <2> QED
    BY <2>1 DEF Raise, Waits, network
<1>4. CASE ~ Skipped(n) /\ ~ bad
  <2>1. i \in Live(conf, s)
    BY <1>1, <1>4, IsLive
  <2> QED
    BY <1>1, <1>4, <2>1 DEF BackwardB, Computes, network
<1> QED
  BY <1>2, <1>3, <1>4

LEMMA WeightWPasses ==
  ASSUME Inv, NEW s \in Stage, WeightW(s)
  PROVE  Waits \/ Passes(s)
<1> DEFINE q == wgrads[s][<<Node(s, it[s]).chunk, Node(s, it[s]).seq>>]
<1>1. it[s] \in DOMAIN Order(s) /\ Node(s, it[s]).type = "W"
  BY DEF WeightW, AtNode
<1>2. it[s] \notin Live(conf, s)
  BY <1>1 DEF Live, Node, CommTypes, SendTypes, RecvTypes
<1>3. CASE Skip(s)
  BY <1>1, <1>2, <1>3, SkipPasses
<1>4. CASE Raise(s)
  BY <1>4 DEF Raise, Waits, network
<1>5. ASSUME NEW k \in 0 .. Len(q), TakesW(s, k, q) PROVE Passes(s)
  BY <1>1, <1>2, <1>5 DEF TakesW, Passes
<1> QED
  BY <1>3, <1>4, <1>5, WeightWCases

LEMMA AddCommunicationAdds ==
  ASSUME Inv, NEW s \in Stage, AddCommunication(s)
  PROVE  Waits \/ Passes(s) \/ Adds(s)
<1> DEFINE i == it[s]
           n == Node(s, i)
           b == BufferMap(n)
<1>1. i \in DOMAIN Order(s) /\ n.type \in CommTypes
  BY DEF AddCommunication, AtNode
<1>2. IsSend(n) <=> n.type \in SendTypes
  BY <1>1 DEF IsSend, CommTypes, SendTypes, RecvTypes
<1>3. CASE Skipped(n)
  <2>1. Skip(s)
    BY <1>3 DEF AddCommunication
  <2> QED
    BY <1>1, <1>3, <2>1, SkippedNotLive, SkipPasses
<1>4. CASE ~ Skipped(n) /\ IsSend(n) /\ Missing(s, b)
  <2>1. Raise(s)
    BY <1>4 DEF AddCommunication
  <2> QED
    BY <2>1 DEF Raise, Waits, network
<1>5. CASE ~ Skipped(n) /\ ~ (IsSend(n) /\ Missing(s, b))
  <2>1. LiveComm(s, i)
    BY <1>1, <1>5, IsLive DEF LiveComm
  <2> QED
    BY <1>1, <1>2, <1>5, <2>1 DEF AddCommunication, Adds, Flushes
<1> QED
  BY <1>3, <1>4, <1>5

LEMMA StepCases ==
  ASSUME Inv, [Next]_vars
  PROVE  \/ Waits
         \/ \E s \in Stage : Passes(s) \/ Computes(s) \/ Adds(s)
         \/ \E s, t \in Stage : \E i \in DOMAIN Order(s), j \in DOMAIN Order(t) :
              Transfers(s, t, i, j)
<1>1. CASE UNCHANGED vars
  BY <1>1 DEF vars, weights, network, Waits
<1>2. CASE Terminating
  BY <1>1, <1>2 DEF Terminating
<1>3. ASSUME NEW s \in Stage, Finish(s) PROVE Waits
  BY <1>3 DEF Finish, Waits, network
<1>4. ASSUME NEW s \in Stage, IgnorePostValidation(s) PROVE Passes(s)
  <2>1. it[s] \in DOMAIN Order(s) /\ Node(s, it[s]).type \in PostValidationTypes /\ Skip(s)
    BY <1>4 DEF IgnorePostValidation, AtNode
  <2>2. it[s] \notin Live(conf, s)
    BY <2>1 DEF Live, Node, CommTypes, SendTypes, RecvTypes, PostValidationTypes
  <2> QED
    BY <2>1, <2>2, SkipPasses
<1>5. ASSUME NEW s \in Stage, NEW t \in Stage, Transfer(s, t)
      PROVE  \E i \in DOMAIN Order(s), j \in DOMAIN Order(t) : Transfers(s, t, i, j)
  BY <1>5 DEF Transfer, Transfers
<1> QED
  BY <1>1, <1>2, <1>3, <1>4, <1>5, ForwardFComputes, BackwardBComputes, WeightWPasses,
     AddCommunicationAdds DEF Next

-------------------------------------------------------------------------------
(* The groups stay the communications between two flushes.                    *)

LEMMA StageFacts ==
  ASSUME Inv, NEW s \in Stage
  PROVE  /\ conf \in Conf /\ it[s] \in Nat /\ it[s] >= 1
         /\ DOMAIN Order(s) = 1 .. Len(Order(s)) /\ Len(Order(s)) \in Nat
         /\ Live(conf, s) \subseteq DOMAIN Order(s)
         /\ buf[s] \in [Buffers -> Seq(Nat)]
BY PositionsAreNumbers DEF Inv, TypeOK

(* A stage collects communications only while the next node is one.           *)
LEMMA BatchBeforeComm ==
  ASSUME Inv, NEW s \in Stage, GroupsOK(s), batch[s] # {}
  PROVE  LiveComm(s, it[s])
<1>1. PICK i \in batch[s] : i < it[s] /\ Unflushed(s, i, it[s]) /\ LiveComm(s, i)
  BY DEF GroupsOK
<1>2. i \in DOMAIN Order(s) /\ i \in 1 .. Len(Order(s))
  BY <1>1, StageFacts DEF LiveComm
<1> DEFINE x == it[s] - 1
<1>3. x \in Nat /\ i <= x /\ x < it[s] /\ x + 1 = it[s]
  BY <1>1, <1>2, StageFacts
<1>4. \A y \in i .. x : y \in DOMAIN Order(s) => ~ FlushesIn(conf, s, y)
  BY <1>1, <1>3, StageFacts DEF Unflushed
<1>5. ~ FlushesIn(conf, s, i) /\ ~ conf.forwardOnly
  BY <1>2, <1>3, <1>4, StageFacts DEF FlushesIn
<1> HIDE DEF x
<1>6. x \in DOMAIN Order(s)
  <2>1. x <= Len(Order(s))
    <3> SUFFICES ASSUME Len(Order(s)) < x PROVE FALSE
      BY <1>3, StageFacts
    <3> DEFINE l == Len(Order(s))
    <3>1. l \in i .. x /\ l \in DOMAIN Order(s)
      BY <1>2, <1>3, StageFacts
    <3>2. ~ l < Len(conf.order[s])
      BY StageFacts DEF Order
    <3>3. FlushesIn(conf, s, l)
      BY <3>2 DEF FlushesIn
    <3> QED
      BY <1>4, <3>1, <3>3
  <2> QED
    BY <1>2, <1>3, <2>1, StageFacts
<1>7. ~ FlushesIn(conf, s, x)
  BY <1>2, <1>3, <1>4, <1>6
<1>8. x < Len(Order(s)) /\ Node(s, it[s]).type \in CommTypes
  BY <1>3, <1>7 DEF FlushesIn, Order, Node
<1>9. it[s] \in DOMAIN Order(s)
  BY <1>3, <1>8, StageFacts
<1> QED
  BY <1>5, <1>8, <1>9, IsLive DEF LiveComm, Skipped, SkippedIn

LEMMA AdvancedStage ==
  ASSUME Inv, NEW s \in Stage, Advance(s)
  PROVE  it'[s] = it[s] + 1 /\ \A u \in Stage : u # s => it'[u] = it[u]
BY DEF Advance, Inv, TypeOK

(* The groups of a stage that does nothing.                                   *)
LEMMA SameGroups ==
  ASSUME NEW s \in Stage, GroupsOK(s), conf' = conf, it'[s] = it[s],
         batch'[s] = batch[s], posted'[s] = posted[s]
  PROVE  GroupsOK(s)' /\ \A x : Passed(s, x)' <=> Passed(s, x)
BY DEF GroupsOK, Passed, InFlight, LiveComm, Unflushed, Apart, Node, Order

(* A computation, or a node that is passed over, leaves the groups alone.     *)
LEMMA ComputationGroups ==
  ASSUME Inv, NEW s \in Stage, GroupsOK(s), ~ LiveComm(s, it[s]), Advance(s),
         conf' = conf, batch' = batch, posted' = posted
  PROVE  /\ GroupsOK(s)'
         /\ \A x : LiveComm(s, x) => (Passed(s, x)' <=> Passed(s, x))
         /\ batch[s] = {}
<1>1. batch[s] = {}
  BY BatchBeforeComm
<1>2. it'[s] = it[s] + 1 /\ it[s] \in Nat
  BY AdvancedStage, StageFacts
<1>3. \A x : LiveComm(s, x) => x \in Nat /\ x # it[s] /\ (x < it[s] + 1 <=> x < it[s])
  BY <1>2, StageFacts DEF LiveComm
<1>4. \A i : Unflushed(s, i, it[s] + 1) => Unflushed(s, i, it[s])
  <2>1. \A x \in DOMAIN Order(s) : x < it[s] => x < it[s] + 1
    BY <1>2, StageFacts
  <2> QED
    BY <2>1 DEF Unflushed
<1>5. /\ \A i : LiveComm(s, i)' <=> LiveComm(s, i)
      /\ \A i : Unflushed(s, i, it[s])' => Unflushed(s, i, it[s])
      /\ \A i, j : Apart(s, i, j)' <=> Apart(s, i, j)
  BY <1>2, <1>4 DEF LiveComm, Unflushed, Apart, Node, Order
<1>6. GroupsOK(s)'
  <2>1. ASSUME NEW g \in 1 .. Len(posted[s])
        PROVE  /\ posted[s][g].left \subseteq posted[s][g].ops
               /\ \A i \in posted[s][g].ops :
                    /\ LiveComm(s, i)' /\ i < it'[s] /\ ~ Unflushed(s, i, it[s])'
                    /\ \A j \in posted[s][g].ops : SameGroup(conf, s, i, j)
                    /\ \A h \in 1 .. Len(posted[s]) : g < h => \A j \in posted[s][h].ops : Apart(s, i, j)'
    <3>1. posted[s][g].left \subseteq posted[s][g].ops
      BY DEF GroupsOK
    <3>2. ASSUME NEW i \in posted[s][g].ops
          PROVE  /\ LiveComm(s, i) /\ i < it'[s] /\ ~ Unflushed(s, i, it[s])
                 /\ \A j \in posted[s][g].ops : SameGroup(conf, s, i, j)
                 /\ \A h \in 1 .. Len(posted[s]) : g < h => \A j \in posted[s][h].ops : Apart(s, i, j)
      <4>1. LiveComm(s, i) /\ i < it[s]
        BY DEF GroupsOK
      <4>2. i < it'[s]
        BY <1>2, <1>3, <4>1
      <4> QED
        BY <4>1, <4>2 DEF GroupsOK
    <3> QED
      BY <1>5, <3>1, <3>2
  <2> QED
    BY <1>1, <2>1 DEF GroupsOK
<1>7. \A x : InFlight(s, x)' <=> InFlight(s, x)
  BY DEF InFlight
<1> QED
  BY <1>1, <1>2, <1>3, <1>6, <1>7 DEF Passed

(* A communication joins the batch, or is posted with it.                     *)
LEMMA NewCommunication ==
  ASSUME Inv, NEW s \in Stage, GroupsOK(s), LiveComm(s, it[s])
  PROVE  /\ \A j \in batch[s] \cup {it[s]} :
              LiveComm(s, j) /\ j < it[s] + 1 /\ j <= it[s] /\ Unflushed(s, j, it[s])
         /\ \A j, k \in batch[s] \cup {it[s]} : SameGroup(conf, s, j, k)
         /\ \A g \in 1 .. Len(posted[s]) : \A j \in posted[s][g].ops :
              /\ j < it[s] + 1 /\ ~ Unflushed(s, j, it[s] + 1)
              /\ \A k \in batch[s] \cup {it[s]} : Apart(s, j, k)
<1>1. it[s] \in Nat /\ Live(conf, s) \subseteq Nat /\ DOMAIN Order(s) \subseteq Nat
  BY StageFacts
<1>2. ASSUME NEW j \in batch[s] \cup {it[s]}
      PROVE  LiveComm(s, j) /\ j < it[s] + 1 /\ j <= it[s] /\ Unflushed(s, j, it[s]) /\ j \in Nat
  <2>1. CASE j = it[s]
    <3>1. \A x \in DOMAIN Order(s) : ~ (it[s] <= x /\ x < it[s])
      BY <1>1
    <3>2. Unflushed(s, j, it[s])
      BY <2>1, <3>1 DEF Unflushed
    <3> QED
      BY <1>1, <2>1, <3>2
  <2>2. CASE j # it[s]
    <3>1. LiveComm(s, j) /\ j < it[s] /\ Unflushed(s, j, it[s])
      BY <2>2 DEF GroupsOK
    <3>2. j \in Nat
      BY <1>1, <3>1 DEF LiveComm
    <3> QED
      BY <1>1, <3>1, <3>2
  <2> QED
    BY <2>1, <2>2
<1>3. ASSUME NEW j \in batch[s] \cup {it[s]}, NEW k \in batch[s] \cup {it[s]}
      PROVE  SameGroup(conf, s, j, k)
  <2>1. \A x \in DOMAIN Order(s) :
          (j <= x /\ x < k) \/ (k <= x /\ x < j) =>
            (j <= x /\ x < it[s]) \/ (k <= x /\ x < it[s])
    BY <1>1, <1>2
  <2>2. Unflushed(s, j, it[s]) /\ Unflushed(s, k, it[s])
    BY <1>2
  <2> QED
    BY <2>1, <2>2 DEF Unflushed, SameGroup, Order
<1>4. ASSUME NEW g \in 1 .. Len(posted[s]), NEW j \in posted[s][g].ops
      PROVE  /\ j < it[s] + 1 /\ ~ Unflushed(s, j, it[s] + 1)
             /\ \A k \in batch[s] \cup {it[s]} : Apart(s, j, k)
  <2>1. LiveComm(s, j) /\ j < it[s] /\ ~ Unflushed(s, j, it[s])
    BY DEF GroupsOK
  <2>2. j \in Nat
    BY <1>1, <2>1 DEF LiveComm
  <2>3. PICK x \in DOMAIN Order(s) : j <= x /\ x < it[s] /\ FlushesIn(conf, s, x)
    BY <2>1 DEF Unflushed
  <2>4. x < it[s] + 1
    BY <1>1, <2>3
  <2>5. Apart(s, j, it[s])
    BY <2>1, <2>3 DEF Apart, SameGroup, Order
  <2>6. \A k \in batch[s] : Apart(s, j, k)
    BY DEF GroupsOK
  <2> QED
    BY <1>1, <2>1, <2>2, <2>3, <2>4, <2>5, <2>6 DEF Unflushed
<1> QED
  BY <1>2, <1>3, <1>4

LEMMA CommunicationGroups ==
  ASSUME Inv, NEW s \in Stage, GroupsOK(s), Adds(s)
  PROVE  GroupsOK(s)' /\ \A x : LiveComm(s, x) => (Passed(s, x)' <=> Passed(s, x))
<1> DEFINE ops   == batch[s] \cup {it[s]}
           group == [ops |-> ops, left |-> ops]
<1>1. LiveComm(s, it[s]) /\ conf' = conf /\ it'[s] = it[s] + 1 /\ it[s] \in Nat
  BY AdvancedStage, StageFacts DEF Adds
<1>2. /\ \A i : LiveComm(s, i)' <=> LiveComm(s, i)
      /\ \A i : Unflushed(s, i, it[s])' <=> Unflushed(s, i, it[s] + 1)
      /\ \A i, j : Apart(s, i, j)' <=> Apart(s, i, j)
  BY <1>1 DEF LiveComm, Unflushed, Apart, Node, Order
<1>3. /\ \A j \in ops : LiveComm(s, j) /\ j < it'[s] /\ j <= it[s] /\ Unflushed(s, j, it[s])
      /\ \A j, k \in ops : SameGroup(conf, s, j, k)
      /\ \A g \in 1 .. Len(posted[s]) : \A j \in posted[s][g].ops :
           /\ j < it'[s] /\ ~ Unflushed(s, j, it[s] + 1)
           /\ \A k \in ops : Apart(s, j, k)
  BY <1>1, NewCommunication
<1>4. /\ Len(posted[s]) \in Nat
      /\ \A g \in 1 .. Len(posted[s]) : posted[s][g].left \subseteq posted[s][g].ops
  BY GroupTypes DEF GroupsOK
<1>5. \A g \in 1 .. Len(posted[s]) : \A i \in posted[s][g].ops :
        /\ LiveComm(s, i)
        /\ \A j \in posted[s][g].ops : SameGroup(conf, s, i, j)
        /\ \A h \in 1 .. Len(posted[s]) : g < h => \A j \in posted[s][h].ops : Apart(s, i, j)
  BY DEF GroupsOK
<1> HIDE DEF ops
<1>6. \A x : LiveComm(s, x) => x \in Nat /\ (x < it'[s] <=> x < it[s] \/ x = it[s])
  BY <1>1, StageFacts DEF LiveComm
<1>7. \A x : InFlight(s, x) <=>
        x \in batch[s] \/ \E g \in 1 .. Len(posted[s]) : x \in posted[s][g].left
  BY DEF InFlight
<1>8. CASE FlushesIn(conf, s, it[s])
  <2>1. batch'[s] = {} /\ posted'[s] = Append(posted[s], group)
    BY <1>8 DEF Adds, ops, Inv, TypeOK
  <2> DEFINE new == posted'[s]
             l   == Len(posted[s]) + 1
  <2>2. /\ Len(new) = l /\ new[l] = group
        /\ \A g \in 1 .. Len(posted[s]) : new[g] = posted[s][g]
        /\ \A g \in 1 .. l : g # l => g \in 1 .. Len(posted[s])
        /\ \A g, h \in 1 .. l : g < h => g \in 1 .. Len(posted[s])
        /\ l \in 1 .. l /\ \A g \in 1 .. Len(posted[s]) : g \in 1 .. l
    BY <1>4, <2>1, GroupTypes
  <2>3. group.ops = ops /\ group.left = ops
    OBVIOUS
  <2>4. \A j \in ops : ~ Unflushed(s, j, it[s] + 1)
    <3>1. it[s] \in DOMAIN Order(s) /\ it[s] < it[s] + 1
      BY <1>1, StageFacts DEF LiveComm
    <3> QED
      BY <1>3, <1>8, <3>1 DEF Unflushed
  <2> HIDE DEF group, new, l
  <2>5. ASSUME NEW g \in 1 .. l
        PROVE  /\ new[g].left \subseteq new[g].ops
               /\ \A i \in new[g].ops :
                    /\ LiveComm(s, i) /\ i < it'[s] /\ ~ Unflushed(s, i, it[s] + 1)
                    /\ \A j \in new[g].ops : SameGroup(conf, s, i, j)
                    /\ \A h \in 1 .. l : g < h => \A j \in new[h].ops : Apart(s, i, j)
    <3>1. CASE g = l
      <4>1. new[g].ops = ops /\ new[g].left = ops
        BY <2>2, <2>3, <3>1
      <4>2. \A h \in 1 .. l : ~ g < h
        BY <1>4, <3>1 DEF l
      <4> QED
        BY <1>3, <2>4, <4>1, <4>2
    <3>2. CASE g # l
      <4>1. g \in 1 .. Len(posted[s]) /\ new[g] = posted[s][g]
        BY <2>2, <3>2
      <4>2. ASSUME NEW i \in new[g].ops, NEW h \in 1 .. l, g < h, NEW j \in new[h].ops
            PROVE  Apart(s, i, j)
        <5>1. CASE h = l
          BY <1>3, <2>2, <2>3, <4>1, <4>2, <5>1
        <5>2. CASE h # l
          BY <1>5, <2>2, <4>1, <4>2, <5>2
        <5> QED
          BY <5>1, <5>2
      <4> QED
        BY <1>3, <1>4, <1>5, <4>1, <4>2
    <3> QED
      BY <3>1, <3>2
  <2>6. GroupsOK(s)'
    BY <1>1, <1>2, <2>1, <2>2, <2>5 DEF GroupsOK, new
  <2>7. \A x : InFlight(s, x)' <=> InFlight(s, x) \/ x = it[s]
    <3>1. \A x : (\E g \in 1 .. l : x \in new[g].left) <=>
                 x \in ops \/ \E g \in 1 .. Len(posted[s]) : x \in posted[s][g].left
      BY <2>2, <2>3
    <3> QED
      BY <1>7, <2>1, <2>2, <3>1 DEF InFlight, new, ops
  <2> QED
    BY <1>6, <2>6, <2>7, <1>1 DEF Passed
<1>9. CASE ~ FlushesIn(conf, s, it[s])
  <2>1. batch'[s] = ops /\ posted'[s] = posted[s]
    BY <1>9 DEF Adds, ops, Inv, TypeOK
  <2>2. \A j \in ops : Unflushed(s, j, it[s] + 1)
    <3>1. \A x \in DOMAIN Order(s) : x < it[s] + 1 => x < it[s] \/ x = it[s]
      BY <1>1, StageFacts
    <3> QED
      BY <1>3, <1>9, <3>1 DEF Unflushed
  <2>3. GroupsOK(s)'
    BY <1>1, <1>2, <1>3, <1>4, <1>5, <2>1, <2>2 DEF GroupsOK
  <2>4. \A x : InFlight(s, x)' <=> InFlight(s, x) \/ x = it[s]
    BY <1>7, <2>1 DEF InFlight, ops
  <2> QED
    BY <1>6, <2>3, <2>4, <1>1 DEF Passed
<1> QED
  BY <1>8, <1>9

(* The network takes operation i of a stage.                                  *)
LEMMA TransferGroups ==
  ASSUME Inv, NEW s \in Stage, GroupsOK(s), NEW t, NEW types, NEW i, NextOf(s, t, types, i),
         conf' = conf, it' = it, batch' = batch, posted'[s] = Through(posted[s], i)
  PROVE  GroupsOK(s)' /\ \A x : Passed(s, x)' <=> Passed(s, x) \/ x = i
<1> DEFINE new == posted'[s]
<1>1. 1 \in 1 .. Len(posted[s]) /\ i \in posted[s][1].left
  BY GroupTypes DEF NextOf
<1>2. i < it[s] /\ Len(posted[s]) \in Nat
  BY <1>1, GroupTypes DEF GroupsOK
<1>3. PICK d \in {0, 1} :
        /\ Len(new) = Len(posted[s]) - d
        /\ \A g \in 1 .. Len(new) :
             /\ g + d \in 1 .. Len(posted[s])
             /\ new[g].ops = posted[s][g + d].ops
             /\ new[g].left \subseteq posted[s][g + d].left
  BY <1>1, ThroughGroups
<1>4. \A x : (\E g \in 1 .. Len(new) : x \in new[g].left) <=>
               x # i /\ \E g \in 1 .. Len(posted[s]) : x \in posted[s][g].left
  BY <1>1, ThroughGroups
<1>5. /\ \A x : LiveComm(s, x)' <=> LiveComm(s, x)
      /\ \A x : Unflushed(s, x, it[s])' <=> Unflushed(s, x, it[s])
      /\ \A x, y : Apart(s, x, y)' <=> Apart(s, x, y)
      /\ it'[s] = it[s] /\ batch'[s] = batch[s]
  BY DEF LiveComm, Unflushed, Apart, Node, Order
<1> HIDE DEF new
<1>6. ASSUME NEW g \in 1 .. Len(new)
      PROVE  /\ new[g].left \subseteq new[g].ops
             /\ \A x \in new[g].ops :
                  /\ LiveComm(s, x) /\ x < it[s] /\ ~ Unflushed(s, x, it[s])
                  /\ \A y \in new[g].ops : SameGroup(conf, s, x, y)
                  /\ \A h \in 1 .. Len(new) : g < h => \A y \in new[h].ops : Apart(s, x, y)
                  /\ \A y \in batch[s] : Apart(s, x, y)
  <2>1. g + d \in 1 .. Len(posted[s])
    BY <1>3
  <2>2. \A h \in 1 .. Len(new) : g < h => g + d < h + d
    BY <1>2, <1>3
  <2>3. new[g].left \subseteq posted[s][g + d].left /\ new[g].ops = posted[s][g + d].ops
    BY <1>3
  <2>4. new[g].left \subseteq new[g].ops
    BY <2>1, <2>3 DEF GroupsOK
  <2>5. ASSUME NEW x \in new[g].ops
        PROVE  /\ LiveComm(s, x) /\ x < it[s] /\ ~ Unflushed(s, x, it[s])
               /\ \A y \in new[g].ops : SameGroup(conf, s, x, y)
               /\ \A y \in batch[s] : Apart(s, x, y)
    BY <2>1, <2>3 DEF GroupsOK
  <2>6. ASSUME NEW x \in new[g].ops, NEW h \in 1 .. Len(new), g < h, NEW y \in new[h].ops
        PROVE  Apart(s, x, y)
    <3>1. h + d \in 1 .. Len(posted[s]) /\ y \in posted[s][h + d].ops
      BY <1>3
    <3> QED
      BY <2>1, <2>2, <2>3, <2>6, <3>1 DEF GroupsOK
  <2> QED
    BY <2>4, <2>5, <2>6
<1>7. GroupsOK(s)'
  <2>1. \A x \in batch[s] : LiveComm(s, x) /\ x < it[s] /\ Unflushed(s, x, it[s])
    BY DEF GroupsOK
  <2> QED
    BY <1>5, <1>6, <2>1 DEF GroupsOK, new
<1>8. i \notin batch[s]
  <2> SUFFICES ASSUME i \in batch[s] PROVE FALSE
    OBVIOUS
  <2>1. i < i /\ LiveComm(s, i)
    BY <1>1 DEF GroupsOK, Apart
  <2> QED
    BY <2>1, StageFacts DEF LiveComm
<1>9. \A x : InFlight(s, x)' <=> x # i /\ InFlight(s, x)
  BY <1>4, <1>5, <1>8 DEF InFlight, new
<1> QED
  BY <1>2, <1>5, <1>7, <1>9 DEF Passed

Groups == \A s \in Stage : GroupsOK(s)

(* A stage's own step ends no communication.                                  *)
LEMMA StageStepGroups ==
  ASSUME Inv, Groups, Waits \/ \E u \in Stage : Passes(u) \/ Computes(u) \/ Adds(u)
  PROVE  /\ Groups'
         /\ \A s \in Stage : \A x : LiveComm(s, x) => (Passed(s, x)' <=> Passed(s, x))
<1>1. CASE Waits
  BY <1>1, SameGroups DEF Waits, Groups
<1>2. ASSUME NEW u \in Stage, Passes(u) \/ Computes(u) \/ Adds(u)
      PROVE  /\ Groups'
             /\ \A s \in Stage : \A x : LiveComm(s, x) => (Passed(s, x)' <=> Passed(s, x))
  <2> SUFFICES ASSUME NEW s \in Stage
               PROVE  GroupsOK(s)' /\ \A x : LiveComm(s, x) => (Passed(s, x)' <=> Passed(s, x))
    BY DEF Groups
  <2>1. Advance(u) /\ conf' = conf
    BY <1>2 DEF Passes, Computes, Adds
  <2>2. GroupsOK(s)
    BY DEF Groups
  <2>3. CASE s # u
    <3>1. it'[s] = it[s]
      BY <2>1, <2>3, AdvancedStage
    <3>2. batch'[s] = batch[s] /\ posted'[s] = posted[s]
      BY <1>2, <2>3 DEF Passes, Computes, Adds, Inv, TypeOK
    <3> QED
      BY <2>1, <2>2, <3>1, <3>2, SameGroups
  <2>4. CASE s = u /\ Adds(u)
    BY <2>2, <2>4, CommunicationGroups
  <2>5. CASE s = u /\ (Passes(u) \/ Computes(u))
    <3>1. batch' = batch /\ posted' = posted
      BY <2>5 DEF Passes, Computes
    <3>2. ~ LiveComm(s, it[s])
      BY <2>5 DEF Passes, Computes, LiveComm, CommTypes, SendTypes, RecvTypes
    <3> QED
      BY <2>1, <2>2, <2>5, <3>1, <3>2, ComputationGroups
  <2> QED
    BY <1>2, <2>3, <2>4, <2>5
<1> QED
  BY <1>1, <1>2

LEMMA TransferStepGroups ==
  ASSUME Inv, Groups, NEW s \in Stage, NEW t \in Stage, NEW i, NEW j, Transfers(s, t, i, j)
  PROVE  /\ Groups'
         /\ \A u \in Stage : \A x :
              Passed(u, x)' <=> Passed(u, x) \/ (u = s /\ x = i) \/ (u = t /\ x = j)
<1>1. /\ s # t /\ NextOf(s, t, SendTypes, i) /\ NextOf(t, s, RecvTypes, j)
      /\ posted' = [posted EXCEPT ![s] = Through(posted[s], i), ![t] = Through(posted[t], j)]
      /\ conf' = conf /\ it' = it /\ batch' = batch
  BY DEF Transfers
<1>2. /\ posted'[s] = Through(posted[s], i) /\ posted'[t] = Through(posted[t], j)
      /\ \A u \in Stage : u # s /\ u # t => posted'[u] = posted[u]
  BY <1>1 DEF Inv, TypeOK
<1>3. \A u \in Stage : GroupsOK(u)
  BY DEF Groups
<1>4. GroupsOK(s)' /\ \A x : Passed(s, x)' <=> Passed(s, x) \/ x = i
  BY <1>1, <1>2, <1>3, TransferGroups
<1>5. GroupsOK(t)' /\ \A x : Passed(t, x)' <=> Passed(t, x) \/ x = j
  BY <1>1, <1>2, <1>3, TransferGroups
<1>6. \A u \in Stage : u # s /\ u # t =>
        GroupsOK(u)' /\ \A x : Passed(u, x)' <=> Passed(u, x)
  BY <1>1, <1>2, <1>3, SameGroups
<1> QED
  BY <1>1, <1>4, <1>5, <1>6 DEF Groups

-------------------------------------------------------------------------------
(* The two ends of a link stay in step.                                       *)

(* Of the operations of its link, a transfer matches one pair of ends.        *)
LEMMA OnlyMatch ==
  ASSUME Inv, NEW s \in Stage, NEW t \in Stage, s # t, GroupsOK(s), GroupsOK(t), LinksOK,
         NEW i, NextOf(s, t, SendTypes, i), NEW j, NextOf(t, s, RecvTypes, j),
         NEW a \in Sends(conf, s, t), NEW b \in Recvs(conf, t, s), T(s, a) = G(t, b)
  PROVE  a = i <=> b = j
<1>1. conf \in Conf
  BY DEF Inv, TypeOK
<1>2. i \in Sends(conf, s, t) /\ j \in Recvs(conf, t, s) /\ T(s, i) = G(t, j)
  BY TransferMatches
<1>3. EarlierOp(conf, s, i, a) <=> EarlierOp(conf, t, j, b)
  BY <1>1, <1>2, LinkPairs
<1>4. ~ Passed(s, i) /\ ~ Passed(t, j) /\ i \in Live(conf, s) /\ j \in Live(conf, t)
  BY <1>2, NextIsLive DEF LiveComm
<1>5. ~ EarlierOp(conf, s, i, i) /\ ~ EarlierOp(conf, t, j, j)
  BY <1>1, <1>4, EarlierOpStrict
<1>6. Passed(s, a) <=> Passed(t, b)
  BY DEF LinksOK
<1>7. ASSUME a = i, b # j PROVE FALSE
  <2>1. EarlierOp(conf, t, j, b)
    BY <1>4, <1>6, <1>7, NextIsFirst DEF Recvs, Node
  <2> QED
    BY <1>3, <1>5, <1>7, <2>1
<1>8. ASSUME b = j, a # i PROVE FALSE
  <2>1. EarlierOp(conf, s, i, a)
    BY <1>4, <1>6, <1>8, NextIsFirst DEF Sends, Node
  <2> QED
    BY <1>3, <1>5, <1>8, <2>1
<1> QED
  BY <1>7, <1>8

LEMMA EndsAreComms ==
  ASSUME NEW s \in Stage, NEW t \in Stage
  PROVE  /\ \A i \in Sends(conf, s, t) :
              LiveComm(s, i) /\ Node(s, i).type \in SendTypes /\ Node(s, i).peer = t
         /\ \A i \in Recvs(conf, s, t) :
              LiveComm(s, i) /\ Node(s, i).type \in RecvTypes /\ Node(s, i).peer = t
BY DEF Sends, Recvs, LiveComm, Node, CommTypes

LEMMA LinksStep == Inv /\ Groups /\ LinksOK /\ [Next]_vars => LinksOK'
<1> SUFFICES ASSUME Inv, Groups, LinksOK, [Next]_vars PROVE LinksOK'
  OBVIOUS
<1>1. conf' = conf
  BY StepCases DEF Waits, Passes, Computes, Adds, Transfers
<1>2. \A u \in Stage : \A x : T(u, x)' = T(u, x) /\ G(u, x)' = G(u, x)
  BY <1>1 DEF T, G, Node
<1>3. CASE Waits \/ \E u \in Stage : Passes(u) \/ Computes(u) \/ Adds(u)
  <2>1. \A s \in Stage : \A x : LiveComm(s, x) => (Passed(s, x)' <=> Passed(s, x))
    BY <1>3, StageStepGroups
  <2> QED
    BY <1>1, <1>2, <2>1, EndsAreComms DEF LinksOK
<1>4. ASSUME NEW s \in Stage, NEW t \in Stage, NEW i, NEW j, Transfers(s, t, i, j)
      PROVE  LinksOK'
  <2>1. \A u \in Stage : \A x :
          Passed(u, x)' <=> Passed(u, x) \/ (u = s /\ x = i) \/ (u = t /\ x = j)
    BY <1>4, TransferStepGroups
  <2>2. /\ s # t /\ NextOf(s, t, SendTypes, i) /\ NextOf(t, s, RecvTypes, j)
        /\ GroupsOK(s) /\ GroupsOK(t)
    BY <1>4 DEF Transfers, Groups
  <2>3. /\ Node(s, i).type \in SendTypes /\ Node(s, i).peer = t
        /\ Node(t, j).type \in RecvTypes /\ Node(t, j).peer = s
    BY <2>2, NextIsLive
  <2>4. SendTypes \cap RecvTypes = {}
    BY DEF SendTypes, RecvTypes
  <2>5. ASSUME NEW u \in Stage, NEW v \in Stage, u # v,
               NEW a \in Sends(conf, u, v), NEW b \in Recvs(conf, v, u), T(u, a) = G(v, b)
        PROVE  Passed(u, a)' <=> Passed(v, b)'
    <3>1. /\ Node(u, a).type \in SendTypes /\ Node(u, a).peer = v
          /\ Node(v, b).type \in RecvTypes /\ Node(v, b).peer = u
      BY EndsAreComms
    <3>2. /\ Passed(u, a)' <=> Passed(u, a) \/ (u = s /\ a = i)
          /\ Passed(v, b)' <=> Passed(v, b) \/ (v = t /\ b = j)
      BY <2>1, <2>3, <2>4, <3>1
    <3>3. Passed(u, a) <=> Passed(v, b)
      BY <2>5 DEF LinksOK
    <3>4. u = s /\ v = t => (a = i <=> b = j)
      BY <2>2, <2>5, OnlyMatch
    <3>5. (u = s /\ a = i => v = t) /\ (v = t /\ b = j => u = s)
      BY <2>3, <3>1
    <3> QED
      BY <3>2, <3>3, <3>4, <3>5
  <2> QED
    BY <1>1, <1>2, <2>5 DEF LinksOK
<1> QED
  BY <1>3, <1>4, StepCases

-------------------------------------------------------------------------------
(* What the communications carry and the computations consume.                *)

(* A tensor x of the name k that has been produced.                           *)
Is(x, k) == Name(x) = k /\ x \in Produced

PayloadOK ==
  \A s \in Stage : \A i \in Nat : LiveComm(s, i) =>
    /\ Node(s, i).type \in SendTypes /\ i < it[s] => Is(payload[s][i], T(s, i))
    /\ Node(s, i).type \in RecvTypes /\ Passed(s, i) => Is(payload[s][i], G(s, i))

OperandOK ==
  \A s \in Stage : \A i \in Executed(s, {"F", "B", "BW"}) :
    IF Source(s, Node(s, i)) = NoBuffer THEN operand[s][i] = NoKey
    ELSE Is(operand[s][i], T(s, i))

Matched == Groups /\ BuffersOK /\ LinksOK /\ PayloadOK /\ OperandOK

(* What is produced stays produced.                                           *)
LEMMA ItGrows ==
  ASSUME Inv, [Next]_vars, NEW s \in Stage
  PROVE  conf' = conf /\ it[s] \in Nat /\ it'[s] \in Nat /\ it'[s] >= it[s]
<1>1. conf' = conf
  BY StepCases DEF Waits, Passes, Computes, Adds, Transfers
<1>2. it' = it \/ \E u \in Stage : Advance(u)
  BY StepCases DEF Waits, Passes, Computes, Adds, Transfers
<1>3. it[s] \in Nat
  BY StageFacts
<1>4. CASE it' = it
  BY <1>1, <1>3, <1>4
<1>5. ASSUME NEW u \in Stage, Advance(u) PROVE it'[s] = it[s] \/ it'[s] = it[s] + 1
  BY <1>5, AdvancedStage
<1> QED
  BY <1>1, <1>2, <1>3, <1>4, <1>5

LEMMA ProducedStays ==
  ASSUME Inv, [Next]_vars
  PROVE  Produced \subseteq Produced'
<1> SUFFICES ASSUME NEW k \in Produced PROVE k \in Produced'
  OBVIOUS
<1>1. PICK u \in Stage : \E i \in Executed(u, {"F", "B", "BW"}) : k = Key(Node(u, i))
  BY DEF Produced
<1>2. PICK i \in Executed(u, {"F", "B", "BW"}) : k = Key(Node(u, i))
  BY <1>1
<1>3. conf' = conf /\ it[u] \in Nat /\ it'[u] \in Nat /\ it'[u] >= it[u]
  BY ItGrows
<1>4. i \in Nat
  BY StageFacts DEF Executed
<1>5. i \in Executed(u, {"F", "B", "BW"})' /\ Node(u, i)' = Node(u, i)
  BY <1>3, <1>4 DEF Executed, Node, Order, Skipped
<1> QED
  BY <1>2, <1>5 DEF Produced

(* A live computation before the next node has been executed.                 *)
LEMMA LiveExecuted ==
  ASSUME NEW s \in Stage, NEW i, NEW types,
         types \subseteq {"F", "B", "BW"}
  PROVE  i \in Executed(s, types) <=>
           i \in Live(conf, s) /\ Node(s, i).type \in types /\ i < it[s]
BY DEF Executed, Live, Skipped, Node, Order

LEMMA OwnName ==
  ASSUME NEW n, n.type \in {"F", "B", "BW"}
  PROVE  Name(Key(n)) = TensorGiven(n)
BY DEF Name, Key, MakeKey, TensorGiven, OwnTensor, Forwards, RecvTypes

(* What a node gives to.                                                      *)
LEMMA GiverKinds ==
  ASSUME Inv, NEW s \in Stage, NEW b \in Buffers, NEW p \in Givers(conf, s, b)
  PROVE  /\ p \in Nat /\ p \in Live(conf, s)
         /\ b[1] \in RecvTypes => LiveComm(s, p) /\ Node(s, p).type \in RecvTypes
         /\ b[1] \notin RecvTypes => Node(s, p).type \in {"F", "B", "BW"}
<1>1. p \in Live(conf, s) /\ GivesTo(s, Node(s, p)) = b
  BY DEF Givers, Node
<1>2. p \in DOMAIN Order(s) /\ p \in Nat
  BY <1>1, StageFacts
<1>3. Node(s, p) \in Nodes
  BY <1>2, NodeIsNode, StageFacts
<1>4. b # NoBuffer
  BY DEF NoBuffer, Buffers, CommTypes, SendTypes, RecvTypes
<1>5. CASE Node(s, p).type \in {"F", "B", "BW"}
  <2>1. b = Sink(s, Node(s, p))
    BY <1>1, <1>5 DEF GivesTo
  <2>2. b[1] \notin RecvTypes
    BY <1>3, <2>1, SourceSinkTypes
  <2> QED
    BY <1>1, <1>2, <1>5, <2>2
<1>6. CASE Node(s, p).type \in RecvTypes
  <2>1. Node(s, p).type \notin {"F", "B", "BW"} /\ Node(s, p).type \in CommTypes
    BY <1>6 DEF CommTypes, RecvTypes
  <2>2. b = BufferMap(Node(s, p))
    BY <1>1, <1>6, <2>1 DEF GivesTo
  <2>3. b[1] = Node(s, p).type
    BY <1>3, <2>1, <2>2, BufferMapType
  <2> QED
    BY <1>1, <1>2, <1>6, <2>1, <2>3 DEF LiveComm
<1>7. Node(s, p).type \in {"F", "B", "BW"} \cup RecvTypes
  BY <1>1, <1>4 DEF GivesTo
<1> QED
  BY <1>5, <1>6, <1>7

(* A node finds in its buffer the tensor it takes.                            *)
LEMMA RightTensor ==
  ASSUME Inv, Matched, NEW s \in Stage, NEW src \in Buffers,
         NEW p \in Givers(conf, s, src), p = Head(buf[s][src]), p < it[s],
         src[1] \in RecvTypes => Passed(s, p)
  PROVE  Is(TensorIn(s, src), G(s, p))
<1>1. src # NoBuffer
  BY DEF NoBuffer, Buffers, CommTypes, SendTypes, RecvTypes
<1>2. CASE src[1] \in RecvTypes
  <2>1. LiveComm(s, p) /\ Node(s, p).type \in RecvTypes /\ Passed(s, p) /\ p \in Nat
    BY <1>2, GiverKinds
  <2>2. Is(payload[s][p], G(s, p))
    BY <2>1 DEF Matched, PayloadOK
  <2> QED
    BY <1>1, <1>2, <2>2 DEF TensorIn
<1>3. CASE src[1] \notin RecvTypes
  <2>1. Node(s, p).type \in {"F", "B", "BW"} /\ p \in Live(conf, s)
    BY <1>3, GiverKinds
  <2>2. p \in Executed(s, {"F", "B", "BW"})
    BY <2>1, LiveExecuted
  <2>3. Key(Node(s, p)) \in Produced
    BY <2>2 DEF Produced
  <2>4. Name(Key(Node(s, p))) = G(s, p)
    BY <2>1, OwnName DEF G
  <2> QED
    BY <1>1, <1>3, <2>3, <2>4 DEF TensorIn, Is
<1> QED
  BY <1>2, <1>3

LEMMA UsesTypes ==
  ASSUME Inv, NEW s \in Stage, NEW i \in Live(conf, s)
  PROVE  LET n == Node(s, i)
         IN  /\ n \in Nodes /\ i \in Nat /\ i \in DOMAIN Order(s)
             /\ TakesFrom(s, n) \in Buffers \cup {NoBuffer}
             /\ GivesTo(s, n) \in Buffers \cup {NoBuffer}
             /\ n.type \in {"F", "B", "BW"} =>
                  TakesFrom(s, n) = Source(s, n) /\ GivesTo(s, n) = Sink(s, n)
             /\ n.type \in SendTypes =>
                  /\ TakesFrom(s, n) = BufferMap(n) /\ GivesTo(s, n) = NoBuffer
                  /\ BufferMap(n) \in Buffers /\ BufferMap(n)[1] = n.type
             /\ n.type \in RecvTypes => TakesFrom(s, n) = NoBuffer /\ GivesTo(s, n) = BufferMap(n)
<1> DEFINE n == Node(s, i)
<1>1. n \in Nodes /\ i \in Nat /\ i \in DOMAIN Order(s)
  BY NodeIsNode, StageFacts
<1>2. CASE n.type \in {"F", "B", "BW"}
  <2>1. n.type \notin SendTypes \cup RecvTypes
    BY <1>2 DEF SendTypes, RecvTypes
  <2> QED
    BY <1>1, <1>2, <2>1, SourceSinkTypes DEF TakesFrom, GivesTo
<1>3. CASE n.type \in SendTypes
  <2>1. n.type \notin {"F", "B", "BW"} \cup RecvTypes /\ n.type \in CommTypes
    BY <1>3 DEF SendTypes, RecvTypes, CommTypes
  <2> QED
    BY <1>1, <1>3, <2>1, BufferMapType DEF TakesFrom, GivesTo
<1>4. CASE n.type \in RecvTypes
  <2>1. n.type \notin {"F", "B", "BW"} \cup SendTypes /\ n.type \in CommTypes
    BY <1>4 DEF SendTypes, RecvTypes, CommTypes
  <2> QED
    BY <1>1, <1>4, <2>1, BufferMapType DEF TakesFrom, GivesTo
<1>5. n.type \in {"F", "B", "BW"} \cup SendTypes \cup RecvTypes
  BY DEF Live, Node, CommTypes
<1> QED
  BY <1>1, <1>2, <1>3, <1>4, <1>5

(* A stage's own buffers after the node at it[s].                             *)
LEMMA NodeBuffers ==
  ASSUME Inv, Matched, NEW s \in Stage, NEW i \in Live(conf, s), i = it[s],
         NEW src, src = TakesFrom(s, Node(s, i)), ~ Missing(s, src),
         buf' = [buf EXCEPT ![s] = Pushed(Popped(buf[s], src), GivesTo(s, Node(s, i)), i)],
         Advance(s), conf' = conf
  PROVE  /\ BuffersOK'
         /\ src # NoBuffer => /\ src \in Buffers
                              /\ Head(buf[s][src]) \in Givers(conf, s, src)
                              /\ Head(buf[s][src]) < i
                              /\ G(s, Head(buf[s][src])) = T(s, i)
<1> DEFINE snk == GivesTo(s, Node(s, i))
           h   == Pushed(Popped(buf[s], src), snk, i)
<1>1. /\ src \in Buffers \cup {NoBuffer} /\ snk \in Buffers \cup {NoBuffer}
      /\ src # NoBuffer => buf[s][src] # <<>>
  BY UsesTypes DEF Missing
<1>2. conf \in Conf /\ buf[s] \in [Buffers -> Seq(Nat)]
  BY StageFacts
<1>3. \A b \in Buffers : Holds(s, b, buf[s][b], i, i)
  BY DEF Matched, BuffersOK
<1>4. /\ \A b \in Buffers : Holds(s, b, h[b], i + 1, i + 1)
      /\ src # NoBuffer => /\ Head(buf[s][src]) \in Givers(conf, s, src)
                           /\ Head(buf[s][src]) < i
                           /\ G(s, Head(buf[s][src])) = T(s, i)
  BY <1>1, <1>2, <1>3, TakeAndGive
<1>5. buf'[s] = h /\ \A u \in Stage : u # s => buf'[u] = buf[u]
  BY DEF Inv, TypeOK
<1>6. it'[s] = i + 1 /\ \A u \in Stage : u # s => it'[u] = it[u]
  BY AdvancedStage
<1> HIDE DEF h
<1>7. \A u \in Stage : \A b \in Buffers : Holds(u, b, buf'[u][b], it'[u], it'[u])
  BY <1>4, <1>5, <1>6 DEF Matched, BuffersOK
<1>8. ASSUME NEW u \in Stage, NEW b \in Buffers
      PROVE  Holds(u, b, buf[u][b], it[u], it[u])'
  <2>1. Holds(u, b, buf'[u][b], it'[u], it'[u])
    BY <1>7
  <2> QED
    BY <2>1 DEF Holds, T, G, Node
<1>9. BuffersOK'
  BY <1>8 DEF BuffersOK
<1> QED
  BY <1>1, <1>4, <1>9

LEMMA ComputesAt ==
  ASSUME Inv, Matched, NEW s \in Stage, Computes(s)
  PROVE  /\ BuffersOK'
         /\ LET src == Source(s, Node(s, it[s]))
            IN  src # NoBuffer => Is(TensorIn(s, src), T(s, it[s]))
<1> DEFINE i   == it[s]
           n   == Node(s, i)
           src == Source(s, n)
<1>1. /\ i \in Live(conf, s) /\ n.type \in {"F", "B", "BW"}
      /\ ~ Missing(s, src) /\ Arrived(s, src) /\ Advance(s) /\ conf' = conf
      /\ buf' = [buf EXCEPT ![s] = Pushed(Popped(buf[s], src), Sink(s, n), i)]
      /\ batch' = batch /\ posted' = posted
  BY DEF Computes
<1>2. src = TakesFrom(s, n) /\ Sink(s, n) = GivesTo(s, n)
  BY <1>1, UsesTypes
<1> HIDE DEF src, n
<1>3. /\ BuffersOK'
      /\ src # NoBuffer => /\ src \in Buffers
                           /\ Head(buf[s][src]) \in Givers(conf, s, src)
                           /\ Head(buf[s][src]) < i
                           /\ G(s, Head(buf[s][src])) = T(s, i)
  BY <1>1, <1>2, NodeBuffers DEF n
<1>4. batch[s] = {}
  <2>1. ~ LiveComm(s, i) /\ GroupsOK(s)
    BY <1>1 DEF LiveComm, CommTypes, SendTypes, RecvTypes, n, Matched, Groups
  <2> QED
    BY <1>1, <2>1, ComputationGroups
<1>5. ASSUME src # NoBuffer PROVE Is(TensorIn(s, src), T(s, i))
  <2> DEFINE p == Head(buf[s][src])
  <2>1. src \in Buffers /\ p \in Givers(conf, s, src) /\ p < i /\ G(s, p) = T(s, i)
    BY <1>3, <1>5
  <2>2. ASSUME src[1] \in RecvTypes PROVE Passed(s, p)
    <3>1. \A g \in DOMAIN posted[s] : p \notin posted[s][g].ops
      BY <1>1, <1>5, <2>2 DEF Arrived, Complete
    <3>2. \A g \in 1 .. Len(posted[s]) : p \notin posted[s][g].left
      BY <3>1, GroupTypes DEF Matched, Groups, GroupsOK
    <3> QED
      BY <1>4, <2>1, <3>2 DEF Passed, InFlight
  <2>3. Is(TensorIn(s, src), G(s, p))
    BY <2>1, <2>2, RightTensor
  <2> QED
    BY <2>1, <2>3
<1> QED
  BY <1>3, <1>5 DEF src, n

LEMMA AddsAt ==
  ASSUME Inv, Matched, NEW s \in Stage, Adds(s)
  PROVE  /\ BuffersOK'
         /\ Node(s, it[s]).type \in SendTypes =>
              Is(TensorIn(s, BufferMap(Node(s, it[s]))), T(s, it[s]))
<1> DEFINE i   == it[s]
           n   == Node(s, i)
           src == TakesFrom(s, n)
<1>1. /\ i \in Live(conf, s) /\ n.type \in SendTypes \cup RecvTypes
      /\ n.type \in SendTypes => ~ Missing(s, BufferMap(n))
      /\ Advance(s) /\ conf' = conf
  BY DEF Adds, LiveComm, CommTypes
<1>2. SendTypes \cap RecvTypes = {}
  BY DEF SendTypes, RecvTypes
<1>3. /\ n.type \in SendTypes => /\ src = BufferMap(n) /\ GivesTo(s, n) = NoBuffer
                                 /\ BufferMap(n)[1] \in SendTypes
      /\ n.type \in RecvTypes => src = NoBuffer /\ GivesTo(s, n) = BufferMap(n)
  BY <1>1, UsesTypes
<1>4. ~ Missing(s, src)
  BY <1>1, <1>3 DEF Missing
<1>5. buf' = [buf EXCEPT ![s] = Pushed(Popped(buf[s], src), GivesTo(s, n), i)]
  <2>1. CASE n.type \in SendTypes
    <3>1. buf' = [buf EXCEPT ![s] = Popped(buf[s], BufferMap(n))]
      BY <2>1 DEF Adds
    <3> QED
      BY <1>3, <2>1, <3>1 DEF Pushed
  <2>2. CASE n.type \in RecvTypes
    <3>1. buf' = [buf EXCEPT ![s] = Pushed(buf[s], BufferMap(n), i)]
      BY <1>2, <2>2 DEF Adds
    <3> QED
      BY <1>3, <2>2, <3>1 DEF Popped
  <2> QED
    BY <1>1, <2>1, <2>2
<1> HIDE DEF src, n
<1>6. /\ BuffersOK'
      /\ src # NoBuffer => /\ src \in Buffers
                           /\ Head(buf[s][src]) \in Givers(conf, s, src)
                           /\ Head(buf[s][src]) < i
                           /\ G(s, Head(buf[s][src])) = T(s, i)
  BY <1>1, <1>4, <1>5, NodeBuffers DEF n, src
<1>7. ASSUME n.type \in SendTypes PROVE Is(TensorIn(s, src), T(s, i))
  <2> DEFINE p == Head(buf[s][src])
  <2>1. src # NoBuffer /\ src[1] \notin RecvTypes
    BY <1>2, <1>3, <1>7 DEF NoBuffer, SendTypes
  <2>2. src \in Buffers /\ p \in Givers(conf, s, src) /\ p < i /\ G(s, p) = T(s, i)
    BY <1>6, <2>1
  <2>3. Is(TensorIn(s, src), G(s, p))
    BY <2>1, <2>2, RightTensor
  <2> QED
    BY <2>2, <2>3
<1> QED
  BY <1>3, <1>6, <1>7 DEF n, src

LEMMA BuffersStep == Inv /\ Matched /\ [Next]_vars => BuffersOK'
<1> SUFFICES ASSUME Inv, Matched, [Next]_vars PROVE BuffersOK'
  OBVIOUS
<1>1. ASSUME NEW s \in Stage, NEW b \in Buffers, conf' = conf,
             Holds(s, b, buf'[s][b], it'[s], it'[s])
      PROVE  Holds(s, b, buf[s][b], it[s], it[s])'
  BY <1>1 DEF Holds, T, G, Node
<1>2. BuffersOK
  BY DEF Matched
<1>3. CASE UNCHANGED <<conf, it, buf>>
  <2>1. \A s \in Stage, b \in Buffers : Holds(s, b, buf'[s][b], it'[s], it'[s])
    BY <1>2, <1>3 DEF BuffersOK
  <2> QED
    BY <1>1, <1>3, <2>1 DEF BuffersOK
<1>4. ASSUME NEW u \in Stage, Passes(u) PROVE BuffersOK'
  <2>1. /\ it[u] \notin Live(conf, u) /\ Advance(u) /\ conf' = conf /\ buf' = buf
        /\ it[u] \in Nat /\ conf \in Conf
    BY <1>4, StageFacts DEF Passes
  <2>2. it'[u] = it[u] + 1 /\ \A s \in Stage : s # u => it'[s] = it[s]
    BY <2>1, AdvancedStage
  <2>3. ASSUME NEW s \in Stage, NEW b \in Buffers
        PROVE  Holds(s, b, buf'[s][b], it'[s], it'[s])
    <3>1. Holds(s, b, buf[s][b], it[s], it[s])
      BY <1>2 DEF BuffersOK
    <3>2. CASE s = u
      BY <2>1, <2>2, <3>1, <3>2, NotUsed
    <3>3. CASE s # u
      BY <2>1, <2>2, <3>1, <3>3
    <3> QED
      BY <3>2, <3>3
  <2> QED
    BY <1>1, <2>1, <2>3 DEF BuffersOK
<1> QED
  BY <1>3, <1>4, ComputesAt, AddsAt, StepCases DEF Waits, Transfers

LEMMA PayloadStepOK == Inv /\ Matched /\ [Next]_vars => PayloadOK'
<1> SUFFICES ASSUME Inv, Matched, [Next]_vars PROVE PayloadOK'
  OBVIOUS
<1>1. conf' = conf
  BY StepCases DEF Waits, Passes, Computes, Adds, Transfers
<1>2. \A s \in Stage : \A i : /\ LiveComm(s, i)' <=> LiveComm(s, i)
                              /\ Node(s, i)' = Node(s, i)
                              /\ T(s, i)' = T(s, i) /\ G(s, i)' = G(s, i)
  BY <1>1 DEF LiveComm, Node, T, G
<1>3. Groups /\ PayloadOK
  BY DEF Matched
<1>4. SendTypes \cap RecvTypes = {}
  BY DEF SendTypes, RecvTypes
<1> DEFINE Sent(x, s, i)     == Name(x) = T(s, i) /\ x \in Produced'
           Received(x, s, i) == Name(x) = G(s, i) /\ x \in Produced'
<1>5. SUFFICES ASSUME NEW s \in Stage, NEW i \in Nat, LiveComm(s, i)
               PROVE  /\ Node(s, i).type \in SendTypes /\ i < it'[s] => Sent(payload'[s][i], s, i)
                      /\ Node(s, i).type \in RecvTypes /\ Passed(s, i)' =>
                           Received(payload'[s][i], s, i)
  BY <1>2 DEF PayloadOK, Is, Name
<1>6. /\ Node(s, i).type \in SendTypes /\ i < it[s] => Sent(payload[s][i], s, i)
      /\ Node(s, i).type \in RecvTypes /\ Passed(s, i) => Received(payload[s][i], s, i)
  BY <1>3, <1>5, ProducedStays DEF PayloadOK, Is
<1>7. i \in DOMAIN Order(s)
  BY <1>5, StageFacts DEF LiveComm
<1>8. CASE Waits
  BY <1>3, <1>5, <1>6, <1>8, StageStepGroups DEF Waits
<1>9. ASSUME NEW u \in Stage, Passes(u) \/ Computes(u)
      PROVE  /\ Node(s, i).type \in SendTypes /\ i < it'[s] => Sent(payload'[s][i], s, i)
             /\ Node(s, i).type \in RecvTypes /\ Passed(s, i)' => Received(payload'[s][i], s, i)
  <2>1. payload' = payload /\ Advance(u) /\ ~ LiveComm(u, it[u])
    BY <1>9 DEF Passes, Computes, LiveComm, CommTypes, SendTypes, RecvTypes
  <2>2. Passed(s, i)' <=> Passed(s, i)
    BY <1>3, <1>5, <1>9, StageStepGroups
  <2>3. i < it'[s] => i < it[s]
    <3>1. CASE s = u
      BY <1>5, <2>1, <3>1, AdvancedStage, StageFacts
    <3>2. CASE s # u
      BY <2>1, <3>2, AdvancedStage
    <3> QED
      BY <3>1, <3>2
  <2> QED
    BY <1>6, <2>1, <2>2, <2>3
<1>10. ASSUME NEW u \in Stage, Adds(u)
      PROVE  /\ Node(s, i).type \in SendTypes /\ i < it'[s] => Sent(payload'[s][i], s, i)
             /\ Node(s, i).type \in RecvTypes /\ Passed(s, i)' => Received(payload'[s][i], s, i)
  <2> DEFINE x == TensorIn(u, BufferMap(Node(u, it[u])))
  <2>1. /\ Advance(u)
        /\ payload' = IF Node(u, it[u]).type \in SendTypes THEN [payload EXCEPT ![u][it[u]] = x]
                      ELSE payload
    BY <1>10 DEF Adds
  <2>2. Passed(s, i)' <=> Passed(s, i)
    BY <1>3, <1>5, <1>10, StageStepGroups
  <2>3. Node(u, it[u]).type \in SendTypes => Sent(x, u, it[u])
    BY <1>10, AddsAt, ProducedStays DEF Is
  <2> HIDE DEF x, Sent, Received
  <2>4. CASE s = u /\ i = it[u]
    <3>1. Node(s, i).type \in SendTypes => payload'[s][i] = x
      BY <1>7, <2>1, <2>4 DEF Inv, TypeOK, PerNode
    <3>2. Node(s, i).type \in RecvTypes => payload'[s][i] = payload[s][i]
      BY <1>4, <2>1, <2>4
    <3> QED
      BY <1>6, <2>2, <2>3, <2>4, <3>1, <3>2
  <2>5. CASE ~ (s = u /\ i = it[u])
    <3>1. payload'[s][i] = payload[s][i]
      BY <1>7, <2>1, <2>5 DEF Inv, TypeOK, PerNode
    <3>2. i < it'[s] => i < it[s]
      <4>1. CASE s = u
        BY <2>1, <2>5, <4>1, AdvancedStage, StageFacts
      <4>2. CASE s # u
        BY <2>1, <4>2, AdvancedStage
      <4> QED
        BY <4>1, <4>2
    <3> QED
      BY <1>6, <2>2, <3>1, <3>2
  <2> QED
    BY <2>4, <2>5
<1>11. ASSUME NEW u \in Stage, NEW t \in Stage, NEW a \in DOMAIN Order(u),
              NEW b \in DOMAIN Order(t), Transfers(u, t, a, b)
       PROVE  /\ Node(s, i).type \in SendTypes /\ i < it'[s] => Sent(payload'[s][i], s, i)
              /\ Node(s, i).type \in RecvTypes /\ Passed(s, i)' => Received(payload'[s][i], s, i)
  <2>1. /\ u # t /\ NextOf(u, t, SendTypes, a) /\ NextOf(t, u, RecvTypes, b) /\ it' = it
        /\ payload' = [payload EXCEPT ![t][b] = payload[u][a]]
    BY <1>11 DEF Transfers
  <2>2. GroupsOK(u) /\ GroupsOK(t) /\ LinksOK
    BY DEF Matched, Groups
  <2>3. T(u, a) = G(t, b)
    BY <2>1, <2>2, TransferMatches
  <2>4. /\ LiveComm(u, a) /\ Node(u, a).type \in SendTypes /\ a < it[u]
        /\ Node(t, b).type \in RecvTypes
    BY <2>1, <2>2, NextIsLive
  <2>5. Passed(s, i)' <=> Passed(s, i) \/ (s = u /\ i = a) \/ (s = t /\ i = b)
    BY <1>3, <1>11, TransferStepGroups
  <2>6. Received(payload[u][a], t, b)
    <3>1. a \in Nat
      BY <2>4, StageFacts DEF LiveComm
    <3>2. Is(payload[u][a], T(u, a))
      BY <1>3, <2>4, <3>1 DEF PayloadOK
    <3> QED
      BY <2>3, <3>2, ProducedStays DEF Is
  <2> HIDE DEF Sent, Received
  <2>7. CASE s = t /\ i = b
    <3>1. payload'[s][i] = payload[u][a]
      BY <1>7, <2>1, <2>7 DEF Inv, TypeOK, PerNode
    <3> QED
      BY <1>4, <2>4, <2>6, <2>7, <3>1
  <2>8. CASE ~ (s = t /\ i = b)
    <3>1. payload'[s][i] = payload[s][i]
      BY <1>7, <2>1, <2>8 DEF Inv, TypeOK, PerNode
    <3> QED
      BY <1>4, <1>6, <2>1, <2>4, <2>5, <2>8, <3>1
  <2> QED
    BY <2>7, <2>8
<1> QED
  BY <1>8, <1>9, <1>10, <1>11, StepCases

(* What a computation adds to those that are executed.                        *)
LEMMA ExecutedNext ==
  ASSUME Inv, NEW s \in Stage, NEW types, types \subseteq {"F", "B", "BW"},
         NEW i \in Executed(s, types)', [Next]_vars
  PROVE  i \in Executed(s, types) \/ (i = it[s] /\ Computes(s) /\ Node(s, i).type \in types)
<1>1. conf' = conf
  BY ItGrows
<1>2. i \in Live(conf, s) /\ Node(s, i).type \in types /\ i < it'[s]
  BY <1>1 DEF Executed, Live, Skipped, Node, Order
<1>3. i \in Nat /\ it[s] \in Nat
  BY <1>2, StageFacts
<1>4. SUFFICES ASSUME ~ i < it[s]
               PROVE  i = it[s] /\ Computes(s)
  BY <1>2, LiveExecuted
<1>5. PICK u \in Stage : Passes(u) \/ Computes(u) \/ Adds(u)
  BY <1>2, <1>4, StepCases DEF Waits, Transfers
<1>6. Advance(u)
  BY <1>5 DEF Passes, Computes, Adds
<1>7. u = s
  BY <1>2, <1>4, <1>6, AdvancedStage
<1>8. i = it[s]
  BY <1>2, <1>3, <1>4, <1>6, <1>7, AdvancedStage
<1>9. ~ Passes(s)
  BY <1>2, <1>8 DEF Passes
<1>10. ~ Adds(s)
  BY <1>2, <1>8 DEF Adds, LiveComm, CommTypes, SendTypes, RecvTypes
<1> QED
  BY <1>5, <1>7, <1>8, <1>9, <1>10

(* A computation's record of an earlier one stays.                            *)
LEMMA OperandStays ==
  ASSUME Inv, [Next]_vars, NEW s \in Stage, NEW i \in Executed(s, {"F", "B", "BW"})
  PROVE  operand'[s][i] = operand[s][i] /\ saved'[s][i] = saved[s][i]
<1>1. i < it[s] /\ i \in DOMAIN Order(s)
  BY DEF Executed
<1>2. i # it[s]
  BY <1>1, StageFacts
<1>3. CASE UNCHANGED <<operand, saved>>
  BY <1>3
<1>4. ASSUME NEW u \in Stage, Computes(u)
      PROVE  operand'[s][i] = operand[s][i] /\ saved'[s][i] = saved[s][i]
  <2>1. PICK x, y : /\ operand' = [operand EXCEPT ![u][it[u]] = x]
                    /\ saved' = saved \/ saved' = [saved EXCEPT ![u][it[u]] = y]
    BY <1>4 DEF Computes
  <2>2. operand'[s][i] = operand[s][i]
    BY <1>1, <1>2, <2>1 DEF Inv, TypeOK, PerNode
  <2>3. saved'[s][i] = saved[s][i]
    <3>1. CASE saved' = saved
      BY <3>1
    <3>2. CASE saved' = [saved EXCEPT ![u][it[u]] = y]
      BY <1>1, <1>2, <3>2 DEF Inv, TypeOK, PerNode
    <3> QED
      BY <2>1, <3>1, <3>2
  <2> QED
    BY <2>2, <2>3
<1> QED
  BY <1>3, <1>4, StepCases DEF Waits, Passes, Adds, Transfers

LEMMA OperandStepOK == Inv /\ Matched /\ [Next]_vars => OperandOK'
<1> SUFFICES ASSUME Inv, Matched, [Next]_vars PROVE OperandOK'
  OBVIOUS
<1>1. \A s \in Stage : \A i : Node(s, i)' = Node(s, i) /\ T(s, i)' = T(s, i)
  <2>1. conf' = conf
    BY StepCases DEF Waits, Passes, Computes, Adds, Transfers
  <2> QED
    BY <2>1 DEF Node, T
<1> DEFINE Consumed(x, s, i) == Name(x) = T(s, i) /\ x \in Produced'
<1>2. SUFFICES ASSUME NEW s \in Stage, NEW i \in Executed(s, {"F", "B", "BW"})'
               PROVE  IF Source(s, Node(s, i)) = NoBuffer THEN operand'[s][i] = NoKey
                      ELSE Consumed(operand'[s][i], s, i)
  BY <1>1 DEF OperandOK, Is, Name, Source, NoBuffer, IsLocal, IsBackward, LastGroup
<1>3. CASE i \in Executed(s, {"F", "B", "BW"})
  <2>1. operand'[s][i] = operand[s][i]
    BY <1>3, OperandStays
  <2> QED
    BY <1>3, <2>1, ProducedStays DEF Matched, OperandOK, Is
<1>4. CASE i = it[s] /\ Computes(s)
  <2> DEFINE src == Source(s, Node(s, i))
  <2>1. i \in DOMAIN Order(s) /\ operand' = [operand EXCEPT ![s][i] = TensorIn(s, src)]
    BY <1>4, StageFacts DEF Computes
  <2> HIDE DEF src
  <2>2. operand'[s][i] = TensorIn(s, src)
    BY <2>1 DEF Inv, TypeOK, PerNode
  <2>3. src # NoBuffer => Consumed(TensorIn(s, src), s, i)
    BY <1>4, ComputesAt, ProducedStays DEF Is, src
  <2> QED
    BY <2>2, <2>3 DEF TensorIn, src
<1> QED
  BY <1>2, <1>3, <1>4, ExecutedNext

LEMMA MatchedInit == Init => Matched
<1> SUFFICES ASSUME Init PROVE Matched
  OBVIOUS
<1>1. Inv /\ conf \in Conf
  BY InitInv DEF Init
<1>2. \A s \in Stage : /\ it[s] = 1 /\ batch[s] = {} /\ posted[s] = <<>>
                       /\ \A b \in Buffers : buf[s][b] = <<>>
  BY DEF Init
<1>3. \A s \in Stage : /\ \A i \in Live(conf, s) : i \in Nat /\ ~ i < 1
                       /\ \A i \in DOMAIN Order(s) : ~ i < 1
  BY <1>1, StageFacts
<1>4. Groups
  BY <1>2 DEF Groups, GroupsOK
<1>5. BuffersOK
  <2> SUFFICES ASSUME NEW s \in Stage, NEW b \in Buffers
               PROVE  Holds(s, b, <<>>, 1, 1)
    BY <1>2 DEF BuffersOK
  <2> QED
    BY <1>3 DEF Holds, Givers, Takers
<1>6. \A s \in Stage : \A i : LiveComm(s, i) => ~ i < it[s] /\ ~ Passed(s, i)
  BY <1>2, <1>3 DEF LiveComm, Passed
<1>7. LinksOK
  BY <1>6, EndsAreComms DEF LinksOK
<1>8. PayloadOK
  BY <1>6 DEF PayloadOK
<1>9. OperandOK
  <2>1. \A s \in Stage : Executed(s, {"F", "B", "BW"}) = {}
    BY <1>2, <1>3 DEF Executed
  <2> QED
    BY <2>1 DEF OperandOK
<1> QED
  BY <1>4, <1>5, <1>7, <1>8, <1>9 DEF Matched

LEMMA MatchedStep == Inv /\ Matched /\ [Next]_vars => Matched'
<1> SUFFICES ASSUME Inv, Matched, [Next]_vars PROVE Matched'
  OBVIOUS
<1>1. Groups'
  BY StepCases, StageStepGroups, TransferStepGroups DEF Matched
<1>2. LinksOK'
  BY LinksStep DEF Matched
<1> QED
  BY <1>1, <1>2, BuffersStep, PayloadStepOK, OperandStepOK DEF Matched

-------------------------------------------------------------------------------
LEMMA LastGroupType == LastGroup \in Int
BY ConstantsOK, FS_CardinalityType DEF LastGroup

(* Names tell the tensors of an iteration apart.                              *)
LEMMA NamedOperand ==
  ASSUME conf \in Conf, NEW s \in Stage, NEW i \in DOMAIN Order(s),
         Node(s, i).type \in {"F", "B", "BW"}, Source(s, Node(s, i)) # NoBuffer,
         NEW u \in Stage, NEW j \in DOMAIN Order(u), Node(u, j).type \in {"F", "B", "BW"},
         Name(Key(Node(u, j))) = T(s, i)
  PROVE  Key(Node(u, j)) = PrevKey(Node(s, i), LastGroup + 1)
<1> DEFINE n == Node(s, i)
           k == Key(Node(u, j))
<1>1. n.type \in {"F", "B", "BW"} /\ n \in Nodes
  BY NodeIsNode
<1>2. Name(k) = TensorTaken(n)
  BY DEF T
<1>3. TensorTaken(n) = NeighbourTensor(n)
  BY <1>1 DEF TensorTaken, SendTypes
<1>4. IsBackward(n) /\ IsBackward(Node(u, j)) => Node(u, j).type = n.type
  <2>1. DOMAIN conf.order = Stage
    BY ConfOK DEF IsConf
  <2>2. n \in AllNodes(conf.order) /\ Node(u, j) \in AllNodes(conf.order)
    BY <2>1 DEF AllNodes, Node, Order
  <2> QED
    BY <2>2, BackwardsAlike
<1>5. n.lg \in Int /\ LastGroup \in Int
  BY <1>1, LastGroupType DEF Nodes
<1>6. k = [type |-> k.type, lg |-> k.lg, mb |-> k.mb, seq |-> k.seq] /\ k.type = Node(u, j).type
  BY DEF Key, MakeKey
<1> HIDE DEF n, k
<1>7. CASE n.type = "F"
  <2>1. n.lg # 0
    BY <1>7 DEF Source, n
  <2>2. Name(k) = MakeKey("F", n.lg - 1, n.mb, n.seq)
    BY <1>2, <1>3, <1>7 DEF NeighbourTensor, Forwards
  <2>3. k.type = "F"
    BY <1>6, <2>2 DEF Name, MakeKey
  <2>4. k = MakeKey("F", n.lg - 1, n.mb, n.seq)
    BY <1>6, <2>2, <2>3 DEF Name, MakeKey
  <2> QED
    BY <1>7, <2>1, <2>4 DEF PrevKey, n, k
<1>8. CASE n.type \in {"B", "BW"}
  <2>1. n.lg # LastGroup
    BY <1>8 DEF Source, n, IsBackward
  <2>2. Name(k) = MakeKey("B", n.lg + 1, n.mb, n.seq)
    BY <1>2, <1>3, <1>8 DEF NeighbourTensor, Forwards
  <2>3. k.type \in {"B", "BW"}
    BY <1>6, <2>2 DEF Name, MakeKey
  <2>4. k.type = n.type
    BY <1>4, <1>6, <1>8, <2>3 DEF IsBackward
  <2>5. k = MakeKey(n.type, n.lg + 1, n.mb, n.seq)
    BY <1>6, <2>2, <2>3, <2>4 DEF Name, MakeKey
  <2>6. PrevKey(n, LastGroup + 1) = MakeKey(n.type, n.lg + 1, n.mb, n.seq)
    <3>1. n.lg + 1 # LastGroup + 1 /\ n.type # "F"
      BY <1>5, <1>8, <2>1
    <3> QED
      BY <1>8, <3>1 DEF PrevKey
  <2> QED
    BY <2>5, <2>6 DEF n, k
<1> QED
  BY <1>1, <1>7, <1>8

LEMMA MatchedSuffices == Inv /\ Matched => RightOperand
<1> SUFFICES ASSUME Inv, Matched, NEW s \in Stage, NEW i \in Executed(s, {"F", "B", "BW"}),
                    Source(s, Node(s, i)) # NoBuffer
             PROVE  operand[s][i] = PrevKey(Node(s, i), LastGroup + 1)
  BY DEF RightOperand, RightOperandOf, Matched, OperandOK
<1>1. Node(s, i).type \in {"F", "B", "BW"} /\ conf \in Conf /\ i \in DOMAIN Order(s)
  BY StageFacts DEF Executed
<1>2. Name(operand[s][i]) = T(s, i) /\ operand[s][i] \in Produced
  BY DEF Matched, OperandOK, Is
<1>3. PICK u \in Stage : \E j \in Executed(u, {"F", "B", "BW"}) : operand[s][i] = Key(Node(u, j))
  BY <1>2 DEF Produced
<1>4. PICK j \in Executed(u, {"F", "B", "BW"}) : operand[s][i] = Key(Node(u, j))
  BY <1>3
<1>5. Node(u, j).type \in {"F", "B", "BW"} /\ j \in DOMAIN Order(u)
  BY DEF Executed
<1> QED
  BY <1>1, <1>2, <1>4, <1>5, NamedOperand

(* Whatever the interleaving of the stages and of the network, every          *)
(* computation of an iteration consumes the tensor that its dependency        *)
(* produced: for orders that match at both ends of every buffer and link, the *)
(* FIFO buffers, the batching and the order of the NCCL calls never hand over *)
(* another one.                                                               *)
THEOREM OperandsRight == Spec => []RightOperand
<1>1. Init => Inv /\ Matched
  BY InitInv, MatchedInit
<1>2. Inv /\ Matched /\ [Next]_vars => Inv' /\ Matched'
  BY NextStep, MatchedStep
<1>3. Inv /\ Matched => RightOperand
  BY MatchedSuffices
<1> QED
  BY <1>1, <1>2, <1>3, PTL DEF Spec

-------------------------------------------------------------------------------
(* Every backward runs on the activations of its own forward, for every       *)
(* number of stages, chunks and splits and all orders whose backwards undo    *)
(* their forwards (MatchedOrders): nothing in the runtime compares the two,   *)
(* the queue of stacks of a chunk has to be popped in the right order.        *)

(* The stacks of an SpQueue, the incomplete one last, and their cells.        *)
StackOf(q, g) == IF g = Len(q.ready) + 1 THEN q.tmp ELSE q.ready[g]

Cell(q, g, c) == g \in 1 .. Len(q.ready) + 1 /\ c \in 1 .. Len(StackOf(q, g))

SpQueues == [ready : Seq(Seq(Tensors)), tmp : Seq(Tensors)]

(* How many positions of a set are behind the next node.                      *)
LEMMA OneMoreBefore ==
  ASSUME NEW S \in SUBSET Nat, NEW x \in Nat
  PROVE  /\ NumberBefore(S, x) \in Nat
         /\ NumberBefore(S, x + 1) = IF x \in S THEN NumberBefore(S, x) + 1
                                     ELSE NumberBefore(S, x)
<1> DEFINE L(y) == {i \in S : i < y}
<1>0. \A i \in S : i \in Nat /\ (i < x => i \in 0 .. x) /\ (i < x + 1 <=> i < x \/ i = x)
  OBVIOUS
<1>1. IsFiniteSet(0 .. x)
  BY FS_Interval
<1>2. L(x) \subseteq 0 .. x
  BY <1>0
<1>3. IsFiniteSet(L(x))
  BY <1>1, <1>2, FS_Subset
<1>4. L(x + 1) = IF x \in S THEN L(x) \cup {x} ELSE L(x)
  BY <1>0
<1>5. x \notin L(x)
  OBVIOUS
<1> HIDE DEF L
<1>6. Cardinality(L(x) \cup {x}) = Cardinality(L(x)) + 1 /\ Cardinality(L(x)) \in Nat
  BY <1>3, <1>5, FS_AddElement, FS_CardinalityType
<1> QED
  BY <1>4, <1>6 DEF NumberBefore, L

-------------------------------------------------------------------------------
(* The forwards and backwards of a chunk.                                     *)

Fs(s, k) == ForwardsOf(conf, s, k)
Bs(s, k) == BackwardsOf(conf, s, k)
Mb(s, i) == Node(s, i).mb
Mate(s, i, j) == SamePass(conf, s, i, j)

(* Of the forwards j and l, the backward of j comes first.                    *)
UndoneFirst(s, j, l) == IF Mb(s, j) = Mb(s, l) THEN l < j ELSE j < l

LEMMA ForwardTypes ==
  ASSUME conf \in Conf, NEW s \in Stage, NEW k
  PROVE  /\ Fs(s, k) \subseteq Nat /\ Bs(s, k) \subseteq Nat
         /\ Fs(s, k) \subseteq DOMAIN Order(s) /\ Bs(s, k) \subseteq DOMAIN Order(s)
         /\ \A i \in Fs(s, k) : /\ Node(s, i).type = "F" /\ Node(s, i).chunk = k
                                /\ i \in Live(conf, s)
         /\ \A i \in Bs(s, k) : /\ Node(s, i).type \in {"B", "BW"} /\ Node(s, i).chunk = k
                                /\ i \in Live(conf, s)
BY PositionsAreNumbers DEF Fs, Bs, ForwardsOf, BackwardsOf, Node, IsBackward

LEMMA Splits ==
  ASSUME conf \in Conf, NEW s \in Stage, NEW k \in Chunks
  PROVE  /\ \A i, j, x \in Fs(s, k) :
              Mb(s, i) = Mb(s, j) /\ i < x /\ x < j => Mb(s, x) = Mb(s, i)
         /\ \A i, j \in Fs(s, k) :
              Mb(s, i) = Mb(s, j) /\ Node(s, i).seq = Node(s, j).seq => i = j
         /\ \A i \in Fs(s, k) : \A q \in Seqs : \E x \in Fs(s, k) :
              Mb(s, x) = Mb(s, i) /\ Node(s, x).seq = q
<1> DEFINE n(x) == conf.order[s][x]
<1>1. \A i, j \in Fs(s, k) :
        /\ n(i).mb = n(j).mb /\ i < j =>
             \A x \in Fs(s, k) : i < x /\ x < j => n(x).mb = n(i).mb
        /\ n(i).mb = n(j).mb /\ n(i).seq = n(j).seq => i = j
        /\ \A q \in Seqs : \E x \in Fs(s, k) : n(x).mb = n(i).mb /\ n(x).seq = q
  BY SplitsTogether DEF Fs
<1>2. Fs(s, k) \subseteq Nat
  BY ForwardTypes
<1>3. \A i, j, x \in Fs(s, k) : i < x /\ x < j => i < j
  BY <1>2
<1> QED
  BY <1>1, <1>3 DEF Mb, Node

LEMMA Mates ==
  ASSUME conf \in Conf, ~ conf.forwardOnly, NEW s \in Stage, NEW k \in Chunks
  PROVE  /\ \A i \in Bs(s, k) : \E j \in Fs(s, k) : Mate(s, i, j)
         /\ \A j \in Fs(s, k) : \E i \in Bs(s, k) : Mate(s, i, j)
         /\ \A i, x \in Bs(s, k), j, y \in Fs(s, k) :
              Mate(s, i, j) /\ Mate(s, x, y) => (i < x <=> UndoneFirst(s, j, y))
BY StacksMatched DEF Fs, Bs, Mate, UndoneFirst, Mb, Node

(* The tensor of a forward, and the forward of a backward, are its own.       *)
LEMMA OneForward ==
  ASSUME conf \in Conf, NEW s \in Stage, NEW k \in Chunks,
         NEW j \in Fs(s, k), NEW l \in Fs(s, k)
  PROVE  /\ Key(Node(s, j)) = Key(Node(s, l)) => j = l
         /\ \A i : Mate(s, i, j) /\ Mate(s, i, l) => j = l
<1>1. Mb(s, j) = Mb(s, l) /\ Node(s, j).seq = Node(s, l).seq => j = l
  BY Splits
<1> QED
  BY <1>1 DEF Key, MakeKey, Mate, SamePass, Mb, Node

(* A forward has one backward.                                                *)
LEMMA OneBackward ==
  ASSUME conf \in Conf, ~ conf.forwardOnly, NEW s \in Stage, NEW k \in Chunks,
         NEW i \in Bs(s, k), NEW x \in Bs(s, k), NEW j \in Fs(s, k),
         Mate(s, i, j), Mate(s, x, j)
  PROVE  i = x
<1>1. ~ i < x /\ ~ x < i
  BY Mates, ForwardTypes DEF UndoneFirst
<1> QED
  BY <1>1, ForwardTypes

-------------------------------------------------------------------------------
(* Forward j is done and its backward is not when x is next.                  *)
Undone(s, k, j, x) == j \in Fs(s, k) /\ j < x /\ \A i \in Bs(s, k) : i < x => ~ Mate(s, i, j)

(* Forward j is in the queue.                                                 *)
InQueue(s, q, j) == \E g, c : Cell(q, g, c) /\ StackOf(q, g)[c] = Key(Node(s, j))

(* Of the microbatch of forward j some split is still to come.                *)
Open(s, k, j, x) == \E l \in Fs(s, k) : Mb(s, l) = Mb(s, j) /\ ~ l < x

(* When x is next, the queue q of a chunk holds the outputs of the forwards   *)
(* that are done and whose backwards are not ...                              *)
OnlyUndone(s, k, q, x) ==
  \A g, c : Cell(q, g, c) => \E j : Undone(s, k, j, x) /\ StackOf(q, g)[c] = Key(Node(s, j))

AllUndone(s, k, q, x) == \A j : Undone(s, k, j, x) => InQueue(s, q, j)

(* ... in their order, a stack for each microbatch ...                        *)
OrderedCells(s, k, q, g, c, h, d) ==
  \A a, b \in Fs(s, k) :
    StackOf(q, g)[c] = Key(Node(s, a)) /\ StackOf(q, h)[d] = Key(Node(s, b)) =>
      /\ g < h => a < b /\ Mb(s, a) # Mb(s, b)
      /\ g = h => Mb(s, a) = Mb(s, b) /\ (c < d => a < b)

CellsInOrder(s, k, q) ==
  \A g, c, h, d : Cell(q, g, c) /\ Cell(q, h, d) => OrderedCells(s, k, q, g, c, h, d)

(* ... the last of which is that of the microbatch that is open.              *)
LastIsOpen(s, k, q, x) ==
  \A g, c : Cell(q, g, c) => \A j \in Fs(s, k) :
    StackOf(q, g)[c] = Key(Node(s, j)) => (Open(s, k, j, x) <=> g = Len(q.ready) + 1)

OpenIsLast(s, k, q, x) ==
  \A j \in Fs(s, k) : j < x /\ Open(s, k, j, x) =>
    \E c \in 1 .. Len(q.tmp) : q.tmp[c] = Key(Node(s, j))

MatesDone(s, k, x) ==
  \A i \in Bs(s, k) : i < x => \E j \in Fs(s, k) : j < x /\ Mate(s, i, j)

QueueHolds(s, k, q, x) ==
  /\ OnlyUndone(s, k, q, x) /\ AllUndone(s, k, q, x)
  /\ CellsInOrder(s, k, q)
  /\ LastIsOpen(s, k, q, x) /\ OpenIsLast(s, k, q, x)
  /\ MatesDone(s, k, x)

ActivationsOK ==
  ~ conf.forwardOnly =>
    \A s \in Stage : \A k \in Chunks : QueueHolds(s, k, acts[s][k], it[s])

-------------------------------------------------------------------------------
(* A forward pushes its output.                                               *)

(* What a push adds to the cells.                                             *)
LEMMA PushCells ==
  ASSUME NEW q \in SpQueues, NEW x \in Tensors, NEW r, r = SpPush(q, x),
         NEW l, l = Len(q.ready) + 1, NEW m, m = Len(q.tmp) + 1
  PROVE  /\ l \in Nat /\ m \in Nat /\ l >= 1 /\ m >= 1
         /\ \A g, c : Cell(r, g, c) <=> Cell(q, g, c) \/ (g = l /\ c = m)
         /\ \A g, c : Cell(q, g, c) => StackOf(r, g)[c] = StackOf(q, g)[c]
         /\ StackOf(r, l)[m] = x
         /\ Len(r.ready) = IF m = Cardinality(Seqs) THEN l ELSE l - 1
         /\ m # Cardinality(Seqs) => r.tmp = StackOf(r, l) /\ Len(r.tmp) = m
<1> DEFINE tmp == Append(q.tmp, x)
<1>1. /\ q.ready \in Seq(Seq(Tensors)) /\ q.tmp \in Seq(Tensors)
      /\ l \in Nat /\ m \in Nat /\ l >= 1 /\ m >= 1
  BY DEF SpQueues
<1>2. /\ tmp \in Seq(Tensors) /\ Len(tmp) = m /\ tmp[m] = x
      /\ \A c \in 1 .. Len(q.tmp) : tmp[c] = q.tmp[c]
      /\ \A c : c \in 1 .. m <=> c \in 1 .. Len(q.tmp) \/ c = m
  BY <1>1
<1>3. /\ \A g : g \in 1 .. l <=> g \in 1 .. Len(q.ready) \/ g = l
      /\ l \notin 1 .. Len(q.ready)
  BY <1>1
<1> HIDE DEF tmp
<1>4. CASE m = Cardinality(Seqs)
  <2>1. r = [ready |-> Append(q.ready, tmp), tmp |-> <<>>]
    BY <1>2, <1>4 DEF SpPush, tmp
  <2>2. /\ Len(r.ready) = l /\ r.ready[l] = tmp /\ r.tmp = <<>>
        /\ \A g \in 1 .. Len(q.ready) : r.ready[g] = q.ready[g]
    BY <1>1, <1>2, <2>1
  <2>3. /\ StackOf(r, l) = tmp /\ StackOf(q, l) = q.tmp
        /\ \A g \in 1 .. Len(q.ready) : StackOf(r, g) = q.ready[g] /\ StackOf(q, g) = q.ready[g]
        /\ StackOf(r, l + 1) = <<>>
    BY <1>1, <1>3, <2>2 DEF StackOf
  <2>4. \A g : g \in 1 .. l + 1 <=> g \in 1 .. l \/ g = l + 1
    BY <1>1
  <2>5. \A g, c : Cell(r, g, c) <=> Cell(q, g, c) \/ (g = l /\ c = m)
    <3> SUFFICES ASSUME NEW g, NEW c PROVE Cell(r, g, c) <=> Cell(q, g, c) \/ (g = l /\ c = m)
      OBVIOUS
    <3>1. CASE g \in 1 .. Len(q.ready)
      BY <1>3, <2>2, <2>3, <2>4, <3>1 DEF Cell
    <3>2. CASE g = l
      BY <1>1, <1>2, <2>2, <2>3, <3>2 DEF Cell
    <3>3. CASE g = l + 1
      <4>1. ~ c \in 1 .. Len(StackOf(r, g))
        BY <2>3, <3>3
      <4>2. g # l /\ g \notin 1 .. l
        BY <1>1, <3>3
      <4> QED
        BY <4>1, <4>2 DEF Cell
    <3>4. CASE g \notin 1 .. Len(q.ready) /\ g # l /\ g # l + 1
      BY <1>3, <2>2, <2>4, <3>4 DEF Cell
    <3> QED
      BY <3>1, <3>2, <3>3, <3>4
  <2>6. \A g, c : Cell(q, g, c) => StackOf(r, g)[c] = StackOf(q, g)[c]
    BY <1>2, <1>3, <2>3 DEF Cell
  <2> QED
    BY <1>1, <1>2, <1>4, <2>2, <2>3, <2>5, <2>6
<1>5. CASE m # Cardinality(Seqs)
  <2>1. r = [q EXCEPT !.tmp = tmp]
    BY <1>2, <1>5 DEF SpPush, tmp
  <2>2. r.ready = q.ready /\ r.tmp = tmp
    BY <2>1 DEF SpQueues
  <2>3. /\ StackOf(r, l) = tmp /\ StackOf(q, l) = q.tmp
        /\ \A g \in 1 .. Len(q.ready) : StackOf(r, g) = q.ready[g] /\ StackOf(q, g) = q.ready[g]
    BY <1>1, <1>3, <2>2 DEF StackOf
  <2>4. \A g, c : Cell(r, g, c) <=> Cell(q, g, c) \/ (g = l /\ c = m)
    BY <1>2, <1>3, <2>2, <2>3 DEF Cell
  <2>5. \A g, c : Cell(q, g, c) => StackOf(r, g)[c] = StackOf(q, g)[c]
    BY <1>2, <1>3, <2>3 DEF Cell
  <2>6. Len(r.ready) = l - 1
    BY <1>1, <2>2
  <2> QED
    BY <1>1, <1>2, <1>5, <2>2, <2>3, <2>4, <2>5, <2>6
<1> QED
  BY <1>4, <1>5

(* The forward i that comes next belongs to the open stack.                   *)
LEMMA NextForward ==
  ASSUME conf \in Conf, NEW s \in Stage, NEW k \in Chunks, NEW q,
         NEW i \in Fs(s, k), QueueHolds(s, k, q, i),
         NEW g, NEW c, Cell(q, g, c),
         NEW j \in Fs(s, k), StackOf(q, g)[c] = Key(Node(s, j))
  PROVE  j < i /\ (Mb(s, j) = Mb(s, i) <=> g = Len(q.ready) + 1)
<1>1. Fs(s, k) \subseteq Nat
  BY ForwardTypes
<1>2. PICK o : Undone(s, k, o, i) /\ StackOf(q, g)[c] = Key(Node(s, o))
  BY DEF QueueHolds, OnlyUndone
<1>3. o = j
  BY <1>2, OneForward DEF Undone
<1>4. j < i
  BY <1>2, <1>3 DEF Undone
<1>5. Open(s, k, j, i) <=> g = Len(q.ready) + 1
  BY DEF QueueHolds, LastIsOpen
<1>6. Mb(s, j) = Mb(s, i) => Open(s, k, j, i)
  BY <1>1 DEF Open
<1>7. ASSUME Open(s, k, j, i) PROVE Mb(s, j) = Mb(s, i)
  <2>1. PICK l \in Fs(s, k) : Mb(s, l) = Mb(s, j) /\ ~ l < i
    BY <1>7 DEF Open
  <2>2. l = i \/ i < l
    BY <1>1, <2>1
  <2> QED
    BY <1>4, <2>1, <2>2, Splits
<1> QED
  BY <1>4, <1>5, <1>6, <1>7

(* A stack is complete when it holds as many outputs as there are splits.     *)
LEMMA StackComplete ==
  ASSUME conf \in Conf, NEW s \in Stage, NEW k \in Chunks, NEW q \in SpQueues,
         NEW i \in Fs(s, k), QueueHolds(s, k, q, i)
  PROVE  Len(q.tmp) + 1 = Cardinality(Seqs) <=> ~ Open(s, k, i, i + 1)
<1> DEFINE m    == Len(q.tmp) + 1
           l    == Len(q.ready) + 1
           P(c) == IF c = m THEN i
                   ELSE CHOOSE j \in Fs(s, k) : q.tmp[c] = Key(Node(s, j))
           f    == [c \in 1 .. m |-> Node(s, P(c)).seq]
<1>1. m \in Nat /\ m >= 1 /\ l \in Nat /\ l >= 1 /\ StackOf(q, l) = q.tmp
  BY DEF SpQueues, StackOf
<1>2. \A c \in 1 .. m : c # m => c \in 1 .. Len(q.tmp) /\ Cell(q, l, c)
  BY <1>1 DEF SpQueues, Cell
<1>3. Fs(s, k) \subseteq Nat
  BY ForwardTypes
<1> HIDE DEF m, l
<1>4. ASSUME NEW c \in 1 .. m, c # m
      PROVE  /\ P(c) \in Fs(s, k) /\ q.tmp[c] = Key(Node(s, P(c)))
             /\ P(c) < i /\ Mb(s, P(c)) = Mb(s, i)
  <2>1. Cell(q, l, c)
    BY <1>2, <1>4
  <2>2. \E j : Undone(s, k, j, i) /\ StackOf(q, l)[c] = Key(Node(s, j))
    BY <2>1 DEF QueueHolds, OnlyUndone
  <2>3. \E j \in Fs(s, k) : q.tmp[c] = Key(Node(s, j))
    BY <1>1, <2>2 DEF Undone
  <2>4. P(c) \in Fs(s, k) /\ q.tmp[c] = Key(Node(s, P(c)))
    BY <1>4, <2>3
  <2>5. StackOf(q, l)[c] = Key(Node(s, P(c)))
    BY <1>1, <2>4
  <2> HIDE DEF P
  <2>6. P(c) < i /\ (Mb(s, P(c)) = Mb(s, i) <=> l = Len(q.ready) + 1)
    BY <2>1, <2>4, <2>5, NextForward
  <2> QED
    BY <2>4, <2>6 DEF l
<1>5. \A c \in 1 .. m : P(c) \in Fs(s, k) /\ P(c) < i + 1 /\ Mb(s, P(c)) = Mb(s, i)
  <2> SUFFICES ASSUME NEW c \in 1 .. m
               PROVE  P(c) \in Fs(s, k) /\ P(c) < i + 1 /\ Mb(s, P(c)) = Mb(s, i)
    OBVIOUS
  <2>1. CASE c = m
    BY <1>3, <2>1
  <2>2. CASE c # m
    <3>1. P(c) \in Fs(s, k) /\ P(c) < i /\ Mb(s, P(c)) = Mb(s, i)
      BY <1>4, <2>2
    <3> HIDE DEF P
    <3> QED
      BY <1>3, <3>1
  <2> QED
    BY <2>1, <2>2
<1>6. ASSUME NEW c \in 1 .. m, NEW d \in 1 .. m, c < d PROVE P(c) < P(d)
  <2>1. c # m
    BY <1>1, <1>6
  <2>2. CASE d = m
    BY <1>4, <2>1, <2>2
  <2>3. CASE d # m
    <3>1. Cell(q, l, c) /\ Cell(q, l, d)
      BY <1>2, <2>1, <2>3
    <3>2. /\ P(c) \in Fs(s, k) /\ StackOf(q, l)[c] = Key(Node(s, P(c)))
          /\ P(d) \in Fs(s, k) /\ StackOf(q, l)[d] = Key(Node(s, P(d)))
      BY <1>1, <1>4, <2>1, <2>3
    <3> HIDE DEF P
    <3> QED
      <4>1. OrderedCells(s, k, q, l, c, l, d)
        BY <3>1 DEF QueueHolds, CellsInOrder
      <4> QED
        BY <1>6, <3>2, <4>1 DEF OrderedCells
  <2> QED
    BY <2>2, <2>3
<1> HIDE DEF P
<1>7. f \in Injection(1 .. m, Seqs)
  <2>1. \A j \in Fs(s, k) : Node(s, j).seq \in Seqs
    BY ForwardTypes, NodeIsNode DEF Nodes
  <2>2. f \in [1 .. m -> Seqs]
    BY <1>5, <2>1
  <2>3. ASSUME NEW c \in 1 .. m, NEW d \in 1 .. m, f[c] = f[d] PROVE c = d
    <3>1. Node(s, P(c)).seq = Node(s, P(d)).seq
      BY <2>3
    <3>2. P(c) = P(d)
      BY <1>5, <3>1, Splits
    <3>3. P(c) \in Nat
      BY <1>3, <1>5
    <3>4. ~ c < d /\ ~ d < c
      BY <1>6, <3>2, <3>3
    <3> QED
      BY <3>4
  <2> QED
    BY <2>2, <2>3 DEF Injection, IsInjective
<1>8. m = Cardinality(Seqs) <=> f \in Surjection(1 .. m, Seqs)
  <2>1. Cardinality(1 .. m) = m
    BY <1>1, FS_Interval
  <2>2. IsFiniteSet(Seqs)
    BY ConstantsOK
  <2> HIDE DEF f
  <2> QED
    BY <1>7, <2>1, <2>2, FS_Injection
<1>9. ASSUME f \in Surjection(1 .. m, Seqs), Open(s, k, i, i + 1) PROVE FALSE
  <2>1. PICK j \in Fs(s, k) : Mb(s, j) = Mb(s, i) /\ ~ j < i + 1
    BY <1>9 DEF Open
  <2>2. Node(s, j).seq \in Seqs
    BY ForwardTypes, NodeIsNode DEF Nodes
  <2>3. PICK c \in 1 .. m : f[c] = Node(s, j).seq
    BY <1>9, <2>2 DEF Surjection
  <2>4. P(c) = j
    BY <1>5, <2>1, <2>3, Splits
  <2> QED
    BY <1>5, <2>1, <2>4
<1>10. ASSUME ~ Open(s, k, i, i + 1) PROVE f \in Surjection(1 .. m, Seqs)
  <2>1. ASSUME NEW e \in Seqs PROVE \E c \in 1 .. m : f[c] = e
    <3>1. PICK j \in Fs(s, k) : Mb(s, j) = Mb(s, i) /\ Node(s, j).seq = e
      BY Splits
    <3>2. j < i + 1
      BY <1>10, <3>1 DEF Open
    <3>3. CASE j = i
      BY <1>1, <3>1, <3>3 DEF P
    <3>4. CASE j # i
      <4>1. j < i
        BY <1>3, <3>2, <3>4
      <4>2. Open(s, k, j, i)
        BY <1>3, <3>1 DEF Open
      <4>3. PICK c \in 1 .. Len(q.tmp) : q.tmp[c] = Key(Node(s, j))
        BY <4>1, <4>2 DEF QueueHolds, OpenIsLast
      <4>4. c \in 1 .. m /\ c # m
        BY <1>1 DEF m, SpQueues
      <4>5. P(c) = j
        BY <1>4, <1>5, <4>3, <4>4, OneForward
      <4> QED
        BY <3>1, <4>4, <4>5
    <3> QED
      BY <3>3, <3>4
  <2> QED
    BY <1>7, <2>1 DEF Surjection, Injection
<1> QED
  BY <1>8, <1>9, <1>10 DEF m

LEMMA PushHolds ==
  ASSUME conf \in Conf, ~ conf.forwardOnly, NEW s \in Stage, NEW k \in Chunks,
         NEW q \in SpQueues, NEW i \in Fs(s, k), QueueHolds(s, k, q, i)
  PROVE  QueueHolds(s, k, SpPush(q, Key(Node(s, i))), i + 1)
<1> DEFINE x == Key(Node(s, i))
           r == SpPush(q, x)
           l == Len(q.ready) + 1
           m == Len(q.tmp) + 1
<1>1. /\ Fs(s, k) \subseteq Nat /\ Bs(s, k) \subseteq Nat /\ i \notin Bs(s, k)
  BY ForwardTypes
<1>2. x \in Tensors
  BY ForwardTypes, NodeIsNode, KeyIsTensor
<1> HIDE DEF r
<1>3. /\ l \in Nat /\ m \in Nat /\ l >= 1 /\ m >= 1
      /\ \A g, c : Cell(r, g, c) <=> Cell(q, g, c) \/ (g = l /\ c = m)
      /\ \A g, c : Cell(q, g, c) => StackOf(r, g)[c] = StackOf(q, g)[c]
      /\ StackOf(r, l)[m] = x
      /\ Len(r.ready) = IF m = Cardinality(Seqs) THEN l ELSE l - 1
      /\ m # Cardinality(Seqs) => r.tmp = StackOf(r, l) /\ Len(r.tmp) = m
  BY <1>2, PushCells DEF r
<1>4. m = Cardinality(Seqs) <=> ~ Open(s, k, i, i + 1)
  BY StackComplete
<1>5. /\ \A g, c : Cell(q, g, c) => g \in Nat /\ g <= l /\ (g = l => c \in Nat /\ c < m)
      /\ StackOf(q, l) = q.tmp /\ \A c \in 1 .. Len(q.tmp) : Cell(q, l, c) /\ c \in 1 .. m
  BY <1>3 DEF Cell, StackOf, SpQueues
<1>6. \A g, c : Cell(q, g, c) => \A j \in Fs(s, k) : StackOf(q, g)[c] = Key(Node(s, j)) =>
        j < i /\ (Mb(s, j) = Mb(s, i) <=> g = l)
  BY NextForward
<1> HIDE DEF x, l, m
<1>7. \A j : Undone(s, k, j, i + 1) <=> Undone(s, k, j, i) \/ j = i
  <2>1. \A j \in Fs(s, k) : j < i + 1 <=> j < i \/ j = i
    BY <1>1
  <2>2. \A b \in Bs(s, k) : b < i + 1 <=> b < i
    BY <1>1
  <2>3. ASSUME NEW b \in Bs(s, k), b < i, Mate(s, b, i) PROVE FALSE
    <3>1. PICK j \in Fs(s, k) : j < i /\ Mate(s, b, j)
      BY <2>3 DEF QueueHolds, MatesDone
    <3>2. j = i
      BY <2>3, <3>1, OneForward
    <3> QED
      BY <1>1, <3>1, <3>2
  <2> QED
    BY <2>1, <2>2, <2>3 DEF Undone
<1>8. OnlyUndone(s, k, r, i + 1)
  <2> SUFFICES ASSUME NEW g, NEW c, Cell(r, g, c)
               PROVE  \E j : Undone(s, k, j, i + 1) /\ StackOf(r, g)[c] = Key(Node(s, j))
    BY DEF OnlyUndone
  <2>1. CASE Cell(q, g, c)
    BY <1>3, <1>7, <2>1 DEF QueueHolds, OnlyUndone
  <2>2. CASE g = l /\ c = m
    BY <1>3, <1>7, <2>2 DEF x
  <2> QED
    BY <1>3, <2>1, <2>2
<1>9. AllUndone(s, k, r, i + 1)
  <2> SUFFICES ASSUME NEW j, Undone(s, k, j, i + 1) PROVE InQueue(s, r, j)
    BY DEF AllUndone
  <2>1. CASE j = i
    BY <1>3, <2>1 DEF InQueue, x
  <2>2. CASE Undone(s, k, j, i)
    BY <1>3, <2>2 DEF QueueHolds, AllUndone, InQueue
  <2> QED
    BY <1>7, <2>1, <2>2
<1>10. CellsInOrder(s, k, r)
  <2> SUFFICES ASSUME NEW g, NEW c, Cell(r, g, c), NEW h, NEW d, Cell(r, h, d),
                      NEW j \in Fs(s, k), StackOf(r, g)[c] = Key(Node(s, j)),
                      NEW o \in Fs(s, k), StackOf(r, h)[d] = Key(Node(s, o))
               PROVE  /\ g < h => j < o /\ Mb(s, j) # Mb(s, o)
                      /\ g = h => Mb(s, j) = Mb(s, o) /\ (c < d => j < o)
    <3>1. SUFFICES ASSUME NEW g, NEW c, Cell(r, g, c), NEW h, NEW d, Cell(r, h, d)
                   PROVE  OrderedCells(s, k, r, g, c, h, d)
      BY DEF CellsInOrder
    <3> QED
      BY <3>1 DEF OrderedCells
  <2>1. CASE Cell(q, g, c) /\ Cell(q, h, d)
    <3>1. StackOf(q, g)[c] = Key(Node(s, j)) /\ StackOf(q, h)[d] = Key(Node(s, o))
      BY <1>3, <2>1
    <3>2. OrderedCells(s, k, q, g, c, h, d)
      BY <2>1 DEF QueueHolds, CellsInOrder
    <3> QED
      BY <3>1, <3>2 DEF OrderedCells
  <2>2. CASE Cell(q, g, c) /\ h = l /\ d = m
    <3>1. o = i
      BY <1>3, <2>2, OneForward DEF x
    <3>2. j < i /\ (Mb(s, j) = Mb(s, i) <=> g = l)
      BY <1>3, <1>6, <2>2
    <3>3. g \in Nat /\ l \in Nat
      BY <1>3, <1>5, <2>2
    <3> QED
      BY <2>2, <3>1, <3>2, <3>3
  <2>3. CASE g = l /\ c = m /\ Cell(q, h, d)
    <3>1. j = i
      BY <1>3, <2>3, OneForward DEF x
    <3>2. o < i /\ (Mb(s, o) = Mb(s, i) <=> h = l)
      BY <1>3, <1>6, <2>3
    <3>3. ~ g < h /\ (g = h => ~ c < d)
      BY <1>3, <1>5, <2>3
    <3> QED
      BY <2>3, <3>1, <3>2, <3>3
  <2>4. CASE g = l /\ c = m /\ h = l /\ d = m
    <3>1. j = o
      BY <1>3, <2>4, OneForward DEF x
    <3> QED
      BY <1>3, <2>4, <3>1
  <2> QED
    BY <1>3, <2>1, <2>2, <2>3, <2>4
<1>11. \A j \in Fs(s, k) : /\ Mb(s, j) = Mb(s, i) => (Open(s, k, j, i + 1) <=> m # Cardinality(Seqs))
                           /\ Open(s, k, j, i + 1) => Open(s, k, j, i)
  <2>1. \A o \in Fs(s, k) : ~ o < i + 1 => ~ o < i
    BY <1>1
  <2> QED
    BY <1>4, <2>1 DEF Open
<1>12. LastIsOpen(s, k, r, i + 1)
  <2> SUFFICES ASSUME NEW g, NEW c, Cell(r, g, c), NEW j \in Fs(s, k),
                      StackOf(r, g)[c] = Key(Node(s, j))
               PROVE  Open(s, k, j, i + 1) <=> g = Len(r.ready) + 1
    BY DEF LastIsOpen
  <2>1. CASE g = l
    <3>1. Mb(s, j) = Mb(s, i)
      <4>1. CASE Cell(q, g, c)
        BY <1>3, <1>6, <2>1, <4>1
      <4>2. CASE c = m
        BY <1>3, <2>1, <4>2, OneForward DEF x
      <4> QED
        BY <1>3, <4>1, <4>2
    <3>2. l = Len(r.ready) + 1 <=> m # Cardinality(Seqs)
      BY <1>3
    <3> QED
      BY <1>11, <2>1, <3>1, <3>2
  <2>2. CASE g # l
    <3>1. Cell(q, g, c) /\ StackOf(q, g)[c] = Key(Node(s, j))
      BY <1>3, <2>2
    <3>2. ~ Open(s, k, j, i)
      BY <2>2, <3>1 DEF QueueHolds, LastIsOpen, l
    <3>3. g # Len(r.ready) + 1
      BY <1>3, <1>5, <2>2, <3>1
    <3> QED
      BY <1>11, <3>2, <3>3
  <2> QED
    BY <2>1, <2>2
<1>13. OpenIsLast(s, k, r, i + 1)
  <2> SUFFICES ASSUME NEW j \in Fs(s, k), j < i + 1, Open(s, k, j, i + 1)
               PROVE  \E c \in 1 .. Len(r.tmp) : r.tmp[c] = Key(Node(s, j))
    BY DEF OpenIsLast
  <2>1. CASE j = i
    <3>1. m # Cardinality(Seqs)
      BY <1>11, <2>1
    <3> QED
      BY <1>3, <2>1, <3>1 DEF x
  <2>2. CASE j # i
    <3>1. j < i
      BY <1>1, <2>2
    <3>2. PICK c \in 1 .. Len(q.tmp) : q.tmp[c] = Key(Node(s, j))
      BY <1>11, <3>1 DEF QueueHolds, OpenIsLast
    <3>3. Cell(q, l, c) /\ StackOf(q, l)[c] = Key(Node(s, j)) /\ c \in 1 .. m
      BY <1>5, <3>2
    <3>4. m # Cardinality(Seqs)
      BY <1>6, <1>11, <3>3
    <3> QED
      BY <1>3, <3>3, <3>4
  <2> QED
    BY <2>1, <2>2
<1>14. MatesDone(s, k, i + 1)
  <2>1. /\ \A b \in Bs(s, k) : b < i + 1 => b < i
        /\ \A j \in Fs(s, k) : j < i => j < i + 1
    BY <1>1
  <2> QED
    BY <2>1 DEF QueueHolds, MatesDone
<1> QED
  BY <1>8, <1>9, <1>10, <1>12, <1>13, <1>14 DEF QueueHolds, r, x

-------------------------------------------------------------------------------
(* A backward pops the activations of its forward.                            *)

(* What a pop takes from the cells.                                           *)
LEMMA PopCells ==
  ASSUME NEW q, IsSpQueue(q), q.ready # <<>>, NEW r, r = SpPop(q),
         NEW m, m = Len(q.ready[1])
  PROVE  /\ Cell(q, 1, m) /\ StackOf(q, 1)[m] = SpTop(q)
         /\ \A c : Cell(q, 1, c) => c \in Nat /\ c <= m
         /\ m \in Nat /\ Len(q.ready) \in Nat
         /\ 1 # Len(q.ready) + 1
         /\ r.tmp = q.tmp
         /\ \E e \in {0, 1} :
              /\ Len(r.ready) = Len(q.ready) - e
              /\ \A g, c : Cell(r, g, c) =>
                   /\ g \in Nat /\ Cell(q, g + e, c) /\ ~ (g + e = 1 /\ c = m)
                   /\ StackOf(r, g)[c] = StackOf(q, g + e)[c]
              /\ \A g, c : Cell(q, g, c) /\ ~ (g = 1 /\ c = m) =>
                   g \in Nat /\ Cell(r, g - e, c) /\ StackOf(r, g - e)[c] = StackOf(q, g)[c]
<1> DEFINE n     == Len(q.ready)
           stack == q.ready[1]
<1>1. /\ q.ready \in Seq(Seq(Tensors)) /\ q.tmp \in Seq(Tensors)
      /\ n \in Nat /\ n >= 1 /\ 1 \in 1 .. n /\ 1 # n + 1
      /\ \A g \in 1 .. n : q.ready[g] \in Seq(Tensors) /\ q.ready[g] # <<>>
  BY DEF IsSpQueue
<1>2. stack \in Seq(Tensors) /\ m \in Nat /\ m >= 1
  BY <1>1
<1>3. StackOf(q, 1) = stack /\ StackOf(q, n + 1) = q.tmp /\ \A g \in 1 .. n : StackOf(q, g) = q.ready[g]
  BY <1>1 DEF StackOf
<1>4. SpTop(q) = stack[m]
  BY DEF SpTop
<1>5. Cell(q, 1, m) /\ \A c : Cell(q, 1, c) => c \in Nat /\ c >= 1 /\ c <= m
  BY <1>1, <1>2, <1>3 DEF Cell
<1> HIDE DEF n, stack
<1>6. CASE m = 1
  <2>1. r = [q EXCEPT !.ready = Tail(q.ready)]
    BY <1>6 DEF SpPop, stack
  <2>2. r.ready = Tail(q.ready) /\ r.tmp = q.tmp
    BY <2>1 DEF IsSpQueue
  <2>3. /\ Len(r.ready) = n - 1
        /\ \A g \in 1 .. n - 1 : r.ready[g] = q.ready[g + 1] /\ g + 1 \in 1 .. n
    BY <1>1, <2>2 DEF n
  <2>4. \A g \in 1 .. n : StackOf(r, g) = StackOf(q, g + 1) /\ g \in Nat /\ g + 1 \in 1 .. n + 1
    <3> SUFFICES ASSUME NEW g \in 1 .. n
                 PROVE  StackOf(r, g) = StackOf(q, g + 1) /\ g \in Nat /\ g + 1 \in 1 .. n + 1
      OBVIOUS
    <3>1. CASE g = n
      BY <1>1, <1>3, <2>2, <2>3, <3>1 DEF StackOf
    <3>2. CASE g # n
      <4>1. g \in 1 .. n - 1 /\ g + 1 \in 1 .. n + 1
        BY <1>1, <3>2
      <4> QED
        BY <1>1, <1>3, <2>3, <4>1 DEF StackOf
    <3> QED
      BY <3>1, <3>2
  <2>5. ASSUME NEW g, NEW c, Cell(r, g, c)
        PROVE  /\ g \in Nat /\ Cell(q, g + 1, c) /\ ~ (g + 1 = 1 /\ c = m)
               /\ StackOf(r, g)[c] = StackOf(q, g + 1)[c]
    <3>1. g \in 1 .. n
      BY <1>1, <2>3, <2>5 DEF Cell
    <3> QED
      BY <2>4, <2>5, <3>1 DEF Cell, n
  <2>6. ASSUME NEW g, NEW c, Cell(q, g, c), ~ (g = 1 /\ c = m)
        PROVE  g \in Nat /\ Cell(r, g - 1, c) /\ StackOf(r, g - 1)[c] = StackOf(q, g)[c]
    <3>1. g # 1
      BY <1>5, <1>6, <2>6
    <3>2. g - 1 \in 1 .. n /\ g = (g - 1) + 1 /\ g \in Nat
      BY <1>1, <2>6, <3>1 DEF Cell, n
    <3>3. StackOf(r, g - 1) = StackOf(q, g)
      BY <2>4, <3>2
    <3>4. g - 1 \in 1 .. Len(r.ready) + 1
      BY <1>1, <2>3, <3>2
    <3> QED
      BY <2>6, <3>2, <3>3, <3>4 DEF Cell
  <2>7. \E e \in {0, 1} :
           /\ Len(r.ready) = n - e
           /\ \A g, c : Cell(r, g, c) =>
                /\ g \in Nat /\ Cell(q, g + e, c) /\ ~ (g + e = 1 /\ c = m)
                /\ StackOf(r, g)[c] = StackOf(q, g + e)[c]
           /\ \A g, c : Cell(q, g, c) /\ ~ (g = 1 /\ c = m) =>
                g \in Nat /\ Cell(r, g - e, c) /\ StackOf(r, g - e)[c] = StackOf(q, g)[c]
    <3> WITNESS 1 \in {0, 1}
    <3> QED
      BY <2>3, <2>5, <2>6
  <2> QED
    BY <1>1, <1>2, <1>3, <1>4, <1>5, <2>2, <2>7 DEF n
<1>7. CASE m # 1
  <2> DEFINE front == SubSeq(stack, 1, m - 1)
  <2>1. r = [q EXCEPT !.ready = [q.ready EXCEPT ![1] = front]]
    BY <1>7 DEF SpPop, stack
  <2>2. r.ready = [q.ready EXCEPT ![1] = front] /\ r.tmp = q.tmp
    BY <2>1 DEF IsSpQueue
  <2>3. Len(front) = m - 1 /\ \A c \in 1 .. m - 1 : front[c] = stack[c]
    BY <1>2, <1>7, SubSeqProperties DEF stack
  <2> HIDE DEF front
  <2>4. /\ Len(r.ready) = n /\ r.ready[1] = front
        /\ \A g \in 1 .. n : g # 1 => r.ready[g] = q.ready[g]
    BY <1>1, <2>2 DEF n
  <2>5. /\ StackOf(r, 1) = front
        /\ \A g \in 1 .. n + 1 : g # 1 => StackOf(r, g) = StackOf(q, g)
        /\ 1 \in 1 .. n + 1 /\ 1 # n + 1
    BY <1>1, <1>3, <2>2, <2>4 DEF StackOf, n
  <2>6. ASSUME NEW g, NEW c, Cell(r, g, c)
        PROVE  /\ g \in Nat /\ Cell(q, g, c) /\ ~ (g = 1 /\ c = m)
               /\ StackOf(r, g)[c] = StackOf(q, g)[c]
    <3>1. g \in 1 .. n + 1 /\ g \in Nat
      BY <1>1, <2>4, <2>6 DEF Cell
    <3>2. CASE g = 1
      <4>1. c \in 1 .. m - 1
        BY <2>3, <2>5, <2>6, <3>2 DEF Cell
      <4>2. c \in 1 .. m /\ c # m
        BY <1>2, <4>1
      <4> QED
        BY <1>3, <2>3, <2>5, <3>1, <3>2, <4>1, <4>2 DEF Cell, n, stack
    <3>3. CASE g # 1
      BY <2>5, <2>6, <3>1, <3>3 DEF Cell, n
    <3> QED
      BY <3>2, <3>3
  <2>7. ASSUME NEW g, NEW c, Cell(q, g, c), ~ (g = 1 /\ c = m)
        PROVE  g \in Nat /\ Cell(r, g, c) /\ StackOf(r, g)[c] = StackOf(q, g)[c]
    <3>1. g \in 1 .. n + 1 /\ g \in Nat
      BY <1>1, <2>7 DEF Cell, n
    <3>2. CASE g = 1
      <4>1. c \in 1 .. m /\ c # m
        BY <1>3, <2>7, <3>2 DEF Cell, stack
      <4>2. c \in 1 .. m - 1
        BY <1>2, <4>1
      <4> QED
        BY <1>3, <2>3, <2>4, <2>5, <3>1, <3>2, <4>2 DEF Cell
    <3>3. CASE g # 1
      BY <2>4, <2>5, <2>7, <3>1, <3>3 DEF Cell
    <3> QED
      BY <3>2, <3>3
  <2>8. \E e \in {0, 1} :
           /\ Len(r.ready) = n - e
           /\ \A g, c : Cell(r, g, c) =>
                /\ g \in Nat /\ Cell(q, g + e, c) /\ ~ (g + e = 1 /\ c = m)
                /\ StackOf(r, g)[c] = StackOf(q, g + e)[c]
           /\ \A g, c : Cell(q, g, c) /\ ~ (g = 1 /\ c = m) =>
                g \in Nat /\ Cell(r, g - e, c) /\ StackOf(r, g - e)[c] = StackOf(q, g)[c]
    <3> WITNESS 0 \in {0, 1}
    <3>1. n - 0 = n /\ \A g \in Nat : g + 0 = g /\ g - 0 = g
      BY <1>1
    <3> QED
      BY <2>4, <2>6, <2>7, <3>1
  <2> QED
    BY <1>1, <1>2, <1>3, <1>4, <1>5, <2>2, <2>8 DEF n
<1> QED
  BY <1>6, <1>7

(* The forward at the top of the first stack is that of the next backward: of *)
(* the undone ones, its microbatch is the first and its split the last.       *)
LEMMA TopIsMate ==
  ASSUME conf \in Conf, ~ conf.forwardOnly, NEW s \in Stage, NEW k \in Chunks,
         NEW q, IsSpQueue(q), q.ready # <<>>,
         NEW i \in Bs(s, k), QueueHolds(s, k, q, i)
  PROVE  \E p \in Fs(s, k) : p < i /\ Mate(s, i, p) /\ SpTop(q) = Key(Node(s, p))
<1> DEFINE m == Len(q.ready[1])
<1>1. /\ Cell(q, 1, m) /\ StackOf(q, 1)[m] = SpTop(q)
      /\ \A c : Cell(q, 1, c) => c \in Nat /\ c <= m
      /\ m \in Nat /\ 1 # Len(q.ready) + 1
  BY PopCells
<1> HIDE DEF m
<1>2. Fs(s, k) \subseteq Nat /\ Bs(s, k) \subseteq Nat
  BY ForwardTypes
<1>3. PICK p : Undone(s, k, p, i) /\ StackOf(q, 1)[m] = Key(Node(s, p))
  BY <1>1 DEF QueueHolds, OnlyUndone
<1>4. p \in Fs(s, k) /\ p < i /\ \A b \in Bs(s, k) : b < i => ~ Mate(s, b, p)
  BY <1>3 DEF Undone
<1>5. ~ Open(s, k, p, i)
  BY <1>1, <1>3, <1>4 DEF QueueHolds, LastIsOpen
<1>6. PICK n \in Fs(s, k) : Mate(s, i, n)
  BY Mates
<1>7. PICK y \in Bs(s, k) : Mate(s, y, p)
  BY <1>4, Mates
<1>8. SUFFICES ASSUME y # i PROVE FALSE
  BY <1>1, <1>3, <1>4, <1>7
<1>9. i < y
  BY <1>2, <1>4, <1>7, <1>8
<1>10. UndoneFirst(s, n, p)
  BY <1>4, <1>6, <1>7, <1>9, Mates
<1>11. /\ n < i
       /\ Mb(s, n) = Mb(s, p) => p < n
       /\ Mb(s, n) # Mb(s, p) => n < p
  BY <1>2, <1>4, <1>5, <1>10 DEF UndoneFirst, Open
<1>12. Undone(s, k, n, i)
  <2>1. ASSUME NEW b \in Bs(s, k), b < i, Mate(s, b, n) PROVE FALSE
    <3>1. b = i
      BY <1>6, <2>1, OneBackward
    <3> QED
      BY <1>2, <2>1, <3>1
  <2> QED
    BY <1>11, <2>1 DEF Undone
<1>13. PICK g, c : Cell(q, g, c) /\ StackOf(q, g)[c] = Key(Node(s, n))
  BY <1>12 DEF QueueHolds, AllUndone, InQueue
<1>14. g \in Nat /\ g >= 1
  BY <1>13 DEF Cell
<1>15. CASE g = 1
  <2>1. OrderedCells(s, k, q, 1, c, 1, m)
    BY <1>1, <1>13, <1>15 DEF QueueHolds, CellsInOrder
  <2>2. Mb(s, n) = Mb(s, p) /\ (c < m => n < p)
    BY <1>3, <1>4, <1>13, <1>15, <2>1 DEF OrderedCells
  <2>3. c = m => n = p
    BY <1>3, <1>4, <1>13, <1>15, OneForward
  <2>4. c \in Nat /\ c <= m
    BY <1>1, <1>13, <1>15
  <2> QED
    BY <1>1, <1>2, <1>4, <1>11, <2>2, <2>3, <2>4
<1>16. CASE g # 1
  <2>1. OrderedCells(s, k, q, 1, m, g, c) /\ 1 < g
    BY <1>1, <1>13, <1>14, <1>16 DEF QueueHolds, CellsInOrder
  <2>2. p < n /\ Mb(s, p) # Mb(s, n)
    BY <1>3, <1>4, <1>13, <2>1 DEF OrderedCells
  <2> QED
    BY <1>2, <1>4, <1>11, <2>2
<1> QED
  BY <1>15, <1>16

LEMMA PopHolds ==
  ASSUME conf \in Conf, ~ conf.forwardOnly, NEW s \in Stage, NEW k \in Chunks,
         NEW q, IsSpQueue(q), q.ready # <<>>,
         NEW i \in Bs(s, k), QueueHolds(s, k, q, i)
  PROVE  QueueHolds(s, k, SpPop(q), i + 1)
<1> DEFINE r == SpPop(q)
           m == Len(q.ready[1])
<1>1. /\ Cell(q, 1, m) /\ StackOf(q, 1)[m] = SpTop(q)
      /\ \A c : Cell(q, 1, c) => c \in Nat /\ c <= m
      /\ m \in Nat /\ Len(q.ready) \in Nat /\ r.tmp = q.tmp
      /\ \E e \in {0, 1} :
           /\ Len(r.ready) = Len(q.ready) - e
           /\ \A g, c : Cell(r, g, c) =>
                /\ g \in Nat /\ Cell(q, g + e, c) /\ ~ (g + e = 1 /\ c = m)
                /\ StackOf(r, g)[c] = StackOf(q, g + e)[c]
           /\ \A g, c : Cell(q, g, c) /\ ~ (g = 1 /\ c = m) =>
                g \in Nat /\ Cell(r, g - e, c) /\ StackOf(r, g - e)[c] = StackOf(q, g)[c]
  BY PopCells
<1> HIDE DEF r, m
<1>2. PICK e \in {0, 1} :
        /\ Len(r.ready) = Len(q.ready) - e
        /\ \A g, c : Cell(r, g, c) =>
             /\ g \in Nat /\ Cell(q, g + e, c) /\ ~ (g + e = 1 /\ c = m)
             /\ StackOf(r, g)[c] = StackOf(q, g + e)[c]
        /\ \A g, c : Cell(q, g, c) /\ ~ (g = 1 /\ c = m) =>
             g \in Nat /\ Cell(r, g - e, c) /\ StackOf(r, g - e)[c] = StackOf(q, g)[c]
  BY <1>1
<1>3. PICK p \in Fs(s, k) : p < i /\ Mate(s, i, p) /\ StackOf(q, 1)[m] = Key(Node(s, p))
  BY <1>1, TopIsMate
<1>4. Fs(s, k) \subseteq Nat /\ Bs(s, k) \subseteq Nat /\ i \notin Fs(s, k)
  BY ForwardTypes
<1>5. /\ \A j \in Fs(s, k) : j < i + 1 <=> j < i
      /\ \A b \in Bs(s, k) : b < i + 1 <=> b < i \/ b = i
  BY <1>4
<1>6. \A j \in Fs(s, k) : Mate(s, i, j) <=> j = p
  BY <1>3, OneForward
<1>7. \A j : Undone(s, k, j, i + 1) <=> Undone(s, k, j, i) /\ j # p
  BY <1>5, <1>6 DEF Undone
<1>8. OnlyUndone(s, k, r, i + 1)
  <2> SUFFICES ASSUME NEW g, NEW c, Cell(r, g, c)
               PROVE  \E j : Undone(s, k, j, i + 1) /\ StackOf(r, g)[c] = Key(Node(s, j))
    BY DEF OnlyUndone
  <2> DEFINE h == g + e
  <2>1. /\ Cell(q, h, c) /\ ~ (h = 1 /\ c = m)
        /\ StackOf(r, g)[c] = StackOf(q, h)[c]
    BY <1>2
  <2> HIDE DEF h
  <2>2. PICK j : Undone(s, k, j, i) /\ StackOf(q, h)[c] = Key(Node(s, j))
    BY <2>1 DEF QueueHolds, OnlyUndone
  <2>3. j # p
    <3> SUFFICES ASSUME j = p PROVE FALSE
      OBVIOUS
    <3>1. h \in Nat /\ h >= 1
      BY <2>1 DEF Cell
    <3>2. CASE h = 1
      <4>1. OrderedCells(s, k, q, 1, c, 1, m)
        BY <1>1, <2>1, <3>2 DEF QueueHolds, CellsInOrder
      <4>2. c < m => p < p
        BY <1>3, <2>2, <3>2, <4>1 DEF OrderedCells
      <4>3. c \in Nat /\ c <= m /\ c # m
        BY <1>1, <2>1, <3>2
      <4> QED
        BY <1>1, <1>4, <4>2, <4>3
    <3>3. CASE h # 1
      <4>1. OrderedCells(s, k, q, 1, m, h, c) /\ 1 < h
        BY <1>1, <2>1, <3>1, <3>3 DEF QueueHolds, CellsInOrder
      <4>2. p < p
        BY <1>3, <2>2, <4>1 DEF OrderedCells
      <4> QED
        BY <1>4, <4>2
    <3> QED
      BY <3>2, <3>3
  <2> QED
    BY <1>7, <2>1, <2>2, <2>3
<1>9. AllUndone(s, k, r, i + 1)
  <2> SUFFICES ASSUME NEW j, Undone(s, k, j, i + 1) PROVE InQueue(s, r, j)
    BY DEF AllUndone
  <2>1. Undone(s, k, j, i) /\ j # p /\ j \in Fs(s, k)
    BY <1>7 DEF Undone
  <2>2. PICK g, c : Cell(q, g, c) /\ StackOf(q, g)[c] = Key(Node(s, j))
    BY <2>1 DEF QueueHolds, AllUndone, InQueue
  <2>3. ~ (g = 1 /\ c = m)
    BY <1>3, <2>1, <2>2, OneForward
  <2>4. Cell(r, g - e, c) /\ StackOf(r, g - e)[c] = Key(Node(s, j))
    BY <1>2, <2>2, <2>3
  <2> QED
    BY <2>4 DEF InQueue
<1>10. CellsInOrder(s, k, r)
  <2> SUFFICES ASSUME NEW g, NEW c, Cell(r, g, c), NEW h, NEW d, Cell(r, h, d)
               PROVE  OrderedCells(s, k, r, g, c, h, d)
    BY DEF CellsInOrder
  <2>1. /\ g \in Nat /\ Cell(q, g + e, c) /\ StackOf(r, g)[c] = StackOf(q, g + e)[c]
        /\ h \in Nat /\ Cell(q, h + e, d) /\ StackOf(r, h)[d] = StackOf(q, h + e)[d]
    BY <1>2
  <2>2. OrderedCells(s, k, q, g + e, c, h + e, d)
    BY <2>1 DEF QueueHolds, CellsInOrder
  <2>3. /\ g < h <=> g + e < h + e
        /\ g = h <=> g + e = h + e
    BY <2>1
  <2> QED
    BY <2>1, <2>2, <2>3 DEF OrderedCells
<1>11. \A j : Open(s, k, j, i + 1) <=> Open(s, k, j, i)
  BY <1>5 DEF Open
<1>12. LastIsOpen(s, k, r, i + 1)
  <2> SUFFICES ASSUME NEW g, NEW c, Cell(r, g, c), NEW j \in Fs(s, k),
                      StackOf(r, g)[c] = Key(Node(s, j))
               PROVE  Open(s, k, j, i + 1) <=> g = Len(r.ready) + 1
    BY DEF LastIsOpen
  <2>1. g \in Nat /\ Cell(q, g + e, c) /\ StackOf(q, g + e)[c] = Key(Node(s, j))
    BY <1>2
  <2>2. Open(s, k, j, i) <=> g + e = Len(q.ready) + 1
    BY <2>1 DEF QueueHolds, LastIsOpen
  <2>3. g + e = Len(q.ready) + 1 <=> g = Len(r.ready) + 1
    <3>1. Len(r.ready) = Len(q.ready) - e /\ Len(q.ready) \in Nat
      BY <1>1, <1>2
    <3> QED
      BY <2>1, <3>1
  <2> QED
    BY <1>11, <2>2, <2>3
<1>13. OpenIsLast(s, k, r, i + 1)
  BY <1>1, <1>5, <1>11 DEF QueueHolds, OpenIsLast
<1>14. MatesDone(s, k, i + 1)
  BY <1>3, <1>5 DEF QueueHolds, MatesDone
<1> QED
  BY <1>8, <1>9, <1>10, <1>12, <1>13, <1>14 DEF QueueHolds, r

-------------------------------------------------------------------------------
(* The steps.                                                                 *)

(* A node that is not of the chunk leaves its queue.                          *)
LEMMA NotInChunk ==
  ASSUME conf \in Conf, NEW s \in Stage, NEW k, NEW q, NEW i \in Nat,
         i \notin Fs(s, k), i \notin Bs(s, k), QueueHolds(s, k, q, i)
  PROVE  QueueHolds(s, k, q, i + 1)
<1>1. /\ \A j \in Fs(s, k) : j < i + 1 <=> j < i
      /\ \A b \in Bs(s, k) : b < i + 1 <=> b < i
  BY ForwardTypes
<1>2. \A j : Undone(s, k, j, i + 1) <=> Undone(s, k, j, i)
  BY <1>1 DEF Undone
<1>3. \A j : Open(s, k, j, i + 1) <=> Open(s, k, j, i)
  BY <1>1 DEF Open
<1>4. OnlyUndone(s, k, q, i + 1) /\ AllUndone(s, k, q, i + 1)
  BY <1>2 DEF QueueHolds, OnlyUndone, AllUndone
<1>5. LastIsOpen(s, k, q, i + 1)
  BY <1>3 DEF QueueHolds, LastIsOpen
<1>6. OpenIsLast(s, k, q, i + 1)
  BY <1>1, <1>3 DEF QueueHolds, OpenIsLast
<1>7. MatesDone(s, k, i + 1)
  BY <1>1 DEF QueueHolds, MatesDone
<1> QED
  BY <1>4, <1>5, <1>6, <1>7 DEF QueueHolds

LEMMA ChunkOfNode ==
  ASSUME Inv, NEW s \in Stage, NEW i \in Live(conf, s),
         Node(s, i).type \in {"F", "B", "BW"}
  PROVE  /\ Node(s, i).chunk \in Chunks
         /\ Node(s, i).type = "F" => /\ i \in Fs(s, Node(s, i).chunk)
                                     /\ \A k \in Chunks : i \notin Bs(s, k)
         /\ Node(s, i).type # "F" => /\ i \in Bs(s, Node(s, i).chunk) /\ ~ conf.forwardOnly
                                     /\ \A k \in Chunks : i \notin Fs(s, k)
         /\ \A k \in Chunks : k # Node(s, i).chunk => i \notin Fs(s, k) /\ i \notin Bs(s, k)
<1>1. Node(s, i) \in Nodes
  BY StageFacts, NodeIsNode
<1>2. ~ SkippedIn(conf, Node(s, i))
  BY DEF Live, Node
<1>3. Node(s, i).type # "F" => ~ conf.forwardOnly
  BY <1>2 DEF SkippedIn
<1> QED
  BY <1>1, <1>3 DEF Nodes, Fs, Bs, ForwardsOf, BackwardsOf, IsBackward, Node

LEMMA NotComputing ==
  ASSUME Inv, NEW s \in Stage, NEW i \in Nat, NEW k,
         i \in Live(conf, s) => Node(s, i).type \notin {"F", "B", "BW"}
  PROVE  i \notin Fs(s, k) /\ i \notin Bs(s, k)
BY DEF Fs, Bs, ForwardsOf, BackwardsOf, IsBackward, Node

(* A computation does to the queue of its chunk what its place in the order   *)
(* asks for.                                                                  *)
LEMMA ComputesQueue ==
  ASSUME Inv, ActivationsOK, ~ conf.forwardOnly, NEW s \in Stage, Computes(s), NEW k \in Chunks
  PROVE  QueueHolds(s, k, acts'[s][k], it[s] + 1)
<1> DEFINE i == it[s]
           n == Node(s, i)
           q == acts[s][k]
<1>1. /\ i \in Live(conf, s) /\ n.type \in {"F", "B", "BW"} /\ i \in Nat /\ conf \in Conf
      /\ n.type = "F" => acts' = [acts EXCEPT ![s][n.chunk] = SpPush(acts[s][n.chunk], Key(n))]
      /\ n.type # "F" => /\ acts[s][n.chunk].ready # <<>>
                         /\ acts' = [acts EXCEPT ![s][n.chunk] = SpPop(acts[s][n.chunk])]
  BY StageFacts DEF Computes
<1>2. QueueHolds(s, k, q, i) /\ IsSpQueue(q)
  BY DEF ActivationsOK, Inv, StacksFull
<1>3. acts \in [Stage -> [Chunks -> SpQueues]]
  BY DEF Inv, TypeOK, SpQueues
<1>4. CASE k # n.chunk
  <2>1. acts'[s][k] = q
    BY <1>1, <1>3, <1>4
  <2>2. i \notin Fs(s, k) /\ i \notin Bs(s, k)
    BY <1>1, <1>4, ChunkOfNode
  <2> QED
    BY <1>1, <1>2, <2>1, <2>2, NotInChunk
<1>5. CASE k = n.chunk /\ n.type = "F"
  <2>1. acts'[s][k] = SpPush(q, Key(n))
    BY <1>1, <1>3, <1>5
  <2>2. i \in Fs(s, k) /\ q \in SpQueues
    BY <1>1, <1>3, <1>5, ChunkOfNode
  <2> QED
    BY <1>1, <1>2, <2>1, <2>2, PushHolds
<1>6. CASE k = n.chunk /\ n.type # "F"
  <2>1. acts'[s][k] = SpPop(q) /\ q.ready # <<>>
    BY <1>1, <1>3, <1>6
  <2>2. i \in Bs(s, k)
    BY <1>1, <1>6, ChunkOfNode
  <2> QED
    BY <1>1, <1>2, <2>1, <2>2, PopHolds
<1> QED
  BY <1>4, <1>5, <1>6

(* A step of the runtime, as the queues of the chunks see it.                 *)
RuntimeStep ==
  \/ Waits
  \/ \E s \in Stage : Passes(s) \/ Computes(s) \/ Adds(s)
  \/ \E s, t \in Stage : \E i \in DOMAIN Order(s), j \in DOMAIN Order(t) : Transfers(s, t, i, j)

LEMMA ActivationsKept == Inv /\ ActivationsOK /\ RuntimeStep => ActivationsOK'
<1> SUFFICES ASSUME Inv, ActivationsOK, RuntimeStep, ~ conf.forwardOnly PROVE ActivationsOK'
  <2>1. RuntimeStep => conf' = conf
    BY DEF RuntimeStep, Waits, Passes, Computes, Adds, Transfers
  <2> QED
    BY <2>1 DEF ActivationsOK
<1>1. conf' = conf
  BY DEF RuntimeStep, Waits, Passes, Computes, Adds, Transfers
<1>2. ASSUME NEW s \in Stage, NEW k \in Chunks, QueueHolds(s, k, acts'[s][k], it'[s])
      PROVE  QueueHolds(s, k, acts[s][k], it[s])'
  BY <1>1, <1>2
     DEF QueueHolds, OnlyUndone, AllUndone, CellsInOrder, OrderedCells, LastIsOpen, OpenIsLast, MatesDone,
         Undone, InQueue, Open, Cell, StackOf, Fs, Bs, Mb, Mate, Node
<1>3. SUFFICES ASSUME NEW s \in Stage, NEW k \in Chunks
               PROVE  QueueHolds(s, k, acts'[s][k], it'[s])
  BY <1>1, <1>2 DEF ActivationsOK
<1>4. QueueHolds(s, k, acts[s][k], it[s]) /\ it[s] \in Nat /\ conf \in Conf
  BY StageFacts DEF ActivationsOK
<1>5. CASE UNCHANGED <<it, acts>>
  BY <1>4, <1>5
<1>6. ASSUME NEW u \in Stage, Passes(u) \/ Adds(u)
      PROVE  QueueHolds(s, k, acts'[s][k], it'[s])
  <2>1. /\ acts' = acts /\ Advance(u)
        /\ it[u] \in Live(conf, u) => Node(u, it[u]).type \notin {"F", "B", "BW"}
    BY <1>6 DEF Passes, Adds, LiveComm, CommTypes, SendTypes, RecvTypes
  <2>2. CASE u = s
    <3>1. it[s] \notin Fs(s, k) /\ it[s] \notin Bs(s, k)
      BY <1>4, <2>1, <2>2, NotComputing
    <3> QED
      BY <1>4, <2>1, <2>2, <3>1, AdvancedStage, NotInChunk
  <2>3. CASE u # s
    BY <1>4, <2>1, <2>3, AdvancedStage
  <2> QED
    BY <2>2, <2>3
<1>7. ASSUME NEW u \in Stage, Computes(u)
      PROVE  QueueHolds(s, k, acts'[s][k], it'[s])
  <2>1. Advance(u)
    BY <1>7 DEF Computes
  <2>2. CASE u = s
    BY <1>7, <2>1, <2>2, AdvancedStage, ComputesQueue
  <2>3. CASE u # s
    <3>1. acts'[s] = acts[s]
      BY <1>7, <2>3 DEF Computes, Inv, TypeOK
    <3> QED
      BY <1>4, <2>1, <2>3, <3>1, AdvancedStage
  <2> QED
    BY <2>2, <2>3
<1> QED
  BY <1>5, <1>6, <1>7 DEF RuntimeStep, Waits, Transfers

LEMMA ActivationsStep == Inv /\ ActivationsOK /\ [Next]_vars => ActivationsOK'
BY StepCases, ActivationsKept DEF RuntimeStep

LEMMA ActivationsInit == Init => ActivationsOK
<1> SUFFICES ASSUME Init, NEW s \in Stage, NEW k \in Chunks
             PROVE  QueueHolds(s, k, acts[s][k], it[s])
  BY DEF ActivationsOK
<1>1. Inv /\ conf \in Conf /\ it[s] = 1
  BY InitInv DEF Init
<1>2. acts[s][k].ready = <<>> /\ acts[s][k].tmp = <<>>
  BY DEF Init
<1>3. \A i \in Live(conf, s) : ~ i < 1
  BY <1>1, StageFacts
<1>4. /\ \A j \in Fs(s, k) : ~ j < it[s]
      /\ \A i \in Bs(s, k) : ~ i < it[s]
  BY <1>1, <1>3, ForwardTypes
<1>5. \A g, c : ~ Cell(acts[s][k], g, c)
  BY <1>2 DEF Cell, StackOf
<1> QED
  BY <1>4, <1>5 DEF QueueHolds, OnlyUndone, AllUndone, CellsInOrder, LastIsOpen, OpenIsLast, MatesDone, Undone

LEMMA RightActivationStep ==
  Inv /\ ActivationsOK /\ RightActivation /\ [Next]_vars => RightActivation'
<1> DEFINE Right(x, s, i) == x = MakeKey("F", Node(s, i).lg, Node(s, i).mb, Node(s, i).seq)
<1> SUFFICES ASSUME Inv, ActivationsOK, RightActivation, [Next]_vars,
                    NEW s \in Stage, NEW i \in Executed(s, {"B", "BW"})'
             PROVE  Right(saved'[s][i], s, i)
  <2>1. Inv /\ [Next]_vars => conf' = conf
    BY StepCases DEF Waits, Passes, Computes, Adds, Transfers
  <2> QED
    BY <2>1 DEF RightActivation, Node
<1>1. CASE i \in Executed(s, {"B", "BW"})
  <2>1. i \in Executed(s, {"F", "B", "BW"})
    BY <1>1 DEF Executed
  <2>2. saved'[s][i] = saved[s][i]
    BY <2>1, OperandStays
  <2> QED
    BY <1>1, <2>2 DEF RightActivation
<1>2. CASE i = it[s] /\ Computes(s) /\ Node(s, i).type \in {"B", "BW"}
  <2> DEFINE n == Node(s, i)
             q == acts[s][n.chunk]
  <2>1. /\ i \in Live(conf, s) /\ i \in DOMAIN Order(s) /\ conf \in Conf
        /\ saved' = [saved EXCEPT ![s][i] = SpTop(q)] /\ q.ready # <<>>
    BY <1>2, StageFacts DEF Computes
  <2>2. n.chunk \in Chunks /\ i \in Bs(s, n.chunk) /\ ~ conf.forwardOnly
    BY <1>2, <2>1, ChunkOfNode
  <2>3. QueueHolds(s, n.chunk, q, i) /\ IsSpQueue(q)
    BY <1>2, <2>2 DEF ActivationsOK, Inv, StacksFull
  <2>4. PICK p \in Fs(s, n.chunk) : Mate(s, i, p) /\ SpTop(q) = Key(Node(s, p))
    BY <2>1, <2>2, <2>3, TopIsMate
  <2>5. Node(s, p).type = "F"
    BY <2>1, ForwardTypes
  <2>6. saved'[s][i] = SpTop(q)
    BY <2>1 DEF Inv, TypeOK, PerNode
  <2> QED
    BY <2>4, <2>5, <2>6 DEF Key, Mate, SamePass, Node
<1> QED
  BY <1>1, <1>2, ExecutedNext

(* A backward runs on the activations of its own forward: for orders whose    *)
(* backwards undo the forwards of each chunk microbatch by microbatch, the    *)
(* split that came last first, the queue of stacks hands every backward the   *)
(* tensors that its own forward saved.                                        *)
THEOREM ActivationsRight == Spec => []RightActivation
<1>1. Init => Inv /\ ActivationsOK /\ RightActivation
  <2>1. ASSUME Init PROVE RightActivation
    <3>1. \A s \in Stage : it[s] = 1 /\ \A i \in DOMAIN Order(s) : ~ i < 1
      BY <2>1, InitInv, StageFacts DEF Init
    <3> QED
      BY <3>1 DEF RightActivation, Executed
  <2> QED
    BY <2>1, InitInv, ActivationsInit
<1>2. Inv /\ ActivationsOK /\ RightActivation /\ [Next]_vars =>
        Inv' /\ ActivationsOK' /\ RightActivation'
  BY NextStep, ActivationsStep, RightActivationStep
<1> QED
  BY <1>1, <1>2, PTL DEF Spec

===============================================================================
