------------------------ MODULE ActivationMemory_proofs ------------------------
(* For every even number of stages, every set of orders that the runtime can  *)
(* execute and whose copies are paired, and every pace of the stages, of the  *)
(* network and of the copies: two stages that share a path to the host never  *)
(* copy in the same direction at once (PathKeptApart), and every backward     *)
(* finds the activations of its own forward (OwnActivationsFound).            *)
(*                                                                            *)
(* Path: the events order the copies of different exchanges.  What a stage    *)
(* sends at an exchange comes after all that it has enqueued before, so that  *)
(* a copy of the other stage that follows this exchange waits for those.  Two *)
(* copies of one exchange go in different directions because the order says   *)
(* so.                                                                        *)
(*                                                                            *)
(* Activations: a store is in one place of one pool, in a state that suits    *)
(* the place; the forwards that are done and whose backwards are not have     *)
(* each a store of their own, which carries their activations in the buffer   *)
(* that counts in its state; and the forwards to be recomputed wait in the    *)
(* order in which they are recomputed.  What a backward pops names its own    *)
(* forward (OperandMatching_proofs), and so its store.                        *)
EXTENDS ActivationMemory, OperandMatching_proofs

IsSequence(q) == \E A : q \in Seq(A)

TransferTypes ==
  /\ conf \in Conf
  /\ DOMAIN copies = Stage /\ \A s \in Stage : IsSequence(copies[s])
  /\ running \in [Stage -> BOOLEAN]
  /\ copied \in [Stage -> Nat]
  /\ handles \in [Stage -> Seq(Nat)]

(* Both events of its exchange have been sent; it is of a node of the order   *)
(* that stands at that exchange; and the events sent at later exchanges come  *)
(* after it.                                                                  *)
CopyOK(s, p) ==
  LET c == copies[s][p]
  IN  /\ c.exchange \in DOMAIN handles[s] \cap DOMAIN handles[PairedRank(s)]
      /\ c.type \in CopyStarts
      /\ \E i \in DOMAIN Order(s) :
           c.type = Node(s, i).type /\ c.exchange = BarriersBefore(conf, s, i) + 1
      /\ \A k \in DOMAIN handles[s] : k > c.exchange => handles[s][k] >= copied[s] + p

(* The event that a running copy waits for is over.                           *)
StartOK(s) ==
  running[s] => /\ copies[s] # <<>>
                /\ copied[PairedRank(s)] >= handles[PairedRank(s)][copies[s][1].exchange]

PathInv ==
  /\ TransferTypes
  /\ \A s \in Stage : StartOK(s) /\ \A p \in DOMAIN copies[s] : CopyOK(s, p)

-------------------------------------------------------------------------------
(* Facts about pairs, sequences and counts.                                   *)

(* The stages come in pairs.                                                  *)
LEMMA Pairs ==
  ASSUME NEW s \in Stage
  PROVE  PairedRank(s) \in Stage /\ PairedRank(PairedRank(s)) = s /\ PairedRank(s) # s
<1>1. N \in Nat /\ s \in Int /\ 0 <= s /\ s < N
  BY ConstantsOK DEF Stage
<1>2. CASE s % 2 = 0
  <2>1. s + 1 < N /\ (s + 1) % 2 # 0
    BY <1>1, <1>2, StagesPaired
  <2> QED BY <1>1, <1>2, <2>1 DEF Stage, PairedRank
<1>3. CASE s % 2 # 0
  <2>1. s - 1 >= 0 /\ (s - 1) % 2 = 0
    BY <1>1, <1>3
  <2> QED BY <1>1, <1>3, <2>1 DEF Stage, PairedRank
<1> QED BY <1>2, <1>3

(* A sequence of whatever elements.                                           *)
LEMMA SequenceFacts ==
  ASSUME NEW q, IsSequence(q)
  PROVE  /\ Len(q) \in Nat /\ DOMAIN q = 1 .. Len(q)
         /\ q # <<>> => 1 \in DOMAIN q /\ Head(q) = q[1]
BY DEF IsSequence

(* Adding to it, and taking its first element away.                           *)
LEMMA SequenceOps ==
  ASSUME NEW q, IsSequence(q), NEW c
  PROVE  /\ IsSequence(Append(q, c)) /\ DOMAIN Append(q, c) = 1 .. Len(q) + 1
         /\ \A p \in DOMAIN q : Append(q, c)[p] = q[p]
         /\ Append(q, c)[Len(q) + 1] = c
         /\ q # <<>> => /\ IsSequence(Tail(q)) /\ DOMAIN Tail(q) = 1 .. Len(q) - 1
                        /\ \A p \in DOMAIN Tail(q) : Tail(q)[p] = q[p + 1]
<1>1. PICK A : q \in Seq(A)
  BY DEF IsSequence
<1> DEFINE B == A \cup {c}
<1>2. q \in Seq(B)
  BY <1>1, SeqDef
<1>3. c \in B
  OBVIOUS
<1> HIDE DEF B
<1>4. Append(q, c) \in Seq(B) /\ Len(Append(q, c)) = Len(q) + 1 /\ Len(q) \in Nat
  BY <1>2, <1>3
<1>5. q # <<>> => Tail(q) \in Seq(B) /\ Len(Tail(q)) = Len(q) - 1
  BY <1>2
<1> QED BY <1>2, <1>3, <1>4, <1>5 DEF IsSequence

LEMMA BarriersCounted ==
  ASSUME NEW f, NEW s, NEW i \in Int
  PROVE  BarriersBefore(f, s, i) \in Nat
<1>1. IsFiniteSet(1 .. i - 1)
  BY FS_Interval
<1>2. IsFiniteSet({j \in 1 .. i - 1 : f.order[s][j].type \in BarrierTypes})
  BY <1>1, FS_Subset
<1> QED BY <1>2, FS_CardinalityType DEF BarriersBefore

(* Two copies of one exchange of a pair go in different directions.           *)
LEMMA SameExchange ==
  ASSUME conf \in Conf, NEW s \in Stage,
         NEW i \in DOMAIN Order(s), NEW j \in DOMAIN Order(PairedRank(s)),
         Node(s, i).type \in CopyStarts, Node(PairedRank(s), j).type \in CopyStarts,
         BarriersBefore(conf, s, i) = BarriersBefore(conf, PairedRank(s), j)
  PROVE  Node(s, i).type # Node(PairedRank(s), j).type
BY CopiesPaired DEF Order, Node

(* A position of an order is a number.                                        *)
LEMMA PositionIsInt ==
  ASSUME conf \in Conf, NEW s \in Stage, NEW i \in DOMAIN Order(s)
  PROVE  i \in Int
<1>1. Order(s) \in Seq(Nodes)
  BY ConfOK DEF IsConf, Order
<1> QED BY <1>1

-------------------------------------------------------------------------------
(* The invariant implies the property.                                        *)

(* If a copy comes at an earlier exchange than the running copy of the other  *)
(* stage, then it is over.                                                    *)
LEMMA EarlierIsOver ==
  ASSUME PathInv, NEW s \in Stage, running[s], running[PairedRank(s)]
  PROVE  ~ (copies[s][1].exchange < copies[PairedRank(s)][1].exchange)
<1> DEFINE r == PairedRank(s)
<1>1. r \in Stage /\ PairedRank(r) = s
  BY Pairs
<1>2. 1 \in DOMAIN copies[s] /\ 1 \in DOMAIN copies[r]
  BY <1>1, SequenceFacts DEF PathInv, StartOK, TransferTypes
<1>3. CopyOK(s, 1) /\ CopyOK(r, 1) /\ StartOK(r)
  BY <1>1, <1>2 DEF PathInv
<1>4. SUFFICES ASSUME copies[s][1].exchange < copies[r][1].exchange PROVE FALSE
  OBVIOUS
<1>5. copies[r][1].exchange \in DOMAIN handles[s]
  BY <1>1, <1>3 DEF CopyOK
<1>6. handles[s] \in Seq(Nat) /\ copied[s] \in Nat
  BY DEF PathInv, TransferTypes
<1>7. copies[s][1].exchange \in Int /\ copies[r][1].exchange \in Int
  BY <1>3, <1>5, <1>6 DEF CopyOK
<1>8. handles[s][copies[r][1].exchange] >= copied[s] + 1
  BY <1>3, <1>4, <1>5, <1>7 DEF CopyOK
<1>9. copied[s] >= handles[s][copies[r][1].exchange]
  BY <1>1, <1>3 DEF StartOK
<1>10. handles[s][copies[r][1].exchange] \in Nat
  BY <1>5, <1>6
<1> QED BY <1>6, <1>8, <1>9, <1>10

LEMMA PathSuffices == PathInv => PathShared
<1> SUFFICES ASSUME PathInv, NEW s \in Stage, running[s], running[PairedRank(s)]
             PROVE  Head(copies[s]).type # Head(copies[PairedRank(s)]).type
  BY DEF PathShared
<1> DEFINE r == PairedRank(s)
<1>1. r \in Stage /\ PairedRank(r) = s
  BY Pairs
<1>2. /\ 1 \in DOMAIN copies[s] /\ Head(copies[s]) = copies[s][1]
      /\ 1 \in DOMAIN copies[r] /\ Head(copies[r]) = copies[r][1]
  BY <1>1, SequenceFacts DEF PathInv, StartOK, TransferTypes
<1>3. CopyOK(s, 1) /\ CopyOK(r, 1)
  BY <1>1, <1>2 DEF PathInv
<1>4. handles[s] \in Seq(Nat) /\ handles[r] \in Seq(Nat)
  BY <1>1 DEF PathInv, TransferTypes
<1>5. copies[s][1].exchange \in Int /\ copies[r][1].exchange \in Int
  BY <1>3, <1>4 DEF CopyOK
<1>6. copies[s][1].exchange = copies[r][1].exchange
  <2>1. ~ (copies[s][1].exchange < copies[r][1].exchange)
    BY EarlierIsOver
  <2>2. ~ (copies[r][1].exchange < copies[s][1].exchange)
    BY <1>1, EarlierIsOver
  <2> QED BY <1>5, <2>1, <2>2
<1>7. PICK i \in DOMAIN Order(s) :
        copies[s][1].type = Node(s, i).type
        /\ copies[s][1].exchange = BarriersBefore(conf, s, i) + 1
  BY <1>3 DEF CopyOK
<1>8. PICK j \in DOMAIN Order(r) :
        copies[r][1].type = Node(r, j).type
        /\ copies[r][1].exchange = BarriersBefore(conf, r, j) + 1
  BY <1>3 DEF CopyOK
<1>9. BarriersBefore(conf, s, i) \in Nat /\ BarriersBefore(conf, r, j) \in Nat
  BY <1>1, PositionIsInt, BarriersCounted DEF PathInv, TransferTypes
<1>10. BarriersBefore(conf, s, i) = BarriersBefore(conf, r, j)
  <2>1. BarriersBefore(conf, s, i) + 1 = BarriersBefore(conf, r, j) + 1
    BY <1>6, <1>7, <1>8
  <2> QED BY <1>9, <2>1
<1>11. Node(s, i).type # Node(r, j).type
  BY <1>3, <1>7, <1>8, <1>10, SameExchange DEF CopyOK, PathInv, TransferTypes
<1> QED BY <1>2, <1>7, <1>8, <1>11

-------------------------------------------------------------------------------
(* The invariant holds at first, and every step preserves it.                 *)

LEMMA PathInit == MemoryInit => PathInv
<1> SUFFICES ASSUME MemoryInit PROVE PathInv
  OBVIOUS
<1>1. /\ DOMAIN copies = Stage /\ \A s \in Stage : copies[s] = <<>> /\ ~ running[s]
      /\ conf \in Conf
  BY DEF MemoryInit, Init
<1>2. /\ running \in [Stage -> BOOLEAN] /\ copied \in [Stage -> Nat]
      /\ handles \in [Stage -> Seq(Nat)]
  BY DEF MemoryInit
<1>3. IsSequence(<<>>) /\ DOMAIN <<>> = {}
  BY DEF IsSequence
<1> QED BY <1>1, <1>2, <1>3 DEF PathInv, TransferTypes, StartOK

(* A step that touches no copy and no event.                                  *)
LEMMA NoTransfer ==
  ASSUME PathInv, UNCHANGED transfer, conf' = conf
  PROVE  PathInv'
BY DEF PathInv, TransferTypes, StartOK, CopyOK, transfer, Order, Node

(* The runtime does not change its configuration.                             *)
LEMMA ConfKept == ASSUME MemoryNext PROVE conf' = conf
<1>1. ASSUME NEW s \in Stage, Raise(s) \/ Skip(s) PROVE conf' = conf
  BY <1>1 DEF Raise, Skip
<1>2. ASSUME NEW s \in Stage, Forward(s) PROVE conf' = conf
  BY <1>1, <1>2 DEF Forward, ForwardF
<1>3. ASSUME NEW s \in Stage, Backward(s) PROVE conf' = conf
  BY <1>1, <1>3 DEF Backward, BackwardB
<1>4. ASSUME NEW s \in Stage, Recompute(s) PROVE conf' = conf
  BY <1>1, <1>4 DEF Recompute
<1>5. ASSUME NEW s \in Stage, Release(s) PROVE conf' = conf
  BY <1>1, <1>5 DEF Release
<1>6. ASSUME NEW s \in Stage, SendEvent(s) PROVE conf' = conf
  BY <1>1, <1>6 DEF SendEvent, vars
<1>7. ASSUME NEW s \in Stage, ReceiveEvent(s) PROVE conf' = conf
  BY <1>1, <1>7 DEF ReceiveEvent
<1>8. ASSUME NEW s \in Stage, BeginCopy(s) \/ EndCopy(s) PROVE conf' = conf
  BY <1>8 DEF BeginCopy, EndCopy, vars
<1>9. ASSUME NEW s \in Stage, Other(s) PROVE conf' = conf
  BY <1>1, <1>9 DEF Other, WeightW, AddCommunication
<1>10. ASSUME NEW s \in Stage, FinishEmpty(s) PROVE conf' = conf
  BY <1>1, <1>10 DEF FinishEmpty, Finish
<1>11. ASSUME NEW s \in Stage, NEW t \in Stage, Transfer(s, t) PROVE conf' = conf
  BY <1>11 DEF Transfer
<1> QED
  BY <1>2, <1>3, <1>4, <1>5, <1>6, <1>7, <1>8, <1>9, <1>10, <1>11 DEF MemoryNext, vars

(* The event that a stage sends comes after all that it has enqueued.         *)
LEMMA SendEventStep ==
  ASSUME PathInv, NEW s \in Stage, SendEvent(s), conf' = conf
  PROVE  PathInv'
<1>1. CASE UNCHANGED transfer
  BY <1>1, NoTransfer
<1>2. CASE /\ handles' = [handles EXCEPT ![s] = Append(@, LastEvent(s))]
           /\ UNCHANGED <<copies, running, copied>>
  <2>1. /\ LastEvent(s) = copied[s] + Len(copies[s]) /\ LastEvent(s) \in Nat
        /\ Len(copies[s]) \in Nat /\ copied[s] \in Nat
    BY SequenceFacts DEF LastEvent, PathInv, TransferTypes
  <2>2. handles' \in [Stage -> Seq(Nat)]
    BY <1>2, <2>1 DEF PathInv, TransferTypes
  <2>3. TransferTypes'
    BY <1>2, <2>2 DEF PathInv, TransferTypes
  <2>4. ASSUME NEW t \in Stage
        PROVE  /\ DOMAIN handles[t] \subseteq DOMAIN handles'[t]
               /\ \A k \in DOMAIN handles[t] : handles'[t][k] = handles[t][k]
               /\ \A k \in DOMAIN handles'[t] : 
                    k \notin DOMAIN handles[t] => t = s /\ handles'[t][k] = LastEvent(s)
    BY <1>2, <2>1 DEF PathInv, TransferTypes
  <2>5. ASSUME NEW t \in Stage PROVE StartOK(t)'
    <3>1. StartOK(t) /\ PairedRank(t) \in Stage
      BY Pairs DEF PathInv
    <3>2. ASSUME running[t]
          PROVE copies[t][1].exchange \in DOMAIN handles[PairedRank(t)]
      BY <3>1, <3>2, SequenceFacts DEF PathInv, TransferTypes, StartOK, CopyOK
    <3> QED BY <1>2, <2>4, <3>1, <3>2 DEF StartOK
  <2>6. ASSUME NEW t \in Stage, NEW p \in DOMAIN copies[t] PROVE CopyOK(t, p)'
    <3>1. CopyOK(t, p) /\ PairedRank(t) \in Stage
      BY Pairs DEF PathInv
    <3>2. p \in 1 .. Len(copies[t]) /\ Len(copies[t]) \in Nat
      BY SequenceFacts DEF PathInv, TransferTypes
    <3>3. ASSUME NEW k \in DOMAIN handles'[t], k > copies[t][p].exchange
          PROVE  handles'[t][k] >= copied[t] + p
      <4>1. CASE k \in DOMAIN handles[t]
        BY <2>4, <3>1, <3>3, <4>1 DEF CopyOK
      <4>2. CASE k \notin DOMAIN handles[t]
        BY <2>1, <2>4, <3>2, <4>2
      <4> QED BY <4>1, <4>2
    <3> QED BY <1>2, <2>4, <3>1, <3>3 DEF CopyOK, Order, Node
  <2> QED BY <1>2, <2>3, <2>5, <2>6 DEF PathInv
<1> QED BY <1>1, <1>2 DEF SendEvent, memory, transfer

(* A new copy is the last of its stage, and no event has been sent since its  *)
(* exchange.                                                                  *)
LEMMA ReceiveEventStep ==
  ASSUME PathInv, NEW s \in Stage, ReceiveEvent(s), conf' = conf
  PROVE  PathInv'
<1>1. CASE UNCHANGED transfer
  BY <1>1, NoTransfer
<1>2. CASE ~ UNCHANGED transfer
  <2> DEFINE i == it[s]
             k == Exchanges(s) + 1
             c == [store |-> StoreAt(s, Node(s, i)), type |-> Node(s, i).type, exchange |-> k]
             q == copies[s]
  <2>1. /\ i \in DOMAIN Order(s) /\ Node(s, i).type \in CopyStarts
        /\ Len(handles[s]) = k /\ k \in DOMAIN handles[PairedRank(s)]
        /\ copies' = [copies EXCEPT ![s] = Append(q, c)]
        /\ UNCHANGED <<running, copied, handles>>
    BY <1>2 DEF ReceiveEvent, AtNode, ExchangeTypes, BarrierTypes, transfer, kept
  <2>2. /\ IsSequence(Append(q, c)) /\ DOMAIN Append(q, c) = 1 .. Len(q) + 1
        /\ \A p \in DOMAIN q : Append(q, c)[p] = q[p]
        /\ Append(q, c)[Len(q) + 1] = c
        /\ Len(q) \in Nat /\ DOMAIN q = 1 .. Len(q)
    BY SequenceOps, SequenceFacts DEF PathInv, TransferTypes
  <2>3. /\ copies'[s] = Append(q, c)
        /\ \A t \in Stage : t # s => copies'[t] = copies[t]
    BY <2>1 DEF PathInv, TransferTypes
  <2>4. TransferTypes'
    BY <2>1, <2>2, <2>3 DEF PathInv, TransferTypes
  <2>5. c.type = Node(s, i).type /\ c.exchange = k
    OBVIOUS
  <2>6. k = BarriersBefore(conf, s, i) + 1
    BY DEF Exchanges, BarriersBefore, ExchangeTypes, Node
  <2> HIDE DEF c, k, i
  <2>7. ASSUME NEW t \in Stage PROVE StartOK(t)'
    <3>1. StartOK(t)
      BY DEF PathInv
    <3>2. ASSUME copies[t] # <<>>
          PROVE  copies'[t] # <<>> /\ copies'[t][1] = copies[t][1]
      <4>1. 1 \in DOMAIN copies[t]
        BY <3>2, SequenceFacts DEF PathInv, TransferTypes
      <4>2. CASE t = s
        <5>1. 1 \in DOMAIN q /\ copies'[s][1] = q[1]
          BY <2>2, <2>3, <4>1, <4>2
        <5>2. DOMAIN copies'[s] = 1 .. Len(q) + 1 /\ Len(q) \in Nat
          BY <2>2, <2>3
        <5>3. 1 \in DOMAIN copies'[s]
          BY <5>2
        <5> QED BY <4>2, <5>1, <5>3
      <4>3. CASE t # s
        BY <2>3, <3>2, <4>3
      <4> QED BY <4>2, <4>3
    <3> QED BY <2>1, <3>1, <3>2 DEF StartOK
  <2>8. ASSUME NEW t \in Stage, NEW p \in DOMAIN copies'[t] PROVE CopyOK(t, p)'
    <3>1. CASE p \in DOMAIN copies[t]
      <4>1. CopyOK(t, p) /\ copies'[t][p] = copies[t][p]
        BY <2>2, <2>3, <3>1 DEF PathInv
      <4> QED BY <2>1, <4>1 DEF CopyOK, Order, Node
    <3>2. CASE p \notin DOMAIN copies[t]
      <4>1. t = s /\ p = Len(q) + 1 /\ copies'[t][p] = c
        BY <2>2, <2>3, <3>2
      <4>2. handles[s] \in Seq(Nat)
        BY DEF PathInv, TransferTypes
      <4>3. k \in DOMAIN handles[s] /\ \A j \in DOMAIN handles[s] : ~ (j > k)
        BY <2>1, <2>6, <4>2, PositionIsInt, BarriersCounted DEF PathInv, TransferTypes
      <4> QED BY <2>1, <2>5, <2>6, <4>1, <4>3 DEF CopyOK, Order, Node
    <3> QED BY <3>1, <3>2
  <2> QED BY <2>4, <2>7, <2>8 DEF PathInv
<1> QED BY <1>1, <1>2

(* A copy starts when the event it waits for is over.                         *)
LEMMA BeginCopyStep ==
  ASSUME PathInv, NEW s \in Stage, BeginCopy(s), conf' = conf
  PROVE  PathInv'
<1>1. /\ copies[s] # <<>> /\ running' = [running EXCEPT ![s] = TRUE]
      /\ copied[PairedRank(s)] >= handles[PairedRank(s)][Head(copies[s]).exchange]
      /\ UNCHANGED <<copies, copied, handles>>
  BY DEF BeginCopy
<1>2. TransferTypes'
  BY <1>1 DEF PathInv, TransferTypes
<1>3. Head(copies[s]) = copies[s][1]
  BY <1>1, SequenceFacts DEF PathInv, TransferTypes
<1>4. ASSUME NEW t \in Stage PROVE StartOK(t)'
  BY <1>1, <1>3 DEF PathInv, TransferTypes, StartOK
<1>5. ASSUME NEW t \in Stage, NEW p \in DOMAIN copies[t] PROVE CopyOK(t, p)'
  BY <1>1 DEF PathInv, CopyOK, Order, Node
<1> QED BY <1>1, <1>2, <1>4, <1>5 DEF PathInv

(* When a copy is over, the others keep their number.                         *)
LEMMA EndCopyStep ==
  ASSUME PathInv, NEW s \in Stage, EndCopy(s), conf' = conf
  PROVE  PathInv'
<1> DEFINE q == copies[s]
<1>1. /\ running[s] /\ copies' = [copies EXCEPT ![s] = Tail(q)]
      /\ running' = [running EXCEPT ![s] = FALSE]
      /\ copied' = [copied EXCEPT ![s] = @ + 1]
      /\ handles' = handles
  BY DEF EndCopy
<1>2. q # <<>>
  BY <1>1 DEF PathInv, StartOK
<1>3. /\ IsSequence(Tail(q)) /\ DOMAIN Tail(q) = 1 .. Len(q) - 1
      /\ \A p \in DOMAIN Tail(q) : Tail(q)[p] = q[p + 1]
      /\ Len(q) \in Nat /\ DOMAIN q = 1 .. Len(q)
  BY <1>2, SequenceOps, SequenceFacts DEF PathInv, TransferTypes
<1>4. /\ copies'[s] = Tail(q) /\ copied'[s] = copied[s] + 1 /\ ~ running'[s]
      /\ \A t \in Stage : t # s => copies'[t] = copies[t] /\ copied'[t] = copied[t]
                                   /\ running'[t] = running[t]
      /\ copied \in [Stage -> Nat]
  BY <1>1 DEF PathInv, TransferTypes
<1>5. TransferTypes'
  BY <1>1, <1>3, <1>4 DEF PathInv, TransferTypes
<1>6. ASSUME NEW t \in Stage PROVE StartOK(t)'
  <2>1. StartOK(t) /\ PairedRank(t) \in Stage /\ PairedRank(t) # t
    BY Pairs DEF PathInv
  <2>2. CASE t = s
    BY <1>4, <2>2 DEF StartOK
  <2>3. CASE t # s /\ running[t]
    <3>1. copies[t][1].exchange \in DOMAIN handles[PairedRank(t)]
      BY <2>1, <2>3, SequenceFacts DEF PathInv, TransferTypes, StartOK, CopyOK
    <3>2. handles[PairedRank(t)][copies[t][1].exchange] \in Nat
      BY <2>1, <3>1 DEF PathInv, TransferTypes
    <3>3. copied'[PairedRank(t)] >= copied[PairedRank(t)] /\ copied[PairedRank(t)] \in Nat
          /\ copied'[PairedRank(t)] \in Nat
      BY <1>4, <2>1
    <3> QED BY <1>1, <1>4, <2>1, <2>3, <3>2, <3>3 DEF StartOK
  <2>4. CASE t # s /\ ~ running[t]
    BY <1>4, <2>4 DEF StartOK
  <2> QED BY <2>2, <2>3, <2>4
<1>7. ASSUME NEW t \in Stage, NEW p \in DOMAIN copies'[t] PROVE CopyOK(t, p)'
  <2>1. CASE t # s
    BY <1>1, <1>4, <2>1 DEF PathInv, CopyOK, Order, Node
  <2>2. CASE t = s
    <3>0. p \in DOMAIN Tail(q) /\ copies'[s] = Tail(q)
      BY <1>4, <2>2
    <3>1. p \in Int /\ p + 1 \in DOMAIN q /\ copies'[s][p] = q[p + 1]
      <4> HIDE DEF q
      <4>1. p \in 1 .. Len(q) - 1 /\ Len(q) \in Nat
        BY <1>3, <3>0
      <4>2. p \in Int /\ p + 1 \in 1 .. Len(q)
        BY <4>1
      <4>3. copies'[s][p] = q[p + 1]
        BY <1>3, <3>0
      <4> QED BY <1>3, <4>2, <4>3
    <3>2. CopyOK(s, p + 1)
      BY <3>1 DEF PathInv
    <3>3. copied'[s] + p = copied[s] + (p + 1)
      BY <1>4, <3>1
    <3> QED BY <1>1, <2>2, <3>1, <3>2, <3>3 DEF CopyOK, Order, Node
  <2> QED BY <2>1, <2>2
<1> QED BY <1>5, <1>6, <1>7 DEF PathInv

-------------------------------------------------------------------------------
LEMMA PathStep == PathInv /\ [MemoryNext]_<<vars, memory>> => PathInv'
<1> SUFFICES ASSUME PathInv, [MemoryNext]_<<vars, memory>> PROVE PathInv'
  OBVIOUS
<1>1. CASE UNCHANGED <<vars, memory>>
  BY <1>1, NoTransfer DEF vars, memory, transfer
<1>2. CASE MemoryNext
  <2>1. conf' = conf
    BY <1>2, ConfKept
  <2>2. ASSUME NEW s \in Stage,
               \/ Forward(s) \/ Backward(s) \/ Recompute(s) \/ Release(s) \/ Other(s)
               \/ FinishEmpty(s)
        PROVE  UNCHANGED transfer
    BY <2>2 DEF Forward, Backward, Recompute, Release, Other, FinishEmpty, memory
  <2>3. ASSUME NEW s \in Stage, SendEvent(s) PROVE PathInv'
    BY <2>1, <2>3, SendEventStep
  <2>4. ASSUME NEW s \in Stage, ReceiveEvent(s) PROVE PathInv'
    BY <2>1, <2>4, ReceiveEventStep
  <2>5. ASSUME NEW s \in Stage, BeginCopy(s) PROVE PathInv'
    BY <2>1, <2>5, BeginCopyStep
  <2>6. ASSUME NEW s \in Stage, EndCopy(s) PROVE PathInv'
    BY <2>1, <2>6, EndCopyStep
  <2>7. CASE UNCHANGED memory
    BY <2>1, <2>7, NoTransfer DEF memory
  <2> QED
    BY <1>2, <2>1, <2>2, <2>3, <2>4, <2>5, <2>6, <2>7, NoTransfer DEF MemoryNext
<1> QED BY <1>1, <1>2

(* Two stages that share the path to the host never copy in the same          *)
(* direction at once (PairedBarrier, ActivationStore.offload and resume).     *)
THEOREM PathKeptApart == MemorySpec => []PathShared
<1>1. MemorySpec => []PathInv
  BY PathInit, PathStep, PTL DEF MemorySpec
<1> QED BY <1>1, PathSuffices, PTL

-------------------------------------------------------------------------------
(* The stores, and the places of the pools they are in.                       *)

(* What a store may be, in what state and with whose activations.             *)
States == {"SAVING", "OFFLOADED", "OFFLOAD_RELEASED", "RESUME_PREPARED", "RESUMED",
           "RESUME_USED", "RESUME_RELEASED"}
Data        == Tensors \cup {NoKey, Blank}
Stores      == [state : States \cup {"NEW"}, gpu : Data, cpu : Data]
PoolRecords == [queues : [1 .. 5 -> Seq(Nat)], free : Seq(Nat)]

(* The places of a pool: its five queues and, at 6, its free stores.          *)
Place(p, k) == IF k = 6 THEN p.free ELSE p.queues[k]

(* A store in a place of a pool is in a state that suits the place.           *)
StateIn(k, x) ==
  /\ k = 1 => x = "SAVING"
  /\ k = 2 => x = "OFFLOADED"
  /\ k = 3 => x = "OFFLOAD_RELEASED"
  /\ k = 4 => x = "RESUME_PREPARED"
  /\ k = 5 => x \in {"RESUMED", "RESUME_USED"}
  /\ k = 6 => x = "RESUME_RELEASED"

(* The stores in place k of pool q.                                           *)
Held(po, q, k) == ToSet(Place(po[q], k))

(* A store is in one place of one pool, in a state that suits the place.      *)
PoolsOK(st, po) ==
  \A q \in Pools, k \in 1 .. 6 :
    /\ IsInjective(Place(po[q], k))
    /\ \A id \in Held(po, q, k) :
         /\ id \in DOMAIN st /\ StateIn(k, st[id].state)
         /\ \A r \in Pools, l \in 1 .. 6 : id \in Held(po, r, l) => r = q /\ l = k

(* What Append, Tail and Front do to the stores in a place, each of them      *)
(* there once.                                                                *)
LEMMA Appended ==
  ASSUME NEW S, NEW q \in Seq(S), NEW x \in S
  PROVE  /\ Append(q, x) \in Seq(S) /\ ToSet(Append(q, x)) = ToSet(q) \cup {x}
         /\ IsInjective(q) /\ x \notin ToSet(q) => IsInjective(Append(q, x))
<1>1. /\ Append(q, x) \in Seq(S) /\ Len(Append(q, x)) = Len(q) + 1 /\ Len(q) \in Nat
      /\ DOMAIN q = 1 .. Len(q) /\ DOMAIN Append(q, x) = 1 .. Len(q) + 1
      /\ \A a \in 1 .. Len(q) : Append(q, x)[a] = q[a]
      /\ Append(q, x)[Len(q) + 1] = x
  OBVIOUS
<1>2. \A a : a \in 1 .. Len(q) + 1 <=> a \in 1 .. Len(q) \/ a = Len(q) + 1
  BY <1>1
<1> QED
  BY <1>1, <1>2 DEF ToSet, IsInjective

LEMMA Beheaded ==
  ASSUME NEW S, NEW q \in Seq(S), q # <<>>, IsInjective(q)
  PROVE  /\ Head(q) \in ToSet(q) /\ Head(q) \in S /\ Tail(q) \in Seq(S)
         /\ ToSet(Tail(q)) = ToSet(q) \ {Head(q)} /\ IsInjective(Tail(q))
<1>1. /\ Tail(q) \in Seq(S) /\ Len(Tail(q)) = Len(q) - 1 /\ Len(q) \in Nat /\ Len(q) >= 1
      /\ DOMAIN q = 1 .. Len(q) /\ DOMAIN Tail(q) = 1 .. Len(q) - 1
      /\ \A a \in 1 .. Len(q) - 1 : Tail(q)[a] = q[a + 1]
      /\ Head(q) = q[1] /\ q[1] \in S
  OBVIOUS
<1>2. \A a \in 1 .. Len(q) : a # 1 => a - 1 \in 1 .. Len(q) - 1 /\ a = (a - 1) + 1
  BY <1>1
<1>3. \A a \in 1 .. Len(q) - 1 : a + 1 \in 1 .. Len(q) /\ a + 1 # 1 /\ a \in Int
  BY <1>1
<1>4. 1 \in 1 .. Len(q)
  BY <1>1
<1>5. \A a, b \in 1 .. Len(q) : q[a] = q[b] => a = b
  BY <1>1 DEF IsInjective
<1>6. IsInjective(Tail(q))
  <2> SUFFICES ASSUME NEW a \in 1 .. Len(q) - 1, NEW b \in 1 .. Len(q) - 1, Tail(q)[a] = Tail(q)[b]
               PROVE  a = b
    BY <1>1 DEF IsInjective
  <2>1. a + 1 = b + 1
    BY <1>1, <1>3, <1>5
  <2> QED BY <1>3, <2>1
<1>7. ToSet(q) = {q[a] : a \in 1 .. Len(q)} /\ ToSet(Tail(q)) = {Tail(q)[a] : a \in 1 .. Len(q) - 1}
  BY <1>1 DEF ToSet
<1>8. ToSet(Tail(q)) \subseteq ToSet(q) \ {Head(q)}
  BY <1>1, <1>3, <1>4, <1>5, <1>7
<1>9. ASSUME NEW x \in ToSet(q), x # Head(q) PROVE x \in ToSet(Tail(q))
  <2>1. PICK a \in 1 .. Len(q) : x = q[a]
    BY <1>7
  <2>2. a - 1 \in 1 .. Len(q) - 1 /\ a = (a - 1) + 1
    BY <1>1, <1>2, <1>9, <2>1
  <2>3. Tail(q)[a - 1] = x
    BY <1>1, <2>1, <2>2
  <2> QED
    BY <1>7, <2>2, <2>3
<1> QED
  BY <1>1, <1>4, <1>6, <1>7, <1>8, <1>9

LEMMA Curtailed ==
  ASSUME NEW S, NEW q \in Seq(S), q # <<>>, IsInjective(q)
  PROVE  /\ Last(q) \in ToSet(q) /\ Last(q) \in S /\ Front(q) \in Seq(S)
         /\ ToSet(Front(q)) = ToSet(q) \ {Last(q)} /\ IsInjective(Front(q))
<1>1. /\ Front(q) = SubSeq(q, 1, Len(q) - 1) /\ Len(q) \in Nat /\ Len(q) >= 1
      /\ DOMAIN q = 1 .. Len(q) /\ Last(q) = q[Len(q)]
  BY DEF Front, Last
<1>2. /\ Front(q) \in Seq(S) /\ DOMAIN Front(q) = 1 .. Len(q) - 1
      /\ \A a \in 1 .. Len(q) - 1 : Front(q)[a] = q[a]
  BY <1>1
<1>3. /\ \A a : a \in 1 .. Len(q) <=> a \in 1 .. Len(q) - 1 \/ a = Len(q)
      /\ Len(q) \notin 1 .. Len(q) - 1
  BY <1>1
<1>4. \A a, b \in 1 .. Len(q) : q[a] = q[b] => a = b
  BY <1>1 DEF IsInjective
<1>5. ToSet(q) = {q[a] : a \in 1 .. Len(q)} /\ ToSet(Front(q)) = {Front(q)[a] : a \in 1 .. Len(q) - 1}
  BY <1>1, <1>2 DEF ToSet
<1>6. IsInjective(Front(q))
  BY <1>2, <1>3, <1>4 DEF IsInjective
<1> HIDE DEF Front
<1>7. q[Len(q)] \in S
  BY <1>1
<1> QED
  BY <1>1, <1>2, <1>3, <1>4, <1>5, <1>6, <1>7

(* States change, but stay what the places ask for.                           *)
LEMMA StaysInPlace ==
  ASSUME NEW st, NEW po, NEW st2, PoolsOK(st, po), DOMAIN st2 = DOMAIN st,
         \A x \in DOMAIN st : \/ st2[x].state = st[x].state
                              \/ st[x].state = "RESUMED" /\ st2[x].state = "RESUME_USED"
  PROVE  PoolsOK(st2, po)
<1>1. \A x \in DOMAIN st, k \in 1 .. 6 : StateIn(k, st[x].state) => StateIn(k, st2[x].state)
  BY DEF StateIn
<1> QED
  BY <1>1 DEF PoolsOK

(* The state of a store from the start of its copy on.                        *)
CopyState(type) == IF type = "OFFLOAD_SEND_START" THEN "OFFLOADED" ELSE "RESUMED"

(* The copy of a store is not over.                                           *)
InCopy(co, id) == \E p \in DOMAIN co : co[p].store = id

(* A store is copied once at a time, in the state that the copy started from. *)
CopiesFit(st, co) ==
  /\ \A p \in DOMAIN co : /\ co[p].store \in DOMAIN st /\ co[p].type \in CopyStarts
                          /\ st[co[p].store].state = CopyState(co[p].type)
  /\ \A p, o \in DOMAIN co : co[p].store = co[o].store => p = o

(* Store t has what a forward has saved, in the buffer that counts.           *)
Carries(t, key, copying) ==
  \/ t.state = "SAVING" /\ t.gpu = key
  \/ t.state = "OFFLOADED" /\ (IF copying THEN t.gpu = key ELSE t.cpu = key)
  \/ t.state \in {"OFFLOAD_RELEASED", "RESUME_PREPARED"} /\ t.cpu = key
  \/ t.state = "RESUMED" /\ t.cpu = key /\ (~ copying => t.gpu = key)

(* Forward j has its activations in a store, and its backward is to come.     *)
Pending(s, j, x) == Node(s, j).offload /\ \E k \in Chunks : Undone(s, k, j, x)

(* The store that the graph of a forward refers to has its activations.       *)
StoreHas(st, sv, co, key) ==
  /\ key \in DOMAIN sv /\ sv[key] \in DOMAIN st
  /\ Carries(st[sv[key]], key, InCopy(co, sv[key]))

(* The pending forwards have their activations, each in a store of its own,   *)
(* and the graphs of no other forwards but those to be offloaded refer to     *)
(* stores.                                                                    *)
Stored(s, x, st, sv, co) ==
  /\ \A j : Pending(s, j, x) => StoreHas(st, sv, co, Key(Node(s, j)))
  /\ \A j, l : Pending(s, j, x) /\ Pending(s, l, x)
               /\ sv[Key(Node(s, j))] = sv[Key(Node(s, l))] => j = l
  /\ \A key \in DOMAIN sv : \E j \in DOMAIN Order(s) :
       Node(s, j).type = "F" /\ Node(s, j).offload /\ Key(Node(s, j)) = key

-------------------------------------------------------------------------------

(* The states of the stores in copies.                                        *)
LEMMA CopiedStates ==
  ASSUME NEW st, NEW co, CopiesFit(st, co), NEW id, InCopy(co, id)
  PROVE  id \in DOMAIN st /\ st[id].state \in {"OFFLOADED", "RESUMED"}
BY DEF CopiesFit, InCopy, CopyState

(* The other stores may change.                                               *)
LEMMA CopiesStay ==
  ASSUME NEW st, NEW co, CopiesFit(st, co), NEW st2,
         \A id : InCopy(co, id) => id \in DOMAIN st2 /\ st2[id].state = st[id].state
  PROVE  CopiesFit(st2, co)
BY DEF CopiesFit, InCopy

(* A copy is enqueued.                                                        *)
LEMMA NewCopy ==
  ASSUME NEW st, NEW co, CopiesFit(st, co), IsSequence(co), NEW c, c.store \in DOMAIN st,
         c.type \in CopyStarts, st[c.store].state = CopyState(c.type), ~ InCopy(co, c.store)
  PROVE  /\ CopiesFit(st, Append(co, c))
         /\ \A id : InCopy(Append(co, c), id) <=> InCopy(co, id) \/ id = c.store
<1> DEFINE a == Append(co, c)
<1>1. /\ DOMAIN a = 1 .. Len(co) + 1 /\ DOMAIN co = 1 .. Len(co) /\ Len(co) \in Nat
      /\ \A p \in DOMAIN co : a[p] = co[p]
      /\ a[Len(co) + 1] = c
  BY SequenceOps, SequenceFacts
<1> HIDE DEF a
<1>2. \A p : p \in DOMAIN a <=> p \in DOMAIN co \/ p = Len(co) + 1
  BY <1>1
<1>3. \A id : InCopy(a, id) <=> InCopy(co, id) \/ id = c.store
  BY <1>1, <1>2 DEF InCopy
<1>4. CopiesFit(st, a)
  BY <1>1, <1>2 DEF CopiesFit, InCopy
<1> QED
  BY <1>3, <1>4 DEF a

(* The first copy is over.                                                    *)
LEMMA CopyOver ==
  ASSUME NEW st, NEW co, CopiesFit(st, co), IsSequence(co), co # <<>>
  PROVE  /\ CopiesFit(st, Tail(co)) /\ Head(co).store \in DOMAIN st
         /\ Head(co).type \in CopyStarts /\ InCopy(co, Head(co).store)
         /\ st[Head(co).store].state = CopyState(Head(co).type)
         /\ \A id : InCopy(Tail(co), id) <=> InCopy(co, id) /\ id # Head(co).store
<1> DEFINE t == Tail(co)
<1>1. /\ DOMAIN t = 1 .. Len(co) - 1 /\ DOMAIN co = 1 .. Len(co) /\ Len(co) \in Nat
      /\ \A p \in DOMAIN t : t[p] = co[p + 1]
      /\ 1 \in DOMAIN co /\ Head(co) = co[1]
  BY SequenceOps, SequenceFacts
<1> HIDE DEF t
<1>2. /\ \A p \in DOMAIN t : p \in Int /\ p + 1 \in DOMAIN co /\ p + 1 # 1
      /\ \A p \in DOMAIN co : p # 1 => p - 1 \in DOMAIN t /\ t[p - 1] = co[p]
  <2>1. \A p \in DOMAIN co : p # 1 => p - 1 \in DOMAIN t /\ (p - 1) + 1 = p
    BY <1>1
  <2> QED
    BY <1>1, <2>1
<1>3. \A p, o \in DOMAIN co : co[p].store = co[o].store => p = o
  BY DEF CopiesFit
<1>4. \A p \in DOMAIN t : t[p] = co[p + 1]
  BY <1>1
<1>5. \A id : InCopy(t, id) <=> InCopy(co, id) /\ id # Head(co).store
  <2>1. ASSUME NEW p \in DOMAIN t
        PROVE  InCopy(co, t[p].store) /\ t[p].store # Head(co).store
    BY <1>1, <1>2, <1>3, <1>4 DEF InCopy
  <2>2. ASSUME NEW p \in DOMAIN co, co[p].store # Head(co).store
        PROVE  InCopy(t, co[p].store)
    <3>1. p - 1 \in DOMAIN t /\ t[p - 1] = co[p]
      BY <1>1, <1>2, <2>2
    <3> QED
      BY <3>1 DEF InCopy
  <2> QED
    BY <2>1, <2>2 DEF InCopy
<1>6. CopiesFit(st, t)
  <2>1. ASSUME NEW p \in DOMAIN t, NEW o \in DOMAIN t, t[p].store = t[o].store PROVE p = o
    <3>1. p + 1 = o + 1
      BY <1>2, <1>3, <1>4, <2>1
    <3> QED
      BY <1>2, <3>1
  <2>2. ASSUME NEW p \in DOMAIN t
        PROVE  /\ t[p].store \in DOMAIN st /\ t[p].type \in CopyStarts
               /\ st[t[p].store].state = CopyState(t[p].type)
    BY <1>2, <1>4 DEF CopiesFit
  <2> QED
    BY <2>1, <2>2 DEF CopiesFit
<1> QED
  BY <1>1, <1>5, <1>6 DEF t, CopiesFit, InCopy

(* The steps of a store.                                                      *)
LEMMA StepOf ==
  /\ Steps["OFFLOAD_SEND_START"] = [queue |-> 1, from |-> "SAVING", to |-> "OFFLOADED"]
  /\ Steps["OFFLOAD_SEND_END"]   = [queue |-> 2, from |-> "OFFLOADED", to |-> "OFFLOAD_RELEASED"]
  /\ Steps["OFFLOAD_RECV_PREP"]  = [queue |-> 3, from |-> "OFFLOAD_RELEASED", to |-> "RESUME_PREPARED"]
  /\ Steps["OFFLOAD_RECV_START"] = [queue |-> 4, from |-> "RESUME_PREPARED", to |-> "RESUMED"]
  /\ Steps["OFFLOAD_RECV_END"]   = [queue |-> 5, from |-> "RESUME_USED", to |-> "RESUME_RELEASED"]
BY DEF Steps

(* The nodes that move a store.                                               *)
MoveTypes == {"OFFLOAD_SEND_START", "OFFLOAD_SEND_END", "OFFLOAD_RECV_PREP",
              "OFFLOAD_RECV_START", "OFFLOAD_RECV_END"}

(* What the steps have to do with the places and with the copies.             *)
LEMMA StepFacts ==
  ASSUME NEW type \in MoveTypes
  PROVE  LET step == Steps[type]
         IN  /\ step.queue \in 1 .. 5 /\ step.queue + 1 \in 1 .. 6 /\ step.queue + 1 # step.queue
             /\ step.from \in States /\ step.to \in States
             /\ \A x : StateIn(step.queue + 1, x) <=> x = step.to \/ (type = "OFFLOAD_RECV_START" /\ x = "RESUME_USED")
             /\ type \in CopyStarts => /\ step.to = CopyState(type) 
                                       /\ \A x : StateIn(step.queue, x) => x = step.from
BY StepOf DEF MoveTypes, States, StateIn, CopyStarts, CopyState

(* What a store carries goes along with it.                                   *)
LEMMA CarriedAlong ==
  ASSUME NEW type \in MoveTypes, NEW t, t.state = Steps[type].from, NEW key,
         NEW copying \in BOOLEAN, Carries(t, key, copying),
         type \in {"OFFLOAD_SEND_END", "OFFLOAD_RECV_END"} => ~ copying,
         NEW u, u.state = Steps[type].to, u.cpu = t.cpu, type \in CopyStarts => u.gpu = t.gpu
  PROVE  Carries(u, key, copying \/ type \in CopyStarts)
BY StepOf DEF MoveTypes, CopyStarts, Carries

(* The exchanges behind a stage, and that of the node at x if it has begun.   *)
EventsReady(s, x, po, ha) ==
  LET n == Node(s, x)
  IN  \/ Len(ha) = BarriersBefore(conf, s, x)
      \/ /\ Len(ha) = BarriersBefore(conf, s, x) + 1
         /\ x \in DOMAIN Order(s) /\ n.type \in BarrierTypes
         /\ n.type \in CopyStarts => po[PoolOf(n)].queues[Steps[n.type].queue] # <<>>

(* The oldest of the forwards to be recomputed are, the others are queued.    *)
RF(s, k) == RecomputedForwards(conf, s, k)
RN(s, k) == Recomputations(conf, s, k)

(* Of the forwards before x, the first ones have been recomputed, as many as  *)
(* there are recomputations before x, and the others are queued in their      *)
(* order.                                                                     *)
RedoneOf(s, k, x, q, rd) ==
  LET r == NumberBefore(RN(s, k), x)
  IN  /\ Len(q) + r = NumberBefore(RF(s, k), x)
      /\ \A j \in RF(s, k) : j < x =>
           LET a == NumberBefore(RF(s, k), j)
           IN  IF a < r THEN Key(Node(s, j)) \in rd ELSE q[a - r + 1] = Key(Node(s, j))

(* What the backwards behind x have found.                                    *)
FoundOwn(s, k, i, re, rd) ==
  \A j \in Fs(s, k) : Mate(s, i, j) =>
    /\ Node(s, j).offload => re[i] = Key(Node(s, j))
    /\ Node(s, j).recompute => Key(Node(s, j)) \in rd

Found(s, x, re, rd) ==
  \A k \in Chunks : \A i \in Bs(s, k) : i < x => FoundOwn(s, k, i, re, rd)

-------------------------------------------------------------------------------

(* One more barrier, or none.                                                 *)
LEMMA BarrierNext ==
  ASSUME conf \in Conf, NEW s \in Stage, NEW x \in DOMAIN Order(s)
  PROVE  /\ BarriersBefore(conf, s, x) \in Nat
         /\ BarriersBefore(conf, s, x + 1) = IF Node(s, x).type \in BarrierTypes
                                             THEN BarriersBefore(conf, s, x) + 1
                                             ELSE BarriersBefore(conf, s, x)
<1> DEFINE L(y) == {j \in 1 .. y - 1 : conf.order[s][j].type \in BarrierTypes}
<1>1. x \in Int /\ x >= 1
  BY PositionsAreNumbers
<1>2. IsFiniteSet(1 .. x - 1)
  BY <1>1, FS_Interval
<1>3. IsFiniteSet(L(x))
  BY <1>2, FS_Subset
<1>4. \A j : j \in 1 .. (x + 1) - 1 <=> j \in 1 .. x - 1 \/ j = x
  BY <1>1
<1>5. L(x + 1) = IF conf.order[s][x].type \in BarrierTypes THEN L(x) \cup {x} ELSE L(x)
  BY <1>4
<1>6. x \notin L(x)
  BY <1>1
<1> HIDE DEF L
<1>7. Cardinality(L(x) \cup {x}) = Cardinality(L(x)) + 1 /\ Cardinality(L(x)) \in Nat
  BY <1>3, <1>6, FS_AddElement, FS_CardinalityType
<1> QED
  BY <1>5, <1>7 DEF BarriersBefore, L, Node

(* The exchange of a node is over when the stage goes on.                     *)
LEMMA EventsPass ==
  ASSUME conf \in Conf, NEW s \in Stage, NEW x \in DOMAIN Order(s), NEW po, NEW ha,
         EventsReady(s, x, po, ha),
         Node(s, x).type \in BarrierTypes => Len(ha) = BarriersBefore(conf, s, x) + 1, NEW po2
  PROVE  EventsReady(s, x + 1, po2, ha)
BY BarrierNext DEF EventsReady

(* The forwards to be recomputed, and the recomputations, of a chunk.         *)
LEMMA RecomputeSets ==
  ASSUME conf \in Conf, NEW s \in Stage, NEW k
  PROVE  /\ RF(s, k) \in SUBSET Nat /\ RN(s, k) \in SUBSET Nat
         /\ \A j \in RF(s, k) : /\ j \in Fs(s, k) /\ Node(s, j).recompute
                                /\ Node(s, j).type = "F" /\ Node(s, j).chunk = k
         /\ \A i \in RN(s, k) : Node(s, i).type = "R" /\ Node(s, i).chunk = k
BY ForwardTypes, PositionsAreNumbers DEF RF, RN, RecomputedForwards, Recomputations, Fs, Node, Order

(* A member of a set has fewer members before it than what comes after it.    *)
LEMMA FewerBefore ==
  ASSUME NEW S \in SUBSET Nat, NEW x \in S, NEW y \in Nat, x < y
  PROVE  NumberBefore(S, x) \in Nat /\ NumberBefore(S, y) \in Nat
         /\ NumberBefore(S, x) < NumberBefore(S, y)
<1> DEFINE L(z) == {i \in S : i < z}
<1>1. IsFiniteSet(0 .. y)
  BY FS_Interval
<1>2. L(y) \subseteq 0 .. y /\ L(x) \cup {x} \subseteq L(y) /\ x \notin L(x)
  <2>1. \A i \in S : i \in Nat /\ (i < x => i < y) /\ (i < y => i \in 0 .. y)
    OBVIOUS
  <2>2. ~ x < x
    OBVIOUS
  <2>3. L(y) \subseteq 0 .. y
    BY <2>1
  <2>4. L(x) \subseteq L(y) /\ x \in L(y) /\ x \notin L(x)
    BY <2>1, <2>2
  <2> HIDE DEF L
  <2> QED
    BY <2>3, <2>4
<1>3. IsFiniteSet(L(y))
  BY <1>1, <1>2, FS_Subset
<1> HIDE DEF L
<1>4. IsFiniteSet(L(x))
  BY <1>2, <1>3, FS_Subset
<1>5. /\ Cardinality(L(x) \cup {x}) = Cardinality(L(x)) + 1 /\ Cardinality(L(x)) \in Nat
      /\ Cardinality(L(x) \cup {x}) <= Cardinality(L(y)) /\ Cardinality(L(y)) \in Nat
  BY <1>2, <1>3, <1>4, FS_AddElement, FS_CardinalityType, FS_Subset
<1> QED
  BY <1>5 DEF NumberBefore, L

(* The node at x is no forward to be recomputed and no recomputation.         *)
LEMMA RedonePass ==
  ASSUME conf \in Conf, NEW s \in Stage, NEW k, NEW x \in Nat, NEW q, NEW rd,
         RedoneOf(s, k, x, q, rd), x \notin RF(s, k), x \notin RN(s, k),
         NEW rd2, rd \subseteq rd2
  PROVE  RedoneOf(s, k, x + 1, q, rd2)
<1>1. RF(s, k) \in SUBSET Nat /\ RN(s, k) \in SUBSET Nat
  BY RecomputeSets
<1>2. \A j \in RF(s, k) : j < x + 1 => j < x
  BY <1>1
<1>3. /\ NumberBefore(RF(s, k), x + 1) = NumberBefore(RF(s, k), x)
      /\ NumberBefore(RN(s, k), x + 1) = NumberBefore(RN(s, k), x)
  BY <1>1, OneMoreBefore
<1> QED
  BY <1>2, <1>3 DEF RedoneOf

(* A forward to be recomputed is queued.                                      *)
LEMMA RedoneQueues ==
  ASSUME conf \in Conf, NEW s \in Stage, NEW k, NEW x \in RF(s, k),
         NEW q \in Seq(Tensors), NEW rd, RedoneOf(s, k, x, q, rd)
  PROVE  RedoneOf(s, k, x + 1, Append(q, Key(Node(s, x))), rd)
<1> DEFINE a == Append(q, Key(Node(s, x)))
           F == RF(s, k)
           r == NumberBefore(RN(s, k), x)
<1>1. F \in SUBSET Nat /\ RN(s, k) \in SUBSET Nat /\ x \in Nat /\ x \notin RN(s, k)
  BY RecomputeSets
<1>2. /\ NumberBefore(F, x + 1) = NumberBefore(F, x) + 1 /\ NumberBefore(F, x) \in Nat
      /\ NumberBefore(RN(s, k), x + 1) = r /\ r \in Nat
  BY <1>1, OneMoreBefore
<1>3. /\ Len(q) \in Nat /\ Len(a) = Len(q) + 1
      /\ \A b \in 1 .. Len(q) : a[b] = q[b]
      /\ a[Len(q) + 1] = Key(Node(s, x))
  OBVIOUS
<1>4. Len(q) + r = NumberBefore(F, x)
  BY DEF RedoneOf
<1>5. Len(a) + r = NumberBefore(F, x + 1)
  BY <1>2, <1>3, <1>4
<1>6. ASSUME NEW j \in F, j < x + 1
      PROVE  LET b == NumberBefore(F, j)
             IN  IF b < r THEN Key(Node(s, j)) \in rd ELSE a[b - r + 1] = Key(Node(s, j))
  <2> DEFINE b == NumberBefore(F, j)
  <2>1. CASE j = x
    <3>1. b = Len(q) + r /\ ~ b < r /\ b - r + 1 = Len(q) + 1
      BY <1>2, <1>3, <1>4, <2>1
    <3> HIDE DEF b, a
    <3> QED
      BY <1>3, <2>1, <3>1 DEF b
  <2>2. CASE j < x
    <3>1. b \in Nat /\ b < NumberBefore(F, x)
      BY <1>1, <2>2, FewerBefore
    <3>2. IF b < r THEN Key(Node(s, j)) \in rd ELSE q[b - r + 1] = Key(Node(s, j))
      BY <2>2 DEF RedoneOf
    <3> HIDE DEF b, a
    <3>3. ~ b < r => b - r + 1 \in 1 .. Len(q)
      BY <1>2, <1>3, <1>4, <3>1
    <3> QED
      BY <1>3, <3>2, <3>3 DEF b
  <2>3. j = x \/ j < x
    BY <1>1, <1>6
  <2> QED
    BY <2>1, <2>2, <2>3
<1> QED
  BY <1>2, <1>5, <1>6 DEF RedoneOf

(* A recomputation takes the first of the queue.                              *)
LEMMA RedoneTakes ==
  ASSUME conf \in Conf, NEW s \in Stage, NEW k, NEW x \in RN(s, k),
         NEW q \in Seq(Tensors), q # <<>>, NEW rd, RedoneOf(s, k, x, q, rd)
  PROVE  RedoneOf(s, k, x + 1, Tail(q), rd \cup {Head(q)})
<1> DEFINE t == Tail(q)
           F == RF(s, k)
           r == NumberBefore(RN(s, k), x)
<1>1. F \in SUBSET Nat /\ RN(s, k) \in SUBSET Nat /\ x \in Nat /\ x \notin F
  BY RecomputeSets
<1>2. /\ NumberBefore(F, x + 1) = NumberBefore(F, x) /\ NumberBefore(F, x) \in Nat
      /\ NumberBefore(RN(s, k), x + 1) = r + 1 /\ r \in Nat
  BY <1>1, OneMoreBefore
<1>3. /\ Len(q) \in Nat /\ Len(q) >= 1 /\ Len(t) = Len(q) - 1 /\ Head(q) = q[1]
      /\ \A b \in 1 .. Len(q) - 1 : t[b] = q[b + 1]
  OBVIOUS
<1>4. Len(q) + r = NumberBefore(F, x)
  BY DEF RedoneOf
<1>5. Len(t) + (r + 1) = NumberBefore(F, x + 1)
  BY <1>2, <1>3, <1>4
<1>6. ASSUME NEW j \in F, j < x + 1
      PROVE  LET b == NumberBefore(F, j)
             IN  IF b < r + 1 THEN Key(Node(s, j)) \in rd \cup {Head(q)}
                 ELSE t[b - (r + 1) + 1] = Key(Node(s, j))
  <2> DEFINE b == NumberBefore(F, j)
  <2>1. j < x /\ j \in Nat
    BY <1>1, <1>6
  <2>2. b \in Nat /\ b < NumberBefore(F, x)
    BY <1>1, <2>1, FewerBefore
  <2>3. IF b < r THEN Key(Node(s, j)) \in rd ELSE q[b - r + 1] = Key(Node(s, j))
    BY <2>1 DEF RedoneOf
  <2> HIDE DEF b, t
  <2>4. CASE b < r
    BY <1>2, <2>2, <2>3, <2>4 DEF b
  <2>5. CASE b = r
    <3>1. b - r + 1 = 1 /\ b < r + 1 /\ ~ b < r
      BY <1>2, <2>5
    <3>2. Head(q) = Key(Node(s, j))
      BY <1>3, <2>3, <3>1
    <3> QED
      BY <3>1, <3>2 DEF b
  <2>6. CASE r < b
    <3>1. /\ b - (r + 1) + 1 \in 1 .. Len(q) - 1 /\ ~ b < r + 1 /\ ~ b < r
          /\ (b - (r + 1) + 1) + 1 = b - r + 1
      BY <1>2, <1>3, <1>4, <2>2, <2>6
    <3>2. t[b - (r + 1) + 1] = q[b - r + 1]
      BY <1>3, <3>1
    <3> QED
      BY <2>3, <3>1, <3>2 DEF b
  <2> QED
    BY <1>2, <2>2, <2>4, <2>5, <2>6
<1> QED
  BY <1>2, <1>5, <1>6 DEF RedoneOf

(* A place of a pool is a sequence of stores.                                 *)
LEMMA PlaceTypes ==
  ASSUME NEW p \in PoolRecords, NEW k \in 1 .. 6
  PROVE  Place(p, k) \in Seq(Nat) /\ (k # 6 => Place(p, k) = p.queues[k])
         /\ Place(p, 6) = p.free
BY DEF PoolRecords, Place

-------------------------------------------------------------------------------
(* What the operations of a pool do to its places.                            *)
LEMMA EnteredPlace ==
  ASSUME NEW p \in PoolRecords, NEW k \in 1 .. 6, NEW id \in Nat
  PROVE  /\ Entered(p, k, id) \in PoolRecords
         /\ Place(Entered(p, k, id), k) = Append(Place(p, k), id)
         /\ \A m \in 1 .. 6 : m # k => Place(Entered(p, k, id), m) = Place(p, m)
<1>1. p.free \in Seq(Nat) /\ p.queues \in [1 .. 5 -> Seq(Nat)] /\ p = [queues |-> p.queues, free |-> p.free]
  BY DEF PoolRecords
<1>2. CASE k = 6
  <2>1. Entered(p, k, id) = [queues |-> p.queues, free |-> Append(p.free, id)]
    BY <1>1, <1>2 DEF Entered
  <2>2. /\ Entered(p, k, id).queues = p.queues /\ Entered(p, k, id).free = Append(p.free, id)
        /\ Entered(p, k, id) \in PoolRecords
    BY <1>1, <2>1 DEF PoolRecords
  <2> QED
    BY <1>2, <2>2 DEF Place
<1>3. CASE k # 6
  <2> DEFINE qs == [p.queues EXCEPT ![k] = Append(p.queues[k], id)]
  <2>1. k \in 1 .. 5
    BY <1>3
  <2>2. Entered(p, k, id) = [queues |-> qs, free |-> p.free]
    BY <1>1, <1>3, <2>1 DEF Entered
  <2>3. qs \in [1 .. 5 -> Seq(Nat)] /\ qs[k] = Append(p.queues[k], id)
        /\ \A m \in 1 .. 5 : m # k => qs[m] = p.queues[m]
    BY <1>1, <2>1, SMTT(30)
  <2> HIDE DEF qs
  <2>4. \A m \in 1 .. 6 : m # 6 => m \in 1 .. 5
    OBVIOUS
  <2>5. /\ Entered(p, k, id).queues = qs /\ Entered(p, k, id).free = p.free
        /\ Entered(p, k, id) \in PoolRecords
    BY <1>1, <2>2, <2>3 DEF PoolRecords
  <2> QED
    BY <1>3, <2>3, <2>4, <2>5 DEF Place
<1> QED
  BY <1>2, <1>3

LEMMA TakenFreePlace ==
  ASSUME NEW p \in PoolRecords
  PROVE  /\ TakenFree(p) \in PoolRecords
         /\ Place(TakenFree(p), 6) = IF p.free = <<>> THEN <<>> ELSE Front(p.free)
         /\ \A m \in 1 .. 6 : m # 6 => Place(TakenFree(p), m) = Place(p, m)
<1> DEFINE rest == IF p.free = <<>> THEN <<>> ELSE Front(p.free)
<1>1. p.free \in Seq(Nat) /\ p.queues \in [1 .. 5 -> Seq(Nat)] /\ p = [queues |-> p.queues, free |-> p.free]
  BY DEF PoolRecords
<1>2. rest \in Seq(Nat)
  <2>1. ASSUME NEW q \in Seq(Nat), q # <<>> PROVE Front(q) \in Seq(Nat)
    BY <2>1 DEF Front
  <2> QED
    BY <1>1, <2>1
<1> HIDE DEF rest
<1>3. TakenFree(p) = [queues |-> p.queues, free |-> rest]
  BY <1>1 DEF TakenFree, rest
<1>4. Place(TakenFree(p), 6) = rest
  BY <1>3 DEF Place
<1> QED
  BY <1>1, <1>2, <1>3, <1>4 DEF Place, PoolRecords, rest

LEMMA LeftPlace ==
  ASSUME NEW p \in PoolRecords, NEW k \in 1 .. 5, Place(p, k) # <<>>
  PROVE  /\ Left(p, k) \in PoolRecords
         /\ Place(Left(p, k), k) = Tail(Place(p, k))
         /\ \A m \in 1 .. 6 : m # k => Place(Left(p, k), m) = Place(p, m)
<1> DEFINE qs == [p.queues EXCEPT ![k] = Tail(p.queues[k])]
<1>1. p.free \in Seq(Nat) /\ p.queues \in [1 .. 5 -> Seq(Nat)] /\ p = [queues |-> p.queues, free |-> p.free]
      /\ Place(p, k) = p.queues[k]
  BY DEF PoolRecords, Place
<1>2. Left(p, k) = [queues |-> qs, free |-> p.free]
  <2>1. PoppedFirst(p.queues[k]).rest = Tail(p.queues[k])
    BY DEF PoppedFirst
  <2>2. Left(p, k) = [p EXCEPT !.queues = qs]
    BY <2>1 DEF Left
  <2> HIDE DEF qs
  <2> QED
    BY <1>1, <2>2
<1>3. qs \in [1 .. 5 -> Seq(Nat)] /\ qs[k] = Tail(p.queues[k])
      /\ \A m \in 1 .. 5 : m # k => qs[m] = p.queues[m]
  BY <1>1
<1> HIDE DEF qs
<1>4. \A m \in 1 .. 6 : m # 6 => m \in 1 .. 5
  OBVIOUS
<1> QED
  BY <1>1, <1>2, <1>3, <1>4 DEF Place, PoolRecords

(* A store goes from place k of a pool, or from nowhere, to place l.          *)
Shift(st, po, q, k, l, id, st2, po2) ==
  /\ PoolsOK(st, po) /\ q \in Pools /\ k \in 1 .. 6 /\ l \in 1 .. 6 /\ k # l
  /\ po[q] \in PoolRecords /\ id \in Nat /\ (id \notin DOMAIN st \/ id \in Held(po, q, k))
  /\ Place(po2[q], l) = Append(Place(po[q], l), id)
  /\ ToSet(Place(po2[q], k)) = Held(po, q, k) \ {id} /\ IsInjective(Place(po2[q], k))
  /\ \A m \in 1 .. 6 : m \notin {k, l} => Place(po2[q], m) = Place(po[q], m)
  /\ \A r \in Pools : r # q => po2[r] = po[r]
  /\ id \in DOMAIN st2 /\ StateIn(l, st2[id].state)
  /\ \A x \in DOMAIN st : x \in DOMAIN st2 /\ (x # id => st2[x].state = st[x].state)

(* The pools are in order after it.                                           *)
LEMMA Shifted ==
  ASSUME NEW st, NEW po, NEW q, NEW k, NEW l, NEW id, NEW st2, NEW po2,
         Shift(st, po, q, k, l, id, st2, po2)
  PROVE  PoolsOK(st2, po2)
<1>1. /\ PoolsOK(st, po) /\ q \in Pools /\ k \in 1 .. 6 /\ l \in 1 .. 6 /\ k # l
      /\ po[q] \in PoolRecords /\ id \in Nat /\ (id \notin DOMAIN st \/ id \in Held(po, q, k))
      /\ Place(po2[q], l) = Append(Place(po[q], l), id)
      /\ ToSet(Place(po2[q], k)) = Held(po, q, k) \ {id} /\ IsInjective(Place(po2[q], k))
      /\ id \in DOMAIN st2 /\ StateIn(l, st2[id].state)
      /\ \A x \in DOMAIN st : x \in DOMAIN st2 /\ (x # id => st2[x].state = st[x].state)
  BY DEF Shift
<1>2. \A r \in Pools, m \in 1 .. 6 : id \in Held(po, r, m) => r = q /\ m = k
  BY <1>1 DEF PoolsOK
<1>3. Place(po[q], l) \in Seq(Nat) /\ IsInjective(Place(po[q], l)) /\ id \notin ToSet(Place(po[q], l))
  BY <1>1, <1>2, PlaceTypes DEF PoolsOK, Held
<1>4. ToSet(Place(po2[q], l)) = ToSet(Place(po[q], l)) \cup {id} /\ IsInjective(Place(po2[q], l))
  BY <1>1, <1>3, Appended
<1>5. /\ Held(po2, q, k) = Held(po, q, k) \ {id} /\ Held(po2, q, l) = Held(po, q, l) \cup {id}
      /\ IsInjective(Place(po2[q], k)) /\ IsInjective(Place(po2[q], l))
  BY <1>1, <1>4 DEF Held
<1>6. \A r \in Pools, m \in 1 .. 6 : r # q \/ m \notin {k, l} => Place(po2[r], m) = Place(po[r], m)
  BY DEF Shift
<1>7. \A r \in Pools, m \in 1 .. 6 : IsInjective(Place(po2[r], m))
  BY <1>1, <1>5, <1>6 DEF PoolsOK
<1>8. \A r \in Pools, m \in 1 .. 6 :
        Held(po2, r, m) = IF r = q /\ m = k THEN Held(po, r, m) \ {id}
                          ELSE IF r = q /\ m = l THEN Held(po, r, m) \cup {id}
                          ELSE Held(po, r, m)
  BY <1>1, <1>5, <1>6 DEF Held
<1>9. ASSUME NEW r \in Pools, NEW m \in 1 .. 6, NEW x \in Held(po2, r, m)
      PROVE  /\ x \in DOMAIN st2 /\ StateIn(m, st2[x].state)
             /\ \A t \in Pools, o \in 1 .. 6 : x \in Held(po2, t, o) => t = r /\ o = m
  <2>1. CASE x = id
    BY <1>1, <1>2, <1>8, <1>9, <2>1
  <2>2. CASE x # id
    <3>1. \A t \in Pools, o \in 1 .. 6 : x \in Held(po2, t, o) <=> x \in Held(po, t, o)
      BY <1>8, <2>2
    <3> QED
      BY <1>1, <1>9, <2>2, <3>1 DEF PoolsOK
  <2> QED
    BY <2>1, <2>2
<1> QED
  BY <1>7, <1>9 DEF PoolsOK

(* A store changes its state and its gpu buffer.                              *)
Altered(st, id, state, gpu) == [st EXCEPT ![id].state = state, ![id].gpu = gpu]

LEMMA Changed ==
  ASSUME NEW st \in Seq(Stores), NEW id \in DOMAIN st, NEW state \in States, NEW gpu \in Data
  PROVE  LET st2 == Altered(st, id, state, gpu)
         IN  /\ st2 \in Seq(Stores) /\ DOMAIN st2 = DOMAIN st
             /\ st2[id].state = state /\ st2[id].gpu = gpu /\ st2[id].cpu = st[id].cpu
             /\ \A y \in DOMAIN st : y # id => st2[y] = st[y]
<1> DEFINE st2 == Altered(st, id, state, gpu)
           u   == st[id]
           t   == [u EXCEPT !.state = state, !.gpu = gpu]
<1>1. st[id] \in Stores
  OBVIOUS
<1>2. t \in Stores /\ t.state = state /\ t.gpu = gpu /\ t.cpu = st[id].cpu
  BY <1>1 DEF Stores
<1>3. st2 = [st EXCEPT ![id] = t]
  BY DEF Altered
<1> HIDE DEF t, st2
<1>4. st2 \in Seq(Stores) /\ DOMAIN st2 = DOMAIN st /\ st2[id] = t
      /\ \A y \in DOMAIN st : y # id => st2[y] = st[y]
  BY <1>2, <1>3
<1> QED
  BY <1>2, <1>4 DEF st2

(* A forward takes a free store of its pool, or a new one.                    *)
LEMMA TakesStore ==
  ASSUME ~ conf.forwardOnly, NEW s \in Stage, NEW n \in Nodes, Key(n) \in Tensors,
         DOMAIN stores = Stage, DOMAIN pools = Stage, DOMAIN savedIn = Stage,
         stores[s] \in Seq(Stores), pools[s] \in [Pools -> PoolRecords],
         PoolsOK(stores[s], pools[s]), TakeStore(s, n)
  PROVE  /\ \E all, po2 : stores' = [stores EXCEPT ![s] = all] /\ pools' = [pools EXCEPT ![s] = po2]
         /\ \E id \in Nat :
              /\ savedIn' = [savedIn EXCEPT ![s] = SavedAlso(@, Key(n), id)]
              /\ stores'[s] \in Seq(Stores) /\ id \in DOMAIN stores'[s]
              /\ stores'[s][id].state = "SAVING" /\ stores'[s][id].gpu = Key(n)
              /\ id \in DOMAIN stores[s] => stores[s][id].state = "RESUME_RELEASED"
              /\ \A y \in DOMAIN stores[s] :
                   y \in DOMAIN stores'[s] /\ (y # id => stores'[s][y] = stores[s][y])
              /\ pools'[s] \in [Pools -> PoolRecords] /\ PoolsOK(stores'[s], pools'[s])
<1> DEFINE q    == PoolOf(n)
           st   == stores[s]
           po   == pools[s]
           free == po[q].free
           id   == IF free = <<>> THEN Len(st) + 1 ELSE Last(free)
           all  == IF free = <<>> THEN Append(st, [state |-> "NEW", gpu |-> NoKey, cpu |-> NoKey])
                   ELSE st
           st2  == Altered(all, id, "SAVING", Key(n))
           p    == Entered(TakenFree(po[q]), 1, id)
<1>1. /\ stores' = [stores EXCEPT ![s] = st2]
      /\ savedIn' = [savedIn EXCEPT ![s] = SavedAlso(@, Key(n), id)]
  BY DEF TakeStore, Altered
<1>2. pools' = [pools EXCEPT ![s] = [po EXCEPT ![q] = p]]
  BY DEF TakeStore
<1>3. q \in Pools /\ po[q] \in PoolRecords /\ free \in Seq(Nat)
  BY DEF PoolOf, Pools, Nodes, PoolRecords
<1>4. Place(po[q], 6) = free /\ IsInjective(free) /\ Held(po, q, 6) = ToSet(free)
  BY <1>3, PlaceTypes DEF PoolsOK, Held
<1>5. free # <<>> => /\ id \in ToSet(free) /\ id \in Nat
                     /\ ToSet(Front(free)) = ToSet(free) \ {id} /\ IsInjective(Front(free))
  BY <1>3, <1>4, Curtailed
<1>6. id \in Nat
  BY <1>5
<1>7. IF free = <<>> THEN id \notin DOMAIN st ELSE id \in DOMAIN st /\ st[id].state = "RESUME_RELEASED"
  <2>1. free # <<>> => id \in DOMAIN st /\ StateIn(6, st[id].state)
    BY <1>3, <1>4, <1>5 DEF PoolsOK
  <2> QED
    BY <2>1 DEF StateIn
<1>8. /\ all \in Seq(Stores) /\ id \in DOMAIN all
      /\ \A y \in DOMAIN st : y \in DOMAIN all /\ (y # id => all[y] = st[y])
  <2>1. [state |-> "NEW", gpu |-> NoKey, cpu |-> NoKey] \in Stores
    BY DEF Stores, Data
  <2>2. CASE free = <<>>
    BY <2>1, <2>2
  <2>3. CASE free # <<>>
    BY <1>7, <2>3
  <2> QED
    BY <2>2, <2>3
<1>9. /\ TakenFree(po[q]) \in PoolRecords
      /\ Place(TakenFree(po[q]), 6) = IF free = <<>> THEN <<>> ELSE Front(free)
      /\ \A m \in 1 .. 6 : m # 6 => Place(TakenFree(po[q]), m) = Place(po[q], m)
  BY <1>3, TakenFreePlace
<1>10. /\ p \in PoolRecords /\ Place(p, 1) = Append(Place(po[q], 1), id)
       /\ Place(p, 6) = IF free = <<>> THEN <<>> ELSE Front(free)
       /\ \A m \in 1 .. 6 : m \notin {6, 1} => Place(p, m) = Place(po[q], m)
  <2> DEFINE r == TakenFree(po[q])
  <2>1. r \in PoolRecords
    BY <1>9
  <2> HIDE DEF r, id, p, free
  <2>2. /\ Entered(r, 1, id) \in PoolRecords /\ Place(Entered(r, 1, id), 1) = Append(Place(r, 1), id)
        /\ \A m \in 1 .. 6 : m # 1 => Place(Entered(r, 1, id), m) = Place(r, m)
    <3>1. 1 \in 1 .. 6
      OBVIOUS
    <3> QED
      BY <1>6, <2>1, <3>1, EnteredPlace
  <2>3. p = Entered(r, 1, id)
    BY DEF r, p
  <2>4. 1 \in 1 .. 6 /\ 1 # 6
    OBVIOUS
  <2> QED
    BY <1>9, <2>2, <2>3, <2>4 DEF r
<1>11. ToSet(Place(p, 6)) = Held(po, q, 6) \ {id} /\ IsInjective(Place(p, 6))
  <2>1. CASE free = <<>>
    <3>1. ToSet(<<>>) = {} /\ IsInjective(<<>>)
      BY DEF ToSet, IsInjective
    <3> QED
      BY <1>4, <1>10, <2>1, <3>1
  <2>2. CASE free # <<>>
    BY <1>4, <1>5, <1>10, <2>2
  <2> QED
    BY <2>1, <2>2
<1>12. id \notin DOMAIN st \/ id \in Held(po, q, 6)
  BY <1>4, <1>5, <1>7
<1> HIDE DEF all, id, p
<1>13. /\ st2 \in Seq(Stores) /\ DOMAIN st2 = DOMAIN all
       /\ st2[id].state = "SAVING" /\ st2[id].gpu = Key(n)
       /\ \A y \in DOMAIN all : y # id => st2[y] = all[y]
  <2>1. "SAVING" \in States /\ Key(n) \in Data
    BY DEF States, Data
  <2> QED
    BY <1>8, <2>1, Changed
<1> HIDE DEF st2
<1>14. StateIn(1, st2[id].state)
  BY <1>13 DEF StateIn
<1>15. /\ [po EXCEPT ![q] = p] \in [Pools -> PoolRecords]
       /\ PoolsOK(st2, [po EXCEPT ![q] = p])
  <2> HIDE DEF st, po, q, free, st2
  <2>1. \A y \in DOMAIN st : y \in DOMAIN st2 /\ (y # id => st2[y].state = st[y].state)
    BY <1>8, <1>13
  <2>2. po \in [Pools -> PoolRecords] /\ PoolsOK(st, po)
    BY DEF po, st
  <2>3. id \in DOMAIN st2
    BY <1>8, <1>13
  <2> DEFINE po2 == [po EXCEPT ![q] = p]
  <2> HIDE DEF po2
  <2>4. /\ po2 \in [Pools -> PoolRecords] /\ po2[q] = p
        /\ \A r \in Pools : r # q => po2[r] = po[r]
    BY <1>3, <1>10, <2>2 DEF po2
  <2>5. Shift(st, po, q, 6, 1, id, st2, po2)
    BY <1>3, <1>6, <1>10, <1>11, <1>12, <1>14, <2>1, <2>2, <2>3, <2>4 DEF Shift
  <2> QED
    BY <2>4, <2>5, Shifted DEF po2
<1>16. pools'[s] = [po EXCEPT ![q] = p] /\ stores'[s] = st2
  BY <1>1, <1>2
<1>17. /\ id \in DOMAIN stores'[s]
       /\ id \in DOMAIN stores[s] => stores[s][id].state = "RESUME_RELEASED"
       /\ \A y \in DOMAIN stores[s] :
            y \in DOMAIN stores'[s] /\ (y # id => stores'[s][y] = stores[s][y])
  BY <1>7, <1>8, <1>13, <1>16
<1> HIDE DEF st, po, q
<1> QED
  BY <1>1, <1>2, <1>6, <1>13, <1>15, <1>16, <1>17

(* The first store of a queue goes to the next one, or becomes free.          *)
LEMMA MovesStore ==
  ASSUME NEW s \in Stage, NEW n \in Nodes, n.type \in MoveTypes,
         DOMAIN stores = Stage, DOMAIN pools = Stage,
         stores[s] \in Seq(Stores), pools[s] \in [Pools -> PoolRecords],
         PoolsOK(stores[s], pools[s]),
         QueueOf(s, n) # <<>>, stores[s][StoreAt(s, n)].state = Steps[n.type].from,
         NEW gpu \in Data, MoveStore(s, n, gpu)
  PROVE  LET id == StoreAt(s, n)
         IN  /\ \E st2, po2 : stores' = [stores EXCEPT ![s] = st2] /\ pools' = [pools EXCEPT ![s] = po2]
             /\ id \in DOMAIN stores[s]
             /\ stores'[s] \in Seq(Stores) /\ DOMAIN stores'[s] = DOMAIN stores[s]
             /\ stores'[s][id].state = Steps[n.type].to /\ stores'[s][id].gpu = gpu
             /\ stores'[s][id].cpu = stores[s][id].cpu
             /\ \A y \in DOMAIN stores[s] : y # id => stores'[s][y] = stores[s][y]
             /\ pools'[s] \in [Pools -> PoolRecords] /\ PoolsOK(stores'[s], pools'[s])
<1> DEFINE q   == PoolOf(n)
           st  == stores[s]
           po  == pools[s]
           k   == Steps[n.type].queue
           to  == Steps[n.type].to
           id  == StoreAt(s, n)
           st2 == Altered(st, id, to, gpu)
           p   == Entered(Left(po[q], k), k + 1, id)
<1>1. stores' = [stores EXCEPT ![s] = st2]
  BY DEF MoveStore, Altered
<1>2. pools' = [pools EXCEPT ![s] = [po EXCEPT ![q] = p]]
  BY DEF MoveStore
<1>3. q \in Pools /\ po[q] \in PoolRecords
  BY DEF PoolOf, Pools, Nodes
<1>4. k \in 1 .. 5 /\ k \in 1 .. 6 /\ k + 1 \in 1 .. 6 /\ k + 1 # k /\ to \in States
      /\ StateIn(k + 1, to)
  <2>1. k \in 1 .. 5 /\ k + 1 \in 1 .. 6 /\ k + 1 # k /\ to \in States /\ StateIn(k + 1, to)
    BY StepFacts
  <2> QED
    BY <2>1
<1>5. /\ Place(po[q], k) = QueueOf(s, n) /\ IsInjective(QueueOf(s, n)) /\ QueueOf(s, n) \in Seq(Nat)
      /\ Held(po, q, k) = ToSet(QueueOf(s, n))
  <2>1. Place(po[q], k) \in Seq(Nat) /\ Place(po[q], k) = po[q].queues[k]
    <3>1. k # 6
      BY <1>4
    <3>2. po[q].queues[k] \in Seq(Nat)
      BY <1>3, <1>4 DEF PoolRecords
    <3> QED
      BY <3>1, <3>2 DEF Place
  <2> QED
    BY <1>3, <1>4, <2>1 DEF PoolsOK, Held, QueueOf
<1>6. id = Head(QueueOf(s, n))
  BY DEF StoreAt, PoppedFirst
<1>7. /\ id \in Held(po, q, k) /\ id \in Nat
      /\ ToSet(Tail(QueueOf(s, n))) = Held(po, q, k) \ {id} /\ IsInjective(Tail(QueueOf(s, n)))
  BY <1>5, <1>6, Beheaded
<1>8. id \in DOMAIN st
  BY <1>3, <1>4, <1>7 DEF PoolsOK
<1> HIDE DEF k, to, id
<1>9. /\ Left(po[q], k) \in PoolRecords /\ Place(Left(po[q], k), k) = Tail(QueueOf(s, n))
      /\ \A m \in 1 .. 6 : m # k => Place(Left(po[q], k), m) = Place(po[q], m)
  BY <1>3, <1>4, <1>5, LeftPlace
<1>10. /\ p \in PoolRecords /\ Place(p, k + 1) = Append(Place(po[q], k + 1), id)
       /\ Place(p, k) = Tail(QueueOf(s, n))
       /\ \A m \in 1 .. 6 : m \notin {k, k + 1} => Place(p, m) = Place(po[q], m)
  <2> DEFINE r == Left(po[q], k)
  <2>1. r \in PoolRecords
    BY <1>9
  <2> DEFINE l == k + 1
  <2>2. l \in 1 .. 6 /\ l # k /\ k \in 1 .. 6
    BY <1>4
  <2>3. p = Entered(r, l, id)
    OBVIOUS
  <2> HIDE DEF r, l, p
  <2>4. /\ Entered(r, l, id) \in PoolRecords /\ Place(Entered(r, l, id), l) = Append(Place(r, l), id)
        /\ \A m \in 1 .. 6 : m # l => Place(Entered(r, l, id), m) = Place(r, m)
    BY <1>7, <2>1, <2>2, EnteredPlace
  <2>5. /\ Place(r, k) = Tail(QueueOf(s, n))
        /\ \A m \in 1 .. 6 : m # k => Place(r, m) = Place(po[q], m)
    BY <1>9 DEF r
  <2>6. /\ p \in PoolRecords /\ Place(p, l) = Append(Place(po[q], l), id)
        /\ Place(p, k) = Tail(QueueOf(s, n))
        /\ \A m \in 1 .. 6 : m \notin {k, l} => Place(p, m) = Place(po[q], m)
    BY <2>2, <2>3, <2>4, <2>5
  <2> QED
    BY <2>6 DEF l
<1> HIDE DEF p
<1>11. /\ st2 \in Seq(Stores) /\ DOMAIN st2 = DOMAIN st
       /\ st2[id].state = to /\ st2[id].gpu = gpu /\ st2[id].cpu = st[id].cpu
       /\ \A y \in DOMAIN st : y # id => st2[y] = st[y]
  BY <1>4, <1>8, Changed
<1> HIDE DEF st2
<1>12. /\ [po EXCEPT ![q] = p] \in [Pools -> PoolRecords]
       /\ PoolsOK(st2, [po EXCEPT ![q] = p])
  <2> HIDE DEF st, po, q
  <2>1. po \in [Pools -> PoolRecords] /\ PoolsOK(st, po)
    BY DEF po, st
  <2> DEFINE po2 == [po EXCEPT ![q] = p]
  <2> HIDE DEF po2
  <2>2. /\ po2 \in [Pools -> PoolRecords] /\ po2[q] = p
        /\ \A r \in Pools : r # q => po2[r] = po[r]
    BY <1>3, <1>10, <2>1 DEF po2
  <2>3. Shift(st, po, q, k, k + 1, id, st2, po2)
    BY <1>3, <1>4, <1>7, <1>8, <1>10, <1>11, <2>1, <2>2 DEF Shift
  <2> QED
    BY <2>2, <2>3, Shifted DEF po2
<1>13. pools'[s] = [po EXCEPT ![q] = p] /\ stores'[s] = st2
  BY <1>1, <1>2
<1> HIDE DEF po, q
<1> QED
  BY <1>1, <1>2, <1>8, <1>11, <1>12, <1>13 DEF id, to

(* What a stage has found, and what it holds.                                 *)
Kept(s, x, re, rd) == DOMAIN re = DOMAIN Order(s) /\ Found(s, x, re, rd)

StageTypes(s, st, po, sv, rc) ==
  /\ st \in Seq(Stores) /\ po \in [Pools -> PoolRecords] /\ sv \in [DOMAIN sv -> Nat]
  /\ rc \in [Chunks -> Seq(Tensors)]

(* What a stage that goes on has in its stores, its copies and its queues.    *)
StageOK(s, x, st, po, sv, co, ha, rc, rd) ==
  /\ StageTypes(s, st, po, sv, rc)
  /\ PoolsOK(st, po) /\ CopiesFit(st, co) /\ Stored(s, x, st, sv, co)
  /\ EventsReady(s, x, po, ha)
  /\ \A k \in Chunks : RedoneOf(s, k, x, rc[k], rd)

(* The invariant, for the stages one by one. A stage that has raised keeps    *)
(* what its backwards have found. Without backwards nothing is saved.         *)
StageAt(s) ==
  /\ Kept(s, it[s], restored[s], recomputed[s])
  /\ status[s] # "raised" =>
       StageOK(s, it[s], stores[s], pools[s], savedIn[s], copies[s], handles[s],
               recompute[s], recomputed[s])

MemoryDomains ==
  /\ DOMAIN stores = Stage /\ DOMAIN pools = Stage /\ DOMAIN savedIn = Stage
  /\ DOMAIN restored = Stage /\ DOMAIN recompute = Stage /\ DOMAIN recomputed = Stage

MemoryOK == MemoryDomains /\ (~ conf.forwardOnly => \A s \in Stage : StageAt(s))

-------------------------------------------------------------------------------
(* What the position of a stage changes.                                      *)

(* A forward is pending until its backward.                                   *)
LEMMA PendingNext ==
  ASSUME conf \in Conf, NEW s \in Stage, NEW x \in Nat, NEW j, Pending(s, j, x + 1)
  PROVE  /\ Pending(s, j, x) \/ (j = x /\ Node(s, x).type = "F" /\ Node(s, x).offload)
         /\ \A k \in Chunks : x \in Bs(s, k) /\ j \in Fs(s, k) => ~ Mate(s, x, j)
<1>1. PICK k \in Chunks : Undone(s, k, j, x + 1)
  BY DEF Pending
<1>2. /\ j \in Fs(s, k) /\ j < x + 1 /\ Node(s, j).type = "F" /\ Node(s, j).chunk = k
      /\ j \in Nat /\ Node(s, j).offload
      /\ \A i \in Bs(s, k) : i \in Nat /\ (i < x + 1 => ~ Mate(s, i, j))
  BY <1>1, ForwardTypes DEF Undone, Pending
<1>3. j < x \/ j = x
  BY <1>2
<1>4. \A i \in Bs(s, k) : i < x => i < x + 1
  BY <1>2
<1>5. j < x => Pending(s, j, x)
  BY <1>2, <1>4 DEF Pending, Undone
<1>6. ASSUME NEW l \in Chunks, x \in Bs(s, l), j \in Fs(s, l) PROVE ~ Mate(s, x, j)
  <2>1. l = k
    BY <1>2, <1>6, ForwardTypes
  <2> QED
    BY <1>2, <1>6, <2>1
<1> QED
  BY <1>2, <1>3, <1>5, <1>6

(* A pending forward is a forward to be offloaded, which is done.             *)
LEMMA PendingHere ==
  ASSUME conf \in Conf, NEW s \in Stage, NEW j, NEW x, Pending(s, j, x)
  PROVE  /\ j \in DOMAIN Order(s) /\ j < x /\ Node(s, j).type = "F" /\ Node(s, j).offload
         /\ Key(Node(s, j)) \in Tensors
<1>1. PICK k \in Chunks : Undone(s, k, j, x)
  BY DEF Pending
<1>2. j \in Fs(s, k) /\ j < x
  BY <1>1 DEF Undone
<1>3. j \in DOMAIN Order(s) /\ Node(s, j).type = "F"
  BY <1>2, ForwardTypes
<1>4. Key(Node(s, j)) \in Tensors
  BY <1>3, NodeIsNode, KeyIsTensor
<1> QED
  BY <1>2, <1>3, <1>4 DEF Pending

(* No forward but those that are pending matters.                             *)
LEMMA StoredStays ==
  ASSUME NEW s, NEW x, NEW st, NEW sv, NEW co, Stored(s, x, st, sv, co), NEW y, NEW st2, NEW co2,
         \A j : Pending(s, j, y) => Pending(s, j, x) /\ StoreHas(st2, sv, co2, Key(Node(s, j)))
  PROVE  Stored(s, y, st2, sv, co2)
BY DEF Stored

(* What was found stays, and the backward at x has found its own.             *)
LEMMA FoundNext ==
  ASSUME conf \in Conf, NEW s \in Stage, NEW x \in Nat, NEW re, NEW rd, Found(s, x, re, rd),
         NEW re2, NEW rd2, rd \subseteq rd2, \A i \in Nat : i # x => re2[i] = re[i],
         \A k \in Chunks : x \in Bs(s, k) => FoundOwn(s, k, x, re2, rd2)
  PROVE  Found(s, x + 1, re2, rd2)
<1> SUFFICES ASSUME NEW k \in Chunks, NEW i \in Bs(s, k), i < x + 1
             PROVE  FoundOwn(s, k, i, re2, rd2)
  BY DEF Found
<1>1. i \in Nat
  BY ForwardTypes
<1>2. CASE i = x
  BY <1>2
<1>3. CASE i < x
  <2>1. FoundOwn(s, k, i, re, rd) /\ re2[i] = re[i]
    BY <1>1, <1>3 DEF Found
  <2> QED
    BY <2>1 DEF FoundOwn
<1> QED
  BY <1>1, <1>2, <1>3

(* A step at a node that has nothing to do with the activations.              *)
LEMMA QuietStage ==
  ASSUME conf \in Conf, NEW s \in Stage, NEW x \in DOMAIN Order(s),
         NEW st, NEW po, NEW sv, NEW co, NEW ha, NEW rc, NEW rd,
         StageOK(s, x, st, po, sv, co, ha, rc, rd),
         Node(s, x).type = "F" => ~ Node(s, x).offload /\ ~ Node(s, x).recompute,
         Node(s, x).type # "R",
         Node(s, x).type \in BarrierTypes => Len(ha) = BarriersBefore(conf, s, x) + 1
  PROVE  StageOK(s, x + 1, st, po, sv, co, ha, rc, rd)
<1>1. x \in Nat
  BY PositionsAreNumbers
<1>2. Stored(s, x + 1, st, sv, co)
  <2>1. \A j : Pending(s, j, x + 1) => Pending(s, j, x)
    BY <1>1, PendingNext
  <2>2. \A j : Pending(s, j, x) => StoreHas(st, sv, co, Key(Node(s, j)))
    BY DEF StageOK, Stored
  <2>3. Stored(s, x, st, sv, co)
    BY DEF StageOK
  <2> QED
    BY <2>1, <2>2, <2>3, StoredStays
<1>3. EventsReady(s, x + 1, po, ha)
  BY EventsPass DEF StageOK
<1>4. ASSUME NEW k \in Chunks PROVE RedoneOf(s, k, x + 1, rc[k], rd)
  <2>1. x \notin RF(s, k) /\ x \notin RN(s, k)
    BY RecomputeSets
  <2>2. RedoneOf(s, k, x, rc[k], rd)
    BY DEF StageOK
  <2> QED
    BY <1>1, <2>1, <2>2, RedonePass
<1> QED
  BY <1>2, <1>3, <1>4 DEF StageOK

-------------------------------------------------------------------------------
(* From the values after a step to the invariant.                             *)

LEMMA PrimedStage ==
  ASSUME NEW s \in Stage, conf' = conf,
         Kept(s, it'[s], restored'[s], recomputed'[s]),
         status'[s] # "raised" =>
           StageOK(s, it'[s], stores'[s], pools'[s], savedIn'[s], copies'[s], handles'[s],
                   recompute'[s], recomputed'[s])
  PROVE  StageAt(s)'
<1>1. Kept(s, it[s], restored[s], recomputed[s])'
  BY DEF Kept, Found, FoundOwn, Fs, Bs, Mate, Node, Order
<1>2. SUFFICES ASSUME StageOK(s, it'[s], stores'[s], pools'[s], savedIn'[s], copies'[s],
                              handles'[s], recompute'[s], recomputed'[s])
               PROVE  StageOK(s, it[s], stores[s], pools[s], savedIn[s], copies[s],
                              handles[s], recompute[s], recomputed[s])'
  BY <1>1 DEF StageAt
<1>3. StageTypes(s, stores[s], pools[s], savedIn[s], recompute[s])'
  BY <1>2 DEF StageOK, StageTypes
<1>4. PoolsOK(stores[s], pools[s])' /\ CopiesFit(stores[s], copies[s])'
  BY <1>2 DEF StageOK, PoolsOK, CopiesFit
<1>5. Stored(s, it[s], stores[s], savedIn[s], copies[s])'
  BY <1>2 DEF StageOK, Stored, StoreHas, Pending, Undone, Fs, Bs, Mate, Node, Order
<1>6. EventsReady(s, it[s], pools[s], handles[s])'
  BY <1>2 DEF StageOK, EventsReady, Node, Order
<1>7. \A k \in Chunks : RedoneOf(s, k, it[s], recompute[s][k], recomputed[s])'
  BY <1>2 DEF StageOK, RedoneOf, RF, RN, Node, Order
<1> QED
  BY <1>3, <1>4, <1>5, <1>6, <1>7 DEF StageOK

(* The step of another stage.                                                 *)
SameStage(u) ==
  /\ it'[u] = it[u] /\ status'[u] = status[u]
  /\ stores'[u] = stores[u] /\ pools'[u] = pools[u] /\ savedIn'[u] = savedIn[u]
  /\ copies'[u] = copies[u] /\ handles'[u] = handles[u] /\ restored'[u] = restored[u]
  /\ recompute'[u] = recompute[u] /\ recomputed'[u] = recomputed[u]

LEMMA OneStage ==
  ASSUME MemoryOK, NEW s \in Stage, conf' = conf, MemoryDomains',
         ~ conf.forwardOnly => StageAt(s)', \A u \in Stage : u # s => SameStage(u)
  PROVE  MemoryOK'
<1>1. ASSUME ~ conf.forwardOnly, NEW u \in Stage, u # s PROVE StageAt(u)'
  <2>1. StageAt(u) /\ SameStage(u)
    BY <1>1 DEF MemoryOK
  <2> QED
    BY <2>1, PrimedStage DEF StageAt, SameStage
<1> QED
  BY <1>1 DEF MemoryOK

(* Every stage keeps its stores.                                              *)
LEMMA DomainsKept ==
  ASSUME MemoryDomains, MemoryNext
  PROVE  MemoryDomains'
<1>1. UNCHANGED memory => MemoryDomains'
  BY DEF MemoryDomains, memory, kept, redone
<1>2. ASSUME NEW s \in Stage, Forward(s) PROVE MemoryDomains'
  <2>1. \/ UNCHANGED memory
        \/ /\ UNCHANGED <<restored, recomputed>>
           /\ recompute' = recompute
              \/ recompute' = [recompute EXCEPT ![s][Node(s, it[s]).chunk] = Append(@, Key(Node(s, it[s])))]
           /\ UNCHANGED <<stores, pools, savedIn>> \/ TakeStore(s, Node(s, it[s]))
    BY <1>2 DEF Forward
  <2> QED
    BY <1>1, <2>1 DEF MemoryDomains, TakeStore
<1>3. ASSUME NEW s \in Stage, Backward(s) PROVE MemoryDomains'
  BY <1>1, <1>3 DEF Backward, MemoryDomains, redone
<1>4. ASSUME NEW s \in Stage, Recompute(s) PROVE MemoryDomains'
  BY <1>4 DEF Recompute, MemoryDomains, redone, kept
<1>5. ASSUME NEW s \in Stage, NEW n, NEW gpu, MoveStore(s, n, gpu), UNCHANGED redone
      PROVE  MemoryDomains'
  BY <1>5 DEF MoveStore, MemoryDomains, redone
<1>6. ASSUME NEW s \in Stage, Release(s) PROVE MemoryDomains'
  BY <1>1, <1>5, <1>6 DEF Release
<1>7. ASSUME NEW s \in Stage, SendEvent(s) PROVE MemoryDomains'
  BY <1>1, <1>7 DEF SendEvent, MemoryDomains, kept, redone
<1>8. ASSUME NEW s \in Stage, ReceiveEvent(s) PROVE MemoryDomains'
  BY <1>5, <1>8 DEF ReceiveEvent, MemoryDomains, kept, redone
<1>9. ASSUME NEW s \in Stage, BeginCopy(s) PROVE MemoryDomains'
  BY <1>9 DEF BeginCopy, MemoryDomains, kept, redone
<1>10. ASSUME NEW s \in Stage, EndCopy(s) PROVE MemoryDomains'
  BY <1>10 DEF EndCopy, MemoryDomains, redone
<1> QED
  BY <1>1, <1>2, <1>3, <1>4, <1>6, <1>7, <1>8, <1>9, <1>10 DEF MemoryNext, Other, FinishEmpty

-------------------------------------------------------------------------------
(* A stage goes on to its next node, or raises.                               *)
Outcome(s) ==
  /\ conf' = conf
  /\ \A u \in Stage : u # s => it'[u] = it[u] /\ status'[u] = status[u]
  /\ \/ it'[s] = it[s] /\ status'[s] = "raised"
     \/ it'[s] = it[s] + 1 /\ status'[s] = status[s]

LEMMA Outcomes ==
  ASSUME Inv, NEW s \in Stage,
         Raise(s) \/ Skip(s) \/ ForwardF(s) \/ BackwardB(s) \/ WeightW(s) \/ AddCommunication(s)
  PROVE  Outcome(s)
<1>1. Raise(s) => Outcome(s)
  BY DEF Raise, Outcome, Inv, TypeOK
<1>2. Advance(s) /\ UNCHANGED <<conf, status>> => Outcome(s)
  BY AdvancedStage DEF Outcome
<1>3. ForwardF(s) => Raise(s) \/ (Advance(s) /\ UNCHANGED <<conf, status>>)
  BY DEF ForwardF
<1>4. BackwardB(s) => Raise(s) \/ (Advance(s) /\ UNCHANGED <<conf, status>>)
  BY DEF BackwardB, Skip
<1>5. WeightW(s) => Raise(s) \/ (Advance(s) /\ UNCHANGED <<conf, status>>)
  BY WeightWCases DEF TakesW, Skip
<1>6. AddCommunication(s) => Raise(s) \/ (Advance(s) /\ UNCHANGED <<conf, status>>)
  BY DEF AddCommunication, Skip
<1> QED
  BY <1>1, <1>2, <1>3, <1>4, <1>5, <1>6 DEF Skip

(* What a step of the runtime has to establish for the stage that makes it.   *)
LEMMA StageStep ==
  ASSUME Inv, MemoryOK, ~ conf.forwardOnly, NEW s \in Stage, Outcome(s),
         it[s] \in DOMAIN Order(s),
         DOMAIN restored'[s] = DOMAIN restored[s],
         \A i \in Nat : i # it[s] => restored'[s][i] = restored[s][i],
         recomputed[s] \subseteq recomputed'[s],
         it'[s] = it[s] + 1 =>
           /\ \A k \in Chunks : it[s] \in Bs(s, k) => FoundOwn(s, k, it[s], restored'[s], recomputed'[s])
           /\ StageOK(s, it[s] + 1, stores'[s], pools'[s], savedIn'[s], copies'[s], handles'[s],
                      recompute'[s], recomputed'[s])
  PROVE  StageAt(s)'
<1>1. conf' = conf /\ conf \in Conf /\ it[s] \in Nat /\ Kept(s, it[s], restored[s], recomputed[s])
  BY StageFacts DEF Outcome, MemoryOK, StageAt
<1>2. CASE it'[s] = it[s] /\ status'[s] = "raised"
  <2>1. ASSUME NEW k \in Chunks, NEW i \in Bs(s, k), i < it[s]
        PROVE  FoundOwn(s, k, i, restored'[s], recomputed'[s])
    <3>1. i \in Nat /\ i # it[s] /\ FoundOwn(s, k, i, restored[s], recomputed[s])
      BY <1>1, <2>1, ForwardTypes DEF Kept, Found
    <3> QED
      BY <3>1 DEF FoundOwn
  <2>2. Kept(s, it'[s], restored'[s], recomputed'[s])
    BY <1>1, <1>2, <2>1 DEF Kept, Found
  <2> QED
    BY <1>1, <1>2, <2>2, PrimedStage
<1>3. CASE it'[s] = it[s] + 1
  <2>1. Found(s, it[s] + 1, restored'[s], recomputed'[s])
    BY <1>1, <1>3, FoundNext DEF Kept
  <2>2. Kept(s, it'[s], restored'[s], recomputed'[s])
    BY <1>1, <1>3, <2>1 DEF Kept
  <2> QED
    BY <1>1, <1>3, <2>2, PrimedStage
<1> QED
  BY <1>2, <1>3 DEF Outcome

(* A step of the stage alone.                                                 *)
LEMMA StepAlone ==
  ASSUME MemoryOK, MemoryNext, NEW s \in Stage, Outcome(s),
         ~ conf.forwardOnly => StageAt(s)',
         \A u \in Stage : u # s =>
           /\ stores'[u] = stores[u] /\ pools'[u] = pools[u] /\ savedIn'[u] = savedIn[u]
           /\ copies'[u] = copies[u] /\ handles'[u] = handles[u] /\ restored'[u] = restored[u]
           /\ recompute'[u] = recompute[u] /\ recomputed'[u] = recomputed[u]
  PROVE  MemoryOK'
<1>1. MemoryDomains' /\ conf' = conf
  BY DomainsKept DEF MemoryOK, Outcome
<1> QED
  BY <1>1, OneStage DEF Outcome, SameStage

(* A node that the stores and the recomputations have nothing to do with.     *)
LEMMA QuietNode ==
  ASSUME Inv, MemoryOK, MemoryNext, NEW s \in Stage, Outcome(s), UNCHANGED memory,
         it[s] \in DOMAIN Order(s), status[s] = "running",
         ~ conf.forwardOnly /\ it'[s] = it[s] + 1 =>
           LET n == Node(s, it[s])
           IN  /\ n.type = "F" => ~ n.offload /\ ~ n.recompute
               /\ n.type # "R"
               /\ n.type \in BarrierTypes => Len(handles[s]) = BarriersBefore(conf, s, it[s]) + 1
               /\ \A k \in Chunks : it[s] \in Bs(s, k) =>
                    FoundOwn(s, k, it[s], restored[s], recomputed[s])
  PROVE  MemoryOK'
<1>1. UNCHANGED <<stores, pools, savedIn, restored, copies, handles, recompute, recomputed>>
  BY DEF memory, kept, transfer, redone
<1>2. ASSUME ~ conf.forwardOnly PROVE StageAt(s)'
  <2>1. StageOK(s, it[s], stores[s], pools[s], savedIn[s], copies[s], handles[s],
                recompute[s], recomputed[s])
    BY <1>2 DEF MemoryOK, StageAt
  <2>2. conf \in Conf
    BY StageFacts
  <2>3. it'[s] = it[s] + 1 =>
          StageOK(s, it[s] + 1, stores[s], pools[s], savedIn[s], copies[s], handles[s],
                  recompute[s], recomputed[s])
    BY <1>2, <2>1, <2>2, QuietStage
  <2> QED
    BY <1>1, <1>2, <2>3, StageStep
<1> QED
  BY <1>1, <1>2, StepAlone

-------------------------------------------------------------------------------
(* A forward saves its activations in a store, or is queued.                  *)

(* What is stored stays there.                                                *)
LEMMA StillCarried ==
  ASSUME NEW st, NEW sv, NEW co, NEW key, StoreHas(st, sv, co, key), NEW st2, NEW sv2, NEW id,
         id \in DOMAIN st => st[id].state = "RESUME_RELEASED",
         \A y \in DOMAIN st : y \in DOMAIN st2 /\ (y # id => st2[y] = st[y]),
         key \in DOMAIN sv2, sv2[key] = sv[key]
  PROVE  StoreHas(st2, sv2, co, key) /\ sv[key] # id
<1>1. key \in DOMAIN sv /\ sv[key] \in DOMAIN st /\ Carries(st[sv[key]], key, InCopy(co, sv[key]))
  BY DEF StoreHas
<1>2. st[sv[key]].state # "RESUME_RELEASED"
  BY <1>1 DEF Carries
<1>3. sv[key] # id
  BY <1>1, <1>2
<1> QED
  BY <1>1, <1>3 DEF StoreHas

(* Two forwards have two keys.                                                *)
LEMMA KeysDiffer ==
  ASSUME conf \in Conf, NEW s \in Stage, NEW i \in DOMAIN Order(s), NEW j \in DOMAIN Order(s),
         Node(s, i).type = "F", Key(Node(s, i)) = Key(Node(s, j))
  PROVE  i = j
BY ComputedOnce DEF Order, Node

(* The store of a forward is added to those of the others.                    *)
LEMMA ForwardStores ==
  ASSUME conf \in Conf, NEW s \in Stage, NEW x \in DOMAIN Order(s), NEW key,
         Node(s, x).type = "F", Node(s, x).offload, key = Key(Node(s, x)),
         NEW st, NEW sv, NEW co, CopiesFit(st, co), Stored(s, x, st, sv, co),
         NEW st2, NEW sv2, NEW id \in Nat, sv2 = SavedAlso(sv, key, id),
         id \in DOMAIN st2, st2[id].state = "SAVING", st2[id].gpu = key,
         id \in DOMAIN st => st[id].state = "RESUME_RELEASED",
         \A y \in DOMAIN st : y \in DOMAIN st2 /\ (y # id => st2[y] = st[y])
  PROVE  CopiesFit(st2, co) /\ Stored(s, x + 1, st2, sv2, co)
<1>0. x \in Nat
  BY PositionsAreNumbers
<1>1. DOMAIN sv2 = {key} \cup DOMAIN sv /\ sv2[key] = id /\ \A k \in DOMAIN sv : k # key => sv2[k] = sv[k]
  BY DEF SavedAlso
<1>2. CopiesFit(st2, co)
  <2>1. ASSUME NEW y, InCopy(co, y) PROVE y \in DOMAIN st2 /\ st2[y].state = st[y].state
    <3>1. y \in DOMAIN st /\ st[y].state \in {"OFFLOADED", "RESUMED"}
      BY <2>1, CopiedStates
    <3> QED
      BY <3>1
  <2> QED
    BY <2>1, CopiesStay
<1>3. ASSUME NEW j, Pending(s, j, x + 1), j # x
      PROVE  /\ Pending(s, j, x) /\ StoreHas(st2, sv2, co, Key(Node(s, j)))
             /\ sv2[Key(Node(s, j))] = sv[Key(Node(s, j))] /\ sv2[Key(Node(s, j))] # id
  <2>1. Pending(s, j, x)
    BY <1>0, <1>3, PendingNext
  <2>2. j \in DOMAIN Order(s) /\ Node(s, j).type = "F"
    BY <2>1, PendingHere
  <2>3. Key(Node(s, j)) # key
    BY <1>3, <2>2, KeysDiffer
  <2>4. StoreHas(st, sv, co, Key(Node(s, j)))
    BY <2>1 DEF Stored
  <2>5. Key(Node(s, j)) \in DOMAIN sv
    BY <2>4 DEF StoreHas
  <2>6. Key(Node(s, j)) \in DOMAIN sv2 /\ sv2[Key(Node(s, j))] = sv[Key(Node(s, j))]
    BY <1>1, <2>3, <2>5
  <2> QED
    BY <2>1, <2>4, <2>6, StillCarried
<1>4. StoreHas(st2, sv2, co, key)
  BY <1>1 DEF StoreHas, Carries
<1>5. \A j : Pending(s, j, x + 1) => StoreHas(st2, sv2, co, Key(Node(s, j)))
  BY <1>3, <1>4
<1>6. ASSUME NEW j, NEW l, Pending(s, j, x + 1), Pending(s, l, x + 1),
             sv2[Key(Node(s, j))] = sv2[Key(Node(s, l))]
      PROVE  j = l
  BY <1>1, <1>3, <1>6 DEF Stored
<1>7. \A k \in DOMAIN sv2 : \E j \in DOMAIN Order(s) :
        Node(s, j).type = "F" /\ Node(s, j).offload /\ Key(Node(s, j)) = k
  BY <1>1 DEF Stored
<1> QED
  BY <1>2, <1>5, <1>6, <1>7 DEF Stored

(* The step of a forward.                                                     *)
LEMMA ForwardStep ==
  ASSUME Inv, MemoryOK, MemoryNext, NEW s \in Stage, Forward(s)
  PROVE  MemoryOK'
<1> DEFINE x == it[s]
           n == Node(s, x)
<1>1. /\ x \in DOMAIN Order(s) /\ n.type = "F" /\ status[s] = "running"
      /\ conf \in Conf /\ n \in Nodes /\ Key(n) \in Tensors /\ x \in Nat
  BY StageFacts, NodeIsNode, KeyIsTensor DEF Forward, AtNode
<1>2. CASE Raise(s) /\ UNCHANGED memory
  <2>1. Outcome(s)
    BY <1>2, Outcomes
  <2>2. it' = it
    BY <1>2 DEF Raise
  <2> QED
    BY <1>1, <1>2, <2>1, <2>2, QuietNode
<1>3. CASE ~ (n.offload /\ n.recompute)
  <2>1. /\ ForwardF(s)
        /\ IF n.offload THEN TakeStore(s, n) ELSE UNCHANGED <<stores, pools, savedIn>>
        /\ recompute' = IF n.recompute
                        THEN [recompute EXCEPT ![s][n.chunk] = Append(@, Key(n))]
                        ELSE recompute
        /\ UNCHANGED <<transfer, restored, recomputed>>
    BY <1>3 DEF Forward
  <2>2. UNCHANGED <<copies, handles, restored, recomputed>>
    BY <2>1 DEF transfer
  <2>3. Outcome(s)
    BY <2>1, Outcomes
  <2>4. \A u \in Stage : u # s =>
           /\ stores'[u] = stores[u] /\ pools'[u] = pools[u] /\ savedIn'[u] = savedIn[u]
           /\ copies'[u] = copies[u] /\ handles'[u] = handles[u] /\ restored'[u] = restored[u]
           /\ recompute'[u] = recompute[u] /\ recomputed'[u] = recomputed[u]
    BY <2>1, <2>2 DEF TakeStore, MemoryOK, MemoryDomains
  <2>5. ASSUME ~ conf.forwardOnly PROVE StageAt(s)'
    <3> DEFINE st == stores[s]
               po == pools[s]
               sv == savedIn[s]
               co == copies[s]
               ha == handles[s]
               rc == recompute[s]
               rd == recomputed[s]
    <3>1. StageOK(s, x, st, po, sv, co, ha, rc, rd)
      BY <1>1, <2>5 DEF MemoryOK, StageAt
    <3>2. /\ StageTypes(s, st, po, sv, rc) /\ PoolsOK(st, po) /\ CopiesFit(st, co)
          /\ Stored(s, x, st, sv, co) /\ EventsReady(s, x, po, ha)
          /\ \A k \in Chunks : RedoneOf(s, k, x, rc[k], rd)
      BY <3>1 DEF StageOK
    <3>3. /\ st \in Seq(Stores) /\ po \in [Pools -> PoolRecords] /\ sv \in [DOMAIN sv -> Nat]
          /\ rc \in [Chunks -> Seq(Tensors)] /\ n.chunk \in Chunks
      BY <1>1, <3>2 DEF StageTypes, Nodes
    <3>4. MemoryDomains
      BY DEF MemoryOK
    <3>5. \A k \in Chunks : x \notin Bs(s, k)
      BY <1>1, ForwardTypes
    <3>6. n.type \notin BarrierTypes /\ n.type # "R"
      BY <1>1 DEF BarrierTypes, CopyStarts
    <3>7. x \in Live(conf, s)
      <4>1. ~ Skipped(n)
        BY <2>5 DEF Skipped, SkippedIn
      <4> QED
        BY <1>1, <4>1, IsLive
    <3>8. \A k \in Chunks : x \in RF(s, k) <=> k = n.chunk /\ n.recompute
      BY <1>1, <3>7 DEF RF, RecomputedForwards, ForwardsOf, Node
    <3>9. \A k \in Chunks : x \notin RN(s, k)
      BY <1>1, RecomputeSets
    <3>10. \A p : EventsReady(s, x + 1, p, ha)
      BY <1>1, <3>2, <3>6, EventsPass
    <3>11. /\ recompute'[s] \in [Chunks -> Seq(Tensors)]
           /\ \A k \in Chunks : RedoneOf(s, k, x + 1, recompute'[s][k], rd)
      <4>1. CASE n.recompute
        <5>1. recompute'[s] = [rc EXCEPT ![n.chunk] = Append(rc[n.chunk], Key(n))]
          BY <2>1, <3>4, <4>1 DEF MemoryDomains
        <5>2. RedoneOf(s, n.chunk, x + 1, Append(rc[n.chunk], Key(n)), rd)
          BY <1>1, <3>2, <3>3, <3>8, <4>1, RedoneQueues
        <5>3. \A k \in Chunks : k # n.chunk => RedoneOf(s, k, x + 1, rc[k], rd)
          BY <1>1, <3>2, <3>8, <3>9, RedonePass
        <5> HIDE DEF n, rc
        <5> QED
          BY <1>1, <3>3, <5>1, <5>2, <5>3
      <4>2. CASE ~ n.recompute
        <5>1. \A k \in Chunks : RedoneOf(s, k, x + 1, rc[k], rd)
          BY <1>1, <3>2, <3>8, <3>9, <4>2, RedonePass
        <5> QED
          BY <2>1, <3>3, <4>2, <5>1
      <4> QED
        BY <4>1, <4>2
    <3>12. /\ stores'[s] \in Seq(Stores) /\ pools'[s] \in [Pools -> PoolRecords]
           /\ savedIn'[s] \in [DOMAIN savedIn'[s] -> Nat] /\ PoolsOK(stores'[s], pools'[s])
           /\ CopiesFit(stores'[s], co) /\ Stored(s, x + 1, stores'[s], savedIn'[s], co)
      <4>1. CASE n.offload
        <5>1. TakeStore(s, n)
          BY <2>1, <4>1
        <5>2. PICK id \in Nat :
              /\ savedIn' = [savedIn EXCEPT ![s] = SavedAlso(savedIn[s], Key(n), id)]
              /\ stores'[s] \in Seq(Stores) /\ id \in DOMAIN stores'[s]
              /\ stores'[s][id].state = "SAVING" /\ stores'[s][id].gpu = Key(n)
              /\ id \in DOMAIN st => st[id].state = "RESUME_RELEASED"
              /\ \A y \in DOMAIN st : y \in DOMAIN stores'[s] /\ (y # id => stores'[s][y] = st[y])
              /\ pools'[s] \in [Pools -> PoolRecords] /\ PoolsOK(stores'[s], pools'[s])
          BY <1>1, <2>5, <3>2, <3>3, <3>4, <5>1, TakesStore DEF MemoryDomains
        <5>3. savedIn'[s] = SavedAlso(sv, Key(n), id)
          BY <3>4, <5>2 DEF MemoryDomains
        <5>4. savedIn'[s] \in [DOMAIN savedIn'[s] -> Nat]
          BY <3>3, <5>3 DEF SavedAlso
        <5>5. CopiesFit(stores'[s], co) /\ Stored(s, x + 1, stores'[s], savedIn'[s], co)
          <6> DEFINE key == Key(n)
                     st2 == stores'[s]
                     sv2 == savedIn'[s]
          <6>1. /\ sv2 = SavedAlso(sv, key, id) /\ key = Key(Node(s, x))
                /\ id \in DOMAIN st2 /\ st2[id].state = "SAVING" /\ st2[id].gpu = key
                /\ id \in DOMAIN st => st[id].state = "RESUME_RELEASED"
                /\ \A y \in DOMAIN st : y \in DOMAIN st2 /\ (y # id => st2[y] = st[y])
                /\ Node(s, x).type = "F" /\ Node(s, x).offload /\ x \in DOMAIN Order(s)
            BY <1>1, <4>1, <5>2, <5>3
          <6> HIDE DEF key, st2, sv2, st, sv, co, x, n
          <6>2. CopiesFit(st2, co) /\ Stored(s, x + 1, st2, sv2, co)
            BY <1>1, <3>2, <6>1, ForwardStores
          <6> QED
            BY <6>2 DEF st2, sv2
        <5> QED
          BY <5>2, <5>4, <5>5
      <4>2. CASE ~ n.offload
        <5>1. UNCHANGED <<stores, pools, savedIn>>
          BY <2>1, <4>2
        <5>2. Stored(s, x + 1, st, sv, co)
          <6>1. \A j : Pending(s, j, x + 1) => Pending(s, j, x)
            BY <1>1, <4>2, PendingNext
          <6>2. \A j : Pending(s, j, x) => StoreHas(st, sv, co, Key(Node(s, j)))
            BY <3>2 DEF Stored
          <6> QED
            BY <3>2, <6>1, <6>2, StoredStays
        <5> QED
          BY <3>2, <3>3, <5>1, <5>2
      <4> QED
        BY <4>1, <4>2
    <3>13. StageOK(s, x + 1, stores'[s], pools'[s], savedIn'[s], copies'[s], handles'[s],
                   recompute'[s], recomputed'[s])
      BY <2>2, <3>10, <3>11, <3>12 DEF StageOK, StageTypes
    <3> QED
      BY <1>1, <2>2, <2>3, <2>5, <3>5, <3>13, StageStep
  <2> QED
    BY <2>3, <2>4, <2>5, StepAlone
<1> QED
  BY <1>2, <1>3 DEF Forward

-------------------------------------------------------------------------------
(* A backward finds the activations of its forward.                           *)

(* A forward has been recomputed when its backward comes.                     *)
LEMMA RecomputedBefore ==
  ASSUME conf \in Conf, NEW s \in Stage, NEW k \in Chunks, NEW i \in Bs(s, k), NEW j \in Fs(s, k),
         j < i, Mate(s, i, j), Node(s, j).recompute, NEW q, NEW rd, RedoneOf(s, k, i, q, rd)
  PROVE  Key(Node(s, j)) \in rd
<1>1. j \in RF(s, k)
  BY DEF RF, RecomputedForwards, Fs, Node
<1>2. NumberBefore(RF(s, k), j) < NumberBefore(RN(s, k), i)
  BY <1>1, RecomputedInTime DEF Mate, Bs, RF, RN
<1> QED
  BY <1>1, <1>2 DEF RedoneOf

(* The activations on top of the queue are those of the forward of this       *)
(* backward.                                                                  *)
LEMMA TopOfQueue ==
  ASSUME Inv, ActivationsOK, ~ conf.forwardOnly, NEW s \in Stage, NEW k \in Chunks,
         it[s] \in Bs(s, k), acts[s][k].ready # <<>>
  PROVE  \E p \in Fs(s, k) :
           /\ SpTop(acts[s][k]) = Key(Node(s, p)) /\ Mate(s, it[s], p) /\ Undone(s, k, p, it[s])
           /\ p \in DOMAIN Order(s) /\ Node(s, p).type = "F" /\ p < it[s]
           /\ \A j \in Fs(s, k) : Mate(s, it[s], j) => j = p
<1>1. conf \in Conf /\ IsSpQueue(acts[s][k]) /\ QueueHolds(s, k, acts[s][k], it[s])
  BY StageFacts DEF ActivationsOK, Inv, StacksFull
<1>2. PICK p \in Fs(s, k) : /\ p < it[s] /\ Mate(s, it[s], p)
                            /\ SpTop(acts[s][k]) = Key(Node(s, p))
  BY <1>1, TopIsMate
<1>3. \A j \in Fs(s, k) : Mate(s, it[s], j) => j = p
  BY <1>1, <1>2, OneForward
<1>4. ASSUME NEW i \in Bs(s, k), i < it[s], Mate(s, i, p) PROVE FALSE
  <2>1. i = it[s]
    BY <1>1, <1>2, <1>4, OneBackward
  <2> QED
    BY <1>1, <1>4, <2>1, ForwardTypes
<1>5. Undone(s, k, p, it[s])
  BY <1>2, <1>4 DEF Undone
<1> QED
  BY <1>1, <1>2, <1>3, <1>5, ForwardTypes

(* The forward whose activations are in the store of a backward, if any.      *)
LEMMA StoreOfTop ==
  ASSUME conf \in Conf, NEW s \in Stage, NEW k \in Chunks, NEW i, NEW p \in Fs(s, k),
         p \in DOMAIN Order(s), Node(s, p).type = "F", Undone(s, k, p, i),
         NEW st \in Seq(Stores), NEW sv, NEW co, Stored(s, i, st, sv, co)
  PROVE  LET key == Key(Node(s, p))
         IN  /\ key \in DOMAIN sv <=> Node(s, p).offload
             /\ Node(s, p).offload => /\ Pending(s, p, i) /\ sv[key] # 0
                                      /\ StoreHas(st, sv, co, key)
<1> DEFINE key == Key(Node(s, p))
<1>1. ASSUME Node(s, p).offload
      PROVE  /\ Pending(s, p, i) /\ sv[key] # 0 /\ StoreHas(st, sv, co, key)
             /\ key \in DOMAIN sv
  <2>1. Pending(s, p, i)
    BY <1>1 DEF Pending
  <2>2. StoreHas(st, sv, co, key)
    BY <2>1 DEF Stored
  <2>3. sv[key] \in DOMAIN st /\ key \in DOMAIN sv
    BY <2>2 DEF StoreHas
  <2>4. 0 \notin DOMAIN st
    OBVIOUS
  <2> QED
    BY <2>1, <2>2, <2>3, <2>4
<1>2. ASSUME key \in DOMAIN sv PROVE Node(s, p).offload
  <2>1. PICK j \in DOMAIN Order(s) : Node(s, j).type = "F" /\ Node(s, j).offload /\ Key(Node(s, j)) = key
    BY <1>2 DEF Stored
  <2>2. j = p
    BY <2>1, KeysDiffer
  <2> QED
    BY <2>1, <2>2
<1> QED
  BY <1>1, <1>2

(* The store of a backward is used up.                                        *)
LEMMA BackwardUses ==
  ASSUME conf \in Conf, NEW s \in Stage, NEW k \in Chunks, NEW x \in Bs(s, k),
         NEW p \in Fs(s, k), Mate(s, x, p), Pending(s, p, x),
         NEW st \in Seq(Stores), NEW po, NEW sv, NEW co,
         PoolsOK(st, po), CopiesFit(st, co), Stored(s, x, st, sv, co),
         NEW id, id = sv[Key(Node(s, p))], ~ InCopy(co, id), 
         st[id].state \in {"RESUMED", "RESUME_USED"},
         NEW st2, st2 = Altered(st, id, "RESUME_USED", NoKey)
  PROVE  /\ st2 \in Seq(Stores) /\ PoolsOK(st2, po) /\ CopiesFit(st2, co)
         /\ Stored(s, x + 1, st2, sv, co) /\ st[id].gpu = Key(Node(s, p))
<1>1. StoreHas(st, sv, co, Key(Node(s, p))) /\ x \in Nat
  BY ForwardTypes DEF Stored
<1>2. id \in DOMAIN st /\ st[id].state = "RESUMED" /\ st[id].gpu = Key(Node(s, p))
  BY <1>1 DEF StoreHas, Carries
<1>3. /\ st2 \in Seq(Stores) /\ DOMAIN st2 = DOMAIN st /\ st2[id].state = "RESUME_USED"
      /\ \A y \in DOMAIN st : y # id => st2[y] = st[y]
  <2>1. "RESUME_USED" \in States /\ NoKey \in Data
    BY DEF States, Data
  <2> QED
    BY <1>2, <2>1, Changed
<1>4. PoolsOK(st2, po)
  BY <1>2, <1>3, StaysInPlace
<1>5. CopiesFit(st2, co)
  <2>1. \A y : InCopy(co, y) => y \in DOMAIN st2 /\ st2[y].state = st[y].state
    BY <1>3, CopiedStates
  <2> QED
    BY <2>1, CopiesStay
<1>6. ASSUME NEW j, Pending(s, j, x + 1)
      PROVE  Pending(s, j, x) /\ StoreHas(st2, sv, co, Key(Node(s, j)))
  <2>1. Node(s, x).type # "F"
    BY ForwardTypes
  <2>2. Pending(s, j, x) /\ \A l \in Chunks : x \in Bs(s, l) /\ j \in Fs(s, l) => ~ Mate(s, x, j)
    BY <1>1, <1>6, <2>1, PendingNext
  <2>3. j # p
    BY <2>2
  <2>4. sv[Key(Node(s, j))] # id
    BY <2>2, <2>3 DEF Stored
  <2>5. StoreHas(st, sv, co, Key(Node(s, j)))
    BY <2>2 DEF Stored
  <2>6. sv[Key(Node(s, j))] \in DOMAIN st
    BY <2>5 DEF StoreHas
  <2>7. st2[sv[Key(Node(s, j))]] = st[sv[Key(Node(s, j))]]
    BY <1>3, <2>4, <2>6
  <2> QED
    BY <1>3, <2>2, <2>5, <2>7 DEF StoreHas
<1>7. Stored(s, x + 1, st2, sv, co)
  BY <1>6, StoredStays
<1> QED
  BY <1>2, <1>3, <1>4, <1>5, <1>7

(* A backward that goes on has found activations and an operand.              *)
LEMMA BackwardTakes ==
  ASSUME Inv, NEW s \in Stage, ~ conf.forwardOnly, BackwardB(s), it'[s] = it[s] + 1
  PROVE  LET i == it[s]
             k == Node(s, i).chunk
         IN  /\ k \in Chunks /\ i \in Bs(s, k) /\ acts[s][k].ready # <<>>
             /\ ~ Missing(s, Source(s, Node(s, i)))
             /\ \A l \in Chunks : i \in Bs(s, l) => l = k
<1> DEFINE i == it[s]
           n == Node(s, i)
<1>1. i \in DOMAIN Order(s) /\ n.type \in {"B", "BW"} /\ i \in Nat /\ conf \in Conf
  BY StageFacts DEF BackwardB, AtNode
<1>2. ~ Skipped(n)
  BY DEF Skipped, SkippedIn
<1>3. ~ Raise(s)
  BY <1>1 DEF Raise
<1>4. acts[s][n.chunk].ready # <<>> /\ ~ Missing(s, Source(s, n))
  BY <1>2, <1>3 DEF BackwardB
<1>5. i \in Live(conf, s)
  BY <1>1, <1>2, IsLive
<1> QED
  BY <1>1, <1>4, <1>5, ChunkOfNode

(* The step of a backward.                                                    *)
LEMMA BackwardStep ==
  ASSUME Inv, ActivationsOK, MemoryOK, MemoryNext, NEW s \in Stage, Backward(s)
  PROVE  MemoryOK'
<1> DEFINE i  == it[s]
           n  == Node(s, i)
           id == StoreFor(s, n)
           st == stores[s]
           po == pools[s]
           sv == savedIn[s]
           co == copies[s]
           ha == handles[s]
           rc == recompute[s]
           rd == recomputed[s]
<1>1. /\ i \in DOMAIN Order(s) /\ n.type \in {"B", "BW"} /\ status[s] = "running"
      /\ conf \in Conf /\ i \in Nat
      /\ n.type # "F" /\ n.type # "R" /\ n.type \notin BarrierTypes
  BY StageFacts DEF Backward, AtNode, BarrierTypes, CopyStarts
<1>2. ASSUME ~ conf.forwardOnly
      PROVE  /\ StageOK(s, i, st, po, sv, co, ha, rc, rd)
             /\ st \in Seq(Stores) /\ PoolsOK(st, po) /\ CopiesFit(st, co) /\ Stored(s, i, st, sv, co)
             /\ EventsReady(s, i, po, ha) /\ StageTypes(s, st, po, sv, rc)
             /\ \A k \in Chunks : RedoneOf(s, k, i, rc[k], rd)
  BY <1>1, <1>2 DEF MemoryOK, StageAt, StageOK, StageTypes
<1>3. CASE BackwardB(s) /\ UNCHANGED memory /\ (id = 0 \/ Missing(s, Source(s, n)))
  <2>1. Outcome(s)
    BY <1>3, Outcomes
  <2>2. ASSUME ~ conf.forwardOnly, it'[s] = it[s] + 1, NEW k \in Chunks, i \in Bs(s, k)
        PROVE  FoundOwn(s, k, i, restored[s], rd)
    <3>1. k = n.chunk /\ acts[s][k].ready # <<>> /\ id = 0
      BY <1>3, <2>2, BackwardTakes
    <3>2. PICK p \in Fs(s, k) :
           /\ SpTop(acts[s][k]) = Key(Node(s, p)) /\ Mate(s, i, p) /\ Undone(s, k, p, i)
           /\ p \in DOMAIN Order(s) /\ Node(s, p).type = "F" /\ p < i
           /\ \A j \in Fs(s, k) : Mate(s, i, j) => j = p
      BY <2>2, <3>1, TopOfQueue
    <3>3. SpTop(acts[s][k]) \notin DOMAIN sv \/ sv[SpTop(acts[s][k])] = 0
      BY <3>1 DEF StoreFor
    <3>4. ~ Node(s, p).offload
      <4> HIDE DEF i, n, id, st, sv, co
      <4> QED
        BY <1>1, <1>2, <2>2, <3>2, <3>3, StoreOfTop
    <3>5. Node(s, p).recompute => Key(Node(s, p)) \in rd
      BY <1>1, <1>2, <2>2, <3>2, RecomputedBefore
    <3> QED
      BY <3>2, <3>4, <3>5 DEF FoundOwn
  <2> QED
    BY <1>1, <1>3, <2>1, <2>2, QuietNode
<1>4. CASE Raise(s) /\ UNCHANGED memory
  <2>1. Outcome(s) /\ it' = it
    BY <1>4, Outcomes DEF Raise
  <2> QED
    BY <1>1, <1>4, <2>1, QuietNode
<1>5. CASE ~ (id = 0 \/ Missing(s, Source(s, n))) /\ ~ (Raise(s) /\ UNCHANGED memory)
  <2>1. /\ BackwardB(s) /\ ~ Copying(s, id) /\ st[id].state \in {"RESUMED", "RESUME_USED"}
        /\ stores' = [stores EXCEPT ![s][id].state = "RESUME_USED", ![s][id].gpu = NoKey]
        /\ restored' = [restored EXCEPT ![s][i] = st[id].gpu]
        /\ UNCHANGED <<pools, savedIn, transfer, redone>>
    BY <1>5 DEF Backward
  <2>2. UNCHANGED <<pools, savedIn, copies, handles, recompute, recomputed>>
    BY <2>1 DEF transfer, redone
  <2>3. Outcome(s)
    BY <2>1, Outcomes
  <2>4. /\ \A u \in Stage : u # s => stores'[u] = stores[u] /\ restored'[u] = restored[u]
        /\ stores'[s] = Altered(st, id, "RESUME_USED", NoKey)
        /\ restored'[s] = [restored[s] EXCEPT ![i] = st[id].gpu]
    <3>1. DOMAIN stores = Stage /\ DOMAIN restored = Stage
      BY DEF MemoryOK, MemoryDomains
    <3>2. stores' = [stores EXCEPT ![s] = Altered(st, id, "RESUME_USED", NoKey)]
      BY <2>1 DEF Altered
    <3> HIDE DEF id
    <3> QED
      BY <2>1, <3>1, <3>2
  <2>5. ASSUME ~ conf.forwardOnly PROVE StageAt(s)'
    <3>1. DOMAIN restored[s] = DOMAIN Order(s)
      BY <2>5 DEF MemoryOK, StageAt, Kept
    <3>2. /\ DOMAIN restored'[s] = DOMAIN restored[s] /\ restored'[s][i] = st[id].gpu
          /\ \A j \in Nat : j # i => restored'[s][j] = restored[s][j]
      <4> HIDE DEF i, id
      <4> QED
        BY <1>1, <2>4, <3>1
    <3>3. ASSUME it'[s] = i + 1
          PROVE  /\ \A k \in Chunks : i \in Bs(s, k) => FoundOwn(s, k, i, restored'[s], rd)
                 /\ StageOK(s, i + 1, stores'[s], po, sv, co, ha, rc, rd)
      <4> DEFINE k == n.chunk
      <4>1. /\ k \in Chunks /\ i \in Bs(s, k) /\ acts[s][k].ready # <<>>
            /\ \A l \in Chunks : i \in Bs(s, l) => l = k
        BY <2>1, <2>5, <3>3, BackwardTakes
      <4>2. PICK p \in Fs(s, k) :
             /\ SpTop(acts[s][k]) = Key(Node(s, p)) /\ Mate(s, i, p) /\ Undone(s, k, p, i)
             /\ p \in DOMAIN Order(s) /\ Node(s, p).type = "F" /\ p < i
             /\ \A j \in Fs(s, k) : Mate(s, i, j) => j = p
        BY <2>5, <4>1, TopOfQueue
      <4>3. SpTop(acts[s][k]) \in DOMAIN sv /\ id = sv[SpTop(acts[s][k])]
        BY <1>5, <4>1 DEF StoreFor
      <4> HIDE DEF i, n, id, st, sv, co, k, po, rc, rd, ha
      <4>4. Node(s, p).offload /\ Pending(s, p, i)
        BY <1>1, <1>2, <2>5, <4>1, <4>2, <4>3, StoreOfTop
      <4>5. ~ InCopy(co, id)
        BY <2>1 DEF Copying, InCopy, co
      <4>6. LET st2 == stores'[s]
            IN  /\ st2 \in Seq(Stores) /\ PoolsOK(st2, po) /\ CopiesFit(st2, co)
                /\ Stored(s, i + 1, st2, sv, co) /\ st[id].gpu = Key(Node(s, p))
        <5> DEFINE st2 == stores'[s]
        <5>1. id = sv[Key(Node(s, p))] /\ st2 = Altered(st, id, "RESUME_USED", NoKey)
          BY <2>4, <4>2, <4>3
        <5> HIDE DEF st2
        <5>2. /\ st2 \in Seq(Stores) /\ PoolsOK(st2, po) /\ CopiesFit(st2, co)
              /\ Stored(s, i + 1, st2, sv, co) /\ st[id].gpu = Key(Node(s, p))
          BY <1>1, <1>2, <2>1, <2>5, <4>1, <4>2, <4>4, <4>5, <5>1, BackwardUses
        <5> QED
          BY <5>2 DEF st2
      <4>7. Node(s, p).recompute => Key(Node(s, p)) \in rd
        BY <1>1, <1>2, <2>5, <4>1, <4>2, RecomputedBefore
      <4>8. FoundOwn(s, k, i, restored'[s], rd)
        BY <3>2, <4>2, <4>6, <4>7 DEF FoundOwn
      <4>9. EventsReady(s, i + 1, po, ha)
        BY <1>1, <1>2, <2>5, EventsPass DEF i, n
      <4>10. \A l \in Chunks : RedoneOf(s, l, i + 1, rc[l], rd)
        <5>1. \A l \in Chunks : i \notin RF(s, l) /\ i \notin RN(s, l)
          BY <1>1, RecomputeSets DEF i, n
        <5> QED
          BY <1>1, <1>2, <2>5, <5>1, RedonePass
      <4>11. StageTypes(s, stores'[s], po, sv, rc)
        BY <1>2, <2>5, <4>6 DEF StageTypes
      <4> QED
        BY <4>1, <4>6, <4>8, <4>9, <4>10, <4>11 DEF StageOK
    <3> HIDE DEF id
    <3> QED
      BY <1>1, <2>2, <2>3, <2>5, <3>2, <3>3, StageStep
  <2> HIDE DEF id
  <2> QED
    BY <2>2, <2>3, <2>4, <2>5, StepAlone
<1> QED
  BY <1>3, <1>4, <1>5 DEF Backward

-------------------------------------------------------------------------------
(* The nodes that move a store.                                               *)

(* Nodes that are no forwards do not add to the pending ones.                 *)
LEMMA StoredPass ==
  ASSUME conf \in Conf, NEW s \in Stage, NEW x \in Nat, NEW st, NEW sv, NEW co,
         Stored(s, x, st, sv, co), Node(s, x).type # "F"
  PROVE  Stored(s, x + 1, st, sv, co)
<1>1. \A j : Pending(s, j, x + 1) => Pending(s, j, x)
  BY PendingNext
<1>2. \A j : Pending(s, j, x) => StoreHas(st, sv, co, Key(Node(s, j)))
  BY DEF Stored
<1> QED
  BY <1>1, <1>2, StoredStays

(* The step of a recomputation.                                               *)
LEMMA RecomputeStep ==
  ASSUME Inv, MemoryOK, MemoryNext, NEW s \in Stage, Recompute(s)
  PROVE  MemoryOK'
<1> DEFINE i  == it[s]
           k  == Node(s, i).chunk
           rc == recompute[s]
           rd == recomputed[s]
<1>1. /\ i \in DOMAIN Order(s) /\ Node(s, i).type = "R" /\ status[s] = "running"
      /\ conf \in Conf /\ i \in Nat /\ Skip(s) /\ k \in Chunks
  BY StageFacts, NodeIsNode DEF Recompute, AtNode, Nodes
<1>2. Outcome(s)
  BY <1>1, Outcomes
<1>3. UNCHANGED <<stores, pools, savedIn, restored, copies, handles>>
  BY DEF Recompute, kept, transfer
<1>4. /\ \A u \in Stage : u # s => recompute'[u] = recompute[u] /\ recomputed'[u] = recomputed[u]
      /\ ~ conf.forwardOnly =>
           /\ rc[k] # <<>> /\ recompute'[s] = [rc EXCEPT ![k] = Tail(rc[k])]
           /\ recomputed'[s] = rd \cup {Head(rc[k])}
  BY DEF Recompute, redone, MemoryOK, MemoryDomains
<1>5. ASSUME ~ conf.forwardOnly PROVE StageAt(s)'
  <2>1. /\ StageOK(s, i, stores[s], pools[s], savedIn[s], copies[s], handles[s], rc, rd)
        /\ rc \in [Chunks -> Seq(Tensors)]
    BY <1>1, <1>5 DEF MemoryOK, StageAt, StageOK, StageTypes
  <2>2. Stored(s, i + 1, stores[s], savedIn[s], copies[s])
    BY <1>1, <2>1, StoredPass DEF StageOK
  <2>3. EventsReady(s, i + 1, pools[s], handles[s])
    <3>1. Node(s, i).type \notin BarrierTypes
      BY <1>1 DEF BarrierTypes, CopyStarts
    <3> QED
      BY <1>1, <2>1, <3>1, EventsPass DEF StageOK
  <2>4. ASSUME NEW l \in Chunks PROVE RedoneOf(s, l, i + 1, recompute'[s][l], recomputed'[s])
    <3>1. RedoneOf(s, l, i, rc[l], rd) /\ i \notin RF(s, l)
      BY <1>1, <2>1, RecomputeSets DEF StageOK
    <3>2. CASE l = k
      <4>1. i \in RN(s, k)
        BY <1>1 DEF RN, Recomputations, Node, Order
      <4>2. recompute'[s][k] = Tail(rc[k]) /\ rc[k] # <<>> /\ recomputed'[s] = rd \cup {Head(rc[k])}
        <5> HIDE DEF k, rc, rd
        <5> QED
          BY <1>1, <1>4, <1>5, <2>1
      <4>3. rc[k] \in Seq(Tensors) /\ RedoneOf(s, k, i, rc[k], rd)
        BY <1>1, <2>1, <3>1, <3>2
      <4>4. RedoneOf(s, k, i + 1, Tail(rc[k]), rd \cup {Head(rc[k])})
        <5> HIDE DEF k, rc, rd, i
        <5> QED
          BY <1>1, <4>1, <4>2, <4>3, RedoneTakes
      <4> QED
        BY <3>2, <4>2, <4>4
    <3>3. CASE l # k
      <4>1. i \notin RN(s, l)
        BY <1>1, <3>3, RecomputeSets
      <4>2. recompute'[s][l] = rc[l] /\ rd \subseteq recomputed'[s]
        <5> HIDE DEF k, rc, rd
        <5> QED
          BY <1>1, <1>4, <1>5, <2>1, <3>3
      <4> QED
        BY <1>1, <3>1, <4>1, <4>2, RedonePass
    <3> QED
      BY <3>2, <3>3
  <2>5. recompute'[s] \in [Chunks -> Seq(Tensors)]
    <3>1. Tail(rc[k]) \in Seq(Tensors)
      BY <1>1, <1>4, <1>5, <2>1
    <3> HIDE DEF k, rc
    <3> QED
      BY <1>1, <1>4, <1>5, <2>1, <3>1
  <2>6. StageOK(s, i + 1, stores'[s], pools'[s], savedIn'[s], copies'[s], handles'[s],
                recompute'[s], recomputed'[s])
    BY <1>3, <2>1, <2>2, <2>3, <2>4, <2>5 DEF StageOK, StageTypes
  <2>7. \A l \in Chunks : i \notin Bs(s, l)
    BY <1>1, ForwardTypes
  <2> QED
    BY <1>1, <1>2, <1>3, <1>4, <1>5, <2>6, <2>7, StageStep
<1> QED
  BY <1>2, <1>3, <1>4, <1>5, StepAlone

(* A store that moves on, and a copy that may be enqueued for it.             *)
MovedOn(type, id, st, st2, co, co2) ==
  /\ type \in MoveTypes /\ id \in DOMAIN st /\ st[id].state = Steps[type].from
  /\ ~ InCopy(co, id) /\ DOMAIN st2 = DOMAIN st
  /\ st2[id].state = Steps[type].to /\ st2[id].cpu = st[id].cpu
  /\ type \in CopyStarts => st2[id].gpu = st[id].gpu
  /\ \A y \in DOMAIN st : y # id => st2[y] = st[y]
  /\ \A y : InCopy(co2, y) <=> InCopy(co, y) \/ (type \in CopyStarts /\ y = id)

(* It goes with what it carries.                                              *)
LEMMA MovedStored ==
  ASSUME conf \in Conf, NEW s \in Stage, NEW x \in Nat, NEW st, NEW sv, NEW co,
         Stored(s, x, st, sv, co), Node(s, x).type # "F",
         NEW id, NEW st2, NEW co2, NEW type, MovedOn(type, id, st, st2, co, co2)
  PROVE  Stored(s, x + 1, st2, sv, co2)
<1>1. \A j : Pending(s, j, x + 1) => Pending(s, j, x)
  BY PendingNext
<1>2. ASSUME NEW j, Pending(s, j, x) PROVE StoreHas(st2, sv, co2, Key(Node(s, j)))
  <2> DEFINE key == Key(Node(s, j))
             y   == sv[key]
  <2>1. key \in DOMAIN sv /\ y \in DOMAIN st /\ Carries(st[y], key, InCopy(co, y))
    BY <1>2 DEF Stored, StoreHas
  <2>2. y \in DOMAIN st2
    BY <2>1 DEF MovedOn
  <2>3. Carries(st2[y], key, InCopy(co2, y))
    <3> HIDE DEF key, y
    <3>1. CASE y # id
      <4>1. st2[y] = st[y] /\ (InCopy(co2, y) <=> InCopy(co, y))
        BY <2>1, <3>1 DEF MovedOn
      <4> QED
        BY <2>1, <4>1 DEF Carries
    <3>2. CASE y = id
      <4>1. /\ type \in MoveTypes /\ st[id].state = Steps[type].from
            /\ st2[id].state = Steps[type].to /\ st2[id].cpu = st[id].cpu
            /\ type \in CopyStarts => st2[id].gpu = st[id].gpu
        BY DEF MovedOn
      <4>2. Carries(st[id], key, FALSE)
        BY <2>1, <3>2 DEF MovedOn, Carries
      <4>3. Carries(st2[id], key, FALSE \/ type \in CopyStarts)
        <5>1. FALSE \in BOOLEAN
          OBVIOUS
        <5> QED
          BY <4>1, <4>2, <5>1, CarriedAlong
      <4>4. InCopy(co2, id) <=> type \in CopyStarts
        BY DEF MovedOn
      <4> QED
        BY <3>2, <4>3, <4>4 DEF Carries
    <3> QED
      BY <3>1, <3>2
  <2> QED
    BY <2>1, <2>2, <2>3 DEF StoreHas
<1> QED
  BY <1>1, <1>2, StoredStays

(* The steps that free the buffers of a store, or allocate them.              *)
LEMMA ReleaseStep ==
  ASSUME Inv, MemoryOK, MemoryNext, NEW s \in Stage, Release(s)
  PROVE  MemoryOK'
<1> DEFINE i   == it[s]
           n   == Node(s, i)
           id  == StoreAt(s, n)
           gpu == IF n.type = "OFFLOAD_RECV_PREP" THEN Blank ELSE NoKey
           st  == stores[s]
           co  == copies[s]
<1>1. /\ i \in DOMAIN Order(s) /\ status[s] = "running" /\ conf \in Conf /\ i \in Nat /\ n \in Nodes
      /\ n.type \in {"OFFLOAD_SEND_END", "OFFLOAD_RECV_PREP", "OFFLOAD_RECV_END"}
  BY StageFacts, NodeIsNode DEF Release, AtNode
<1>2. n.type \in MoveTypes /\ n.type \notin BarrierTypes /\ n.type # "F" /\ n.type # "R"
      /\ n.type \notin CopyStarts
  BY <1>1 DEF MoveTypes, BarrierTypes, CopyStarts
<1>3. CASE Raise(s) /\ UNCHANGED memory
  <2>1. Outcome(s) /\ it' = it
    BY <1>3, Outcomes DEF Raise
  <2> QED
    BY <1>1, <1>3, <2>1, QuietNode
<1>4. CASE ~ (Raise(s) /\ UNCHANGED memory)
  <2>1. /\ StoreReady(s, n) /\ (n.type # "OFFLOAD_RECV_PREP" => ~ Copying(s, id))
        /\ Skip(s) /\ MoveStore(s, n, gpu) /\ UNCHANGED <<transfer, redone>>
    BY <1>4 DEF Release
  <2>2. UNCHANGED <<savedIn, restored, copies, handles, recompute, recomputed>>
    BY <2>1 DEF MoveStore, transfer, redone
  <2>3. Outcome(s)
    BY <2>1, Outcomes
  <2>4. \A u \in Stage : u # s => stores'[u] = stores[u] /\ pools'[u] = pools[u]
    BY <2>1 DEF MoveStore, MemoryOK, MemoryDomains
  <2>5. ASSUME ~ conf.forwardOnly PROVE StageAt(s)'
    <3>1. /\ StageOK(s, i, st, pools[s], savedIn[s], co, handles[s], recompute[s], recomputed[s])
          /\ StageTypes(s, st, pools[s], savedIn[s], recompute[s])
          /\ st \in Seq(Stores) /\ pools[s] \in [Pools -> PoolRecords] /\ PoolsOK(st, pools[s])
          /\ CopiesFit(st, co) /\ Stored(s, i, st, savedIn[s], co)
          /\ EventsReady(s, i, pools[s], handles[s])
          /\ \A k \in Chunks : RedoneOf(s, k, i, recompute[s][k], recomputed[s])
      BY <1>1, <2>5 DEF MemoryOK, StageAt, StageOK, StageTypes
    <3>2. QueueOf(s, n) # <<>> /\ st[id].state = Steps[n.type].from
      BY <2>1 DEF StoreReady
    <3>3. gpu \in Data
      BY DEF Data
    <3> HIDE DEF gpu, i, n
    <3>4. /\ id \in DOMAIN st
          /\ stores'[s] \in Seq(Stores) /\ DOMAIN stores'[s] = DOMAIN st
          /\ stores'[s][id].state = Steps[n.type].to /\ stores'[s][id].cpu = st[id].cpu
          /\ \A y \in DOMAIN st : y # id => stores'[s][y] = st[y]
          /\ pools'[s] \in [Pools -> PoolRecords] /\ PoolsOK(stores'[s], pools'[s])
      BY <1>1, <1>2, <2>1, <3>1, <3>2, <3>3, MovesStore DEF MemoryOK, MemoryDomains
    <3>5. ~ InCopy(co, id)
      <4>1. CASE n.type = "OFFLOAD_RECV_PREP"
        <5>1. st[id].state = "OFFLOAD_RELEASED"
          BY <3>2, <4>1, StepOf
        <5> QED
          BY <3>1, <5>1, CopiedStates
      <4>2. CASE n.type # "OFFLOAD_RECV_PREP"
        BY <2>1, <4>2 DEF Copying, InCopy
      <4> QED
        BY <4>1, <4>2
    <3>6. CopiesFit(stores'[s], co)
      <4>1. \A y : InCopy(co, y) => y \in DOMAIN stores'[s] /\ stores'[s][y].state = st[y].state
        BY <3>1, <3>4, <3>5, CopiedStates
      <4> QED
        BY <3>1, <4>1, CopiesStay
    <3>7. Stored(s, i + 1, stores'[s], savedIn[s], co)
      <4>1. MovedOn(n.type, id, st, stores'[s], co, co)
        BY <1>2, <3>2, <3>4, <3>5 DEF MovedOn
      <4> HIDE DEF id, st, co
      <4> QED
        BY <1>1, <1>2, <3>1, <4>1, MovedStored DEF n
    <3>8. EventsReady(s, i + 1, pools'[s], handles[s])
      BY <1>1, <1>2, <3>1, EventsPass DEF n
    <3>9. \A k \in Chunks : RedoneOf(s, k, i + 1, recompute[s][k], recomputed[s])
      <4>1. \A k \in Chunks : i \notin RF(s, k) /\ i \notin RN(s, k)
        BY <1>1, <1>2, RecomputeSets DEF n
      <4> QED
        BY <1>1, <3>1, <4>1, RedonePass
    <3>10. StageOK(s, i + 1, stores'[s], pools'[s], savedIn'[s], copies'[s], handles'[s],
                   recompute'[s], recomputed'[s])
      BY <2>2, <3>1, <3>4, <3>6, <3>7, <3>8, <3>9 DEF StageOK, StageTypes
    <3>11. \A k \in Chunks : i \notin Bs(s, k)
      BY <1>1, ForwardTypes DEF n
    <3> QED
      BY <1>1, <2>2, <2>3, <2>5, <3>10, <3>11, StageStep DEF i
  <2> QED
    BY <2>2, <2>3, <2>4, <2>5, StepAlone
<1> QED
  BY <1>3, <1>4 DEF Release

-------------------------------------------------------------------------------
(* The exchanges and the copies.                                              *)

(* The exchanges behind a stage are those of its barriers.                    *)
LEMMA ExchangesBefore ==
  ASSUME NEW s \in Stage
  PROVE  Exchanges(s) = BarriersBefore(conf, s, it[s])
BY DEF Exchanges, BarriersBefore, ExchangeTypes, Node

(* Nothing changes for a stage but its copies and its events.                 *)
LEMMA StageStays ==
  ASSUME MemoryOK, NEW s \in Stage, conf' = conf, ~ conf.forwardOnly,
         it'[s] = it[s], status'[s] = status[s], savedIn'[s] = savedIn[s], pools'[s] = pools[s],
         restored'[s] = restored[s], recompute'[s] = recompute[s], recomputed'[s] = recomputed[s],
         status[s] # "raised" =>
           /\ stores'[s] \in Seq(Stores) /\ PoolsOK(stores'[s], pools[s])
           /\ CopiesFit(stores'[s], copies'[s])
           /\ Stored(s, it[s], stores'[s], savedIn[s], copies'[s])
           /\ EventsReady(s, it[s], pools[s], handles'[s])
  PROVE  StageAt(s)'
<1>1. Kept(s, it[s], restored[s], recomputed[s])
  BY DEF MemoryOK, StageAt
<1>2. status[s] # "raised" =>
        StageOK(s, it[s], stores'[s], pools[s], savedIn[s], copies'[s], handles'[s],
                recompute[s], recomputed[s])
  BY DEF MemoryOK, StageAt, StageOK, StageTypes
<1> QED
  BY <1>1, <1>2, PrimedStage

(* The event of a stage is sent.                                              *)
LEMMA SendEventMemory ==
  ASSUME Inv, PathInv, MemoryOK, MemoryNext, NEW s \in Stage, SendEvent(s)
  PROVE  MemoryOK'
<1> DEFINE i  == it[s]
           n  == Node(s, i)
           ha == handles[s]
<1>1. /\ i \in DOMAIN Order(s) /\ status[s] = "running" /\ n.type \in BarrierTypes
      /\ conf \in Conf /\ i \in Nat /\ Len(ha) = BarriersBefore(conf, s, i)
  BY StageFacts, ExchangesBefore DEF SendEvent, AtNode, ExchangeTypes
<1>2. CASE Raise(s) /\ UNCHANGED memory
  <2>1. Outcome(s) /\ it' = it
    BY <1>2, Outcomes DEF Raise
  <2> QED
    BY <1>1, <1>2, <2>1, QuietNode
<1>3. CASE ~ (Raise(s) /\ UNCHANGED memory)
  <2>1. /\ n.type \in CopyStarts => StoreReady(s, n)
        /\ handles' = [handles EXCEPT ![s] = Append(@, LastEvent(s))]
        /\ UNCHANGED <<vars, kept, copies, running, copied, redone>>
    BY <1>3 DEF SendEvent
  <2>2. UNCHANGED <<conf, it, status, stores, pools, savedIn, restored, copies, recompute, recomputed>>
    BY <2>1 DEF vars, kept, redone
  <2>3. /\ ha \in Seq(Nat) /\ LastEvent(s) \in Nat /\ DOMAIN handles = Stage
    BY SequenceFacts DEF PathInv, TransferTypes, LastEvent
  <2>4. Len(handles'[s]) = Len(ha) + 1 /\ \A u \in Stage : u # s => handles'[u] = handles[u]
    BY <2>1, <2>3
  <2>5. ASSUME ~ conf.forwardOnly PROVE StageAt(s)'
    <3>1. EventsReady(s, i, pools[s], handles'[s])
      BY <1>1, <2>1, <2>4 DEF EventsReady, StoreReady, QueueOf
    <3>2. StageOK(s, i, stores[s], pools[s], savedIn[s], copies[s], handles[s],
                recompute[s], recomputed[s])
      BY <1>1, <2>5 DEF MemoryOK, StageAt
    <3> QED
      BY <2>2, <2>5, <3>1, <3>2, StageStays DEF StageOK, StageTypes
  <2>6. MemoryDomains'
    BY DomainsKept DEF MemoryOK
  <2> QED
    BY <2>2, <2>4, <2>5, <2>6, OneStage DEF SameStage
<1> QED
  BY <1>2, <1>3 DEF SendEvent

(* A copy begins, or ends with the activations in the other buffer.           *)
LEMMA CopyMemory ==
  ASSUME Inv, PathInv, MemoryOK, MemoryNext, NEW s \in Stage, BeginCopy(s) \/ EndCopy(s)
  PROVE  MemoryOK'
<1> DEFINE st == stores[s]
           co == copies[s]
           id == Head(co).store
<1>1. UNCHANGED <<conf, it, status, pools, savedIn, restored, handles, recompute, recomputed>>
  BY DEF BeginCopy, EndCopy, vars, kept, redone
<1>2. MemoryDomains'
  BY DomainsKept DEF MemoryOK
<1>3. CASE BeginCopy(s)
  <2>1. UNCHANGED <<stores, copies>>
    BY <1>3 DEF BeginCopy, kept
  <2>2. ASSUME NEW u \in Stage PROVE SameStage(u)
    BY <1>1, <2>1 DEF SameStage
  <2>3. ~ conf.forwardOnly => StageAt(s)'
    BY <1>1, <2>1, PrimedStage DEF MemoryOK, StageAt
  <2> QED
    BY <1>1, <1>2, <2>2, <2>3, OneStage
<1>4. CASE EndCopy(s)
  <2> DEFINE u == IF Head(co).type = "OFFLOAD_SEND_START"
                  THEN [st[id] EXCEPT !.cpu = st[id].gpu] ELSE [st[id] EXCEPT !.gpu = st[id].cpu]
             st2 == [st EXCEPT ![id] = u]
  <2>1. /\ stores' = [stores EXCEPT ![s] = st2] /\ copies' = [copies EXCEPT ![s] = Tail(co)]
        /\ running[s]
    BY <1>4 DEF EndCopy
  <2>2. co # <<>> /\ IsSequence(co) /\ DOMAIN copies = Stage /\ DOMAIN stores = Stage
    BY <2>1 DEF PathInv, TransferTypes, StartOK, MemoryOK, MemoryDomains
  <2>3. /\ stores'[s] = st2 /\ copies'[s] = Tail(co)
        /\ \A v \in Stage : v # s => stores'[v] = stores[v] /\ copies'[v] = copies[v]
    <3> HIDE DEF st2
    <3> QED
      BY <2>1, <2>2
  <2>4. ASSUME ~ conf.forwardOnly, status[s] # "raised"
        PROVE  /\ stores'[s] \in Seq(Stores) /\ PoolsOK(stores'[s], pools[s])
               /\ CopiesFit(stores'[s], copies'[s])
               /\ Stored(s, it[s], stores'[s], savedIn[s], copies'[s])
               /\ EventsReady(s, it[s], pools[s], handles'[s])
    <3>1. /\ st \in Seq(Stores) /\ PoolsOK(st, pools[s]) /\ CopiesFit(st, co)
          /\ Stored(s, it[s], st, savedIn[s], co) /\ EventsReady(s, it[s], pools[s], handles[s])
      BY <2>4 DEF MemoryOK, StageAt, StageOK, StageTypes
    <3>2. /\ CopiesFit(st, Tail(co)) /\ id \in DOMAIN st
          /\ Head(co).type \in CopyStarts /\ InCopy(co, id)
          /\ st[id].state = CopyState(Head(co).type)
          /\ \A y : InCopy(Tail(co), y) <=> InCopy(co, y) /\ y # id
      BY <2>2, <3>1, CopyOver
    <3>3. /\ u \in Stores /\ u.state = st[id].state
          /\ Head(co).type = "OFFLOAD_SEND_START" => u.cpu = st[id].gpu
          /\ Head(co).type # "OFFLOAD_SEND_START" => u.gpu = st[id].cpu /\ u.cpu = st[id].cpu
      <4>1. st[id] \in Stores
        BY <3>1, <3>2
      <4> QED
        BY <4>1 DEF Stores
    <3> HIDE DEF u
    <3>4. /\ st2 \in Seq(Stores) /\ DOMAIN st2 = DOMAIN st /\ st2[id] = u
          /\ \A y \in DOMAIN st : y # id => st2[y] = st[y]
      BY <3>1, <3>2, <3>3
    <3> HIDE DEF st2
    <3>5. \A y \in DOMAIN st : st2[y].state = st[y].state
      BY <3>3, <3>4
    <3>6. PoolsOK(st2, pools[s])
      BY <3>1, <3>4, <3>5, StaysInPlace
    <3>7. CopiesFit(st2, Tail(co))
      <4>1. \A y : InCopy(Tail(co), y) => y \in DOMAIN st2 /\ st2[y].state = st[y].state
        BY <3>1, <3>2, <3>4, <3>5, CopiedStates
      <4> QED
        BY <3>2, <4>1, CopiesStay
    <3>8. ASSUME NEW j, Pending(s, j, it[s])
          PROVE  StoreHas(st2, savedIn[s], Tail(co), Key(Node(s, j)))
      <4> DEFINE key == Key(Node(s, j))
                 y   == savedIn[s][key]
      <4>1. key \in DOMAIN savedIn[s] /\ y \in DOMAIN st /\ Carries(st[y], key, InCopy(co, y))
        BY <3>1, <3>8 DEF Stored, StoreHas
      <4>2. Carries(st2[y], key, InCopy(Tail(co), y))
        <5> HIDE DEF key, y, id, st, co
        <5>1. CASE y # id
          <6>1. st2[y] = st[y] /\ (InCopy(Tail(co), y) <=> InCopy(co, y))
            BY <3>2, <3>4, <4>1, <5>1
          <6> QED
            BY <4>1, <6>1 DEF Carries
        <5>2. CASE y = id
          <6>1. ~ InCopy(Tail(co), y) /\ InCopy(co, y) /\ st2[y] = u
            BY <3>2, <3>4, <5>2
          <6>2. CASE Head(co).type = "OFFLOAD_SEND_START"
            <7>1. st[y].state = "OFFLOADED" /\ u.state = "OFFLOADED" /\ u.cpu = st[y].gpu
              BY <3>2, <3>3, <5>2, <6>2 DEF CopyState
            <7> QED
              BY <4>1, <6>1, <7>1 DEF Carries
          <6>3. CASE Head(co).type # "OFFLOAD_SEND_START"
            <7>1. /\ st[y].state = "RESUMED" /\ u.state = "RESUMED"
                  /\ u.cpu = st[y].cpu /\ u.gpu = st[y].cpu
              BY <3>2, <3>3, <5>2, <6>3 DEF CopyState
            <7> QED
              BY <4>1, <6>1, <7>1 DEF Carries
          <6> QED
            BY <6>2, <6>3
        <5> QED
          BY <5>1, <5>2
      <4> QED
        BY <3>4, <4>1, <4>2 DEF StoreHas
    <3>9. Stored(s, it[s], st2, savedIn[s], Tail(co))
      BY <3>1, <3>8, StoredStays
    <3> QED
      BY <1>1, <2>3, <3>1, <3>4, <3>6, <3>7, <3>9
  <2> HIDE DEF st2
  <2>5. ~ conf.forwardOnly => StageAt(s)'
    BY <1>1, <2>4, StageStays
  <2>6. \A v \in Stage : v # s => SameStage(v)
    BY <1>1, <2>3 DEF SameStage
  <2> QED
    BY <1>1, <1>2, <2>5, <2>6, OneStage
<1> QED
  BY <1>3, <1>4

(* The event of the other stage has arrived, and a copy is enqueued.          *)
LEMMA ReceiveEventMemory ==
  ASSUME Inv, PathInv, MemoryOK, MemoryNext, NEW s \in Stage, ReceiveEvent(s)
  PROVE  MemoryOK'
<1> DEFINE i   == it[s]
           n   == Node(s, i)
           id  == StoreAt(s, n)
           st  == stores[s]
           po  == pools[s]
           co  == copies[s]
           gpu == st[id].gpu
           c   == [store |-> id, type |-> n.type, exchange |-> Exchanges(s) + 1]
<1>1. /\ i \in DOMAIN Order(s) /\ status[s] = "running" /\ n.type \in BarrierTypes
      /\ conf \in Conf /\ i \in Nat /\ n \in Nodes /\ Skip(s)
      /\ Len(handles[s]) = BarriersBefore(conf, s, i) + 1
      /\ UNCHANGED <<running, copied, handles, redone>>
  BY StageFacts, NodeIsNode, ExchangesBefore DEF ReceiveEvent, AtNode, ExchangeTypes
<1>2. Outcome(s)
  BY <1>1, Outcomes
<1>3. n.type # "F" /\ n.type # "R" /\ n.type \notin {"B", "BW"}
  BY <1>1 DEF BarrierTypes, CopyStarts
<1>4. \A k \in Chunks : i \notin Bs(s, k)
  BY <1>1, <1>3, ForwardTypes
<1>5. CASE n.type \notin CopyStarts
  <2>1. UNCHANGED memory
    BY <1>1, <1>5 DEF ReceiveEvent, memory, transfer
  <2> QED
    BY <1>1, <1>2, <1>3, <1>4, <2>1, QuietNode
<1>6. CASE n.type \in CopyStarts
  <2>1. MoveStore(s, n, gpu) /\ copies' = [copies EXCEPT ![s] = Append(co, c)]
    BY <1>6 DEF ReceiveEvent
  <2>2. UNCHANGED <<savedIn, restored, handles, recompute, recomputed>>
    BY <1>1, <2>1 DEF MoveStore, redone
  <2>3. /\ \A u \in Stage : u # s => /\ stores'[u] = stores[u] /\ pools'[u] = pools[u]
                                     /\ copies'[u] = copies[u]
        /\ copies'[s] = Append(co, c) /\ IsSequence(co)
    BY <2>1 DEF MoveStore, MemoryOK, MemoryDomains, PathInv, TransferTypes
  <2>4. n.type \in MoveTypes
    BY <1>6 DEF MoveTypes, CopyStarts
  <2>5. ASSUME ~ conf.forwardOnly PROVE StageAt(s)'
    <3>1. /\ StageOK(s, i, st, po, savedIn[s], co, handles[s], recompute[s], recomputed[s])
          /\ StageTypes(s, st, po, savedIn[s], recompute[s])
          /\ st \in Seq(Stores) /\ po \in [Pools -> PoolRecords] /\ PoolsOK(st, po)
          /\ CopiesFit(st, co) /\ Stored(s, i, st, savedIn[s], co)
          /\ EventsReady(s, i, po, handles[s])
          /\ \A k \in Chunks : RedoneOf(s, k, i, recompute[s][k], recomputed[s])
      BY <1>1, <2>5 DEF MemoryOK, StageAt, StageOK, StageTypes
    <3>2. QueueOf(s, n) # <<>>
      <4>1. BarriersBefore(conf, s, i) \in Nat
        BY <1>1, BarrierNext
      <4> QED
        BY <1>1, <1>6, <3>1, <4>1 DEF EventsReady, QueueOf
    <3> DEFINE q == PoolOf(n)
               k == Steps[n.type].queue
    <3>3. q \in Pools /\ po[q] \in PoolRecords
      BY <1>1, <3>1 DEF PoolOf, Pools, Nodes
    <3>4. /\ k \in 1 .. 5 /\ Steps[n.type].to = CopyState(n.type)
          /\ \A x : StateIn(k, x) => x = Steps[n.type].from
      BY <1>6, <2>4, StepFacts
    <3>5. id \in DOMAIN st /\ st[id].state = Steps[n.type].from
      <4>0. k \in 1 .. 6 /\ k # 6
        BY <3>4
      <4>1. Place(po[q], k) = QueueOf(s, n) /\ QueueOf(s, n) \in Seq(Nat)
        BY <3>3, <3>4, <4>0, PlaceTypes DEF QueueOf
      <4>2. IsInjective(QueueOf(s, n))
        BY <3>1, <3>3, <4>0, <4>1 DEF PoolsOK
      <4>3. Head(QueueOf(s, n)) \in ToSet(QueueOf(s, n))
        BY <3>2, <4>1, <4>2, Beheaded
      <4>4. id \in Held(po, q, k)
        BY <4>1, <4>3 DEF Held, StoreAt, PoppedFirst
      <4>5. id \in DOMAIN st /\ StateIn(k, st[id].state)
        BY <3>1, <3>3, <4>0, <4>4 DEF PoolsOK
      <4> QED
        BY <3>4, <4>5
    <3>6. gpu \in Data
      <4>1. st[id] \in Stores
        <5> HIDE DEF id, st
        <5> QED
          BY <3>1, <3>5
      <4> QED
        BY <4>1 DEF Stores
    <3>7. ~ InCopy(co, id)
      <4>1. st[id].state \in {"SAVING", "RESUME_PREPARED"}
        BY <1>6, <3>5, StepOf DEF CopyStarts
      <4> QED
        BY <3>1, <4>1, CopiedStates
    <3> HIDE DEF gpu, i, n, q, k
    <3>8. /\ stores'[s] \in Seq(Stores) /\ DOMAIN stores'[s] = DOMAIN st
          /\ stores'[s][id].state = Steps[n.type].to /\ stores'[s][id].cpu = st[id].cpu
          /\ stores'[s][id].gpu = gpu
          /\ \A y \in DOMAIN st : y # id => stores'[s][y] = st[y]
          /\ pools'[s] \in [Pools -> PoolRecords] /\ PoolsOK(stores'[s], pools'[s])
      BY <1>1, <2>1, <2>4, <3>1, <3>2, <3>5, <3>6, MovesStore DEF MemoryOK, MemoryDomains
    <3>9. CopiesFit(stores'[s], co)
      <4>1. \A y : InCopy(co, y) => y \in DOMAIN stores'[s] /\ stores'[s][y].state = st[y].state
        BY <3>1, <3>7, <3>8, CopiedStates
      <4> QED
        BY <3>1, <4>1, CopiesStay
    <3>10. c.store = id /\ c.type = n.type
      OBVIOUS
    <3> HIDE DEF c
    <3>11. /\ CopiesFit(stores'[s], Append(co, c))
           /\ \A y : InCopy(Append(co, c), y) <=> InCopy(co, y) \/ y = id
      <4>1. /\ c.store \in DOMAIN stores'[s] /\ c.type \in CopyStarts
            /\ stores'[s][c.store].state = CopyState(c.type) /\ ~ InCopy(co, c.store)
        BY <1>6, <3>4, <3>5, <3>7, <3>8, <3>10
      <4>2. /\ CopiesFit(stores'[s], Append(co, c))
            /\ \A y : InCopy(Append(co, c), y) <=> InCopy(co, y) \/ y = c.store
        BY <2>3, <3>9, <4>1, NewCopy
      <4> QED
        BY <3>10, <4>2
    <3>12. Stored(s, i + 1, stores'[s], savedIn[s], Append(co, c))
      <4>1. MovedOn(n.type, id, st, stores'[s], co, Append(co, c))
        BY <1>6, <2>4, <3>5, <3>7, <3>8, <3>11 DEF MovedOn, gpu
      <4> HIDE DEF id, st, co
      <4> QED
        BY <1>1, <1>3, <3>1, <4>1, MovedStored DEF n
    <3>13. EventsReady(s, i + 1, pools'[s], handles[s])
      BY <1>1, <3>1, EventsPass DEF n
    <3>14. \A l \in Chunks : RedoneOf(s, l, i + 1, recompute[s][l], recomputed[s])
      <4>1. \A l \in Chunks : i \notin RF(s, l) /\ i \notin RN(s, l)
        BY <1>1, <1>3, RecomputeSets DEF n
      <4> QED
        BY <1>1, <3>1, <4>1, RedonePass
    <3>15. StageOK(s, i + 1, stores'[s], pools'[s], savedIn'[s], copies'[s], handles'[s],
                   recompute'[s], recomputed'[s])
      BY <2>2, <2>3, <3>1, <3>8, <3>11, <3>12, <3>13, <3>14 DEF StageOK, StageTypes
    <3> QED
      BY <1>1, <1>2, <1>4, <2>2, <2>5, <3>15, StageStep DEF i
  <2> QED
    BY <1>2, <2>2, <2>3, <2>5, StepAlone
<1> QED
  BY <1>5, <1>6

-------------------------------------------------------------------------------
(* The rest of the steps, and the invariant.                                  *)

(* Weight gradients and communications.                                       *)
LEMMA OtherStep ==
  ASSUME Inv, MemoryOK, MemoryNext, NEW s \in Stage, Other(s)
  PROVE  MemoryOK'
<1> DEFINE i == it[s]
           n == Node(s, i)
<1>1. /\ i \in DOMAIN Order(s) /\ status[s] = "running" /\ conf \in Conf
      /\ n.type \in {"W"} \cup CommTypes /\ UNCHANGED memory
  BY StageFacts DEF Other, WeightW, AddCommunication, AtNode
<1>2. /\ n.type # "F" /\ n.type # "R" /\ n.type \notin BarrierTypes /\ n.type \notin {"B", "BW"}
  BY <1>1 DEF BarrierTypes, CopyStarts, CommTypes, SendTypes, RecvTypes
<1>3. \A k \in Chunks : i \notin Bs(s, k)
  BY <1>1, <1>2, ForwardTypes
<1>4. Outcome(s)
  BY Outcomes DEF Other
<1> QED
  BY <1>1, <1>2, <1>3, <1>4, QuietNode

(* The end of a stage, and what the network does, leave the memory alone.     *)
LEMMA MemoryUntouched ==
  ASSUME MemoryOK, UNCHANGED memory, conf' = conf, it' = it,
         \A s \in Stage : status'[s] # "raised" => status[s] # "raised"
  PROVE  MemoryOK'
<1>1. UNCHANGED <<stores, pools, savedIn, restored, copies, handles, recompute, recomputed>>
  BY DEF memory, kept, transfer, redone
<1>2. ASSUME ~ conf.forwardOnly, NEW s \in Stage PROVE StageAt(s)'
  BY <1>1, <1>2, PrimedStage DEF MemoryOK, StageAt
<1> QED
  BY <1>1, <1>2 DEF MemoryOK, MemoryDomains

LEMMA FinishEmptyStep ==
  ASSUME Inv, MemoryOK, NEW s \in Stage, FinishEmpty(s)
  PROVE  MemoryOK'
<1>1. UNCHANGED memory /\ (Raise(s) \/ Finish(s))
  BY DEF FinishEmpty
<1>2. conf' = conf /\ it' = it
  BY <1>1 DEF Raise, Finish
<1>3. /\ \A u \in Stage : u # s => status'[u] = status[u]
      /\ status'[s] # "raised" => status[s] # "raised"
  BY <1>1 DEF Raise, Finish, Inv, TypeOK
<1> QED
  BY <1>1, <1>2, <1>3, MemoryUntouched

(* Every step preserves the invariant.                                        *)
LEMMA MemoryStep ==
  Inv /\ PathInv /\ ActivationsOK /\ MemoryOK /\ [MemoryNext]_<<vars, memory>> => MemoryOK'
<1> SUFFICES ASSUME Inv, PathInv, ActivationsOK, MemoryOK, [MemoryNext]_<<vars, memory>>
             PROVE  MemoryOK'
  OBVIOUS
<1>1. CASE UNCHANGED <<vars, memory>>
  BY <1>1, MemoryUntouched DEF vars
<1>2. CASE MemoryNext
  <2>1. ASSUME NEW s \in Stage, Forward(s) PROVE MemoryOK'
    BY <1>2, <2>1, ForwardStep
  <2>2. ASSUME NEW s \in Stage, Backward(s) PROVE MemoryOK'
    BY <1>2, <2>2, BackwardStep
  <2>3. ASSUME NEW s \in Stage, Recompute(s) PROVE MemoryOK'
    BY <1>2, <2>3, RecomputeStep
  <2>4. ASSUME NEW s \in Stage, Release(s) PROVE MemoryOK'
    BY <1>2, <2>4, ReleaseStep
  <2>5. ASSUME NEW s \in Stage, SendEvent(s) PROVE MemoryOK'
    BY <1>2, <2>5, SendEventMemory
  <2>6. ASSUME NEW s \in Stage, ReceiveEvent(s) PROVE MemoryOK'
    BY <1>2, <2>6, ReceiveEventMemory
  <2>7. ASSUME NEW s \in Stage, BeginCopy(s) \/ EndCopy(s) PROVE MemoryOK'
    BY <1>2, <2>7, CopyMemory
  <2>8. ASSUME NEW s \in Stage, Other(s) PROVE MemoryOK'
    BY <1>2, <2>8, OtherStep
  <2>9. ASSUME NEW s \in Stage, FinishEmpty(s) PROVE MemoryOK'
    BY <1>2, <2>9, FinishEmptyStep
  <2>10. ASSUME NEW s \in Stage, NEW t \in Stage, Transfer(s, t), UNCHANGED memory PROVE MemoryOK'
    BY <2>10, MemoryUntouched DEF Transfer
  <2>11. CASE UNCHANGED <<vars, memory>>
    BY <2>11, MemoryUntouched DEF vars
  <2> QED
    BY <1>2, <2>1, <2>2, <2>3, <2>4, <2>5, <2>6, <2>7, <2>8, <2>9, <2>10, <2>11 DEF MemoryNext
<1> QED
  BY <1>1, <1>2

-------------------------------------------------------------------------------
(* The runtime below: its invariants hold here too.                           *)

(* The nodes that only concern the memory are passed over below.              *)
LEMMA SkippedNode ==
  ASSUME Inv, NEW s \in Stage, Skip(s), it[s] \in DOMAIN Order(s),
         Node(s, it[s]).type \notin {"F", "B", "BW"} \cup CommTypes
  PROVE  Inv' /\ RuntimeStep
<1>1. it[s] \notin Live(conf, s)
  BY DEF Live, Node
<1> QED
  BY <1>1, SkipStep, SkipPasses DEF RuntimeStep

(* Every step is a step of the runtime, or passes such a node.                *)
LEMMA RuntimeBelow ==
  ASSUME Inv, [MemoryNext]_<<vars, memory>>
  PROVE  Inv' /\ RuntimeStep
<1>1. ASSUME [Next]_vars PROVE Inv' /\ RuntimeStep
  BY <1>1, NextStep, StepCases DEF RuntimeStep
<1>2. ASSUME NEW s \in Stage, Raise(s) PROVE Inv' /\ RuntimeStep
  <2>1. Waits
    BY <1>2 DEF Raise, Waits, network
  <2> QED
    BY <1>2, <2>1, RaiseStep DEF RuntimeStep
<1>3. CASE UNCHANGED <<vars, memory>>
  BY <1>1, <1>3
<1>4. ASSUME NEW s \in Stage, Forward(s) PROVE Inv' /\ RuntimeStep
  BY <1>1, <1>2, <1>4 DEF Forward, Next
<1>5. ASSUME NEW s \in Stage, Backward(s) PROVE Inv' /\ RuntimeStep
  BY <1>1, <1>2, <1>5 DEF Backward, Next
<1>6. ASSUME NEW s \in Stage, Recompute(s) \/ Release(s) \/ ReceiveEvent(s)
      PROVE  Inv' /\ RuntimeStep
  <2>1. /\ Raise(s) \/ Skip(s)
        /\ it[s] \in DOMAIN Order(s)
        /\ Node(s, it[s]).type \in {"R", "OFFLOAD_SEND_END", "OFFLOAD_RECV_PREP", "OFFLOAD_RECV_END"}
                                   \cup BarrierTypes
    BY <1>6 DEF Recompute, Release, ReceiveEvent, AtNode
  <2>2. Node(s, it[s]).type \notin {"F", "B", "BW"} \cup CommTypes
    BY <2>1 DEF BarrierTypes, CopyStarts, CommTypes, SendTypes, RecvTypes
  <2> QED
    BY <1>2, <2>1, <2>2, SkippedNode
<1>7. ASSUME NEW s \in Stage, SendEvent(s) \/ BeginCopy(s) \/ EndCopy(s)
      PROVE  Inv' /\ RuntimeStep
  BY <1>1, <1>2, <1>7 DEF SendEvent, BeginCopy, EndCopy
<1>8. ASSUME NEW s \in Stage, Other(s) PROVE Inv' /\ RuntimeStep
  BY <1>1, <1>8 DEF Other, Next
<1>9. ASSUME NEW s \in Stage, FinishEmpty(s) PROVE Inv' /\ RuntimeStep
  BY <1>1, <1>2, <1>9 DEF FinishEmpty, Next
<1>10. ASSUME NEW s \in Stage, NEW t \in Stage, Transfer(s, t) PROVE Inv' /\ RuntimeStep
  BY <1>1, <1>10 DEF Next
<1> QED
  BY <1>3, <1>4, <1>5, <1>6, <1>7, <1>8, <1>9, <1>10 DEF MemoryNext

-------------------------------------------------------------------------------
(* The invariant at first, and what it says.                                  *)

LEMMA MemoryInitOK == MemoryInit => Inv /\ ActivationsOK /\ PathInv /\ MemoryOK
<1> SUFFICES ASSUME MemoryInit PROVE Inv /\ ActivationsOK /\ PathInv /\ MemoryOK
  OBVIOUS
<1>1. Init
  BY DEF MemoryInit
<1>2. Inv /\ ActivationsOK /\ PathInv /\ conf \in Conf
  BY <1>1, InitInv, ActivationsInit, PathInit DEF Init
<1>3. MemoryDomains
  BY DEF MemoryInit, MemoryDomains
<1>4. ASSUME NEW s \in Stage PROVE StageAt(s)
  <2>1. /\ it[s] = 1 /\ stores[s] = <<>> /\ savedIn[s] = <<>> /\ copies[s] = <<>> /\ handles[s] = <<>>
        /\ pools[s] = [q \in Pools |-> [queues |-> [k \in 1 .. 5 |-> <<>>], free |-> <<>>]]
        /\ restored[s] = [i \in DOMAIN Order(s) |-> NoKey]
        /\ recompute[s] = [k \in Chunks |-> <<>>] /\ recomputed[s] = {}
    BY <1>1 DEF MemoryInit, Init
  <2>2. \A i \in DOMAIN Order(s) : ~ i < 1
    BY <1>2, PositionsAreNumbers
  <2>3. \A k \in Chunks : \A i \in Fs(s, k) \cup Bs(s, k) : ~ i < 1
    BY <1>2, <2>2, ForwardTypes
  <2>4. Kept(s, 1, restored[s], recomputed[s])
    BY <2>1, <2>3 DEF Kept, Found
  <2>5. \A j : ~ Pending(s, j, 1)
    BY <2>3 DEF Pending, Undone
  <2>6. /\ stores[s] \in Seq(Stores) /\ recompute[s] \in [Chunks -> Seq(Tensors)]
        /\ savedIn[s] \in [DOMAIN savedIn[s] -> Nat] /\ DOMAIN savedIn[s] = {}
        /\ DOMAIN copies[s] = {}
    BY <2>1
  <2>7. \A q \in Pools, k \in 1 .. 6 : Place(pools[s][q], k) = <<>>
    <3>1. \A k \in 1 .. 6 : k # 6 => k \in 1 .. 5
      OBVIOUS
    <3> QED
      BY <2>1, <3>1 DEF Place
  <2>8. PoolsOK(stores[s], pools[s])
    <3>1. ToSet(<<>>) = {} /\ IsInjective(<<>>)
      BY DEF ToSet, IsInjective
    <3> QED
      BY <2>7, <3>1 DEF PoolsOK, Held
  <2>9. pools[s] \in [Pools -> PoolRecords]
    <3>1. [queues |-> [k \in 1 .. 5 |-> <<>>], free |-> <<>>] \in PoolRecords
      BY DEF PoolRecords
    <3> QED
      BY <2>1, <3>1
  <2>10. CopiesFit(stores[s], copies[s]) /\ Stored(s, 1, stores[s], savedIn[s], copies[s])
    BY <2>5, <2>6 DEF CopiesFit, Stored
  <2>11. EventsReady(s, 1, pools[s], handles[s])
    <3>1. {j \in 1 .. 1 - 1 : conf.order[s][j].type \in BarrierTypes} = {}
      OBVIOUS
    <3>2. BarriersBefore(conf, s, 1) = 0
      BY <3>1, FS_EmptySet DEF BarriersBefore
    <3> QED
      BY <2>1, <3>2 DEF EventsReady
  <2>12. ASSUME NEW k \in Chunks PROVE RedoneOf(s, k, 1, recompute[s][k], recomputed[s])
    <3>1. RF(s, k) \in SUBSET Nat /\ RN(s, k) \in SUBSET Nat
      BY <1>2, RecomputeSets
    <3>2. /\ {i \in RF(s, k) : i < 1} = {} /\ {i \in RN(s, k) : i < 1} = {}
      <4>1. RF(s, k) \subseteq DOMAIN Order(s) /\ RN(s, k) \subseteq DOMAIN Order(s)
        BY <1>2, ForwardTypes, RecomputeSets DEF RN, Recomputations, Order
      <4> QED
        BY <2>2, <4>1
    <3>3. NumberBefore(RF(s, k), 1) = 0 /\ NumberBefore(RN(s, k), 1) = 0
      BY <3>2, FS_EmptySet DEF NumberBefore
    <3>4. Len(recompute[s][k]) = 0
      BY <2>1
    <3>5. \A j \in RF(s, k) : ~ j < 1
      BY <3>2
    <3> QED
      BY <3>3, <3>4, <3>5 DEF RedoneOf
  <2> QED
    BY <2>1, <2>4, <2>6, <2>8, <2>9, <2>10, <2>11, <2>12 DEF StageAt, StageOK, StageTypes
<1> QED
  BY <1>2, <1>3, <1>4 DEF MemoryOK

(* What the backwards have found is what the property asks for.               *)
LEMMA MemorySuffices == Inv /\ MemoryOK => OwnActivations
<1> SUFFICES ASSUME Inv, MemoryOK, NEW s \in Stage, NEW i \in Executed(s, {"B", "BW"}),
                    NEW j \in Executed(s, {"F"}),
                    Key(Node(s, j)) = MakeKey("F", Node(s, i).lg, Node(s, i).mb, Node(s, i).seq)
             PROVE  /\ Node(s, j).offload => restored[s][i] = Key(Node(s, j))
                    /\ Node(s, j).recompute => Key(Node(s, j)) \in recomputed[s]
  BY DEF OwnActivations
<1>1. /\ i \in Live(conf, s) /\ Node(s, i).type \in {"B", "BW"} /\ i < it[s]
      /\ j \in Live(conf, s) /\ Node(s, j).type = "F" /\ conf \in Conf
  BY StageFacts, LiveExecuted
<1> DEFINE k == Node(s, i).chunk
<1>2. k \in Chunks /\ i \in Bs(s, k) /\ ~ conf.forwardOnly
  BY <1>1, ChunkOfNode
<1>3. PICK l \in Fs(s, k) : Mate(s, i, l)
  BY <1>1, <1>2, Mates
<1>4. l \in DOMAIN Order(s) /\ Node(s, l).type = "F" /\ j \in DOMAIN Order(s)
  BY <1>1, ForwardTypes, StageFacts
<1>5. Key(Node(s, j)) = Key(Node(s, l))
  BY <1>3, <1>4 DEF Key, MakeKey, Mate, SamePass, Node
<1>6. j = l
  BY <1>1, <1>4, <1>5, KeysDiffer
<1>7. FoundOwn(s, k, i, restored[s], recomputed[s])
  BY <1>1, <1>2 DEF MemoryOK, StageAt, Kept, Found
<1> QED
  BY <1>3, <1>6, <1>7 DEF FoundOwn

(* Whatever the pace of the stages, the copies and the network, a backward    *)
(* finds in its store the activations of its own forward, back from the host  *)
(* (ActivationPool, ActivationStore), and the backward of a forward to be     *)
(* recomputed comes after its recomputation (RecomputeStore).                 *)
THEOREM OwnActivationsFound == MemorySpec => []OwnActivations
<1> DEFINE I == Inv /\ ActivationsOK /\ PathInv /\ MemoryOK
<1>1. MemoryInit => I
  BY MemoryInitOK
<1>2. I /\ [MemoryNext]_<<vars, memory>> => I'
  BY RuntimeBelow, ActivationsKept, PathStep, MemoryStep
<1>3. I => OwnActivations
  BY MemorySuffices
<1> QED
  BY <1>1, <1>2, <1>3, PTL DEF MemorySpec
=============================================================================
