----------------------- MODULE PipelineRuntime_proofs -----------------------
(* Proofs about PipelineRuntime, for every number of stages, chunks and       *)
(* sequence splits and every set of well-typed configurations.                *)
EXTENDS PipelineRuntime, SequenceTheorems, TLAPS

(* What an entry of a buffer is: a node of its stage's order, and one that    *)
(* produces a tensor unless the buffer holds receives.                        *)
EntriesOK(s, f) ==
  \A b \in Buffers : \A k \in 1 .. Len(f[b]) :
    /\ f[b][k] \in DOMAIN Order(s)
    /\ b[1] \notin RecvTypes => Node(s, f[b][k]).type \in {"F", "B", "BW"}

BufferEntries == \A s \in Stage : EntriesOK(s, buf[s])

(* A stack of an SpQueue that is ready holds something to pop.                *)
IsSpQueue(q) ==
  /\ q \in [ready : Seq(Seq(Tensors)), tmp : Seq(Tensors)]
  /\ \A j \in 1 .. Len(q.ready) : q.ready[j] # <<>>

StacksFull == \A s \in Stage : \A k \in Chunks : IsSpQueue(acts[s][k])

Inv == TypeOK /\ BufferEntries /\ StacksFull

-------------------------------------------------------------------------------
(* Facts about the operators of the module.                                   *)

(* Every position of an order holds a node with the fields of ScheduledNode.  *)
LEMMA NodeIsNode ==
  ASSUME conf \in Conf, NEW s \in Stage, NEW i \in DOMAIN Order(s)
  PROVE  Node(s, i) \in Nodes
<1>1. IsConf(conf)
  BY ConfOK
<1>2. Order(s) \in Seq(Nodes)
  BY <1>1 DEF IsConf, Order
<1> QED
  BY <1>2 DEF Order, Node

(* The key of a forward or backward names a tensor.                           *)
LEMMA KeyIsTensor ==
  ASSUME NEW n \in Nodes, n.type \in {"F", "B", "BW"}
  PROVE  Key(n) \in Tensors
BY DEF Nodes, Key, MakeKey, Tensors

(* The buffers of a computation exist.                                        *)
LEMMA SourceSinkTypes ==
  ASSUME NEW s \in Stage, NEW n \in Nodes
  PROVE  /\ Source(s, n) \in Buffers \cup {NoBuffer}
         /\ Sink(s, n) \in Buffers \cup {NoBuffer}
         /\ Sink(s, n)[1] \notin RecvTypes
BY DEF Source, Sink, Buffers, NoBuffer, Nodes, CommTypes, SendTypes, RecvTypes, IsBackward

LEMMA BufferMapType ==
  ASSUME NEW n \in Nodes, n.type \in CommTypes
  PROVE  BufferMap(n) \in Buffers /\ BufferMap(n)[1] = n.type /\ BufferMap(n) # NoBuffer
BY DEF BufferMap, Buffers, Nodes, CommTypes, SendTypes, RecvTypes, NoBuffer

(* Popping and pushing keep a stage's buffers sequences of numbers.           *)
LEMMA PoppedPushedTypes ==
  ASSUME NEW f \in [Buffers -> Seq(Nat)], NEW b \in Buffers \cup {NoBuffer}, NEW i \in Nat
  PROVE  /\ b # NoBuffer /\ f[b] # <<>> => Popped(f, b) \in [Buffers -> Seq(Nat)]
         /\ b = NoBuffer => Popped(f, b) = f
         /\ Pushed(f, b, i) \in [Buffers -> Seq(Nat)]
BY DEF Popped, Pushed

(* They also keep the entries what they should be.                            *)
LEMMA PoppedEntries ==
  ASSUME NEW s \in Stage, NEW f \in [Buffers -> Seq(Nat)], EntriesOK(s, f),
         NEW b \in Buffers \cup {NoBuffer}, b = NoBuffer \/ f[b] # <<>>
  PROVE  EntriesOK(s, Popped(f, b))
<1>1. CASE b = NoBuffer
  BY <1>1 DEF Popped
<1>2. CASE b # NoBuffer
  <2>1. Popped(f, b) = [f EXCEPT ![b] = Tail(f[b])]
    BY <1>2 DEF Popped
  <2>2. \A k \in 1 .. Len(Tail(f[b])) : k + 1 \in 1 .. Len(f[b]) /\ Tail(f[b])[k] = f[b][k + 1]
    BY <1>2
  <2> QED
    BY <2>1, <2>2 DEF EntriesOK
<1> QED
  BY <1>1, <1>2

LEMMA PushedEntries ==
  ASSUME NEW s \in Stage, NEW f \in [Buffers -> Seq(Nat)], EntriesOK(s, f),
         NEW b \in Buffers \cup {NoBuffer}, NEW i \in Nat, i \in DOMAIN Order(s),
         b[1] \in RecvTypes \/ Node(s, i).type \in {"F", "B", "BW"}
  PROVE  EntriesOK(s, Pushed(f, b, i))
<1>1. CASE b = NoBuffer
  BY <1>1 DEF Pushed
<1>2. CASE b # NoBuffer
  <2>1. Pushed(f, b, i) = [f EXCEPT ![b] = Append(f[b], i)]
    BY <1>2 DEF Pushed
  <2>2. \A k \in 1 .. Len(Append(f[b], i)) :
          Append(f[b], i)[k] = IF k \in 1 .. Len(f[b]) THEN f[b][k] ELSE i
    BY <1>2
  <2> QED
    BY <1>2, <2>1, <2>2 DEF EntriesOK
<1> QED
  BY <1>1, <1>2

(* The tensor an operand stands for.                                          *)
LEMMA TensorInType ==
  ASSUME Inv, NEW s \in Stage, NEW b \in Buffers \cup {NoBuffer}, ~ Missing(s, b)
  PROVE  TensorIn(s, b) \in Tensors \cup {NoKey}
<1>1. CASE b = NoBuffer
  BY <1>1 DEF TensorIn
<1>2. CASE b # NoBuffer
  <2>1. buf[s][b] \in Seq(Nat) /\ buf[s][b] # <<>>
    BY <1>2 DEF Inv, TypeOK, Missing
  <2>2. Head(buf[s][b]) = buf[s][b][1] /\ 1 \in 1 .. Len(buf[s][b])
    BY <2>1
  <2>3. /\ Head(buf[s][b]) \in DOMAIN Order(s)
        /\ b[1] \notin RecvTypes => Node(s, Head(buf[s][b])).type \in {"F", "B", "BW"}
    BY <1>2, <2>2 DEF Inv, BufferEntries, EntriesOK
  <2>4. payload[s][Head(buf[s][b])] \in Tensors \cup {NoKey}
    BY <2>3 DEF Inv, TypeOK, PerNode
  <2>5. b[1] \notin RecvTypes => Key(Node(s, Head(buf[s][b]))) \in Tensors
    BY <2>3, NodeIsNode, KeyIsTensor DEF Inv, TypeOK
  <2> QED
    BY <1>2, <2>4, <2>5 DEF TensorIn
<1> QED
  BY <1>1, <1>2

(* A function of functions changed at one place.                              *)
LEMMA UpdateTwice ==
  ASSUME NEW A, NEW B, NEW C, NEW f \in [A -> [B -> C]],
         NEW a \in A, NEW b \in B, NEW x \in C
  PROVE  [f EXCEPT ![a][b] = x] \in [A -> [B -> C]]
OBVIOUS

(* All but the last element of a sequence of several.                         *)
LEMMA FrontType ==
  ASSUME NEW S, NEW seq \in Seq(S), Len(seq) > 1
  PROVE  SubSeq(seq, 1, Len(seq) - 1) \in Seq(S) /\ SubSeq(seq, 1, Len(seq) - 1) # <<>>
<1> DEFINE front == SubSeq(seq, 1, Len(seq) - 1)
<1>1. Len(seq) - 1 \in Int /\ 1 <= Len(seq) - 1
  OBVIOUS
<1>2. \A i \in 1 .. Len(seq) - 1 : seq[i] \in S
  OBVIOUS
<1>3. front \in Seq(S) /\ Len(front) > 0
  BY <1>1, <1>2, SubSeqProperties
<1> HIDE DEF front
<1>4. front # <<>>
  BY <1>3
<1> QED
  BY <1>3, <1>4 DEF front

(* The operations of SpQueue.                                                 *)
LEMMA SpPushType ==
  ASSUME NEW q, IsSpQueue(q), NEW x \in Tensors
  PROVE  IsSpQueue(SpPush(q, x))
<1> DEFINE tmp == Append(q.tmp, x)
<1>1. q.ready \in Seq(Seq(Tensors)) /\ q.tmp \in Seq(Tensors)
  BY DEF IsSpQueue
<1>2. tmp \in Seq(Tensors) /\ tmp # <<>>
  BY <1>1, AppendProperties
<1>3. CASE Len(tmp) = Cardinality(Seqs)
  <2>1. SpPush(q, x) = [ready |-> Append(q.ready, tmp), tmp |-> <<>>]
    BY <1>3 DEF SpPush
  <2>2. Append(q.ready, tmp) \in Seq(Seq(Tensors))
    BY <1>1, <1>2
  <2>3. \A j \in 1 .. Len(Append(q.ready, tmp)) : Append(q.ready, tmp)[j] # <<>>
    BY <1>1, <1>2 DEF IsSpQueue
  <2> QED
    BY <2>1, <2>2, <2>3 DEF IsSpQueue
<1>4. CASE Len(tmp) # Cardinality(Seqs)
  <2>1. SpPush(q, x) = [q EXCEPT !.tmp = tmp]
    BY <1>4 DEF SpPush
  <2> QED
    BY <2>1, <1>2 DEF IsSpQueue
<1> QED
  BY <1>3, <1>4

LEMMA SpPopType ==
  ASSUME NEW q, IsSpQueue(q), q.ready # <<>>
  PROVE  IsSpQueue(SpPop(q)) /\ SpTop(q) \in Tensors
<1>1. q.ready \in Seq(Seq(Tensors)) /\ q.tmp \in Seq(Tensors)
  BY DEF IsSpQueue
<1>2. PICK stack \in Seq(Tensors) : stack = q.ready[1] /\ stack # <<>>
  BY <1>1 DEF IsSpQueue
<1>3. PICK n \in Nat : n = Len(stack) /\ n # 0
  BY <1>2, EmptySeq
<1>4. SpTop(q) \in Tensors
  <2>1. n \in 1 .. Len(stack)
    BY <1>3
  <2> QED
    BY <1>2, <1>3, <2>1, ElementOfSeq DEF SpTop
<1>5. CASE n = 1
  <2>1. SpPop(q) = [q EXCEPT !.ready = Tail(q.ready)]
    BY <1>2, <1>3, <1>5 DEF SpPop
  <2>2. \A j \in 1 .. Len(Tail(q.ready)) : Tail(q.ready)[j] # <<>>
    BY <1>1 DEF IsSpQueue
  <2>3. Tail(q.ready) \in Seq(Seq(Tensors))
    BY <1>1
  <2> QED
    BY <1>1, <1>4, <2>1, <2>2, <2>3 DEF IsSpQueue
<1>6. CASE n > 1
  <2> DEFINE rest == SubSeq(stack, 1, n - 1)
             new  == [q.ready EXCEPT ![1] = rest]
  <2>1. SpPop(q) = [q EXCEPT !.ready = new]
    <3>1. n # 1
      BY <1>6
    <3>2. Len(q.ready[1]) # 1
      BY <1>2, <1>3, <3>1
    <3> QED
      BY <1>2, <1>3, <3>2 DEF SpPop
  <2>2. rest \in Seq(Tensors) /\ rest # <<>>
    BY <1>3, <1>6, FrontType
  <2>3. new \in Seq(Seq(Tensors)) /\ Len(new) = Len(q.ready)
    BY <1>1, <2>2
  <2>4. \A j \in 1 .. Len(new) : new[j] # <<>>
    <3>1. ASSUME NEW j \in 1 .. Len(new) PROVE new[j] # <<>>
      <4>1. new[j] = IF j = 1 THEN rest ELSE q.ready[j]
        BY <1>1, <2>2, <2>3
      <4>2. q.ready[j] # <<>>
        BY <2>3 DEF IsSpQueue
      <4> QED
        BY <2>2, <4>1, <4>2
    <3> QED
      BY <3>1
  <2> HIDE DEF new
  <2> QED
    BY <1>1, <1>4, <2>1, <2>3, <2>4 DEF IsSpQueue
<1> QED
  BY <1>3, <1>5, <1>6

-------------------------------------------------------------------------------
(* Each action preserves the invariant.                                       *)

LEMMA InitInv == Init => Inv
<1> SUFFICES ASSUME Init PROVE Inv
  OBVIOUS
<1>1. \A s \in Stage : Order(s) \in Seq(Nodes)
  BY ConfOK DEF Init, IsConf, Order
<1>2. TypeOK
  BY <1>1 DEF Init, TypeOK, PerNode
<1>3. BufferEntries
  BY DEF Init, BufferEntries, EntriesOK
<1>4. StacksFull
  BY DEF Init, StacksFull, IsSpQueue
<1> QED
  BY <1>2, <1>3, <1>4 DEF Inv

(* A step that changes no tensor and no buffer.                               *)
LEMMA QuietStep ==
  ASSUME Inv, UNCHANGED <<conf, buf, acts, operand, saved, payload, wgrads, grads>>,
         it' \in [Stage -> Nat \ {0}], status' \in [Stage -> {"running", "raised", "done"}],
         cleared' \in [Stage -> SUBSET Chunks], batch' \in [Stage -> SUBSET Nat],
         posted' \in [Stage -> Seq([ops : SUBSET Nat, left : SUBSET Nat])]
  PROVE  Inv'
<1>1. TypeOK'
  BY DEF Inv, TypeOK, PerNode, Order
<1>2. BufferEntries'
  BY DEF Inv, BufferEntries, EntriesOK, Order, Node
<1>3. StacksFull'
  BY DEF Inv, StacksFull, IsSpQueue
<1> QED
  BY <1>1, <1>2, <1>3 DEF Inv

LEMMA AdvanceType ==
  ASSUME Inv, NEW s \in Stage, Advance(s)
  PROVE  it' \in [Stage -> Nat \ {0}]
BY DEF Inv, TypeOK, Advance

LEMMA RaiseStep ==
  ASSUME Inv, NEW s \in Stage, Raise(s)
  PROVE  Inv'
BY QuietStep DEF Raise, Inv, TypeOK, weights, network

LEMMA SkipStep ==
  ASSUME Inv, NEW s \in Stage, Skip(s)
  PROVE  Inv'
<1>1. it' \in [Stage -> Nat \ {0}]
  BY AdvanceType DEF Skip
<1>2. UNCHANGED <<conf, buf, acts, operand, saved, payload, wgrads, grads,
                  status, cleared, batch, posted>>
  BY DEF Skip, weights, network
<1> QED
  BY <1>1, <1>2, QuietStep DEF Inv, TypeOK

(* A stage's buffers change to g.                                             *)
LEMMA BufferStep ==
  ASSUME Inv, NEW s \in Stage, NEW g \in [Buffers -> Seq(Nat)], EntriesOK(s, g),
         buf' = [buf EXCEPT ![s] = g], conf' = conf
  PROVE  buf' \in [Stage -> [Buffers -> Seq(Nat)]] /\ BufferEntries'
BY DEF Inv, TypeOK, BufferEntries, EntriesOK, Order, Node

(* The SpQueue of chunk k changes to q, or none does.                         *)
LEMMA SpQueueStep ==
  ASSUME Inv, NEW s \in Stage, NEW k \in Chunks, NEW q, IsSpQueue(q),
         acts' = [acts EXCEPT ![s][k] = q] \/ acts' = acts
  PROVE  /\ acts' \in [Stage -> [Chunks -> [ready : Seq(Seq(Tensors)), tmp : Seq(Tensors)]]]
         /\ StacksFull'
<1> DEFINE SpQueues == [ready : Seq(Seq(Tensors)), tmp : Seq(Tensors)]
<1>1. acts \in [Stage -> [Chunks -> SpQueues]] /\ q \in SpQueues
  BY DEF Inv, TypeOK, IsSpQueue
<1> HIDE DEF SpQueues
<1>2. acts' \in [Stage -> [Chunks -> SpQueues]]
  BY <1>1
<1>3. \A t \in Stage : \A j \in Chunks : acts'[t][j] = acts[t][j] \/ acts'[t][j] = q
  BY <1>1
<1>4. StacksFull'
  <2>1. \A t \in Stage : \A j \in Chunks : IsSpQueue(acts'[t][j])
    BY <1>3 DEF Inv, StacksFull
  <2> QED
    BY <2>1 DEF StacksFull
<1> QED
  BY <1>2, <1>4 DEF SpQueues

(* The operand of a computation leaves its buffer and the result enters one.  *)
LEMMA OperandAndResult ==
  ASSUME Inv, NEW s \in Stage, NEW i \in DOMAIN Order(s),
         Node(s, i).type \in {"F", "B", "BW"}, ~ Missing(s, Source(s, Node(s, i))),
         conf' = conf,
         buf' = [buf EXCEPT ![s] =
           Pushed(Popped(buf[s], Source(s, Node(s, i))), Sink(s, Node(s, i)), i)],
         operand' = [operand EXCEPT ![s][i] = TensorIn(s, Source(s, Node(s, i)))]
  PROVE  /\ buf' \in [Stage -> [Buffers -> Seq(Nat)]] /\ BufferEntries'
         /\ PerNode(operand)'
<1> DEFINE src == Source(s, Node(s, i))
           snk == Sink(s, Node(s, i))
           f   == Popped(buf[s], src)
           g   == Pushed(f, snk, i)
<1>1. Node(s, i) \in Nodes /\ i \in Nat
  BY NodeIsNode, ConfOK DEF Inv, TypeOK, IsConf, Order
<1>2. src \in Buffers \cup {NoBuffer} /\ snk \in Buffers \cup {NoBuffer}
  BY <1>1, SourceSinkTypes
<1>3. buf[s] \in [Buffers -> Seq(Nat)] /\ EntriesOK(s, buf[s])
  BY DEF Inv, TypeOK, BufferEntries
<1>4. src = NoBuffer \/ buf[s][src] # <<>>
  BY DEF Missing
<1> HIDE DEF src, snk
<1>5. f \in [Buffers -> Seq(Nat)] /\ EntriesOK(s, f)
  BY <1>2, <1>3, <1>4, PoppedPushedTypes, PoppedEntries, <1>1
<1> HIDE DEF f
<1>6. g \in [Buffers -> Seq(Nat)] /\ EntriesOK(s, g)
  BY <1>1, <1>2, <1>5, PoppedPushedTypes, PushedEntries
<1>7. TensorIn(s, src) \in Tensors \cup {NoKey}
  BY <1>2, TensorInType DEF src
<1>8. buf' = [buf EXCEPT ![s] = g] /\ operand' = [operand EXCEPT ![s][i] = TensorIn(s, src)]
  BY DEF g, f, src, snk
<1> HIDE DEF g
<1>9. buf' \in [Stage -> [Buffers -> Seq(Nat)]] /\ BufferEntries'
  BY <1>6, <1>8, BufferStep
<1>10. PerNode(operand)'
  BY <1>7, <1>8 DEF Inv, TypeOK, PerNode, Order
<1> QED
  BY <1>9, <1>10

LEMMA ForwardFStep ==
  ASSUME Inv, NEW s \in Stage, ForwardF(s)
  PROVE  Inv'
<1> DEFINE i == it[s]
           n == Node(s, i)
<1>1. i \in DOMAIN Order(s) /\ n.type = "F" /\ n \in Nodes
  BY NodeIsNode DEF ForwardF, AtNode, Inv, TypeOK
<1>2. CASE Missing(s, Source(s, n)) \/ ~ LocalOK(s, n)
  <2>1. Raise(s)
    BY <1>2 DEF ForwardF
  <2> QED
    BY <2>1, RaiseStep
<1>3. CASE ~ (Missing(s, Source(s, n)) \/ ~ LocalOK(s, n))
  <2>1. /\ Advance(s)
        /\ buf' = [buf EXCEPT ![s] = Pushed(Popped(buf[s], Source(s, n)), Sink(s, n), i)]
        /\ operand' = [operand EXCEPT ![s][i] = TensorIn(s, Source(s, n))]
        /\ acts' = IF conf.forwardOnly THEN acts
                   ELSE [acts EXCEPT ![s][n.chunk] = SpPush(acts[s][n.chunk], Key(n))]
        /\ UNCHANGED <<conf, status, wgrads, cleared, grads, batch, posted, payload, saved>>
    BY <1>3 DEF ForwardF, weights, network
  <2>2. buf' \in [Stage -> [Buffers -> Seq(Nat)]] /\ BufferEntries' /\ PerNode(operand)'
    BY <1>1, <1>3, <2>1, OperandAndResult
  <2>3. IsSpQueue(SpPush(acts[s][n.chunk], Key(n)))
    BY <1>1, SpPushType, KeyIsTensor DEF Inv, StacksFull, Nodes
  <2>4. StacksFull' /\ acts' \in [Stage -> [Chunks ->
          [ready : Seq(Seq(Tensors)), tmp : Seq(Tensors)]]]
    BY <1>1, <2>1, <2>3, SpQueueStep DEF Nodes
  <2>5. it' \in [Stage -> Nat \ {0}]
    BY <2>1, AdvanceType
  <2>6. PerNode(payload)' /\ PerNode(saved)'
    BY <2>1 DEF Inv, TypeOK, PerNode, Order
  <2> QED
    BY <2>1, <2>2, <2>4, <2>5, <2>6 DEF Inv, TypeOK
<1> QED
  BY <1>2, <1>3

(* A weight-gradient queue changes to q, or none does.                        *)
LEMMA QueueType ==
  ASSUME Inv, NEW s \in Stage, NEW p \in Chunks \X Seqs, NEW q \in Seq(Tensors),
         wgrads' = wgrads \/ wgrads' = [wgrads EXCEPT ![s][p] = q]
  PROVE  wgrads' \in [Stage -> [Chunks \X Seqs -> Seq(Tensors)]]
<1>1. wgrads \in [Stage -> [Chunks \X Seqs -> Seq(Tensors)]]
  BY DEF Inv, TypeOK
<1>2. [wgrads EXCEPT ![s][p] = q] \in [Stage -> [Chunks \X Seqs -> Seq(Tensors)]]
  BY <1>1, UpdateTwice
<1> QED
  BY <1>1, <1>2

LEMMA BackwardBStep ==
  ASSUME Inv, NEW s \in Stage, BackwardB(s)
  PROVE  Inv'
<1> DEFINE i     == it[s]
           n     == Node(s, i)
           split == n.type = "B" /\ conf.splitSupported
           bad   == \/ acts[s][n.chunk].ready = <<>> \/ Missing(s, Source(s, n))
                    \/ ~ LocalOK(s, n)
<1>1. i \in DOMAIN Order(s) /\ n.type \in {"B", "BW"} /\ n \in Nodes
  BY NodeIsNode DEF BackwardB, AtNode, Inv, TypeOK
<1>2. CASE Skipped(n)
  <2>1. Skip(s)
    BY <1>2 DEF BackwardB
  <2> QED
    BY <2>1, SkipStep
<1>3. CASE ~ Skipped(n) /\ bad
  <2>1. Raise(s)
    BY <1>3 DEF BackwardB
  <2> QED
    BY <2>1, RaiseStep
<1>4. CASE ~ Skipped(n) /\ ~ bad
  <2>1. /\ Advance(s)
        /\ buf' = [buf EXCEPT ![s] = Pushed(Popped(buf[s], Source(s, n)), Sink(s, n), i)]
        /\ operand' = [operand EXCEPT ![s][i] = TensorIn(s, Source(s, n))]
        /\ saved' = [saved EXCEPT ![s][i] = SpTop(acts[s][n.chunk])]
        /\ acts' = [acts EXCEPT ![s][n.chunk] = SpPop(acts[s][n.chunk])]
        /\ wgrads' = IF split
             THEN [wgrads EXCEPT ![s][<<n.chunk, n.seq>>] =
                     Append(wgrads[s][<<n.chunk, n.seq>>], Key(n))]
             ELSE wgrads
        /\ grads' = IF split THEN grads ELSE [grads EXCEPT ![s] = grads[s] \cup {Key(n)}]
        /\ UNCHANGED <<conf, status, cleared, batch, posted, payload>>
    BY <1>4 DEF BackwardB, network
  <2>2. buf' \in [Stage -> [Buffers -> Seq(Nat)]] /\ BufferEntries' /\ PerNode(operand)'
    BY <1>1, <1>4, <2>1, OperandAndResult
  <2>3. IsSpQueue(SpPop(acts[s][n.chunk])) /\ SpTop(acts[s][n.chunk]) \in Tensors
    BY <1>1, <1>4, SpPopType DEF Inv, StacksFull, Nodes
  <2>4. StacksFull' /\ acts' \in [Stage -> [Chunks ->
          [ready : Seq(Seq(Tensors)), tmp : Seq(Tensors)]]]
    BY <1>1, <2>1, <2>3, SpQueueStep DEF Nodes
  <2>5. PerNode(payload)' /\ PerNode(saved)'
    BY <1>1, <2>1, <2>3 DEF Inv, TypeOK, PerNode, Order
  <2>6. Key(n) \in Tensors /\ <<n.chunk, n.seq>> \in Chunks \X Seqs
    BY <1>1, KeyIsTensor DEF Nodes
  <2>7. wgrads' \in [Stage -> [Chunks \X Seqs -> Seq(Tensors)]]
    <3>1. PICK p \in Chunks \X Seqs : p = <<n.chunk, n.seq>>
      BY <2>6
    <3>2. Append(wgrads[s][p], Key(n)) \in Seq(Tensors)
      BY <2>6 DEF Inv, TypeOK
    <3>3. wgrads' = wgrads \/ wgrads' = [wgrads EXCEPT ![s][p] = Append(wgrads[s][p], Key(n))]
      BY <2>1, <3>1
    <3> QED
      BY <3>2, <3>3, QueueType
  <2>8. grads' \in [Stage -> SUBSET Tensors]
    BY <2>1, <2>6 DEF Inv, TypeOK
  <2>9. it' \in [Stage -> Nat \ {0}]
    BY <2>1, AdvanceType
  <2> QED
    BY <2>1, <2>2, <2>4, <2>5, <2>7, <2>8, <2>9 DEF Inv, TypeOK
<1> QED
  BY <1>2, <1>3, <1>4

(* schedule_w takes the first k gradients of its queue q.                     *)
TakesW(s, k, q) ==
  /\ wgrads' = [wgrads EXCEPT ![s][<<Node(s, it[s]).chunk, Node(s, it[s]).seq>>] =
                  SubSeq(q, k + 1, Len(q))]
  /\ grads' = [grads EXCEPT ![s] = grads[s] \cup {q[j] : j \in 1 .. k}]
  /\ cleared' = cleared \/ cleared' = [cleared EXCEPT ![s] = cleared[s] \cup {Node(s, it[s]).chunk}]
  /\ Advance(s)
  /\ UNCHANGED <<conf, status, buf, acts, batch, posted, payload, operand, saved>>

(* The outcomes of schedule_w.                                                *)
LEMMA WeightWCases ==
  ASSUME Inv, NEW s \in Stage, WeightW(s)
  PROVE  LET q == wgrads[s][<<Node(s, it[s]).chunk, Node(s, it[s]).seq>>]
         IN  \/ Skip(s) \/ Raise(s)
             \/ \E k \in 0 .. Len(q) : TakesW(s, k, q)
<1> DEFINE n == Node(s, it[s])
           q == wgrads[s][<<n.chunk, n.seq>>]
<1>1. n \in Nodes
  BY NodeIsNode DEF WeightW, AtNode, Inv, TypeOK
<1>2. q \in Seq(Tensors)
  BY <1>1 DEF Inv, TypeOK, Nodes
<1>3. CASE ~ Skipped(n) /\ PopsOne(s, it[s]) /\ q # <<>>
  <2>1. TakesW(s, 1, q)
    BY <1>3 DEF WeightW, TakesW, DrainedQueue, network
  <2>2. 1 \in 0 .. Len(q)
    BY <1>2, <1>3
  <2> QED
    BY <2>1, <2>2
<1>4. CASE ~ Skipped(n) /\ ~ PopsOne(s, it[s]) /\ n.chunk \notin cleared[s]
  <2>1. TakesW(s, Len(q), q)
    BY <1>4 DEF WeightW, TakesW, DrainedQueue, network
  <2> QED
    BY <1>2, <2>1
<1>5. CASE \/ Skipped(n)
           \/ PopsOne(s, it[s]) /\ q = <<>>
           \/ ~ PopsOne(s, it[s]) /\ n.chunk \in cleared[s]
  BY <1>5 DEF WeightW
<1> QED
  BY <1>3, <1>4, <1>5

LEMMA WeightWStep ==
  ASSUME Inv, NEW s \in Stage, WeightW(s)
  PROVE  Inv'
<1> DEFINE n == Node(s, it[s])
           q == wgrads[s][<<n.chunk, n.seq>>]
<1>1. n \in Nodes
  BY NodeIsNode DEF WeightW, AtNode, Inv, TypeOK
<1>2. q \in Seq(Tensors) /\ <<n.chunk, n.seq>> \in Chunks \X Seqs
  BY <1>1 DEF Inv, TypeOK, Nodes
<1>3. ASSUME NEW k \in 0 .. Len(q), TakesW(s, k, q) PROVE Inv'
  <2>1. SubSeq(q, k + 1, Len(q)) \in Seq(Tensors)
    BY <1>2
  <2>2. wgrads' \in [Stage -> [Chunks \X Seqs -> Seq(Tensors)]]
    BY <1>2, <1>3, <2>1 DEF TakesW, Inv, TypeOK
  <2>3. {q[j] : j \in 1 .. k} \subseteq Tensors
    BY <1>2
  <2>4. grads' \in [Stage -> SUBSET Tensors]
    BY <1>3, <2>3 DEF TakesW, Inv, TypeOK
  <2>5. cleared' \in [Stage -> SUBSET Chunks]
    <3>1. cleared[s] \cup {n.chunk} \in SUBSET Chunks
      BY <1>1 DEF Inv, TypeOK, Nodes
    <3>2. cleared' = cleared \/ cleared' = [cleared EXCEPT ![s] = cleared[s] \cup {n.chunk}]
      BY <1>3 DEF TakesW
    <3> HIDE DEF n
    <3> QED
      BY <3>1, <3>2 DEF Inv, TypeOK
  <2>6. it' \in [Stage -> Nat \ {0}]
    BY <1>3, AdvanceType DEF TakesW
  <2>7. PerNode(payload)' /\ PerNode(operand)' /\ PerNode(saved)'
    BY <1>3 DEF TakesW, Inv, TypeOK, PerNode, Order
  <2>8. BufferEntries' /\ StacksFull'
    BY <1>3 DEF TakesW, Inv, BufferEntries, EntriesOK, StacksFull, Order, Node
  <2> QED
    BY <1>3, <2>2, <2>4, <2>5, <2>6, <2>7, <2>8 DEF TakesW, Inv, TypeOK
<1> QED
  BY <1>3, WeightWCases, SkipStep, RaiseStep

(* Communication i of s carries x.                                            *)
LEMMA PayloadStep ==
  ASSUME Inv, NEW s \in Stage, NEW i \in DOMAIN Order(s), NEW x \in Tensors \cup {NoKey},
         payload' = [payload EXCEPT ![s][i] = x], conf' = conf
  PROVE  PerNode(payload)'
BY DEF Inv, TypeOK, PerNode, Order

LEMMA AddCommunicationStep ==
  ASSUME Inv, NEW s \in Stage, AddCommunication(s)
  PROVE  Inv'
<1> DEFINE i   == it[s]
           n   == Node(s, i)
           b   == BufferMap(n)
           ops == batch[s] \cup {i}
<1>1. i \in DOMAIN Order(s) /\ n.type \in CommTypes /\ n \in Nodes /\ i \in Nat
  BY NodeIsNode DEF AddCommunication, AtNode, Inv, TypeOK
<1>2. CASE Skipped(n)
  <2>1. Skip(s)
    BY <1>2 DEF AddCommunication
  <2> QED
    BY <2>1, SkipStep
<1>3. CASE ~ Skipped(n) /\ IsSend(n) /\ Missing(s, b)
  <2>1. Raise(s)
    BY <1>3 DEF AddCommunication
  <2> QED
    BY <2>1, RaiseStep
<1>4. CASE ~ Skipped(n) /\ ~ (IsSend(n) /\ Missing(s, b))
  <2> DEFINE group == [ops |-> ops, left |-> ops]
  <2>1. /\ Advance(s)
        /\ IF IsSend(n)
           THEN /\ buf' = [buf EXCEPT ![s] = Popped(buf[s], b)]
                /\ payload' = [payload EXCEPT ![s][i] = TensorIn(s, b)]
           ELSE /\ buf' = [buf EXCEPT ![s] = Pushed(buf[s], b, i)]
                /\ UNCHANGED payload
        /\ \/ /\ batch' = [batch EXCEPT ![s] = {}]
              /\ posted' = [posted EXCEPT ![s] = Append(posted[s], group)]
           \/ batch' = [batch EXCEPT ![s] = ops] /\ UNCHANGED posted
        /\ UNCHANGED <<conf, status, acts, wgrads, cleared, grads, operand, saved>>
    BY <1>4 DEF AddCommunication, weights
  <2>2. b \in Buffers /\ b[1] = n.type /\ b # NoBuffer
    BY <1>1, BufferMapType
  <2>3. buf[s] \in [Buffers -> Seq(Nat)] /\ EntriesOK(s, buf[s])
    BY DEF Inv, TypeOK, BufferEntries
  <2>4. ASSUME IsSend(n)
        PROVE  /\ buf' \in [Stage -> [Buffers -> Seq(Nat)]] /\ BufferEntries'
               /\ PerNode(payload)'
    <3>1. buf[s][b] # <<>> /\ ~ Missing(s, b)
      BY <1>4, <2>2, <2>4 DEF Missing
    <3>2. Popped(buf[s], b) \in [Buffers -> Seq(Nat)] /\ EntriesOK(s, Popped(buf[s], b))
      BY <1>1, <2>2, <2>3, <3>1, PoppedPushedTypes, PoppedEntries
    <3>3. buf' \in [Stage -> [Buffers -> Seq(Nat)]] /\ BufferEntries'
      BY <2>1, <2>4, <3>2, BufferStep
    <3>4. TensorIn(s, b) \in Tensors \cup {NoKey}
      BY <2>2, <3>1, TensorInType
    <3>5. PerNode(payload)'
      BY <1>1, <2>1, <2>4, <3>4, PayloadStep
    <3> QED
      BY <3>3, <3>5
  <2>5. ASSUME ~ IsSend(n)
        PROVE  /\ buf' \in [Stage -> [Buffers -> Seq(Nat)]] /\ BufferEntries'
               /\ PerNode(payload)'
    <3>1. b[1] \in RecvTypes
      BY <1>1, <2>2, <2>5 DEF IsSend, CommTypes
    <3>2. Pushed(buf[s], b, i) \in [Buffers -> Seq(Nat)] /\ EntriesOK(s, Pushed(buf[s], b, i))
      BY <1>1, <2>2, <2>3, <3>1, PoppedPushedTypes, PushedEntries
    <3>3. buf' \in [Stage -> [Buffers -> Seq(Nat)]] /\ BufferEntries'
      BY <2>1, <2>5, <3>2, BufferStep
    <3>4. PerNode(payload)'
      BY <2>1, <2>5 DEF Inv, TypeOK, PerNode, Order
    <3> QED
      BY <3>3, <3>4
  <2>6. ops \in SUBSET Nat
    BY <1>1 DEF Inv, TypeOK
  <2>7. group \in [ops : SUBSET Nat, left : SUBSET Nat]
    BY <2>6
  <2> HIDE DEF ops, group
  <2>8. batch' \in [Stage -> SUBSET Nat]
    BY <2>1, <2>6 DEF Inv, TypeOK
  <2>9. posted' \in [Stage -> Seq([ops : SUBSET Nat, left : SUBSET Nat])]
    <3> DEFINE Groups == [ops : SUBSET Nat, left : SUBSET Nat]
    <3>1. posted \in [Stage -> Seq(Groups)] /\ group \in Groups
      BY <2>7 DEF Inv, TypeOK
    <3> HIDE DEF Groups
    <3>2. Append(posted[s], group) \in Seq(Groups)
      BY <3>1
    <3>3. posted' \in [Stage -> Seq(Groups)]
      BY <2>1, <3>1, <3>2
    <3> QED
      BY <3>3 DEF Groups
  <2>10. it' \in [Stage -> Nat \ {0}]
    BY <2>1, AdvanceType
  <2>11. PerNode(operand)' /\ PerNode(saved)' /\ StacksFull'
    BY <2>1 DEF Inv, TypeOK, PerNode, Order, StacksFull
  <2>12. buf' \in [Stage -> [Buffers -> Seq(Nat)]] /\ BufferEntries' /\ PerNode(payload)'
    BY <2>4, <2>5
  <2> QED
    BY <2>1, <2>8, <2>9, <2>10, <2>11, <2>12 DEF Inv, TypeOK
<1> QED
  BY <1>2, <1>3, <1>4

LEMMA FinishStep ==
  ASSUME Inv, NEW s \in Stage, Finish(s)
  PROVE  Inv'
<1>1. status' \in [Stage -> {"running", "raised", "done"}]
  BY DEF Finish, Inv, TypeOK
<1>2. UNCHANGED <<conf, it, buf, acts, operand, saved, payload, wgrads, grads,
                  cleared, batch, posted>>
  BY DEF Finish, weights, network
<1> QED
  BY <1>1, <1>2, QuietStep DEF Inv, TypeOK

(* What is left of the groups is a sequence of groups.                        *)
LEMMA ThroughType ==
  ASSUME NEW g \in Seq([ops : SUBSET Nat, left : SUBSET Nat]), g # <<>>, NEW i
  PROVE  Through(g, i) \in Seq([ops : SUBSET Nat, left : SUBSET Nat])
<1>1. CASE Head(g).left = {i}
  BY <1>1 DEF Through
<1>2. CASE Head(g).left # {i}
  <2>1. Through(g, i) = [g EXCEPT ![1] = [g[1] EXCEPT !.left = g[1].left \ {i}]]
    BY <1>2 DEF Through
  <2>2. g[1] \in [ops : SUBSET Nat, left : SUBSET Nat]
    <3> DEFINE Groups == [ops : SUBSET Nat, left : SUBSET Nat]
    <3>1. g \in Seq(Groups)
      OBVIOUS
    <3> HIDE DEF Groups
    <3>2. g[1] \in Groups
      BY <3>1
    <3> QED
      BY <3>2 DEF Groups
  <2>3. [g[1] EXCEPT !.left = g[1].left \ {i}] \in [ops : SUBSET Nat, left : SUBSET Nat]
    BY <2>2
  <2> QED
    BY <2>1, <2>3
<1> QED
  BY <1>1, <1>2

LEMMA TransferStep ==
  ASSUME Inv, NEW s \in Stage, NEW t \in Stage, Transfer(s, t)
  PROVE  Inv'
<1>1. PICK i \in DOMAIN Order(s), j \in DOMAIN Order(t) :
        /\ s # t /\ NextOf(s, t, SendTypes, i) /\ NextOf(t, s, RecvTypes, j)
        /\ payload' = [payload EXCEPT ![t][j] = payload[s][i]]
        /\ posted' = [posted EXCEPT ![s] = Through(posted[s], i), ![t] = Through(posted[t], j)]
        /\ UNCHANGED <<conf, it, status, buf, acts, wgrads, cleared, grads, batch, operand, saved>>
  BY DEF Transfer, weights
<1>2. Through(posted[s], i) \in Seq([ops : SUBSET Nat, left : SUBSET Nat])
  BY <1>1, ThroughType DEF NextOf, Inv, TypeOK
<1>3. Through(posted[t], j) \in Seq([ops : SUBSET Nat, left : SUBSET Nat])
  BY <1>1, ThroughType DEF NextOf, Inv, TypeOK
<1>4. posted' \in [Stage -> Seq([ops : SUBSET Nat, left : SUBSET Nat])]
  BY <1>1, <1>2, <1>3 DEF Inv, TypeOK
<1>5. payload[s][i] \in Tensors \cup {NoKey}
  BY <1>1 DEF Inv, TypeOK, PerNode
<1>6. PerNode(payload)' /\ PerNode(operand)' /\ PerNode(saved)'
  BY <1>1, <1>5 DEF Inv, TypeOK, PerNode, Order
<1>7. BufferEntries' /\ StacksFull'
  BY <1>1 DEF Inv, BufferEntries, EntriesOK, StacksFull, Order, Node
<1> QED
  BY <1>1, <1>4, <1>6, <1>7 DEF Inv, TypeOK

LEMMA NextStep == Inv /\ [Next]_vars => Inv'
<1> SUFFICES ASSUME Inv, [Next]_vars PROVE Inv'
  OBVIOUS
<1>1. CASE UNCHANGED vars
  BY <1>1, QuietStep DEF vars, weights, network, Inv, TypeOK
<1>2. ASSUME NEW s \in Stage, ForwardF(s) PROVE Inv'
  BY <1>2, ForwardFStep
<1>3. ASSUME NEW s \in Stage, BackwardB(s) PROVE Inv'
  BY <1>3, BackwardBStep
<1>4. ASSUME NEW s \in Stage, WeightW(s) PROVE Inv'
  BY <1>4, WeightWStep
<1>5. ASSUME NEW s \in Stage, AddCommunication(s) PROVE Inv'
  BY <1>5, AddCommunicationStep
<1>6. ASSUME NEW s \in Stage, Finish(s) PROVE Inv'
  BY <1>6, FinishStep
<1>7. ASSUME NEW s \in Stage, NEW t \in Stage, Transfer(s, t) PROVE Inv'
  BY <1>7, TransferStep
<1>8. CASE Terminating
  BY <1>8, <1>1 DEF Terminating
<1>9. ASSUME NEW s \in Stage, IgnorePostValidation(s) PROVE Inv'
  BY <1>9, SkipStep DEF IgnorePostValidation
<1> QED
  BY <1>1, <1>2, <1>3, <1>4, <1>5, <1>6, <1>7, <1>8, <1>9 DEF Next

(* Every variable keeps its type, for every number of stages, chunks and      *)
(* sequence splits and every well-typed configuration, whatever its order: the*)
(* pops, the stacks and the groups of the code never leave their types.       *)
THEOREM TypeCorrect == Spec => []TypeOK
<1>1. Inv => TypeOK
  BY DEF Inv
<1> QED
  BY InitInv, NextStep, <1>1, PTL DEF Spec

-------------------------------------------------------------------------------
(* The weight gradients.                                                      *)

(* The account of a stage: E are the positions of the backwards it has        *)
(* executed, K and Q name the gradient of each and its queue, W are the       *)
(* queues and g is what is accumulated.  Every queued gradient and every      *)
(* accumulated one is that of an executed backward, a queue holds none twice, *)
(* none is queued and accumulated, and none is missing.                       *)
Account(D, K, Q, E, W, g) ==
  /\ \A q \in D : \A p \in DOMAIN W[q] : \E i \in E : W[q][p] = K[i] /\ q = Q[i]
  /\ \A x \in g : \E i \in E : x = K[i]
  /\ \A q \in D : \A p, t \in DOMAIN W[q] : W[q][p] = W[q][t] => p = t
  /\ \A q \in D : \A p \in DOMAIN W[q] : W[q][p] \notin g
  /\ \A i \in E : K[i] \in g \/ \E q \in D : \E p \in DOMAIN W[q] : W[q][p] = K[i]

(* A newly executed backward queues its weight gradient at the end m ...      *)
LEMMA AccountQueues ==
  ASSUME NEW D, NEW K, NEW Q, NEW E, NEW W, NEW V, NEW g, NEW i, NEW m, NEW k,
         NEW r \in D, K[i] = k, Q[i] = r,
         Account(D, K, Q, E, W, g), \A j \in E : K[j] # K[i],
         \A q \in D : q # r => V[q] = W[q],
         DOMAIN V[r] = DOMAIN W[r] \cup {m}, m \notin DOMAIN W[r],
         V[r][m] = k, \A p \in DOMAIN W[r] : V[r][p] = W[r][p]
  PROVE  Account(D, K, Q, E \cup {i}, V, g)
<1>1. \A q \in D : \A p \in DOMAIN V[q] :
        \/ p \in DOMAIN W[q] /\ V[q][p] = W[q][p]
        \/ q = r /\ p = m /\ V[q][p] = k
  OBVIOUS
<1>2. /\ \A q \in D : \A p \in DOMAIN W[q] : W[q][p] # k
      /\ k \notin g
  BY DEF Account
<1>3. \A q \in D : \A p \in DOMAIN W[q] : p \in DOMAIN V[q] /\ V[q][p] = W[q][p]
  OBVIOUS
<1>4. ASSUME NEW q \in D, NEW p \in DOMAIN V[q]
      PROVE  /\ \E j \in E \cup {i} : V[q][p] = K[j] /\ q = Q[j]
             /\ V[q][p] \notin g
  BY <1>1, <1>2 DEF Account
<1>5. ASSUME NEW q \in D, NEW p \in DOMAIN V[q], NEW t \in DOMAIN V[q], V[q][p] = V[q][t]
      PROVE  p = t
  BY <1>1, <1>2, <1>5 DEF Account
<1>6. ASSUME NEW j \in E \cup {i}
      PROVE  K[j] \in g \/ \E q \in D : \E p \in DOMAIN V[q] : V[q][p] = K[j]
  <2>1. CASE j \in E
    BY <1>3, <2>1 DEF Account
  <2>2. CASE j = i
    BY <2>2
  <2> QED
    BY <2>1, <2>2
<1>7. \A x \in g : \E j \in E \cup {i} : x = K[j]
  BY DEF Account
<1> QED
  BY <1>4, <1>5, <1>6, <1>7 DEF Account

(* ... or accumulates it at once.                                             *)
LEMMA AccountAccumulates ==
  ASSUME NEW D, NEW K, NEW Q, NEW E, NEW W, NEW g, NEW i,
         Account(D, K, Q, E, W, g), \A j \in E : K[j] # K[i]
  PROVE  Account(D, K, Q, E \cup {i}, W, g \cup {K[i]})
  BY DEF Account

(* The gradients at T of queue r are accumulated, the others keep their order:*)
(* h is where each of them was.                                               *)
Taken(D, W, V, g, f, r, T, h) ==
  /\ r \in D /\ T \subseteq DOMAIN W[r]
  /\ \A q \in D : q # r => V[q] = W[q]
  /\ \A p \in DOMAIN V[r] : h[p] \in DOMAIN W[r] \ T /\ V[r][p] = W[r][h[p]]
  /\ \A p, t \in DOMAIN V[r] : h[p] = h[t] => p = t
  /\ \A t \in DOMAIN W[r] \ T : \E p \in DOMAIN V[r] : h[p] = t
  /\ \A x : x \in f <=> x \in g \/ \E t \in T : x = W[r][t]

LEMMA AccountTakes ==
  ASSUME NEW D, NEW K, NEW Q, NEW E, NEW W, NEW V, NEW g, NEW f, NEW r, NEW T, NEW h,
         Account(D, K, Q, E, W, g), \A i, j \in E : K[i] = K[j] => i = j,
         Taken(D, W, V, g, f, r, T, h)
  PROVE  Account(D, K, Q, E, V, f)
<1> USE DEF Taken
<1>1. ASSUME NEW q \in D, NEW p \in DOMAIN W[q], NEW t \in DOMAIN W[r],
             W[q][p] = W[r][t]
      PROVE  q = r /\ p = t
  BY <1>1 DEF Account
<1>2. ASSUME NEW q \in D, NEW p \in DOMAIN V[q]
      PROVE  \E w \in DOMAIN W[q] : V[q][p] = W[q][w] /\ (q = r => w \notin T)
  BY DEF Account
<1>3. ASSUME NEW q \in D, NEW p \in DOMAIN V[q]
      PROVE  \E i \in E : V[q][p] = K[i] /\ q = Q[i]
  BY <1>2 DEF Account
<1>4. ASSUME NEW q \in D, NEW p \in DOMAIN V[q]
      PROVE  V[q][p] \notin f
  BY <1>1, <1>2 DEF Account
<1>5. ASSUME NEW q \in D, NEW p \in DOMAIN V[q], NEW t \in DOMAIN V[q], V[q][p] = V[q][t]
      PROVE  p = t
  <2>1. CASE q # r
    BY <1>5, <2>1 DEF Account
  <2>2. CASE q = r
    BY <1>5, <2>2 DEF Account
  <2> QED
    BY <2>1, <2>2
<1>6. ASSUME NEW x \in f
      PROVE  \E i \in E : x = K[i]
  BY DEF Account
<1>7. ASSUME NEW q \in D, NEW p \in DOMAIN W[q]
      PROVE  W[q][p] \in f \/ \E w \in D : \E t \in DOMAIN V[w] : V[w][t] = W[q][p]
  OBVIOUS
<1>8. ASSUME NEW i \in E
      PROVE  K[i] \in f \/ \E q \in D : \E p \in DOMAIN V[q] : V[q][p] = K[i]
  BY <1>7 DEF Account
<1> QED
  BY <1>3, <1>4, <1>5, <1>6, <1>8 DEF Account

(* The account of every stage is right.                                       *)
Queues      == Chunks \X Seqs
Backwards(s) == Executed(s, {"B", "BW"})
Gradient(s) == [i \in DOMAIN Order(s) |-> Key(Node(s, i))]
GradQueue(s)  == [i \in DOMAIN Order(s) |-> <<Node(s, i).chunk, Node(s, i).seq>>]
Accounting  ==
  \A s \in Stage : Account(Queues, Gradient(s), GradQueue(s), Backwards(s), wgrads[s], grads[s])

(* The order of a stage has every backward once.                              *)
LEMMA GradientsDiffer ==
  ASSUME Inv, NEW s \in Stage, NEW i \in DOMAIN Order(s), NEW j \in DOMAIN Order(s),
         Node(s, i).type \in {"B", "BW"}, Gradient(s)[i] = Gradient(s)[j]
  PROVE  i = j
<1>1. Key(Node(s, i)) = Key(Node(s, j))
  BY DEF Gradient
<1>2. conf \in Conf
  BY DEF Inv, TypeOK
<1> QED
  BY <1>1, <1>2, BackwardsOnce DEF Order, Node

(* What a step that moves stage s on adds to the executed computations.       *)
LEMMA ExecutedStep ==
  ASSUME Inv, NEW s \in Stage, NEW t \in Stage, Advance(s), conf' = conf,
         it[s] \in DOMAIN Order(s)
  PROVE  Backwards(t)' =
           IF /\ t = s /\ Node(s, it[s]).type \in {"B", "BW"}
              /\ ~ Skipped(Node(s, it[s]))
           THEN Backwards(t) \cup {it[s]} ELSE Backwards(t)
<1>1. it'[t] = IF t = s THEN it[s] + 1 ELSE it[t]
  BY DEF Advance, Inv, TypeOK
<1>2. it[t] \in Nat /\ \A i \in DOMAIN Order(t) : i \in Nat
  <2>1. Order(t) \in Seq(Nodes)
    BY ConfOK DEF Inv, TypeOK, IsConf, Order
  <2> QED
    BY <2>1 DEF Inv, TypeOK
<1>3. /\ Order(t)' = Order(t)
      /\ \A i : Node(t, i)' = Node(t, i) /\ Skipped(Node(t, i))' = Skipped(Node(t, i))
  BY DEF Order, Node, Skipped, SkippedIn
<1>4. \A i \in DOMAIN Order(t) :
        i \in Backwards(t)' <=> i < it'[t] /\ Node(t, i).type \in {"B", "BW"}
                                           /\ ~ Skipped(Node(t, i))
  BY <1>3 DEF Backwards, Executed
<1>5. \A i \in DOMAIN Order(t) :
        i \in Backwards(t) <=> i < it[t] /\ Node(t, i).type \in {"B", "BW"}
                                         /\ ~ Skipped(Node(t, i))
  BY DEF Backwards, Executed
<1>6. Backwards(t) \subseteq DOMAIN Order(t) /\ Backwards(t)' \subseteq DOMAIN Order(t)
  BY <1>3 DEF Backwards, Executed
<1>7. t # s => Backwards(t)' = Backwards(t)
  BY <1>1, <1>4, <1>5, <1>6
<1>8. ASSUME t = s
      PROVE  \A i \in DOMAIN Order(s) : i < it'[s] <=> i < it[s] \/ i = it[s]
  BY <1>1, <1>2, <1>8
<1>9. ASSUME t = s, Node(s, it[s]).type \notin {"B", "BW"} \/ Skipped(Node(s, it[s]))
      PROVE  Backwards(s)' = Backwards(s)
  BY <1>4, <1>5, <1>6, <1>8, <1>9
<1>10. ASSUME t = s, Node(s, it[s]).type \in {"B", "BW"} /\ ~ Skipped(Node(s, it[s]))
       PROVE  Backwards(s)' = Backwards(s) \cup {it[s]}
  BY <1>4, <1>5, <1>6, <1>8, <1>10
<1> QED
  BY <1>7, <1>9, <1>10

(* The account is a fact about a stage's own gradients and queues.            *)
LEMMA SameAccount ==
  ASSUME Inv, Accounting, NEW s \in Stage, conf' = conf,
         Backwards(s)' = Backwards(s), wgrads'[s] = wgrads[s], grads'[s] = grads[s]
  PROVE  Account(Queues, Gradient(s), GradQueue(s), Backwards(s), wgrads[s], grads[s])'
<1>1. /\ Gradient(s)' = Gradient(s) /\ GradQueue(s)' = GradQueue(s)
      /\ Queues' = Queues
  BY DEF Gradient, GradQueue, Queues, Order, Node
<1> QED
  BY <1>1 DEF Accounting, Account

(* A step that runs no backward and accumulates nothing.                      *)
LEMMA QuietAccount ==
  ASSUME Inv, Accounting, UNCHANGED <<conf, it, wgrads, grads>>
  PROVE  Accounting'
<1> SUFFICES ASSUME NEW s \in Stage
             PROVE  Account(Queues, Gradient(s), GradQueue(s), Backwards(s), wgrads[s], grads[s])'
  BY DEF Accounting
<1>1. Backwards(s)' = Backwards(s)
  BY DEF Backwards, Executed, Order, Node, Skipped, SkippedIn
<1> QED
  BY <1>1, SameAccount

LEMMA AdvanceAccount ==
  ASSUME Inv, Accounting, NEW s \in Stage, it[s] \in DOMAIN Order(s),
         Node(s, it[s]).type \notin {"B", "BW"} \/ Skipped(Node(s, it[s])),
         Advance(s), UNCHANGED <<conf, wgrads, grads>>
  PROVE  Accounting'
<1> SUFFICES ASSUME NEW t \in Stage
             PROVE  Account(Queues, Gradient(t), GradQueue(t), Backwards(t), wgrads[t], grads[t])'
  BY DEF Accounting
<1>1. Backwards(t)' = Backwards(t)
  BY ExecutedStep
<1> QED
  BY <1>1, SameAccount

(* A stage's new account, on its new queues and gradients.                    *)
LEMMA NewAccount ==
  ASSUME Inv, NEW s \in Stage, conf' = conf, NEW E, Backwards(s)' = E,
         NEW W, wgrads'[s] = W, NEW g, grads'[s] = g,
         Account(Queues, Gradient(s), GradQueue(s), E, W, g)
  PROVE  Account(Queues, Gradient(s), GradQueue(s), Backwards(s), wgrads[s], grads[s])'
<1>1. /\ Gradient(s)' = Gradient(s) /\ GradQueue(s)' = GradQueue(s)
      /\ Queues' = Queues
  BY DEF Gradient, GradQueue, Queues, Order, Node
<1> QED
  BY <1>1 DEF Account

(* An entry added at the end of a queue.                                      *)
LEMMA AddedLast ==
  ASSUME NEW D, NEW T, NEW W \in [D -> Seq(T)], NEW r \in D, NEW x \in T,
         NEW V, V = [W EXCEPT ![r] = Append(W[r], x)]
  PROVE  /\ \A q \in D : q # r => V[q] = W[q]
         /\ DOMAIN V[r] = DOMAIN W[r] \cup {Len(W[r]) + 1}
         /\ Len(W[r]) + 1 \notin DOMAIN W[r]
         /\ V[r][Len(W[r]) + 1] = x
         /\ \A p \in DOMAIN W[r] : V[r][p] = W[r][p]
<1>1. W[r] \in Seq(T) /\ V[r] = Append(W[r], x)
  OBVIOUS
<1>2. PICK n \in Nat : n = Len(W[r])
  BY <1>1
<1>3. DOMAIN W[r] = 1 .. n /\ DOMAIN V[r] = 1 .. n + 1
  BY <1>1, <1>2, AppendProperties
<1> QED
  BY <1>1, <1>2, <1>3, AppendProperties

LEMMA BackwardBAccount ==
  ASSUME Inv, Accounting, NEW s \in Stage, BackwardB(s)
  PROVE  Accounting'
<1> DEFINE i     == it[s]
           n     == Node(s, i)
           split == n.type = "B" /\ conf.splitSupported
           bad   == \/ acts[s][n.chunk].ready = <<>> \/ Missing(s, Source(s, n))
                    \/ ~ LocalOK(s, n)
<1>1. i \in DOMAIN Order(s) /\ n.type \in {"B", "BW"} /\ n \in Nodes
  BY NodeIsNode DEF BackwardB, AtNode, Inv, TypeOK
<1>2. CASE Skipped(n)
  <2>1. Advance(s) /\ UNCHANGED <<conf, wgrads, grads>>
    BY <1>2 DEF BackwardB, Skip, weights
  <2> QED
    BY <1>1, <1>2, <2>1, AdvanceAccount
<1>3. CASE ~ Skipped(n) /\ bad
  <2>1. UNCHANGED <<conf, it, wgrads, grads>>
    BY <1>3 DEF BackwardB, Raise, weights
  <2> QED
    BY <2>1, QuietAccount
<1>4. CASE ~ Skipped(n) /\ ~ bad
  <2> DEFINE k == Key(n)
             r == <<n.chunk, n.seq>>
             E == Backwards(s)
  <2>1. /\ Advance(s) /\ conf' = conf
        /\ \/ /\ wgrads' = [wgrads EXCEPT ![s][r] = Append(wgrads[s][r], k)]
              /\ grads' = grads
           \/ wgrads' = wgrads /\ grads' = [grads EXCEPT ![s] = grads[s] \cup {k}]
    BY <1>4 DEF BackwardB
  <2>2. \A t \in Stage : Backwards(t)' = IF t = s THEN E \cup {i} ELSE Backwards(t)
    BY <1>1, <1>4, <2>1, ExecutedStep
  <2>3. E \subseteq DOMAIN Order(s) /\ i \notin E
    BY <1>1 DEF Backwards, Executed, Inv, TypeOK
  <2>4. Gradient(s)[i] = k /\ GradQueue(s)[i] = r
    BY <1>1 DEF Gradient, GradQueue
  <2>5. \A j \in E : Gradient(s)[j] # Gradient(s)[i]
    BY <1>1, <2>3, GradientsDiffer
  <2>6. Account(Queues, Gradient(s), GradQueue(s), E, wgrads[s], grads[s])
    BY DEF Accounting
  <2>7. k \in Tensors /\ r \in Queues
    BY <1>1, KeyIsTensor DEF Nodes, Queues
  <2>8. wgrads \in [Stage -> [Queues -> Seq(Tensors)]] /\ grads \in [Stage -> SUBSET Tensors]
    BY DEF Inv, TypeOK, Queues
  <2> HIDE DEF i, n, k, r, E
  <2>9. ASSUME NEW t \in Stage, t # s
        PROVE  Account(Queues, Gradient(t), GradQueue(t), Backwards(t), wgrads[t], grads[t])'
    <3>1. wgrads'[t] = wgrads[t] /\ grads'[t] = grads[t]
      BY <2>1, <2>8, <2>9
    <3> QED
      BY <2>1, <2>2, <2>9, <3>1, SameAccount
  <2>10. Account(Queues, Gradient(s), GradQueue(s), Backwards(s), wgrads[s], grads[s])'
    <3>1. CASE wgrads' = [wgrads EXCEPT ![s][r] = Append(wgrads[s][r], k)] /\ grads' = grads
      <4> DEFINE W == wgrads[s]
                 V == [W EXCEPT ![r] = Append(W[r], k)]
                 m == Len(W[r]) + 1
                 K == Gradient(s)
                 Q == GradQueue(s)
                 g == grads[s]
      <4>1. wgrads'[s] = V /\ grads'[s] = g
        BY <2>8, <3>1
      <4>2. W \in [Queues -> Seq(Tensors)]
        BY <2>8
      <4>3. K[i] = k /\ Q[i] = r /\ Account(Queues, K, Q, E, W, g) /\ \A j \in E : K[j] # K[i]
        BY <2>4, <2>5, <2>6
      <4> HIDE DEF W, V, K, Q, g
      <4>4. /\ \A q \in Queues : q # r => V[q] = W[q]
            /\ DOMAIN V[r] = DOMAIN W[r] \cup {m} /\ m \notin DOMAIN W[r]
            /\ V[r][m] = k /\ \A p \in DOMAIN W[r] : V[r][p] = W[r][p]
        BY <2>7, <4>2, AddedLast DEF V
      <4> HIDE DEF m
      <4>5. Account(Queues, K, Q, E \cup {i}, V, g)
        BY <2>7, <4>3, <4>4, AccountQueues
      <4> QED
        BY <2>1, <2>2, <4>1, <4>5, NewAccount DEF K, Q, g
    <3>2. CASE wgrads' = wgrads /\ grads' = [grads EXCEPT ![s] = grads[s] \cup {k}]
      <4>1. wgrads'[s] = wgrads[s] /\ grads'[s] = grads[s] \cup {k}
        BY <2>8, <3>2
      <4>2. Account(Queues, Gradient(s), GradQueue(s), E \cup {i}, wgrads[s], grads[s] \cup {k})
        BY <2>4, <2>5, <2>6, AccountAccumulates
      <4> QED
        BY <2>1, <2>2, <4>1, <4>2, NewAccount
    <3> QED
      BY <2>1, <3>1, <3>2
  <2> QED
    BY <2>9, <2>10 DEF Accounting
<1> QED
  BY <1>2, <1>3, <1>4

(* Taking the first k entries of queue r and accumulating them.               *)
Remaining(W, r, k)     == [W EXCEPT ![r] = SubSeq(W[r], k + 1, Len(W[r]))]
Accumulated(W, g, r, k) == g \cup {W[r][j] : j \in 1 .. k}

LEMMA TakenFirst ==
  ASSUME NEW D, NEW S, NEW W \in [D -> Seq(S)], NEW r \in D, NEW k \in 0 .. Len(W[r]),
         NEW g
  PROVE  \E h : Taken(D, W, Remaining(W, r, k), g, Accumulated(W, g, r, k), r, 1 .. k, h)
<1> DEFINE V == Remaining(W, r, k)
           f == Accumulated(W, g, r, k)
           h == [p \in Nat |-> p + k]
<1>1. PICK q \in Seq(S) : q = W[r]
  OBVIOUS
<1>2. PICK n \in Nat : n = Len(q) /\ k \in 0 .. n
  BY <1>1
<1> DEFINE v == SubSeq(q, k + 1, n)
<1>3. DOMAIN v = 1 .. n - k /\ \A p \in 1 .. n - k : v[p] = q[p + k]
  <2>1. \A i \in k + 1 .. n : q[i] \in S
    BY <1>2
  <2>2. k + 1 \in Int /\ n \in Int
    BY <1>2
  <2>3. /\ v \in Seq(S) /\ Len(v) = IF k + 1 <= n THEN n - (k + 1) + 1 ELSE 0
        /\ \A p \in 1 .. n - (k + 1) + 1 : v[p] = q[k + 1 + p - 1]
    BY <2>1, <2>2, SubSeqProperties
  <2> HIDE DEF v
  <2>4. n - (k + 1) + 1 = n - k /\ (~ (k + 1 <= n) => n - k = 0)
    BY <1>2
  <2>5. \A p \in 1 .. n - k : k + 1 + p - 1 = p + k
    BY <1>2
  <2>6. Len(v) = n - k /\ DOMAIN v = 1 .. Len(v)
    BY <2>3, <2>4
  <2> QED
    BY <2>3, <2>4, <2>5, <2>6
<1>4. V[r] = v /\ \A w \in D : w # r => V[w] = W[w]
  BY <1>1, <1>2 DEF Remaining
<1>5. \A x : x \in f <=> x \in g \/ \E t \in 1 .. k : x = W[r][t]
  BY DEF Accumulated
<1>6. DOMAIN q = 1 .. n
  BY <1>2
<1>7. \A p \in Nat : h[p] = p + k
  OBVIOUS
<1> HIDE DEF V, f, h, v
<1>8. /\ 1 .. k \subseteq DOMAIN q
      /\ \A p \in DOMAIN v : h[p] \in DOMAIN q \ (1 .. k) /\ v[p] = q[h[p]]
      /\ \A p, t \in DOMAIN v : h[p] = h[t] => p = t
      /\ \A t \in DOMAIN q \ (1 .. k) : \E p \in DOMAIN v : h[p] = t
  <2>1. 1 .. k \subseteq DOMAIN q
    BY <1>2, <1>6
  <2>2. ASSUME NEW p \in 1 .. n - k
        PROVE  h[p] = p + k /\ p + k \in (1 .. n) \ (1 .. k)
    BY <1>2, <1>7
  <2>3. ASSUME NEW p \in 1 .. n - k, NEW t \in 1 .. n - k, h[p] = h[t]
        PROVE  p = t
    <3>1. p + k = t + k
      BY <2>2, <2>3
    <3> QED
      BY <1>2, <3>1
  <2>4. ASSUME NEW t \in (1 .. n) \ (1 .. k)
        PROVE  \E p \in 1 .. n - k : h[p] = t
    <3>1. t - k \in 1 .. n - k /\ t - k \in Nat /\ t - k + k = t
      BY <1>2
    <3> QED
      BY <1>7, <3>1
  <2>5. \A p \in DOMAIN v : h[p] \in DOMAIN q \ (1 .. k) /\ v[p] = q[h[p]]
    BY <1>3, <1>6, <2>2
  <2>6. \A p, t \in DOMAIN v : h[p] = h[t] => p = t
    BY <1>3, <2>3
  <2>7. \A t \in DOMAIN q \ (1 .. k) : \E p \in DOMAIN v : h[p] = t
    BY <1>3, <1>6, <2>4
  <2> QED
    BY <2>1, <2>5, <2>6, <2>7
<1> DEFINE T == 1 .. k
<1> HIDE DEF T
<1>9. Taken(D, W, V, g, f, r, T, h)
  BY <1>1, <1>4, <1>5, <1>8 DEF Taken, T
<1> QED
  BY <1>9 DEF V, f, T

LEMMA WeightWAccount ==
  ASSUME Inv, Accounting, NEW s \in Stage, WeightW(s)
  PROVE  Accounting'
<1> DEFINE i == it[s]
           n == Node(s, i)
           r == <<n.chunk, n.seq>>
<1>1. i \in DOMAIN Order(s) /\ n.type = "W" /\ n \in Nodes
  BY NodeIsNode DEF WeightW, AtNode, Inv, TypeOK
<1>2. CASE Skip(s)
  BY <1>1, <1>2, AdvanceAccount DEF Skip, weights
<1>3. CASE Raise(s)
  BY <1>3, QuietAccount DEF Raise, weights
<1>4. ASSUME NEW k \in 0 .. Len(wgrads[s][r]), TakesW(s, k, wgrads[s][r])
      PROVE  Accounting'
  <2> DEFINE W == wgrads[s]
             V == Remaining(W, r, k)
             K == Gradient(s)
             Q == GradQueue(s)
             E == Backwards(s)
             g == grads[s]
             f == Accumulated(W, g, r, k)
  <2>1. /\ wgrads' = [wgrads EXCEPT ![s][r] = SubSeq(W[r], k + 1, Len(W[r]))]
        /\ grads' = [grads EXCEPT ![s] = f]
        /\ Advance(s) /\ conf' = conf
    BY <1>4 DEF TakesW, Accumulated
  <2>2. \A t \in Stage : Backwards(t)' = Backwards(t)
    BY <1>1, <2>1, ExecutedStep
  <2>3. r \in Queues
    BY <1>1 DEF Nodes, Queues
  <2>4. wgrads \in [Stage -> [Queues -> Seq(Tensors)]] /\ grads \in [Stage -> SUBSET Tensors]
    BY DEF Inv, TypeOK, Queues
  <2>5. \A a, b \in E : K[a] = K[b] => a = b
    <3>1. \A a \in E : a \in DOMAIN Order(s) /\ Node(s, a).type \in {"B", "BW"}
      BY DEF Backwards, Executed
    <3> QED
      BY <3>1, GradientsDiffer
  <2>6. Account(Queues, K, Q, E, W, g)
    BY DEF Accounting
  <2> HIDE DEF i, n, r
  <2>7. wgrads'[s] = V /\ grads'[s] = f
    BY <2>1, <2>4 DEF Remaining
  <2>8. ASSUME NEW t \in Stage, t # s
        PROVE  wgrads'[t] = wgrads[t] /\ grads'[t] = grads[t]
    BY <2>1, <2>4, <2>8
  <2>9. W \in [Queues -> Seq(Tensors)] /\ k \in 0 .. Len(W[r])
    BY <1>4, <2>4
  <2>10. \E h : Taken(Queues, W, V, g, f, r, 1 .. k, h)
    <3> HIDE DEF W, g
    <3> QED
      BY <2>3, <2>9, TakenFirst
  <2> HIDE DEF W, V, K, Q, E, g, f
  <2>11. Account(Queues, K, Q, E, V, f)
    BY <2>5, <2>6, <2>10, AccountTakes
  <2>12. Account(Queues, Gradient(s), GradQueue(s), Backwards(s), wgrads[s], grads[s])'
    BY <2>1, <2>2, <2>7, <2>11, NewAccount DEF K, Q, E
  <2>13. ASSUME NEW t \in Stage, t # s
         PROVE  Account(Queues, Gradient(t), GradQueue(t), Backwards(t), wgrads[t], grads[t])'
    BY <2>1, <2>2, <2>8, <2>13, SameAccount
  <2> QED
    BY <2>12, <2>13 DEF Accounting
<1> QED
  BY <1>2, <1>3, <1>4, WeightWCases

(* The other actions run no backward and leave queues and gradients alone.    *)
LEMMA ForwardFAccount ==
  ASSUME Inv, Accounting, NEW s \in Stage, ForwardF(s)
  PROVE  Accounting'
<1>1. it[s] \in DOMAIN Order(s) /\ Node(s, it[s]).type = "F"
  BY DEF ForwardF, AtNode
<1>2. UNCHANGED <<conf, wgrads, grads>>
  BY DEF ForwardF, Raise, weights
<1>3. Advance(s) \/ it' = it
  BY DEF ForwardF, Raise
<1> QED
  BY <1>1, <1>2, <1>3, AdvanceAccount, QuietAccount

LEMMA AddCommunicationAccount ==
  ASSUME Inv, Accounting, NEW s \in Stage, AddCommunication(s)
  PROVE  Accounting'
<1>1. it[s] \in DOMAIN Order(s) /\ Node(s, it[s]).type \notin {"B", "BW"}
  BY DEF AddCommunication, AtNode, CommTypes, SendTypes, RecvTypes
<1>2. UNCHANGED <<conf, wgrads, grads>>
  BY DEF AddCommunication, Raise, Skip, weights
<1>3. Advance(s) \/ it' = it
  BY DEF AddCommunication, Raise, Skip
<1> QED
  BY <1>1, <1>2, <1>3, AdvanceAccount, QuietAccount

LEMMA IgnorePostValidationAccount ==
  ASSUME Inv, Accounting, NEW s \in Stage, IgnorePostValidation(s)
  PROVE  Accounting'
<1>1. it[s] \in DOMAIN Order(s) /\ Node(s, it[s]).type \notin {"B", "BW"}
  BY DEF IgnorePostValidation, AtNode, PostValidationTypes
<1>2. Advance(s) /\ UNCHANGED <<conf, wgrads, grads>>
  BY DEF IgnorePostValidation, Skip, weights
<1> QED
  BY <1>1, <1>2, AdvanceAccount

LEMMA NextAccount == Inv /\ Accounting /\ [Next]_vars => Accounting'
<1> SUFFICES ASSUME Inv, Accounting, [Next]_vars PROVE Accounting'
  OBVIOUS
<1>1. CASE UNCHANGED vars
  BY <1>1, QuietAccount DEF vars, weights
<1>2. ASSUME NEW s \in Stage, ForwardF(s) PROVE Accounting'
  BY <1>2, ForwardFAccount
<1>3. ASSUME NEW s \in Stage, BackwardB(s) PROVE Accounting'
  BY <1>3, BackwardBAccount
<1>4. ASSUME NEW s \in Stage, WeightW(s) PROVE Accounting'
  BY <1>4, WeightWAccount
<1>5. ASSUME NEW s \in Stage, AddCommunication(s) PROVE Accounting'
  BY <1>5, AddCommunicationAccount
<1>6. ASSUME NEW s \in Stage, Finish(s) PROVE Accounting'
  BY <1>6, QuietAccount DEF Finish, weights
<1>7. ASSUME NEW s \in Stage, NEW t \in Stage, Transfer(s, t) PROVE Accounting'
  BY <1>7, QuietAccount DEF Transfer, weights
<1>8. CASE Terminating
  BY <1>1, <1>8 DEF Terminating
<1>9. ASSUME NEW s \in Stage, IgnorePostValidation(s) PROVE Accounting'
  BY <1>9, IgnorePostValidationAccount
<1> QED
  BY <1>1, <1>2, <1>3, <1>4, <1>5, <1>6, <1>7, <1>8, <1>9 DEF Next

LEMMA InitAccounting == Init => Accounting
<1> SUFFICES ASSUME Init, NEW s \in Stage
             PROVE  Account(Queues, Gradient(s), GradQueue(s), Backwards(s), wgrads[s], grads[s])
  BY DEF Accounting
<1>1. /\ \A q \in Queues : wgrads[s][q] = <<>>
      /\ grads[s] = {}
  BY DEF Init, Queues
<1>2. Order(s) \in Seq(Nodes) /\ it[s] = 1
  BY ConfOK DEF Init, IsConf, Order
<1>3. Backwards(s) = {}
  BY <1>2 DEF Backwards, Executed
<1> QED
  BY <1>1, <1>3 DEF Account

LEMMA AccountingSuffices == Inv /\ Accounting => GradAccounting
<1> SUFFICES ASSUME Inv, Accounting, NEW s \in Stage, NEW i \in Executed(s, {"B", "BW"})
             PROVE  LET k == Key(Node(s, i))
                        At(q) == {p \in DOMAIN wgrads[s][q] : wgrads[s][q][p] = k}
                    IN  /\ k \in grads[s] <=> \A q \in Chunks \X Seqs : At(q) = {}
                        /\ \A q, r \in Chunks \X Seqs : \A p \in At(q), t \in At(r) :
                             q = r /\ p = t
  BY DEF GradAccounting
<1> DEFINE k == Key(Node(s, i))
           W == wgrads[s]
           K == Gradient(s)
           Q == GradQueue(s)
           E == Backwards(s)
<1>1. Account(Queues, K, Q, E, W, grads[s])
  BY DEF Accounting
<1>2. i \in E /\ K[i] = k
  BY DEF Backwards, Executed, Gradient
<1>3. \A a, b \in E : K[a] = K[b] => a = b
  <2>1. \A a \in E : a \in DOMAIN Order(s) /\ Node(s, a).type \in {"B", "BW"}
    BY DEF Backwards, Executed
  <2> QED
    BY <2>1, GradientsDiffer
<1> HIDE DEF k, W, K, Q, E
<1>4. k \in grads[s] <=> \A q \in Queues : \A p \in DOMAIN W[q] : W[q][p] # k
  BY <1>1, <1>2 DEF Account
<1>5. ASSUME NEW q \in Queues, NEW r \in Queues,
             NEW p \in DOMAIN W[q], NEW t \in DOMAIN W[r], W[q][p] = k, W[r][t] = k
      PROVE  q = r /\ p = t
  BY <1>1, <1>3, <1>5 DEF Account
<1> QED
  BY <1>4, <1>5 DEF k, W, Queues

(* The weight gradient of every backward a stage has executed is queued or    *)
(* accumulated, never both, never twice and never neither, for every schedule *)
(* that runs no backward twice: WeightGradStore and schedule_w lose nothing.  *)
THEOREM GradsAccounted == Spec => []GradAccounting
<1>1. Init => Inv /\ Accounting
  BY InitInv, InitAccounting
<1>2. Inv /\ Accounting /\ [Next]_vars => (Inv /\ Accounting)'
  BY NextStep, NextAccount
<1>3. Inv /\ Accounting => GradAccounting
  BY AccountingSuffices
<1> QED
  BY <1>1, <1>2, <1>3, PTL DEF Spec
=============================================================================
