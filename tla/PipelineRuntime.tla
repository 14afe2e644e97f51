--------------------------- MODULE PipelineRuntime ---------------------------
(* One training iteration of the zero-bubble runtime (runtime.py): every      *)
(* pipeline stage is a process that executes its own compiled order of        *)
(* computations and communications.  Communications are collected in a batch, *)
(* posted as one fused NCCL group (batch_p2p_comm), and executed by the       *)
(* network when both ends are at the head of their stage's groups; a          *)
(* computation waits for the handle of the group that receives its operand.   *)
(*                                                                            *)
(* A tensor is named by the key of the computation that produced it, and the  *)
(* entry of a FIFO buffer by the position, in its stage's order, of the node  *)
(* that put it there.                                                         *)
EXTENDS ScheduleGraph

CONSTANTS
  N,        \* the number of pipeline stages
  Chunks,   \* the model chunks of a stage, 0 .. num_chunks - 1
  Seqs,     \* the sequence splits, 0 .. num_seq_splits - 1
  Conf      \* the iteration configurations, a set of records

Stage == 0 .. N - 1

(* What TrainingIterationConfig and the arguments fix for an iteration: the   *)
(* compiled orders, forward_only, the number of microbatches, and whether     *)
(* WeightGradStore.is_supported() holds.                                      *)
Nodes ==
  [type : NodeTypes, stage : Stage, mb : Nat, chunk : Chunks, seq : Seqs, lg : Int,
   start : Int, end : Int, recvPeer : Stage \cup {None}, sendPeer : Stage \cup {None},
   dir : {"NONE", "NEXT", "PREV"}, peer : Stage \cup {None}, pair : Int,
   rollback : BOOLEAN, recompute : BOOLEAN, offload : BOOLEAN]

IsConf(f) ==
  /\ f.order \in [Stage -> Seq(Nodes)]
  /\ f.forwardOnly \in BOOLEAN /\ f.splitSupported \in BOOLEAN
  /\ f.micro \in Nat

ASSUME ConstantsOK == /\ N \in Nat \ {0} /\ Chunks \subseteq Nat /\ Seqs \subseteq Nat
                      /\ Chunks # {} /\ Seqs # {}
                      /\ IsFiniteSet(Chunks) /\ IsFiniteSet(Seqs)

ASSUME ConfOK == \A c \in Conf : IsConf(c)

(* A stage's order has each backward once (the passes index nodes by key).    *)
ASSUME BackwardsOnce ==
  \A c \in Conf : \A s \in Stage : \A i, j \in DOMAIN c.order[s] :
    LET n(x) == c.order[s][x]
    IN  n(i).type \in {"B", "BW"} /\ Key(n(i)) = Key(n(j)) => i = j

VARIABLES
  conf,      \* the configuration of this iteration, never changed
  it,        \* it[s]: the position of the next node of stage s
  status,    \* "running", "raised" (an exception or assertion) or "done"
  buf,       \* buf[s][b]: the entries of the FIFO buffer b, oldest first
  acts,      \* acts[s][k]: input_tensors and output_tensors of chunk k, an SpQueue
  wgrads,    \* wgrads[s][<<chunk, seq>>]: weight_grad_queue
  cleared,   \* cleared[s]: the chunks with w_clear_run set
  batch,     \* batch[s]: the communications added and not yet flushed
  posted,    \* posted[s]: the fused groups on stage s's communication stream
  payload,   \* payload[s][i]: the tensor that communication i of s carries
  operand,   \* operand[s][i]: the tensor that computation i consumed
  saved,     \* saved[s][i]: the activation that backward i consumed
  grads      \* grads[s]: the backwards whose weight gradient is accumulated

network == <<batch, posted, payload>>
weights == <<wgrads, cleared, grads>>
vars == <<conf, it, status, buf, acts, weights, network, operand, saved>>

-------------------------------------------------------------------------------
(* The order of a stage, and what its nodes do.                               *)

Order(s)   == conf.order[s]
Node(s, i) == conf.order[s][i]
LastGroup  == N * Cardinality(Chunks) - 1

IsBackward(n) == n.type \in {"B", "BW"}

(* What a forward-only iteration (evaluation) skips.                          *)
SkippedIn(f, n) == f.forwardOnly /\ n.type \in {"B", "BW", "W"} \cup BackwardComm
Skipped(n)      == SkippedIn(conf, n)

NoBuffer == <<"NONE", None, None>>
Buffers  == (CommTypes \X Chunks \X Seqs)
            \cup ({"LOCAL_FORWARD", "LOCAL_BACKWARD"} \X {None} \X Seqs)

BufferMap(n) == <<n.type, n.chunk, n.seq>>

(* A peer of None or of the node's own stage: the two chunks that meet on the *)
(* last rank of a V schedule hand tensors over in a local buffer.             *)
OnlySameRank(s, peer) == peer = s   \* fault: a missing peer is not local

IsLocal(s, peer) == peer \in {None, s}

(* The buffer from which a computation takes its operand: none for the        *)
(* forward of the first layer group and the backward of the last one.         *)
Source(s, n) ==
  CASE n.type = "F" /\ n.lg = 0                  -> NoBuffer
    [] n.type = "F" /\ n.lg # 0                  ->
         IF IsLocal(s, n.recvPeer) THEN <<"LOCAL_FORWARD", None, n.seq>>
                                   ELSE <<"RECV_FORWARD", n.chunk, n.seq>>
    [] IsBackward(n) /\ n.lg = LastGroup         -> NoBuffer
    [] OTHER                                     ->
         IF IsLocal(s, n.recvPeer) THEN <<"LOCAL_BACKWARD", None, n.seq>>
                                   ELSE <<"RECV_BACKWARD", n.chunk, n.seq>>

(* The buffer to which it hands its result.                                   *)
Sink(s, n) ==
  CASE n.type = "F" /\ n.lg = LastGroup          -> NoBuffer
    [] n.type = "F" /\ n.lg # LastGroup          ->
         IF IsLocal(s, n.sendPeer) THEN <<"LOCAL_FORWARD", None, n.seq>>
                                   ELSE <<"SEND_FORWARD", n.chunk, n.seq>>
    [] IsBackward(n) /\ n.lg = 0                 -> NoBuffer
    [] OTHER                                     ->
         IF IsLocal(s, n.sendPeer) THEN <<"LOCAL_BACKWARD", None, n.seq>>
                                   ELSE <<"SEND_BACKWARD", n.chunk, n.seq>>

(* The assertions on the use of the local buffers: more than one chunk, the   *)
(* last rank, and from the even chunk to the odd one (forward) or back; a     *)
(* backward that takes its gradient from one has no peer to receive it from.  *)
LocalOK(s, n) ==
  LET Allowed(parity) == /\ Cardinality(Chunks) > 1 /\ s = N - 1
                         /\ n.chunk % 2 = parity
      local == {"LOCAL_FORWARD", "LOCAL_BACKWARD"}
  IN  /\ Source(s, n)[1] \in local => /\ Allowed(IF n.type = "F" THEN 1 ELSE 0)
                                      /\ IsBackward(n) => n.recvPeer = None
      /\ Sink(s, n)[1] \in local => Allowed(IF n.type = "F" THEN 0 ELSE 1)

-------------------------------------------------------------------------------
Init ==
  /\ conf \in Conf
  /\ it = [s \in Stage |-> 1]
  /\ status = [s \in Stage |-> "running"]
  /\ buf = [s \in Stage |-> [b \in Buffers |-> <<>>]]
  /\ acts = [s \in Stage |-> [k \in Chunks |-> [ready |-> <<>>, tmp |-> <<>>]]]
  /\ wgrads = [s \in Stage |-> [q \in Chunks \X Seqs |-> <<>>]]
  /\ cleared = [s \in Stage |-> {}]
  /\ batch = [s \in Stage |-> {}]
  /\ posted = [s \in Stage |-> <<>>]
  /\ payload = [s \in Stage |-> [i \in DOMAIN Order(s) |-> NoKey]]
  /\ operand = [s \in Stage |-> [i \in DOMAIN Order(s) |-> NoKey]]
  /\ saved = [s \in Stage |-> [i \in DOMAIN Order(s) |-> NoKey]]
  /\ grads = [s \in Stage |-> {}]

(* The main loop of run(): the next node of a running stage.                  *)
AtNode(s, types) ==
  /\ status[s] = "running"
  /\ it[s] \in DOMAIN Order(s)
  /\ Node(s, it[s]).type \in types

Advance(s) == it' = [it EXCEPT ![s] = @ + 1]

(* An exception or a failed assertion ends the stage's process.               *)
Raise(s) ==
  /\ status' = [status EXCEPT ![s] = "raised"]
  /\ UNCHANGED <<conf, it, buf, acts, weights, network, operand, saved>>

(* A node that a forward-only iteration returns from at once.                 *)
Skip(s) ==
  /\ Advance(s)
  /\ UNCHANGED <<conf, status, buf, acts, weights, network, operand, saved>>

Missing(s, b) == b # NoBuffer /\ buf[s][b] = <<>>

(* The oldest entry of b leaves its buffer; a new entry goes last.            *)
PushedFirst(f, b, i) ==              \* fault: a stack instead of a queue
  IF b = NoBuffer THEN f ELSE [f EXCEPT ![b] = <<i>> \o @]

Popped(f, b) == IF b = NoBuffer THEN f ELSE [f EXCEPT ![b] = Tail(@)]
Pushed(f, b, i) == IF b = NoBuffer THEN f ELSE [f EXCEPT ![b] = Append(@, i)]

EachGroupComplete(s, i) == TRUE      \* fault: the handle is not waited for

(* h.wait(): the group that holds communication i of s has completed.         *)
Complete(s, i) == \A g \in DOMAIN posted[s] : i \notin posted[s][g].ops

(* The operand in b is there: a received one when its handle is done.         *)
Arrived(s, b) ==
  b # NoBuffer /\ b[1] \in RecvTypes => Complete(s, Head(buf[s][b]))

ResultIn(s, b) ==                    \* fault: the node's own name for its payload
  IF b = NoBuffer THEN NoKey ELSE Key(Node(s, Head(buf[s][b])))

(* The tensor that the oldest entry of b stands for.                          *)
TensorIn(s, b) ==
  IF b = NoBuffer THEN NoKey
  ELSE IF b[1] \in RecvTypes THEN payload[s][Head(buf[s][b])]
  ELSE Key(Node(s, Head(buf[s][b])))

(* SpQueue, a queue of stacks of num_seq_splits tensors each.                 *)
SpPush(q, x) ==
  LET tmp == Append(q.tmp, x)
  IN  IF Len(tmp) = Cardinality(Seqs)
      THEN [ready |-> Append(q.ready, tmp), tmp |-> <<>>]
      ELSE [q EXCEPT !.tmp = tmp]

SpBottom(q) == q.ready[1][1]         \* fault: a queue of queues
SpKept(q)   == q                     \* fault: a look at the top, without the pop

SpTop(q) == q.ready[1][Len(q.ready[1])]

SpPop(q) ==
  LET stack == q.ready[1]
  IN  [q EXCEPT !.ready =
         IF Len(stack) = 1 THEN Tail(q.ready)
         ELSE [q.ready EXCEPT ![1] = SubSeq(stack, 1, Len(stack) - 1)]]

-------------------------------------------------------------------------------
(* schedule_f_impl: take the input, wait for it, compute, hand the output to  *)
(* the next layer group and keep input and output for the backward.           *)
ForwardF(s) ==
  /\ AtNode(s, {"F"})
  /\ LET i   == it[s]
         n   == Node(s, i)
         src == Source(s, n)
         snk == Sink(s, n)
     IN  IF Missing(s, src) \/ ~ LocalOK(s, n)
         THEN Raise(s)
         ELSE /\ Arrived(s, src)
              /\ Advance(s)
              /\ buf' = [buf EXCEPT ![s] = Pushed(Popped(@, src), snk, i)]
              /\ operand' = [operand EXCEPT ![s][i] = TensorIn(s, src)]
              /\ acts' = IF conf.forwardOnly THEN acts
                         ELSE [acts EXCEPT ![s][n.chunk] = SpPush(@, Key(n))]
              /\ UNCHANGED <<conf, status, weights, network, saved>>

(* schedule_b and schedule_bw: pop the saved activation, take the output      *)
(* gradient, compute, hand on the input gradient.  B with a supported split   *)
(* queues the weight gradient; otherwise the backward itself accumulates it.  *)
BackwardB(s) ==
  /\ AtNode(s, {"B", "BW"})
  /\ LET i     == it[s]
         n     == Node(s, i)
         src   == Source(s, n)
         snk   == Sink(s, n)
         split == n.type = "B" /\ conf.splitSupported
     IN  IF Skipped(n) THEN Skip(s)
         ELSE IF \/ acts[s][n.chunk].ready = <<>> \/ Missing(s, src)
                 \/ ~ LocalOK(s, n)
         THEN Raise(s)
         ELSE /\ Arrived(s, src)
              /\ Advance(s)
              /\ buf' = [buf EXCEPT ![s] = Pushed(Popped(@, src), snk, i)]
              /\ operand' = [operand EXCEPT ![s][i] = TensorIn(s, src)]
              /\ saved' = [saved EXCEPT ![s][i] = SpTop(acts[s][n.chunk])]
              /\ acts' = [acts EXCEPT ![s][n.chunk] = SpPop(@)]
              /\ wgrads' = IF split
                           THEN [wgrads EXCEPT ![s][<<n.chunk, n.seq>>] = Append(@, Key(n))]
                           ELSE wgrads
              /\ grads' = IF split THEN grads
                          ELSE [grads EXCEPT ![s] = @ \cup {Key(n)}]
              /\ UNCHANGED <<conf, status, cleared, network>>

NeverPopsOne(s, i) == FALSE          \* fault: the first W clears the queue

(* The condition under which schedule_w pops one queued gradient: some later  *)
(* node of the stage is not a W and, with several chunks, this is not the     *)
(* last microbatch.                                                           *)
PopsOneIn(f, s, i) ==
  /\ \E j \in i + 1 .. Len(f.order[s]) : f.order[s][j].type # "W"
  /\ Cardinality(Chunks) > 1 => f.order[s][i].mb # f.micro - 1

PopsOne(s, i) == PopsOneIn(conf, s, i)

(* What pop() leaves of a queue after k entries.                              *)
UndrainedQueue(q, k) == q            \* fault: the entries stay in the queue
DrainedQueue(q, k)   == SubSeq(q, k + 1, Len(q))

(* schedule_w: pop one queued weight gradient ("Pop empty queue" when there   *)
(* is none), or, once per chunk, clear what is left in the queue.             *)
WeightW(s) ==
  /\ AtNode(s, {"W"})
  /\ LET i == it[s]
         n == Node(s, i)
         q == wgrads[s][<<n.chunk, n.seq>>]
         Take(k) ==
           /\ Advance(s)
           /\ wgrads' = [wgrads EXCEPT ![s][<<n.chunk, n.seq>>] = DrainedQueue(@, k)]
           /\ grads' = [grads EXCEPT ![s] = @ \cup {q[j] : j \in 1 .. k}]
           /\ UNCHANGED <<conf, status, buf, acts, network, operand, saved>>
     IN  IF Skipped(n) THEN Skip(s)
         ELSE IF PopsOne(s, i)
         THEN IF q = <<>> THEN Raise(s) ELSE Take(1) /\ UNCHANGED cleared
         ELSE IF n.chunk \notin cleared[s]
         THEN Take(Len(q)) /\ cleared' = [cleared EXCEPT ![s] = @ \cup {n.chunk}]
         ELSE Skip(s)

(* is_consumer: the first computation after i consumes what i receives.       *)
ReceivesForNext(nodes, i) ==
  \E j \in i + 1 .. Len(nodes) :
    /\ IsComputation(nodes[j])
    /\ \A k \in i + 1 .. j - 1 : ~ IsComputation(nodes[k])
    /\ nodes[i].chunk = nodes[j].chunk
    /\ nodes[i].seq = nodes[j].seq
    /\ nodes[i].mb = nodes[j].mb
    /\ \/ nodes[i].type = "RECV_FORWARD" /\ nodes[j].type = "F"
       \/ nodes[i].type = "RECV_BACKWARD" /\ IsBackward(nodes[j])

FlushesForNext(s, i) ==              \* fault: a last communication waits for more
  ReceivesForNext(Order(s), i) \/ conf.forwardOnly

(* When add_communication calls flush.                                        *)
FlushesIn(f, s, i) ==
  \/ ReceivesForNext(f.order[s], i)
  \/ ~ (i < Len(f.order[s]) /\ f.order[s][i + 1].type \in CommTypes)
  \/ f.forwardOnly

Flushes(s, i) == FlushesIn(conf, s, i)

(* add_communication and flush: the node joins the batch and, when the batch  *)
(* is flushed, all of it is posted as one group.  flush pops the tensors of   *)
(* the sends and appends those of the receives; as no computation of the      *)
(* stage runs between a node's add and its flush, both are done at the add.   *)
AddCommunication(s) ==
  /\ AtNode(s, CommTypes)
  /\ LET i == it[s]
         n == Node(s, i)
         b == BufferMap(n)
         ops == batch[s] \cup {i}
     IN  IF Skipped(n) THEN Skip(s)
         ELSE IF IsSend(n) /\ Missing(s, b) THEN Raise(s)
         ELSE /\ Advance(s)
              /\ IF IsSend(n)
                 THEN /\ buf' = [buf EXCEPT ![s] = Popped(@, b)]
                      /\ payload' = [payload EXCEPT ![s][i] = TensorIn(s, b)]
                 ELSE /\ buf' = [buf EXCEPT ![s] = Pushed(@, b, i)]
                      /\ UNCHANGED payload
              /\ IF Flushes(s, i)
                 THEN /\ batch' = [batch EXCEPT ![s] = {}]
                      /\ posted' = [posted EXCEPT ![s] = Append(@, [ops |-> ops, left |-> ops])]
                 ELSE /\ batch' = [batch EXCEPT ![s] = ops]
                      /\ UNCHANGED posted
              /\ UNCHANGED <<conf, status, acts, weights, operand, saved>>

(* run() passes over the nodes of the post validation, which is done before.  *)
IgnorePostValidation(s) == AtNode(s, PostValidationTypes) /\ Skip(s)

(* The end of run(): WeightGradStore.assert_empty().                          *)
Finish(s) ==
  /\ status[s] = "running"
  /\ it[s] = Len(Order(s)) + 1
  /\ status' = [status EXCEPT ![s] =
       IF \A q \in Chunks \X Seqs : wgrads[s][q] = <<>> THEN "done" ELSE "raised"]
  /\ UNCHANGED <<conf, it, buf, acts, weights, network, operand, saved>>

-------------------------------------------------------------------------------
(* The network (NCCL under torch.distributed, as fused_pipeline_ops uses it). *)

ListedFromLast(s, i, j) == i > j     \* fault: the batch is posted in reverse

(* fused_pipeline_ops lists the operations towards the previous rank first.   *)
ListedBefore(s, i, j) ==
  \/ Node(s, i).dir = "PREV" /\ Node(s, j).dir = "NEXT"
  \/ Node(s, i).dir = Node(s, j).dir /\ i < j

(* The operation of this kind with peer t that is next in the head group.     *)
NextOf(s, t, types, i) ==
  /\ posted[s] # <<>>
  /\ i \in Head(posted[s]).left
  /\ Node(s, i).type \in types /\ Node(s, i).peer = t
  /\ \A j \in Head(posted[s]).left :
       Node(s, j).type \in types /\ Node(s, j).peer = t /\ j # i => ListedBefore(s, i, j)

(* The groups of a stage once operation i of the head group is through.       *)
Through(groups, i) ==
  IF Head(groups).left = {i} THEN Tail(groups)
  ELSE [groups EXCEPT ![1].left = @ \ {i}]

(* The groups of a stage run one after the other.  In the groups at the heads *)
(* of s and t, the next send of s to t matches the next receive of t from s,  *)
(* whatever they carry: NCCL knows ranks, not tensors.                        *)
Transfer(s, t) ==
  \E i \in DOMAIN Order(s), j \in DOMAIN Order(t) :
    /\ s # t
    /\ NextOf(s, t, SendTypes, i)
    /\ NextOf(t, s, RecvTypes, j)
    /\ payload' = [payload EXCEPT ![t][j] = payload[s][i]]
    /\ posted' = [posted EXCEPT ![s] = Through(@, i), ![t] = Through(@, j)]
    /\ UNCHANGED <<conf, it, status, buf, acts, weights, batch, operand, saved>>

(* The iteration is over on every stage.                                      *)
Terminating ==
  /\ \A s \in Stage : status[s] = "done" /\ posted[s] = <<>>
  /\ UNCHANGED vars

Next ==
  \/ \E s \in Stage : \/ ForwardF(s) \/ BackwardB(s) \/ WeightW(s)
                      \/ AddCommunication(s) \/ IgnorePostValidation(s) \/ Finish(s)
  \/ \E s, t \in Stage : Transfer(s, t)
  \/ Terminating

Spec == Init /\ [][Next]_vars

(* Every process keeps executing its order and the network keeps moving what  *)
(* is matched: nothing but a missing operand or a missing peer holds a step.  *)
FairSpec == Spec /\ WF_vars(Next)

-------------------------------------------------------------------------------
(* The abstract iteration that the runtime implements.                        *)

(* The computations that an order carries out.                                *)
WorkOf(f) ==
  {Key(n) : n \in {x \in AllNodes(f.order) :
     x.type \in IF f.forwardOnly THEN {"F"} ELSE {"F", "B", "BW"}}}

(* The positions of the computations that stage s has carried out.            *)
Executed(s, types) ==
  {i \in DOMAIN Order(s) : i < it[s] /\ Node(s, i).type \in types
                                    /\ ~ Skipped(Node(s, i))}

(* The backward of the last layer group starts from the loss of its forward,  *)
(* which it finds with its activations.                                       *)
ResultOf(s, i) ==
  LET n == Node(s, i)
  IN  [key |-> Key(n),
       operand |-> IF IsBackward(n) /\ n.lg = LastGroup THEN saved[s][i] ELSE operand[s][i],
       activation |-> saved[s][i]]

Dataflow ==
  INSTANCE PipelineDataflow WITH
    L <- LastGroup + 1,
    Works <- {WorkOf(c) : c \in Conf},
    work <- WorkOf(conf),
    done <- UNION {{ResultOf(s, i) : i \in Executed(s, {"F", "B", "BW"})} : s \in Stage},
    accumulated <- UNION {grads[s] : s \in Stage}

-------------------------------------------------------------------------------
(* Properties.                                                                *)

Tensors == [type : {"F", "B", "BW"}, lg : Int, mb : Nat, seq : Seqs]

PerNode(f) ==
  /\ DOMAIN f = Stage
  /\ \A s \in Stage : f[s] \in [DOMAIN Order(s) -> Tensors \cup {NoKey}]

(* The type of every variable.                                                *)
TypeOK ==
  /\ conf \in Conf
  /\ it \in [Stage -> Nat \ {0}]
  /\ status \in [Stage -> {"running", "raised", "done"}]
  /\ buf \in [Stage -> [Buffers -> Seq(Nat)]]
  /\ acts \in [Stage -> [Chunks -> [ready : Seq(Seq(Tensors)), tmp : Seq(Tensors)]]]
  /\ wgrads \in [Stage -> [Chunks \X Seqs -> Seq(Tensors)]]
  /\ cleared \in [Stage -> SUBSET Chunks]
  /\ batch \in [Stage -> SUBSET Nat]
  /\ posted \in [Stage -> Seq([ops : SUBSET Nat, left : SUBSET Nat])]
  /\ grads \in [Stage -> SUBSET Tensors]
  /\ PerNode(payload) /\ PerNode(operand) /\ PerNode(saved)

(* Whatever the interleaving of the stages and of the network, a computation  *)
(* that takes its operand from another layer group has consumed the tensor    *)
(* its dependency (get_prev_key) produced: same microbatch, same sequence     *)
(* split, neighbouring layer group.  Nothing in the runtime compares them:    *)
(* the FIFO buffers and the order of the NCCL calls have to line up.          *)
RightOperandOf(s) ==
  \A i \in Executed(s, {"F", "B", "BW"}) :
    operand[s][i] = IF Source(s, Node(s, i)) = NoBuffer THEN NoKey
                    ELSE PrevKey(Node(s, i), LastGroup + 1)

RightOperand == \A s \in Stage : RightOperandOf(s)

(* A backward runs on the activations of its own forward: the SpQueue of the  *)
(* chunk is popped in the order the schedule runs the backwards.              *)
RightActivation ==
  \A s \in Stage : \A i \in Executed(s, {"B", "BW"}) :
    LET n == Node(s, i) IN saved[s][i] = MakeKey("F", n.lg, n.mb, n.seq)

(* No stage raises: no pop from an empty buffer, SpQueue or weight-gradient   *)
(* queue, no failed assertion, nothing left in WeightGradStore at the end.    *)
NoRaise == \A s \in Stage : status[s] # "raised"

(* The weight gradient of every executed backward is either waiting in the    *)
(* queue of its chunk and sequence split or accumulated, never both, never    *)
(* twice and never neither.                                                   *)
GradAccounting ==
  \A s \in Stage : \A i \in Executed(s, {"B", "BW"}) :
    LET k == Key(Node(s, i))
        At(q) == {p \in DOMAIN wgrads[s][q] : wgrads[s][q][p] = k}
    IN  /\ k \in grads[s] <=> \A q \in Chunks \X Seqs : At(q) = {}
        /\ \A q, r \in Chunks \X Seqs : \A p \in At(q), t \in At(r) : q = r /\ p = t

(* A stage that is done has used up every tensor it was handed or produced,   *)
(* has flushed every communication and, in training, has accumulated the      *)
(* weight gradient of every backward of its order.                            *)
CleanFinish ==
  \A s \in Stage : status[s] = "done" =>
    /\ \A b \in Buffers : buf[s][b] = <<>>
    /\ \A k \in Chunks : acts[s][k] = [ready |-> <<>>, tmp |-> <<>>]
    /\ batch[s] = {}
    /\ conf.forwardOnly \/ grads[s] = {Key(Node(s, i)) : i \in
         {j \in DOMAIN Order(s) : IsBackward(Node(s, j))}}

(* Every step of the stages and of the network is a step of the abstract      *)
(* iteration or changes nothing of it: each computation runs once, after the  *)
(* computations it depends on wherever they ran, on their results, and each   *)
(* weight gradient is accumulated once, after its backward.                   *)
ImplementsDataflow == Dataflow!Spec

(* The iteration ends: no set of stages waits for each other's communications *)
(* for ever, every posted group completes, and then every computation has run *)
(* and every weight gradient is accumulated.                                  *)
Completes ==
  <>((\A s \in Stage : status[s] = "done" /\ posted[s] = <<>>) /\ Dataflow!Over)
=============================================================================
