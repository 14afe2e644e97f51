---------------------------- MODULE MatchedOrders ----------------------------
(* What PipelineRuntime needs of the compiled orders, for a computation to    *)
(* find the right tensors by the order of queues, stacks and NCCL calls       *)
(* alone.  The builders and the passes have to provide it; each run of the    *)
(* runtime evaluates it on the orders it executes.                            *)
EXTENDS PipelineRuntime

(* The positions of stage s that iteration f carries out.                     *)
Live(f, s) ==
  {i \in DOMAIN f.order[s] :
     /\ f.order[s][i].type \in {"F", "B", "BW"} \cup CommTypes
     /\ ~ SkippedIn(f, f.order[s][i])}

-------------------------------------------------------------------------------
(* Tensors by name: "F" for an output, "B" for an input gradient, the layer   *)
(* group that produces it, its microbatch and its split.                      *)
Name(k) == MakeKey(IF k.type = "BW" THEN "B" ELSE k.type, k.lg, k.mb, k.seq)

Forwards(n)  == n.type \in {"F", "SEND_FORWARD", "RECV_FORWARD"}
OwnTensor(n) == MakeKey(IF Forwards(n) THEN "F" ELSE "B", n.lg, n.mb, n.seq)
NeighbourTensor(n) ==
  IF Forwards(n) THEN MakeKey("F", n.lg - 1, n.mb, n.seq)
                 ELSE MakeKey("B", n.lg + 1, n.mb, n.seq)

(* What a node takes from a buffer or from a link, and what it gives.         *)
TensorTaken(n) == IF n.type \in SendTypes THEN OwnTensor(n) ELSE NeighbourTensor(n)
TensorGiven(n) == IF n.type \in RecvTypes THEN NeighbourTensor(n) ELSE OwnTensor(n)

(* The buffers a node takes from and gives to.                                *)
TakesFrom(s, n) ==
  IF n.type \in {"F", "B", "BW"} THEN Source(s, n)
  ELSE IF n.type \in SendTypes THEN BufferMap(n) ELSE NoBuffer

GivesTo(s, n) ==
  IF n.type \in {"F", "B", "BW"} THEN Sink(s, n)
  ELSE IF n.type \in RecvTypes THEN BufferMap(n) ELSE NoBuffer

Takers(f, s, b) == {i \in Live(f, s) : TakesFrom(s, f.order[s][i]) = b}
Givers(f, s, b) == {i \in Live(f, s) : GivesTo(s, f.order[s][i]) = b}

(* A stage takes from a buffer what it has put there, in the same order.      *)
ASSUME BuffersMatched ==
  \A f \in Conf : \A s \in Stage : \A b \in Buffers :
    LET given(j) == TensorGiven(f.order[s][j])
        taken(i) == TensorTaken(f.order[s][i])
    IN  /\ \A i \in Takers(f, s, b) : \E j \in Givers(f, s, b) : given(j) = taken(i)
        /\ \A j \in Givers(f, s, b) : \E i \in Takers(f, s, b) : given(j) = taken(i)
        /\ \A i, k \in Takers(f, s, b), j, l \in Givers(f, s, b) :
             given(j) = taken(i) /\ given(l) = taken(k) => (j < l <=> i < k)

-------------------------------------------------------------------------------
(* The links.                                                                 *)

Sends(f, s, t) == {i \in Live(f, s) : f.order[s][i].type \in SendTypes /\ f.order[s][i].peer = t}
Recvs(f, t, s) == {j \in Live(f, t) : f.order[t][j].type \in RecvTypes /\ f.order[t][j].peer = s}

(* Two communications of a stage are posted as one group when there is no     *)
(* flush from the first to the second; a group begins with the operations     *)
(* towards the previous rank.                                                 *)
SameGroup(f, s, i, j) ==
  \A x \in DOMAIN f.order[s] :
    (i <= x /\ x < j) \/ (j <= x /\ x < i) => ~ FlushesIn(f, s, x)

EarlierOp(f, s, i, j) ==
  LET m == f.order[s][i]
      n == f.order[s][j]
  IN  IF SameGroup(f, s, i, j) /\ m.dir # n.dir THEN m.dir = "PREV" /\ n.dir = "NEXT"
      ELSE i < j

(* What s sends to t is what t receives from s, in the same order.            *)
ASSUME LinksMatched ==
  \A f \in Conf : \A s, t \in Stage :
    LET sent(i)     == TensorTaken(f.order[s][i])
        received(j) == TensorGiven(f.order[t][j])
    IN  s # t =>
          /\ \A i \in Sends(f, s, t) : \E j \in Recvs(f, t, s) : sent(i) = received(j)
          /\ \A j \in Recvs(f, t, s) : \E i \in Sends(f, s, t) : sent(i) = received(j)
          /\ \A i, k \in Sends(f, s, t), j, l \in Recvs(f, t, s) :
               sent(i) = received(j) /\ sent(k) = received(l) =>
                 (EarlierOp(f, s, i, k) <=> EarlierOp(f, t, j, l))

(* An order has backwards of one kind: B or BW.                               *)
ASSUME BackwardsAlike ==
  \A f \in Conf : \A m, n \in AllNodes(f.order) :
    IsBackward(m) /\ IsBackward(n) => m.type = n.type
-------------------------------------------------------------------------------
(* The activations.                                                           *)

ForwardsOf(f, s, k)  == {i \in Live(f, s) : f.order[s][i].type = "F" /\ f.order[s][i].chunk = k}
BackwardsOf(f, s, k) == {i \in Live(f, s) : IsBackward(f.order[s][i]) /\ f.order[s][i].chunk = k}

(* Forward j of stage s is that of its backward i.                            *)
SamePass(f, s, i, j) ==
  /\ f.order[s][i].lg = f.order[s][j].lg
  /\ f.order[s][i].mb = f.order[s][j].mb
  /\ f.order[s][i].seq = f.order[s][j].seq

(* A chunk runs the splits of a microbatch without another microbatch between *)
(* them, each once.                                                           *)
ASSUME SplitsTogether ==
  \A f \in Conf : \A s \in Stage : \A k \in Chunks : \A i, j \in ForwardsOf(f, s, k) :
    LET n(x) == f.order[s][x]
    IN  /\ n(i).mb = n(j).mb /\ i < j =>
             \A x \in ForwardsOf(f, s, k) : i < x /\ x < j => n(x).mb = n(i).mb
        /\ n(i).mb = n(j).mb /\ n(i).seq = n(j).seq => i = j
        /\ \A q \in Seqs : \E x \in ForwardsOf(f, s, k) : n(x).mb = n(i).mb /\ n(x).seq = q

(* Its backwards come in the order of the forwards' microbatches and, within  *)
(* a microbatch, in reverse order of the splits.                              *)
ASSUME StacksMatched ==
  \A f \in Conf : \A s \in Stage : \A k \in Chunks :
    ~ f.forwardOnly =>
      /\ \A i \in BackwardsOf(f, s, k) : \E j \in ForwardsOf(f, s, k) : SamePass(f, s, i, j)
      /\ \A j \in ForwardsOf(f, s, k) : \E i \in BackwardsOf(f, s, k) : SamePass(f, s, i, j)
      /\ \A i, x \in BackwardsOf(f, s, k), j, y \in ForwardsOf(f, s, k) :
           SamePass(f, s, i, j) /\ SamePass(f, s, x, y) =>
             (i < x <=> IF f.order[s][j].mb = f.order[s][y].mb THEN y < j ELSE j < y)

(* No computation is in the orders twice.                                     *)
ASSUME ComputedOnce ==
  \A f \in Conf : \A s, t \in Stage : \A i \in DOMAIN f.order[s], j \in DOMAIN f.order[t] :
    LET m == f.order[s][i]
        n == f.order[t][j]
    IN  m.type \in {"F", "B", "BW"} /\ Key(m) = Key(n) => s = t /\ i = j
=============================================================================
