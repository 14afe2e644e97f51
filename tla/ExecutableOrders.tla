--------------------------- MODULE ExecutableOrders ---------------------------
(* What the runtime needs of an order beyond MatchedOrders: what a node takes *)
(* has been put there before it, so that no stage raises and no backward runs *)
(* without the recomputation of its activations.                              *)
EXTENDS MatchedOrders

(* A tensor is given to a buffer before it is taken from it.                  *)
ASSUME GivenInTime ==
  \A f \in Conf : \A s \in Stage : \A b \in Buffers :
    \A i \in Takers(f, s, b), j \in Givers(f, s, b) :
      TensorGiven(f.order[s][j]) = TensorTaken(f.order[s][i]) => j < i

(* A backward comes after the forwards of all splits of its microbatch.       *)
ASSUME ForwardsInTime ==
  \A f \in Conf : \A s \in Stage : \A k \in Chunks :
    ~ f.forwardOnly =>
      \A i \in BackwardsOf(f, s, k), j \in ForwardsOf(f, s, k) :
        f.order[s][i].mb = f.order[s][j].mb => j < i

(* A chunk hands tensors to another of its stage only where run() allows it.  *)
ASSUME LocalsAllowed ==
  \A f \in Conf : \A s \in Stage : \A i \in Live(f, s) :
    f.order[s][i].type \in {"F", "B", "BW"} => LocalOK(s, f.order[s][i])

-------------------------------------------------------------------------------
(* The weight gradients.                                                      *)

OfQueue(f, s, i, q) == q = <<f.order[s][i].chunk, f.order[s][i].seq>>

(* The backwards that leave a weight gradient in queue q.                     *)
Deferrals(f, s, q) ==
  {i \in Live(f, s) :
     f.order[s][i].type = "B" /\ f.splitSupported /\ OfQueue(f, s, i, q)}

WeightNodes(f, s) ==
  {i \in DOMAIN f.order[s] :
     f.order[s][i].type = "W" /\ ~ SkippedIn(f, f.order[s][i])}

(* The W nodes that pop one gradient of queue q, those of chunk k that clear  *)
(* a queue unless another has, and the one that clears queue q.               *)
Pops(f, s, q) ==
  {i \in WeightNodes(f, s) : PopsOneIn(f, s, i) /\ OfQueue(f, s, i, q)}

Clears(f, s, k) ==
  {i \in WeightNodes(f, s) : ~ PopsOneIn(f, s, i) /\ f.order[s][i].chunk = k}

Clearing(f, s, q) ==
  {i \in Clears(f, s, q[1]) :
     OfQueue(f, s, i, q) /\ \A j \in Clears(f, s, q[1]) : i <= j}

NumberBefore(S, x) == Cardinality({i \in S : i < x})

(* A W that pops finds a gradient in its queue; the clear of a queue comes    *)
(* last, and a queue that is not cleared has as many pops as gradients.       *)
ASSUME WeightsInTime ==
  \A f \in Conf : \A s \in Stage : \A q \in Chunks \X Seqs :
    LET put   == Deferrals(f, s, q)
        taken == Pops(f, s, q)
        clear == Clearing(f, s, q)
    IN  /\ \A i \in taken : NumberBefore(taken, i) < NumberBefore(put, i)
        /\ \A c \in clear, i \in put \cup taken : i < c
        /\ clear = {} => Cardinality(put) = Cardinality(taken)
-------------------------------------------------------------------------------
(* The recomputations.                                                        *)

RecomputedForwards(f, s, k) == {j \in ForwardsOf(f, s, k) : f.order[s][j].recompute}

Recomputations(f, s, k) ==
  {i \in DOMAIN f.order[s] : f.order[s][i].type = "R" /\ f.order[s][i].chunk = k}

(* Before the backward of a forward to be recomputed, its chunk has had as    *)
(* many recomputations as forwards to be recomputed up to this one.           *)
ASSUME RecomputedInTime ==
  \A f \in Conf : \A s \in Stage : \A k \in Chunks :
    \A i \in BackwardsOf(f, s, k), j \in RecomputedForwards(f, s, k) :
      SamePass(f, s, i, j) =>
        NumberBefore(RecomputedForwards(f, s, k), j) < NumberBefore(Recomputations(f, s, k), i)
=============================================================================
