------------------------------ MODULE MCRuntimeV ------------------------------
(* The runtime on orders with two chunks on each stage.  In the V-shaped ones *)
(* (1F1B, zero bubble and its variants) one chunk hands tensors to the other  *)
(* in local buffers on the last stage, while both use the same links in       *)
(* opposite directions; in the interleaved one the last stage feeds the       *)
(* first.  With two stages, the one peer of a stage is both its next and its  *)
(* previous rank.                                                             *)
EXTENDS ExecutableOrders, MCSchedules

MCConf ==
  Compiled({VOneF1B(N, c[1], c[2]) :
              c \in {<<1, FALSE>>, <<2, FALSE>>, <<4, FALSE>>, <<3, TRUE>>}}
           \cup {VZeroBubble(N, c[1], c[2], c[3], c[4]) : c \in {<<3, 1, 1, 1>>, <<2, 1, 3, 2>>}}
           \cup {GreedyV(N, 2, setup) : setup \in {"min", "half"}}
           \cup {TwoInterleaved(N, 2, c[1], c[2]) : c \in {<<1, FALSE>>, <<2, TRUE>>}})
=============================================================================
