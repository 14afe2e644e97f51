--------------------------- MODULE MCRuntimeOffload ---------------------------
(* The runtime with its activations offloaded or recomputed, on interleaved   *)
(* orders of two stages, which share the path to the host: stores that are    *)
(* used again, copies that queue, that wait for the other stage's and that    *)
(* run at the same time in both directions, backwards that wait for a copy.   *)
EXTENDS ExecutableOrders, MCSchedules, ActivationMemory

(* Microbatches, group size, offloaded chunks and tenths of a copy.           *)
Cases == {<<3, 1, 1, 1>>, <<2, 2, 1, 1>>, <<3, 2, 1, 1>>, <<3, 1, 1, 2>>, <<3, 1, 2, 1>>,
          <<4, 2, 1, 2>>}

MCConf == Compiled({OffloadedInterleaved(2, c[1], c[2], c[3], c[4]) : c \in Cases}
                   \cup {RecomputedInterleaved(2, m, k) : m \in 2 .. 3, k \in 1 .. 2})
=============================================================================
