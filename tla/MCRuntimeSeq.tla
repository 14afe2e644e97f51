----------------------------- MODULE MCRuntimeSeq -----------------------------
(* The runtime on 1F1B over two sequence splits, three stages: two units of   *)
(* one microbatch at a time, so that FIFO buffers and SpQueues hold several.  *)
EXTENDS ExecutableOrders, MCSchedules

MCConf == Compiled({SeqOneF1B(3, m, 2) : m \in 1 .. 3})
=============================================================================
