--------------------------- MODULE MCRuntimeUnsplit ---------------------------
(* The runtime on a zero-bubble order when WeightGradStore.is_supported() is  *)
(* false, for instance with overlap_grad_reduce: B accumulates its weight     *)
(* gradient itself and the order's W nodes find nothing queued.               *)
EXTENDS MCSchedules

MCConf == Compiled({ZB(2, 2, 1, 1, 1, 3, FALSE, FALSE, FALSE)})
=============================================================================
