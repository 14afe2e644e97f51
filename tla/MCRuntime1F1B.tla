---------------------------- MODULE MCRuntime1F1B ----------------------------
(* The runtime on 1F1B orders of three stages: fewer, as many and more        *)
(* microbatches than stages, in training, and one evaluation.                 *)
EXTENDS ExecutableOrders, MCSchedules

MCConf ==
  Compiled({OneF1B(3, c[1], c[2]) :
              c \in {<<1, FALSE>>, <<2, FALSE>>, <<4, FALSE>>, <<5, FALSE>>, <<4, TRUE>>}})
=============================================================================
