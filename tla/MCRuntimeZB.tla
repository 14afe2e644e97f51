----------------------------- MODULE MCRuntimeZB -----------------------------
(* The runtime on zero-bubble orders of three stages: tight and loose memory  *)
(* limits, equal and unequal costs, training and evaluation; and an order with *)
(* post validation, run while the optimizer does not validate yet.            *)
EXTENDS ExecutableOrders, MCSchedules

(* Microbatches, costs of F, B and W, memory limit, forward_only.             *)
Cases == {<<1, 1, 1, 1, 3, FALSE, FALSE>>, <<4, 1, 1, 1, 1, FALSE, FALSE>>,
          <<4, 1, 1, 1, 3, FALSE, FALSE>>, <<4, 2, 3, 1, 6, FALSE, FALSE>>,
          <<3, 1, 1, 1, 3, TRUE, FALSE>>, <<2, 4, 1, 1, 6, FALSE, TRUE>>}

MCConf == Compiled({ZB(3, c[1], c[2], c[3], c[4], c[5], c[6], TRUE, c[7]) : c \in Cases})
=============================================================================
