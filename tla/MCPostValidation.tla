--------------------------- MODULE MCPostValidation ---------------------------
(* Two validated iterations of a zero-bubble schedule, with every outcome of  *)
(* the steps before them.                                                     *)
EXTENDS ExecutableOrders, ValidatedOrders, MCSchedules

MCConf == Compiled({ZB(3, 2, 4, 1, 1, 6, FALSE, TRUE, TRUE)})
=============================================================================
