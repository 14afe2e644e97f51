---------------------------- MODULE MCCompilerPost ----------------------------
(* The compilation of one zero-bubble schedule with post validation: three    *)
(* stages, four microbatches, forwards of 5 units against backwards of 1, and *)
(* weight gradients of 8.                                                     *)
EXTENDS MCCompiler

LatePrograms == {ProgramZB(3, 4, 5, 1, 8, 1, 16, TRUE)}
=============================================================================
