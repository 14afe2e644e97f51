------------------------------- MODULE MCReward -------------------------------
(****************************************************************************)
(* Four samples, of which two are scored at a time: a thread that is done   *)
(* starts the next sample while the other still runs.                       *)
(****************************************************************************)
EXTENDS RewardClient
=============================================================================
