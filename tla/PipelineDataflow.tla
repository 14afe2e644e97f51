--------------------------- MODULE PipelineDataflow ---------------------------
(* What a pipeline iteration promises, whatever the schedule, the stages and  *)
(* the communications: every computation runs once, on the result of the one  *)
(* it depends on and a backward also on the activations of its own forward,   *)
(* and the weight gradient of every backward is accumulated once.             *)
EXTENDS ScheduleGraph

CONSTANTS
  L,       \* the number of layer groups of the model
  Works    \* the iterations: sets of keys of computations F, B and BW

VARIABLES
  work,        \* the computations of this iteration
  done,        \* those carried out, with the operand and activation they used
  accumulated  \* the backwards whose weight gradient is accumulated

vars == <<work, done, accumulated>>

Backwards   == {"B", "BW"}
DoneKeys    == {d.key : d \in done}
Forward(k)  == MakeKey("F", k.lg, k.mb, k.seq)

(* The operand of a computation is what get_prev_key names, its activation    *)
(* that of its forward.                                                       *)
Result(k) ==
  [key |-> k, operand |-> PrevKey(k, L),
   activation |-> IF k.type \in Backwards THEN Forward(k) ELSE NoKey]

Init ==
  /\ work \in Works
  /\ done = {}
  /\ accumulated = {}

(* A computation whose dependencies are done is carried out, once.  A         *)
(* backward accumulates its weight gradient at once, or leaves it for later.  *)
Compute(k) ==
  /\ k \in work \ DoneKeys
  /\ PrevKey(k, L) \in DoneKeys \cup {NoKey}
  /\ k.type \in Backwards => Forward(k) \in DoneKeys
  /\ done' = done \cup {Result(k)}
  /\ \/ UNCHANGED accumulated
     \/ k.type \in Backwards /\ accumulated' = accumulated \cup {k}
  /\ UNCHANGED work

(* Weight gradients left for later are accumulated.                           *)
Accumulate ==
  /\ accumulated' \in {accumulated \cup S : S \in
       (SUBSET {k \in DoneKeys : k.type \in Backwards /\ k \notin accumulated}) \ {{}}}
  /\ UNCHANGED <<work, done>>

Next == (\E k \in work : Compute(k)) \/ Accumulate

(* The iteration is over: everything is computed and accumulated.             *)
Over == DoneKeys = work /\ accumulated = {k \in work : k.type \in Backwards}

Spec     == Init /\ [][Next]_vars
FairSpec == Spec /\ WF_vars(Next)
=============================================================================
