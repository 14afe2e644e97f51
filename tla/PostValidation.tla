---------------------------- MODULE PostValidation ----------------------------
(* Iterations under the optimizer's post validation (runtime.py, training.py, *)
(* pre_trainer.py): while the optimizer's step of one iteration is validated, *)
(* every stage runs the warm-up of the next, on parameters it may have to     *)
(* take back.  The verdict travels from the last stage to the first.  When    *)
(* the step stands, the iteration goes on from there; otherwise every stage   *)
(* receives what has been sent to it all the same, forgets the warm-up, and   *)
(* runs the iteration from its beginning, on the batches it has already read. *)
EXTENDS PipelineRuntime

CONSTANT Iterations   \* the number of iterations that follow a validated step

ASSUME IterationsOK == Iterations \in Nat \ {0} /\ Chunks = {0} /\ Seqs = {0}

ForwardNodes(f, s)      == {i \in DOMAIN f.order[s] : f.order[s][i].type = "F"}
ForwardsBefore(f, s, x) == Cardinality({i \in ForwardNodes(f, s) : i < x})

(* A stage has one forward for each microbatch, in their order.               *)
ASSUME MicrobatchesInOrder ==
  \A f \in Conf : \A s \in Stage :
    /\ Cardinality(ForwardNodes(f, s)) = f.micro
    /\ \A i \in ForwardNodes(f, s) : f.order[s][i].mb = ForwardsBefore(f, s, i)

VARIABLES
  iteration,  \* iteration[s]: the iteration of stage s, 0 before the first
  phase,      \* phase[s]: "finished", "validating", "validated" or "running"
  outcome,    \* outcome[k]: what becomes of the step before iteration k
  sent,       \* sent[s]: the verdicts that s has sent to the previous stage
  data,       \* data[s]: the RollbackDataIteratorWrapper of the stage
  used        \* used[s][i]: the element of the data that forward i has used

rollback == <<iteration, phase, outcome, sent, data, used>>
allVars  == <<vars, rollback>>

-------------------------------------------------------------------------------
(* RollbackDataIteratorWrapper: next counts the elements taken from the       *)
(* iterator it wraps, which are the numbers 1, 2, 3 ...                       *)
Wrapper == [next |-> 0, buffer |-> <<>>, saving |-> FALSE]

SavedNothing(w) == w                 \* fault: the mode is left as it is
SetMode(w, mode) == [w EXCEPT !.saving = mode]
SaveToBuffer(w)  == SetMode(w, TRUE)
PopFromBuffer(w) == SetMode(w, FALSE)
ClearBuffer(w)   == [w EXCEPT !.buffer = <<>>]

Replays(w)     == ~ w.saving /\ w.buffer # <<>>
NextElement(w) == IF Replays(w) THEN Head(w.buffer) ELSE w.next + 1

AfterNextReversed(w) ==              \* fault: the last element goes first
  IF Replays(w) THEN [w EXCEPT !.buffer = Tail(@)]
  ELSE [w EXCEPT !.next = @ + 1,
                 !.buffer = IF w.saving THEN <<w.next + 1>> \o @ ELSE @]

AfterNext(w) ==
  IF Replays(w) THEN [w EXCEPT !.buffer = Tail(@)]
  ELSE [w EXCEPT !.next = @ + 1,
                 !.buffer = IF w.saving THEN Append(@, w.next + 1) ELSE @]

(* get_batch_func reads a batch that it drops and then the one that it uses,  *)
(* on the first and on the last stage.                                        *)
ReadsData(s)  == s \in {0, N - 1}
UsedBatch(w)  == NextElement(AfterNext(w))
AfterBatch(w) == AfterNext(AfterNext(w))

-------------------------------------------------------------------------------
(* The optimizer's methods are not in the repository: pre_step lets each      *)
(* stage take the step if the gradient norm summed up over the stages before  *)
(* it and its own allows it, and the norm of all stages decides whether the   *)
(* step stands.  taken counts the stages, from the first, that take it.       *)
Outcomes == {o \in [taken : 0 .. N, stands : BOOLEAN] : o.stands => o.taken = N}

Outcome(s)    == outcome[iteration[s]]
DoThisStep(s) == s < Outcome(s).taken
DoPrevStep(s) == s <= Outcome(s).taken

ValidationInit ==
  /\ Init
  /\ iteration = [s \in Stage |-> 0]
  /\ phase = [s \in Stage |-> "finished"]
  /\ outcome \in [1 .. Iterations -> Outcomes]
  /\ sent = [s \in Stage |-> 0]
  /\ data = [s \in Stage |-> Wrapper]
  /\ used = [s \in Stage |-> [i \in DOMAIN Order(s) |-> None]]

(* reset(): new states and buffers.                                           *)
Reset(s) ==
  /\ it' = [it EXCEPT ![s] = 1]
  /\ buf' = [buf EXCEPT ![s] = [b \in Buffers |-> <<>>]]
  /\ acts' = [acts EXCEPT ![s] = [k \in Chunks |-> [ready |-> <<>>, tmp |-> <<>>]]]
  /\ cleared' = [cleared EXCEPT ![s] = {}]
  /\ batch' = [batch EXCEPT ![s] = {}]

NoneOf(s, x) == [i \in DOMAIN Order(s) |-> x]

(* post_validate: the next iteration takes the place of the one that is done, *)
(* and what its warm-up reads is kept.                                        *)
BeginValidation(s) ==
  /\ phase[s] = "finished" /\ iteration[s] < Iterations
  /\ iteration' = [iteration EXCEPT ![s] = @ + 1]
  /\ phase' = [phase EXCEPT ![s] = "validating"]
  /\ status' = [status EXCEPT ![s] = "running"]
  /\ Reset(s)
  /\ grads' = [grads EXCEPT ![s] = {}]
  /\ operand' = [operand EXCEPT ![s] = NoneOf(s, NoKey)]
  /\ saved' = [saved EXCEPT ![s] = NoneOf(s, NoKey)]
  /\ used' = [used EXCEPT ![s] = NoneOf(s, None)]
  /\ data' = IF ReadsData(s) /\ s < outcome[iteration[s] + 1].taken
             THEN [data EXCEPT ![s] = SaveToBuffer(ClearBuffer(@))]
             ELSE data
  /\ UNCHANGED <<conf, wgrads, posted, payload, outcome, sent>>

-------------------------------------------------------------------------------
(* run_until_post_validation: the nodes up to the verdict.                    *)

Validating(s, types) == phase[s] = "validating" /\ AtNode(s, types)

PassesOverAll(s, n) ==               \* fault: what was sent is not received
  ~ DoThisStep(s)

ReceivesFromAll(s, n) ==             \* fault: what was not sent is received
  ~ DoThisStep(s) /\ n.type # "RECV_FORWARD"

(* A stage that has not taken the step only receives, from one that has.      *)
PassesOver(s, n) ==
  ~ DoThisStep(s) /\ ~ (n.type = "RECV_FORWARD" /\ DoPrevStep(s))

(* A forward reads its batch once its operand is there.                       *)
ForwardAndRead(s) ==
  /\ ForwardF(s)
  /\ LET reads == ReadsData(s) /\ status'[s] = "running"
     IN  /\ used' = IF reads THEN [used EXCEPT ![s][it[s]] = UsedBatch(data[s])] ELSE used
         /\ data' = IF reads THEN [data EXCEPT ![s] = AfterBatch(@)] ELSE data
  /\ UNCHANGED <<iteration, phase, outcome, sent>>

(* Any other node than these and the verdict's is one too early.              *)
WarmUp(s) ==
  /\ Validating(s, NodeTypes \ PostValidationTypes)
  /\ LET n == Node(s, it[s])
     IN  IF n.type \notin {"F", "SEND_FORWARD", "RECV_FORWARD"} THEN Raise(s) /\ UNCHANGED rollback
         ELSE IF PassesOver(s, n) THEN Skip(s) /\ UNCHANGED rollback
         ELSE IF n.type = "F" THEN ForwardAndRead(s)
         ELSE AddCommunication(s) /\ UNCHANGED rollback

ReceiveVerdict(s) ==
  /\ Validating(s, {"RECV_POST_VALIDATION"})
  /\ sent[s + 1] >= iteration[s]
  /\ Skip(s)
  /\ UNCHANGED rollback

SendVerdict(s) ==
  /\ Validating(s, {"SEND_POST_VALIDATION"})
  /\ sent' = [sent EXCEPT ![s] = @ + 1]
  /\ Skip(s)
  /\ UNCHANGED <<iteration, phase, outcome, data, used>>

(* What flush() posts: the batch as one group.                                *)
FlushedBatch(s) ==
  IF batch[s] = {} THEN <<>> ELSE <<[ops |-> batch[s], left |-> batch[s]]>>

(* A finite set of positions, in their order.                                 *)
Ascending(S) ==
  CHOOSE q \in [1 .. Cardinality(S) -> S] : \A a, b \in DOMAIN q : a < b => q[a] < q[b]

(* The receives that a rollback still has to post, a group for each.          *)
Tagged(s) ==
  {i \in it[s] .. Len(Order(s)) : Node(s, i).type = "RECV_FORWARD" /\ Node(s, i).rollback}

Dummies(s) ==
  LET nodes == Ascending(Tagged(s))
  IN  IF DoPrevStep(s) THEN [k \in DOMAIN nodes |-> [ops |-> {nodes[k]}, left |-> {nodes[k]}]]
      ELSE <<>>

(* The verdict.  If the step stands, run() starts here; otherwise it starts   *)
(* from the first node with nothing of the warm-up.                           *)
Accept(s) ==
  /\ Validating(s, {"POST_VALIDATION"}) /\ Outcome(s).stands
  /\ phase' = [phase EXCEPT ![s] = "validated"]
  /\ posted' = [posted EXCEPT ![s] = @ \o FlushedBatch(s)]
  /\ batch' = [batch EXCEPT ![s] = {}]
  /\ data' = [data EXCEPT ![s] = PopFromBuffer(ClearBuffer(@))]
  /\ UNCHANGED <<conf, it, status, buf, acts, weights, payload, operand, saved,
                 iteration, outcome, sent, used>>

RollBack(s) ==
  /\ Validating(s, {"POST_VALIDATION"}) /\ ~ Outcome(s).stands
  /\ phase' = [phase EXCEPT ![s] = "validated"]
  /\ posted' = [posted EXCEPT ![s] = @ \o FlushedBatch(s) \o Dummies(s)]
  /\ Reset(s)
  /\ operand' = [operand EXCEPT ![s] = NoneOf(s, NoKey)]
  /\ used' = [used EXCEPT ![s] = NoneOf(s, None)]
  /\ data' = [data EXCEPT ![s] = PopFromBuffer(@)]
  /\ UNCHANGED <<conf, status, wgrads, grads, payload, saved, iteration, outcome, sent>>

(* The reduction of update_successful over the stages comes before the next   *)
(* call of the runtime.                                                       *)
BeginRun(s) ==
  /\ phase[s] = "validated"
  /\ \A t \in Stage : /\ iteration[t] >= iteration[s]
                       /\ iteration[t] = iteration[s] => phase[t] # "validating"
  /\ phase' = [phase EXCEPT ![s] = "running"]
  /\ UNCHANGED <<vars, iteration, outcome, sent, data, used>>

-------------------------------------------------------------------------------
(* run(), from the place where the validation has left it.                    *)
Execute(s) ==
  /\ phase[s] = "running"
  /\ \/ ForwardAndRead(s)
     \/ /\ BackwardB(s) \/ WeightW(s) \/ AddCommunication(s) \/ IgnorePostValidation(s)
        /\ UNCHANGED rollback

EndRun(s) ==
  /\ phase[s] = "running"
  /\ Finish(s)
  /\ phase' = [phase EXCEPT ![s] = IF status'[s] = "done" THEN "finished" ELSE @]
  /\ UNCHANGED <<iteration, outcome, sent, data, used>>

Network == (\E s, t \in Stage : Transfer(s, t)) /\ UNCHANGED rollback

AllRun ==
  \A s \in Stage : phase[s] = "finished" /\ iteration[s] = Iterations /\ posted[s] = <<>>

Stop == AllRun /\ UNCHANGED allVars

ValidationNext ==
  \/ \E s \in Stage : \/ BeginValidation(s) \/ WarmUp(s) \/ ReceiveVerdict(s)
                      \/ SendVerdict(s) \/ Accept(s) \/ RollBack(s)
                      \/ BeginRun(s) \/ Execute(s) \/ EndRun(s)
  \/ Network
  \/ Stop

ValidationSpec == ValidationInit /\ [][ValidationNext]_allVars /\ WF_allVars(ValidationNext)

-------------------------------------------------------------------------------
(* Properties.                                                                *)

(* Through any sequence of verdicts, every computation that a stage has       *)
(* carried out of its current attempt at an iteration has the operand of its  *)
(* dependency.  What an abandoned warm-up has sent must all have been taken   *)
(* off the links: one tensor left behind would shift every later one.         *)
TookPart(s) == phase[s] # "validating" \/ DoThisStep(s)

RightOperandAgain == \A s \in Stage : TookPart(s) => RightOperandOf(s)

(* Forward m of the iteration k uses the same batch on the first and the last *)
(* stage, the one that it would have used without any rollback: element 2x+2  *)
(* for the x-th forward of all, as every other element is dropped.            *)
RightBatch ==
  \A s \in Stage : \A i \in Executed(s, {"F"}) :
    ReadsData(s) /\ TookPart(s) =>
      used[s][i] = 2 * ((iteration[s] - 1) * conf.micro + Node(s, i).mb) + 2

(* What the wrapper will give again is what it gave last, in order and with   *)
(* nothing between it and the next element of the wrapped iterator: through   *)
(* warm-ups, rollbacks and reruns no batch is lost and none comes twice.      *)
InOrder(w) == \A j \in DOMAIN w.buffer : w.buffer[j] = w.next - Len(w.buffer) + j

BufferInOrder == \A s \in Stage : InOrder(data[s])

(* Every iteration ends on every stage, whatever the verdicts, with nothing   *)
(* left in the network.                                                       *)
AllIterationsRun == <>AllRun
=============================================================================
