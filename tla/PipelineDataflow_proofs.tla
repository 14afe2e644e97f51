----------------------- MODULE PipelineDataflow_proofs -----------------------
(* The runtime implements the abstract iteration (PipelineDataflow), for      *)
(* every number of stages, chunks and splits and all matched orders: a step   *)
(* of a stage is a computation, an accumulation or nothing of it.  A stage    *)
(* that ends leaves nothing behind, and none raises on executable orders      *)
(* (ExecutableOrders).                                                        *)
EXTENDS OperandMatching_proofs

(* What the stages have carried out and accumulated.                          *)
Done  == UNION {{ResultOf(s, i) : i \in Executed(s, {"F", "B", "BW"})} : s \in Stage}
Accum == UNION {grads[s] : s \in Stage}

(* A forward takes no activation.                                             *)
NothingSaved ==
  \A s \in Stage : \A i \in DOMAIN Order(s) :
    Node(s, i).type = "F" => saved[s][i] = NoKey

Sound == Inv /\ Matched /\ ActivationsOK /\ RightActivation /\ Accounting /\ NothingSaved

-------------------------------------------------------------------------------
(* What a step adds to the results.                                           *)

(* The result of the computation that stage s carries out in this step.       *)
NewResult(s) ==
  LET i == it[s]
      n == Node(s, i)
  IN  [key |-> Key(n),
       operand |-> IF IsBackward(n) /\ n.lg = LastGroup THEN saved'[s][i] ELSE operand'[s][i],
       activation |-> saved'[s][i]]

LEMMA DoneKeys == {d.key : d \in Done} = Produced
<1>1. \A s, i : ResultOf(s, i).key = Key(Node(s, i))
  BY DEF ResultOf
<1>2. \A x : x \in Produced <=> \E s \in Stage : \E i \in Executed(s, {"F", "B", "BW"}) :
        x = Key(Node(s, i))
  BY DEF Produced
<1>3. \A d : d \in Done <=> \E s \in Stage : \E i \in Executed(s, {"F", "B", "BW"}) :
        d = ResultOf(s, i)
  BY DEF Done
<1> QED
  BY <1>1, <1>2, <1>3

LEMMA OneComputes ==
  ASSUME Inv, NEW s \in Stage, NEW t \in Stage, Computes(s), Advance(t)
  PROVE  s = t
<1>1. Advance(s) /\ it[s] \in Nat
  BY StageFacts DEF Computes
<1> QED
  BY <1>1, AdvancedStage

LEMMA ExecutedStays ==
  ASSUME Inv, [Next]_vars, NEW s \in Stage, NEW i \in Executed(s, {"F", "B", "BW"})
  PROVE  i \in Executed(s, {"F", "B", "BW"})' /\ ResultOf(s, i)' = ResultOf(s, i)
<1>1. conf' = conf /\ it[s] \in Nat /\ it'[s] \in Nat /\ it'[s] >= it[s]
  BY ItGrows
<1>2. operand'[s][i] = operand[s][i] /\ saved'[s][i] = saved[s][i]
  BY OperandStays
<1>3. i \in DOMAIN Order(s) /\ i < it[s] /\ i \in Nat
  BY StageFacts DEF Executed
<1>4. i < it'[s]
  BY <1>1, <1>3
<1>5. i \in Executed(s, {"F", "B", "BW"})'
  BY <1>1, <1>3, <1>4 DEF Executed, Order, Node, Skipped, SkippedIn
<1>6. ResultOf(s, i)' = ResultOf(s, i)
  BY <1>1, <1>2 DEF ResultOf, Node, LastGroup
<1> QED
  BY <1>5, <1>6

LEMMA ComputesExecuted ==
  ASSUME Inv, [Next]_vars, NEW s \in Stage, Computes(s), NEW i, i = it[s]
  PROVE  i \in Executed(s, {"F", "B", "BW"})' /\ ResultOf(s, i)' = NewResult(s)
<1>1. conf' = conf /\ Advance(s) /\ i \in Live(conf, s) /\ Node(s, i).type \in {"F", "B", "BW"}
  BY DEF Computes
<1>2. i < it'[s] /\ i \in DOMAIN Order(s)
  BY <1>1, StageFacts, AdvancedStage
<1>3. ~ Skipped(Node(s, i))
  BY <1>1 DEF Live, Skipped, Node
<1>4. i \in Executed(s, {"F", "B", "BW"})'
  BY <1>1, <1>2, <1>3 DEF Executed, Order, Node, Skipped, SkippedIn
<1>5. ResultOf(s, i)' = NewResult(s)
  BY <1>1 DEF ResultOf, NewResult, Node, LastGroup
<1> QED
  BY <1>4, <1>5

LEMMA DoneComputes ==
  ASSUME Inv, [Next]_vars, NEW s \in Stage, Computes(s)
  PROVE  Done' = Done \cup {NewResult(s)}
<1> DEFINE types == {"F", "B", "BW"}
<1>1. \A d : d \in Done <=> \E t \in Stage : \E i \in Executed(t, types) : d = ResultOf(t, i)
  BY DEF Done
<1>2. \A d : d \in Done' <=> \E t \in Stage : \E i \in Executed(t, types)' : d = ResultOf(t, i)'
  BY DEF Done
<1>3. ASSUME NEW d \in Done PROVE d \in Done'
  BY <1>1, <1>2, ExecutedStays
<1>4. NewResult(s) \in Done'
  BY <1>2, ComputesExecuted
<1>5. ASSUME NEW d \in Done' PROVE d \in Done \cup {NewResult(s)}
  <2>1. PICK t \in Stage : \E i \in Executed(t, types)' : d = ResultOf(t, i)'
    BY <1>2
  <2>2. PICK i \in Executed(t, types)' : d = ResultOf(t, i)'
    BY <2>1
  <2>3. CASE i \in Executed(t, types)
    BY <1>1, <2>2, <2>3, ExecutedStays
  <2>4. CASE i = it[t] /\ Computes(t)
    <3>1. t = s
      BY <2>4, OneComputes DEF Computes
    <3> QED
      BY <2>2, <2>4, <3>1, ComputesExecuted
  <2> QED
    BY <2>3, <2>4, ExecutedNext
<1> QED
  BY <1>3, <1>4, <1>5

LEMMA DoneStays ==
  ASSUME Inv, [Next]_vars, \A s \in Stage : ~ Computes(s)
  PROVE  Done' = Done
<1> DEFINE types == {"F", "B", "BW"}
<1>1. \A d : d \in Done <=> \E t \in Stage : \E i \in Executed(t, types) : d = ResultOf(t, i)
  BY DEF Done
<1>2. \A d : d \in Done' <=> \E t \in Stage : \E i \in Executed(t, types)' : d = ResultOf(t, i)'
  BY DEF Done
<1>3. \A t \in Stage : \A i \in Executed(t, types)' : i \in Executed(t, types)
  BY ExecutedNext
<1> QED
  BY <1>1, <1>2, <1>3, ExecutedStays

-------------------------------------------------------------------------------
(* What a step accumulates.                                                   *)

(* Stage s accumulates the first k weight gradients of queue r.               *)
TakesFirst(s, r, k) ==
  grads' = [grads EXCEPT ![s] = grads[s] \cup {wgrads[s][r][j] : j \in 1 .. k}]

AccumulatesOwn(s) ==
  /\ Computes(s) /\ Node(s, it[s]).type \in {"B", "BW"}
  /\ grads' = [grads EXCEPT ![s] = grads[s] \cup {Key(Node(s, it[s]))}]

AccumulatesQueued(s) ==
  /\ \A t \in Stage : ~ Computes(t)
  /\ \E r \in Queues : \E k \in 0 .. Len(wgrads[s][r]) : TakesFirst(s, r, k)

LEMMA BackwardBGrads ==
  ASSUME Inv, NEW s \in Stage, BackwardB(s)
  PROVE  grads' = grads \/ AccumulatesOwn(s)
<1> DEFINE i   == it[s]
           n   == Node(s, i)
           bad == \/ acts[s][n.chunk].ready = <<>> \/ Missing(s, Source(s, n))
                  \/ ~ LocalOK(s, n)
<1>1. i \in DOMAIN Order(s) /\ n.type \in {"B", "BW"}
  BY DEF BackwardB, AtNode
<1>2. CASE Skipped(n) \/ bad
  <2>1. Skip(s) \/ Raise(s)
    BY <1>2 DEF BackwardB
  <2> QED
    BY <2>1 DEF Skip, Raise, weights
<1>3. CASE ~ Skipped(n) /\ ~ bad
  <2>1. i \in Live(conf, s)
    BY <1>1, <1>3, IsLive
  <2>2. Computes(s)
    BY <1>1, <1>3, <2>1 DEF BackwardB, Computes, network
  <2> QED
    BY <1>1, <1>3, <2>2 DEF BackwardB, AccumulatesOwn
<1> QED
  BY <1>2, <1>3

LEMMA WeightWGrads ==
  ASSUME Inv, NEW s \in Stage, WeightW(s)
  PROVE  grads' = grads \/ AccumulatesQueued(s)
<1> DEFINE n == Node(s, it[s])
           r == <<n.chunk, n.seq>>
<1>1. it[s] \in DOMAIN Order(s) /\ n.type = "W" /\ n \in Nodes
  BY NodeIsNode DEF WeightW, AtNode, Inv, TypeOK
<1>2. CASE Skip(s) \/ Raise(s)
  BY <1>2 DEF Skip, Raise, weights
<1>3. ASSUME NEW k \in 0 .. Len(wgrads[s][r]), TakesW(s, k, wgrads[s][r])
      PROVE  AccumulatesQueued(s)
  <2>1. Advance(s) /\ TakesFirst(s, r, k)
    BY <1>3 DEF TakesW, TakesFirst
  <2>2. r \in Queues
    BY <1>1 DEF Nodes, Queues
  <2>3. ASSUME NEW t \in Stage, Computes(t) PROVE FALSE
    <3>1. t = s
      BY <2>1, <2>3, OneComputes
    <3> QED
      BY <1>1, <2>3, <3>1 DEF Computes
  <2> QED
    BY <1>3, <2>1, <2>2, <2>3 DEF AccumulatesQueued
<1> QED
  BY <1>2, <1>3, WeightWCases

LEMMA GradsStep ==
  ASSUME Inv, [Next]_vars
  PROVE  grads' = grads \/ \E s \in Stage : AccumulatesOwn(s) \/ AccumulatesQueued(s)
<1>1. CASE UNCHANGED vars
  BY <1>1 DEF vars, weights
<1>2. ASSUME NEW s \in Stage, ForwardF(s) PROVE grads' = grads
  BY <1>2 DEF ForwardF, Raise, weights
<1>3. ASSUME NEW s \in Stage, AddCommunication(s) PROVE grads' = grads
  BY <1>3 DEF AddCommunication, Skip, Raise, weights
<1>4. ASSUME NEW s \in Stage, IgnorePostValidation(s) \/ Finish(s) PROVE grads' = grads
  BY <1>4 DEF IgnorePostValidation, Skip, Finish, weights
<1>5. ASSUME NEW s \in Stage, NEW t \in Stage, Transfer(s, t) PROVE grads' = grads
  BY <1>5 DEF Transfer, weights
<1>6. CASE Terminating
  BY <1>1, <1>6 DEF Terminating
<1> QED
  BY <1>1, <1>2, <1>3, <1>4, <1>5, <1>6, BackwardBGrads, WeightWGrads DEF Next

-------------------------------------------------------------------------------
(* A computation of a stage is one of the abstract iteration.                 *)

(* It is work that is not done.                                               *)
LEMMA IsNewWork ==
  ASSUME Inv, NEW s \in Stage, Computes(s), NEW k, k = Key(Node(s, it[s]))
  PROVE  k \in WorkOf(conf) /\ k \notin Produced
<1> DEFINE i == it[s]
           n == Node(s, i)
<1>1. /\ i \in Live(conf, s) /\ n.type \in {"F", "B", "BW"} /\ conf \in Conf
      /\ i \in DOMAIN Order(s) /\ i \in Nat
  BY StageFacts DEF Computes
<1>2. n \in AllNodes(conf.order)
  <2>1. DOMAIN conf.order = Stage
    BY <1>1, ConfOK DEF IsConf
  <2> QED
    BY <1>1, <2>1 DEF AllNodes, Node, Order
<1>3. n.type \in IF conf.forwardOnly THEN {"F"} ELSE {"F", "B", "BW"}
  BY <1>1, ChunkOfNode
<1>4. k \in WorkOf(conf)
  BY <1>2, <1>3 DEF WorkOf
<1>5. ASSUME NEW t \in Stage, NEW j \in Executed(t, {"F", "B", "BW"}), k = Key(Node(t, j))
      PROVE  FALSE
  <2>1. j \in DOMAIN Order(t) /\ j < it[t]
    BY DEF Executed
  <2>2. s = t /\ i = j
    <3>1. /\ i \in DOMAIN conf.order[s] /\ j \in DOMAIN conf.order[t]
          /\ conf.order[s][i].type \in {"F", "B", "BW"}
          /\ Key(conf.order[s][i]) = Key(conf.order[t][j])
      BY <1>1, <1>5, <2>1 DEF Order, Node
    <3> HIDE DEF i
    <3> QED
      BY <1>1, <3>1, ComputedOnce
  <2> QED
    BY <1>1, <2>1, <2>2
<1> QED
  BY <1>4, <1>5 DEF Produced

(* A backward's forward is done.                                              *)
LEMMA ForwardDone ==
  ASSUME Inv, ActivationsOK, NEW s \in Stage, Computes(s),
         NEW n, n = Node(s, it[s]), n.type \in {"B", "BW"}
  PROVE  MakeKey("F", n.lg, n.mb, n.seq) \in Produced
<1> DEFINE i == it[s]
           q == acts[s][n.chunk]
<1>1. i \in Live(conf, s) /\ q.ready # <<>> /\ conf \in Conf
  BY StageFacts DEF Computes
<1>2. n.chunk \in Chunks /\ i \in Bs(s, n.chunk) /\ ~ conf.forwardOnly
  BY <1>1, ChunkOfNode
<1>3. QueueHolds(s, n.chunk, q, i) /\ IsSpQueue(q)
  BY <1>2 DEF ActivationsOK, Inv, StacksFull
<1>4. PICK p \in Fs(s, n.chunk) : p < i /\ Mate(s, i, p)
  BY <1>1, <1>2, <1>3, TopIsMate
<1>5. p \in Live(conf, s) /\ Node(s, p).type = "F"
  BY <1>1, ForwardTypes
<1>6. p \in Executed(s, {"F", "B", "BW"})
  BY <1>4, <1>5, LiveExecuted
<1>7. Key(Node(s, p)) = MakeKey("F", n.lg, n.mb, n.seq)
  BY <1>4, <1>5 DEF Key, Mate, SamePass, Node
<1> QED
  BY <1>6, <1>7 DEF Produced

(* It has used what it depends on, which is done.                             *)
LEMMA OperandDone ==
  ASSUME Sound, [Next]_vars, NEW s \in Stage, Computes(s),
         NEW n, n = Node(s, it[s]), Source(s, n) # NoBuffer
  PROVE  /\ operand'[s][it[s]] = PrevKey(n, LastGroup + 1)
         /\ PrevKey(n, LastGroup + 1) \in Produced
<1> DEFINE i == it[s]
<1>1. Inv /\ Matched /\ Inv' /\ Matched' /\ conf' = conf
  BY NextStep, MatchedStep, ItGrows DEF Sound
<1>2. RightOperand'
  <2>1. (Inv /\ Matched => RightOperand)'
    BY MatchedSuffices, PTL
  <2> QED
    BY <1>1, <2>1
<1>3. i \in Executed(s, {"F", "B", "BW"})'
  BY <1>1, ComputesExecuted
<1>4. operand'[s][i] = PrevKey(n, LastGroup + 1)
  <2>1. \A j : Node(s, j)' = Node(s, j)
    BY <1>1 DEF Node
  <2>2. \A j \in Executed(s, {"F", "B", "BW"})' :
          operand'[s][j] = IF (Source(s, Node(s, j)) = NoBuffer)' THEN NoKey
                           ELSE PrevKey(Node(s, j), LastGroup + 1)'
    BY <1>2 DEF RightOperand, RightOperandOf
  <2>3. \A j : (Source(s, Node(s, j)) = NoBuffer)' => Source(s, Node(s, j)) = NoBuffer
    BY <2>1 DEF Source, NoBuffer, IsLocal, IsBackward, LastGroup
  <2>4. \A j : PrevKey(Node(s, j), LastGroup + 1)' = PrevKey(Node(s, j), LastGroup + 1)
    BY <2>1 DEF LastGroup
  <2> QED
    BY <1>3, <2>2, <2>3, <2>4
<1>5. operand'[s][i] \in Produced
  <2>1. i \in DOMAIN Order(s) /\ operand' = [operand EXCEPT ![s][i] = TensorIn(s, Source(s, n))]
    BY <1>1, StageFacts DEF Computes
  <2>2. operand'[s][i] = TensorIn(s, Source(s, n))
    BY <1>1, <2>1 DEF Inv, TypeOK, PerNode
  <2>3. Is(TensorIn(s, Source(s, n)), T(s, i))
    BY <1>1, ComputesAt
  <2> QED
    BY <2>2, <2>3 DEF Is
<1> QED
  BY <1>4, <1>5

(* What the abstract iteration asks of the result of n.                       *)
Expected(n) ==
  [key |-> Key(n), operand |-> PrevKey(n, LastGroup + 1),
   activation |-> IF n.type \in {"B", "BW"} THEN MakeKey("F", n.lg, n.mb, n.seq) ELSE NoKey]

LEMMA NewResultRight ==
  ASSUME Sound, [Next]_vars, NEW s \in Stage, Computes(s), NEW n, n = Node(s, it[s])
  PROVE  /\ NewResult(s) = Expected(n)
         /\ PrevKey(n, LastGroup + 1) \in Produced \cup {NoKey}
<1> DEFINE prev == PrevKey(n, LastGroup + 1)
<1> PICK i : i = it[s]
  OBVIOUS
<1>1. /\ n.type \in {"F", "B", "BW"} /\ i \in DOMAIN Order(s) /\ conf' = conf
      /\ n.type = "F" => saved' = saved
      /\ operand' = [operand EXCEPT ![s][i] = TensorIn(s, Source(s, n))]
      /\ n.lg \in Int /\ LastGroup \in Int
  BY StageFacts, NodeIsNode, LastGroupType DEF Computes, Sound, Nodes
<1>2. operand'[s][i] = TensorIn(s, Source(s, n))
  BY <1>1 DEF Sound, Inv, TypeOK, PerNode
<1>3. saved'[s][i] = IF n.type \in {"B", "BW"} THEN MakeKey("F", n.lg, n.mb, n.seq) ELSE NoKey
  <2>1. CASE n.type = "F"
    BY <1>1, <2>1 DEF Sound, NothingSaved
  <2>2. CASE n.type \in {"B", "BW"}
    <3>1. RightActivation' /\ Node(s, i)' = n
      <4>1. RightActivation'
        BY RightActivationStep DEF Sound
      <4> QED
        BY <1>1, <4>1 DEF Node
    <3>2. i \in Executed(s, {"F", "B", "BW"})'
      BY ComputesExecuted DEF Sound
    <3>3. i \in Executed(s, {"B", "BW"})'
      BY <2>2, <3>1, <3>2 DEF Executed, Node
    <3> QED
      BY <1>1, <2>2, <3>1, <3>3 DEF RightActivation, Node
  <2> QED
    BY <1>1, <2>1, <2>2
<1>4. NewResult(s) = [key |-> Key(n),
        operand |-> IF IsBackward(n) /\ n.lg = LastGroup THEN saved'[s][i] ELSE operand'[s][i],
        activation |-> saved'[s][i]]
  BY DEF NewResult
<1>5. CASE n.type = "F" /\ n.lg = 0
  <2>1. prev = NoKey /\ Source(s, n) = NoBuffer
    BY <1>5 DEF PrevKey, Source
  <2>2. operand'[s][i] = NoKey
    BY <1>2, <2>1 DEF TensorIn
  <2> QED
    BY <1>3, <1>4, <1>5, <2>1, <2>2 DEF Expected, IsBackward
<1>6. CASE n.type \in {"B", "BW"} /\ n.lg = LastGroup
  <2>1. prev = MakeKey("F", n.lg, n.mb, n.seq)
    <3>1. n.type # "F" /\ n.lg + 1 = LastGroup + 1
      BY <1>6
    <3> QED
      BY <1>6, <3>1 DEF PrevKey
  <2>2. prev \in Produced
    BY <1>6, <2>1, ForwardDone DEF Sound
  <2> QED
    BY <1>3, <1>4, <1>6, <2>1, <2>2 DEF Expected, IsBackward
<1>7. CASE ~ (n.type = "F" /\ n.lg = 0) /\ ~ (n.type \in {"B", "BW"} /\ n.lg = LastGroup)
  <2>1. Source(s, n) # NoBuffer
    <3>1. CASE n.type = "F" /\ n.lg # 0
      <4>1. Source(s, n) \in {<<"LOCAL_FORWARD", None, n.seq>>, <<"RECV_FORWARD", n.chunk, n.seq>>}
        BY <3>1 DEF Source, IsBackward
      <4> QED
        BY <4>1 DEF NoBuffer
    <3>2. CASE n.type \in {"B", "BW"} /\ n.lg # LastGroup
      <4>1. Source(s, n) \in {<<"LOCAL_BACKWARD", None, n.seq>>, <<"RECV_BACKWARD", n.chunk, n.seq>>}
        BY <3>2 DEF Source, IsBackward
      <4> QED
        BY <4>1 DEF NoBuffer
    <3> QED
      BY <1>1, <1>7, <3>1, <3>2
  <2>2. operand'[s][i] = prev /\ prev \in Produced
    BY <2>1, OperandDone
  <2> QED
    BY <1>3, <1>4, <1>7, <2>2 DEF Expected, IsBackward
<1> QED
  BY <1>5, <1>6, <1>7

-------------------------------------------------------------------------------
(* The invariant.                                                             *)

LEMMA NothingSavedStep == Inv /\ NothingSaved /\ [Next]_vars => NothingSaved'
<1> SUFFICES ASSUME Inv, NothingSaved, [Next]_vars,
                    NEW s \in Stage, NEW i \in DOMAIN Order(s), Node(s, i).type = "F"
             PROVE  saved'[s][i] = NoKey
  <2>1. Inv /\ [Next]_vars => conf' = conf
    BY StepCases DEF Waits, Passes, Computes, Adds, Transfers
  <2> QED
    BY <2>1 DEF NothingSaved, Order, Node
<1>1. saved[s][i] = NoKey
  BY DEF NothingSaved
<1>2. CASE saved' = saved
  BY <1>1, <1>2
<1>3. ASSUME NEW t \in Stage, Computes(t), saved' # saved
      PROVE  saved'[s][i] = NoKey
  <2>1. PICK x : saved' = [saved EXCEPT ![t][it[t]] = x]
    BY <1>3 DEF Computes
  <2>2. ~ (s = t /\ i = it[t])
    BY <1>3 DEF Computes
  <2> QED
    BY <1>1, <2>1, <2>2 DEF Inv, TypeOK, PerNode
<1> QED
  BY <1>2, <1>3, StepCases DEF Waits, Passes, Adds, Transfers

LEMMA SoundInit == Init => Sound
<1> SUFFICES ASSUME Init PROVE Sound
  OBVIOUS
<1>1. NothingSaved
  BY DEF Init, NothingSaved
<1>2. RightActivation
  <2>1. \A s \in Stage : it[s] = 1 /\ \A i \in DOMAIN Order(s) : ~ i < 1
    BY InitInv, StageFacts DEF Init
  <2> QED
    BY <2>1 DEF RightActivation, Executed
<1> QED
  BY <1>1, <1>2, InitInv, MatchedInit, ActivationsInit, InitAccounting DEF Sound

LEMMA SoundStep == Sound /\ [Next]_vars => Sound'
BY NextStep, MatchedStep, ActivationsStep, RightActivationStep, NextAccount, NothingSavedStep DEF Sound

-------------------------------------------------------------------------------
(* The refinement mapping.                                                    *)

LEMMA InitRefines == Init => Dataflow!Init
<1> SUFFICES ASSUME Init PROVE Dataflow!Init
  OBVIOUS
<1>1. conf \in Conf /\ \A s \in Stage : it[s] = 1 /\ grads[s] = {}
  BY DEF Init
<1>2. \A s \in Stage : Executed(s, {"F", "B", "BW"}) = {}
  <2>1. \A s \in Stage : \A i \in DOMAIN Order(s) : ~ i < 1
    BY InitInv, StageFacts
  <2> QED
    BY <1>1, <2>1 DEF Executed
<1> QED
  BY <1>1, <1>2 DEF Dataflow!Init

(* The abstract state, and what the abstract iteration makes of a key.        *)
LEMMA Mapping ==
  /\ Dataflow!DoneKeys = Produced
  /\ Dataflow!NoKey = NoKey
  /\ \A n : Dataflow!Result(Key(n)) = Expected(n)
  /\ \A n : Dataflow!PrevKey(Key(n), LastGroup + 1) = PrevKey(n, LastGroup + 1)
  /\ \A n : Dataflow!Forward(Key(n)) = MakeKey("F", n.lg, n.mb, n.seq)
  /\ Dataflow!Backwards = {"B", "BW"}
<1>1. Dataflow!DoneKeys = {d.key : d \in Done}
  BY DEF Dataflow!DoneKeys, Done
<1>2. \A n : /\ Key(n).type = n.type /\ Key(n).lg = n.lg
             /\ Key(n).mb = n.mb /\ Key(n).seq = n.seq
  BY DEF Key, MakeKey
<1>3. Dataflow!NoKey = NoKey
  BY DEF Dataflow!NoKey, NoKey, Dataflow!MakeKey, MakeKey, Dataflow!None, None
<1>4. \A n : Dataflow!PrevKey(Key(n), LastGroup + 1) = PrevKey(n, LastGroup + 1)
  BY <1>2, <1>3 DEF Dataflow!PrevKey, PrevKey, Dataflow!MakeKey, MakeKey
<1>5. \A n : Dataflow!Forward(Key(n)) = MakeKey("F", n.lg, n.mb, n.seq)
  BY <1>2 DEF Dataflow!Forward, Dataflow!MakeKey, MakeKey
<1>6. Dataflow!Backwards = {"B", "BW"}
  BY DEF Dataflow!Backwards
<1>7. \A n : Dataflow!Result(Key(n)) = Expected(n)
  BY <1>2, <1>3, <1>4, <1>5, <1>6 DEF Dataflow!Result, Expected
<1> QED
  BY <1>1, <1>3, <1>4, <1>5, <1>6, <1>7, DoneKeys

(* A computation of a stage is one of the abstract iteration, which           *)
(* accumulates its weight gradient or leaves it.                              *)
LEMMA ComputeRefines ==
  ASSUME Sound, [Next]_vars, NEW s \in Stage, Computes(s), grads' = grads \/ AccumulatesOwn(s)
  PROVE  Dataflow!Next
<1> DEFINE n == Node(s, it[s])
           k == Key(n)
<1>1. Inv /\ ActivationsOK /\ conf' = conf /\ n.type = k.type
  BY DEF Sound, Computes, Key, MakeKey
<1>2. k \in WorkOf(conf) /\ k \notin Dataflow!DoneKeys
  BY <1>1, IsNewWork, Mapping
<1>3. Dataflow!PrevKey(k, LastGroup + 1) \in Dataflow!DoneKeys \cup {Dataflow!NoKey}
  BY NewResultRight, Mapping
<1>4. k.type \in Dataflow!Backwards => Dataflow!Forward(k) \in Dataflow!DoneKeys
  BY <1>1, ForwardDone, Mapping
<1>5. Done' = Done \cup {Dataflow!Result(k)}
  BY <1>1, DoneComputes, NewResultRight, Mapping
<1>6. Accum' = Accum \/ (k.type \in Dataflow!Backwards /\ Accum' = Accum \cup {k})
  <2>1. CASE grads' = grads
    BY <2>1 DEF Accum
  <2>2. CASE AccumulatesOwn(s)
    <3>1. n.type \in {"B", "BW"} /\ grads' = [grads EXCEPT ![s] = grads[s] \cup {k}]
      BY <2>2 DEF AccumulatesOwn
    <3>2. DOMAIN grads = Stage
      BY <1>1 DEF Inv, TypeOK
    <3> HIDE DEF k, n
    <3>3. \A t \in Stage : grads'[t] = IF t = s THEN grads[s] \cup {k} ELSE grads[t]
      BY <3>1, <3>2
    <3>4. Accum' = Accum \cup {k}
      BY <3>3 DEF Accum
    <3> QED
      BY <1>1, <3>1, <3>4, Mapping
  <2> QED
    BY <2>1, <2>2
<1>7. WorkOf(conf)' = WorkOf(conf)
  BY <1>1
<1> HIDE DEF k
<1> QED
  BY <1>2, <1>3, <1>4, <1>5, <1>6, <1>7 DEF Dataflow!Next, Dataflow!Compute, Done, Accum

(* Weight gradients that a stage takes from a queue are those of backwards    *)
(* that are done, and nobody has accumulated them.                            *)
LEMMA AccumulateRefines ==
  ASSUME Sound, [Next]_vars, NEW s \in Stage, AccumulatesQueued(s)
  PROVE  Dataflow!Next \/ UNCHANGED <<WorkOf(conf), Done, Accum>>
<1>1. Inv /\ Accounting /\ conf' = conf /\ conf \in Conf
  BY ItGrows, StageFacts DEF Sound
<1>2. Done' = Done /\ WorkOf(conf)' = WorkOf(conf)
  BY <1>1, DoneStays DEF AccumulatesQueued
<1>3. PICK r \in Queues : \E k \in 0 .. Len(wgrads[s][r]) : TakesFirst(s, r, k)
  BY DEF AccumulatesQueued
<1>4. PICK k \in 0 .. Len(wgrads[s][r]) : TakesFirst(s, r, k)
  BY <1>3
<1> DEFINE S == {wgrads[s][r][j] : j \in 1 .. k}
<1>5. Accum' = Accum \cup S
  <2>1. DOMAIN grads = Stage /\ grads' = [grads EXCEPT ![s] = grads[s] \cup S]
    BY <1>1, <1>4 DEF Inv, TypeOK, TakesFirst
  <2> HIDE DEF S
  <2>2. \A t \in Stage : grads'[t] = IF t = s THEN grads[s] \cup S ELSE grads[t]
    BY <2>1
  <2> QED
    BY <2>2 DEF Accum
<1>6. ASSUME NEW x \in S
      PROVE  x \in Dataflow!DoneKeys /\ x.type \in Dataflow!Backwards /\ x \notin Accum
  <2>1. wgrads[s][r] \in Seq(Tensors)
    BY <1>1 DEF Inv, TypeOK, Queues
  <2>2. PICK j \in DOMAIN wgrads[s][r] : x = wgrads[s][r][j]
    BY <2>1
  <2>3. Account(Queues, Gradient(s), GradQueue(s), Backwards(s), wgrads[s], grads[s])
    BY <1>1 DEF Accounting
  <2>4. x \notin grads[s] /\ \E i \in Backwards(s) : x = Gradient(s)[i]
    BY <2>2, <2>3 DEF Account
  <2>5. PICK i \in Backwards(s) : x = Gradient(s)[i]
    BY <2>4
  <2>6. /\ i \in Executed(s, {"F", "B", "BW"}) /\ i \in DOMAIN Order(s)
        /\ Node(s, i).type \in {"B", "BW"} /\ x = Key(Node(s, i))
    BY <2>5 DEF Backwards, Executed, Gradient
  <2>7. x \in Produced
    BY <2>6 DEF Produced
  <2>8. x.type \in {"B", "BW"}
    BY <2>6 DEF Key, MakeKey
  <2>9. ASSUME NEW t \in Stage, x \in grads[t], t # s PROVE FALSE
    <3>1. Account(Queues, Gradient(t), GradQueue(t), Backwards(t), wgrads[t], grads[t])
      BY <1>1 DEF Accounting
    <3>2. PICK l \in Backwards(t) : x = Gradient(t)[l]
      BY <2>9, <3>1 DEF Account
    <3>3. l \in DOMAIN Order(t) /\ x = Key(Node(t, l))
      BY <3>2 DEF Backwards, Executed, Gradient
    <3>4. /\ i \in DOMAIN conf.order[s] /\ l \in DOMAIN conf.order[t]
          /\ conf.order[s][i].type \in {"F", "B", "BW"}
          /\ Key(conf.order[s][i]) = Key(conf.order[t][l])
      BY <2>6, <3>3 DEF Order, Node
    <3> QED
      BY <1>1, <2>9, <3>4, ComputedOnce
  <2>10. x \notin Accum
    BY <2>4, <2>9 DEF Accum
  <2> QED
    BY <2>7, <2>8, <2>10, Mapping
<1> HIDE DEF S
<1>7. CASE S = {}
  BY <1>2, <1>5, <1>7
<1>8. CASE S # {}
  BY <1>2, <1>5, <1>6, <1>8 DEF Dataflow!Next, Dataflow!Accumulate, Done, Accum
<1> QED
  BY <1>7, <1>8

LEMMA StepRefines == Sound /\ [Next]_vars => [Dataflow!Next]_Dataflow!vars
<1> SUFFICES ASSUME Sound, [Next]_vars
             PROVE  Dataflow!Next \/ UNCHANGED <<WorkOf(conf), Done, Accum>>
  BY DEF Dataflow!vars, Done, Accum
<1>1. Inv
  BY DEF Sound
<1>2. CASE \E s \in Stage : Computes(s)
  <2>1. PICK s \in Stage : Computes(s)
    BY <1>2
  <2>2. grads' = grads \/ AccumulatesOwn(s)
    <3>1. ASSUME NEW t \in Stage, AccumulatesOwn(t) PROVE t = s
      BY <1>1, <2>1, <3>1, OneComputes DEF AccumulatesOwn, Computes
    <3>2. ASSUME NEW t \in Stage, AccumulatesQueued(t) PROVE FALSE
      BY <2>1, <3>2 DEF AccumulatesQueued
    <3> QED
      BY <1>1, <3>1, <3>2, GradsStep
  <2> QED
    BY <2>1, <2>2, ComputeRefines
<1>3. CASE \A s \in Stage : ~ Computes(s)
  <2>1. Done' = Done
    BY <1>1, <1>3, DoneStays
  <2>2. WorkOf(conf)' = WorkOf(conf)
    <3>1. conf' = conf
      BY <1>1, StepCases DEF Waits, Passes, Computes, Adds, Transfers
    <3> QED
      BY <3>1
  <2>3. CASE grads' = grads
    BY <2>1, <2>2, <2>3 DEF Accum
  <2>4. ASSUME NEW s \in Stage, AccumulatesQueued(s)
        PROVE  Dataflow!Next \/ UNCHANGED <<WorkOf(conf), Done, Accum>>
    BY <2>4, AccumulateRefines
  <2> QED
    BY <1>1, <1>3, <2>3, <2>4, GradsStep DEF AccumulatesOwn
<1> QED
  BY <1>2, <1>3

(* The runtime implements the abstract iteration: whatever the interleaving   *)
(* of the stages and of the network, each computation of the orders runs at   *)
(* most once, after those it depends on wherever they ran and on their        *)
(* results, and each weight gradient is accumulated at most once, after its   *)
(* backward.                                                                  *)
THEOREM DataflowImplemented == Spec => ImplementsDataflow
<1>1. Init => Sound /\ Dataflow!Init
  BY SoundInit, InitRefines
<1>2. Sound /\ [Next]_vars => Sound' /\ [Dataflow!Next]_Dataflow!vars
  BY SoundStep, StepRefines
<1> QED
  BY <1>1, <1>2, PTL DEF Spec, ImplementsDataflow, Dataflow!Spec

-------------------------------------------------------------------------------
(* The end of an iteration.                                                   *)

(* The handlers of stage s.                                                   *)
Handler(s) ==
  \/ ForwardF(s) \/ BackwardB(s) \/ WeightW(s)
  \/ AddCommunication(s) \/ IgnorePostValidation(s) \/ Finish(s)

(* What the other steps leave alone of a stage.                               *)
Left(s) ==
  /\ it'[s] = it[s] /\ status'[s] = status[s]
  /\ wgrads'[s] = wgrads[s] /\ cleared'[s] = cleared[s] /\ acts'[s] = acts[s]

LEMMA WeightWLeaves ==
  ASSUME Inv, NEW s \in Stage, WeightW(s)
  PROVE  /\ conf' = conf /\ \A t \in Stage : t # s => Left(t)
         /\ status'[s] \in {status[s], "raised"}
<1>1. CASE Skip(s) \/ Raise(s)
  BY <1>1 DEF Skip, Raise, Advance, weights, Left, Inv, TypeOK
<1>2. ASSUME NEW q, NEW k, TakesW(s, k, q)
      PROVE  /\ conf' = conf /\ status' = status /\ acts' = acts
             /\ \A t \in Stage : t # s => it'[t] = it[t] /\ wgrads'[t] = wgrads[t]
  BY <1>2 DEF TakesW, Advance, Inv, TypeOK
<1>3. \A t \in Stage : t # s => cleared'[t] = cleared[t]
  BY DEF WeightW, Skip, Raise, weights, Inv, TypeOK
<1> QED
  BY <1>1, <1>2, <1>3, WeightWCases DEF Left

LEMMA HandlerLeaves ==
  ASSUME Inv, NEW s \in Stage, Handler(s)
  PROVE  /\ conf' = conf /\ status[s] = "running"
         /\ \A t \in Stage : t # s => Left(t)
         /\ status'[s] = "done" => Finish(s)
<1>1. status[s] = "running"
  BY DEF Handler, ForwardF, BackwardB, WeightW, AddCommunication, IgnorePostValidation,
         AtNode, Finish
<1>2. CASE Skip(s) \/ Raise(s)
  BY <1>1, <1>2 DEF Skip, Raise, Advance, weights, Left, Inv, TypeOK
<1>3. CASE ForwardF(s) /\ ~ Raise(s)
  BY <1>1, <1>3 DEF ForwardF, Advance, weights, Left, Inv, TypeOK
<1>4. CASE BackwardB(s) /\ ~ Skip(s) /\ ~ Raise(s)
  BY <1>1, <1>4 DEF BackwardB, Advance, Left, Inv, TypeOK
<1>5. CASE WeightW(s)
  BY <1>1, <1>5, WeightWLeaves
<1>6. CASE AddCommunication(s) /\ ~ Skip(s) /\ ~ Raise(s)
  BY <1>1, <1>6 DEF AddCommunication, Advance, weights, Left, Inv, TypeOK
<1>7. CASE Finish(s)
  BY <1>1, <1>7 DEF Finish, weights, Left, Inv, TypeOK
<1> QED
  BY <1>2, <1>3, <1>4, <1>5, <1>6, <1>7 DEF Handler, IgnorePostValidation

LEMMA StageHandlers ==
  ASSUME Inv, [Next]_vars
  PROVE  \/ conf' = conf /\ \A s \in Stage : Left(s)
         \/ \E s \in Stage : Handler(s)
<1>1. CASE UNCHANGED vars \/ Terminating
  BY <1>1 DEF Terminating, vars, weights, Left
<1>2. ASSUME NEW s \in Stage, NEW t \in Stage, Transfer(s, t)
      PROVE  conf' = conf /\ \A u \in Stage : Left(u)
  BY <1>2 DEF Transfer, weights, Left
<1> QED
  BY <1>1, <1>2 DEF Next, Handler

(* A stage that is done has passed the whole of its order, and its queues of  *)
(* weight gradients are empty (assert_empty).                                 *)
AtEnd ==
  \A s \in Stage : status[s] = "done" =>
    /\ it[s] = Len(Order(s)) + 1
    /\ \A q \in Queues : wgrads[s][q] = <<>>

LEMMA AtEndStep == Inv /\ AtEnd /\ [Next]_vars => AtEnd'
<1> SUFFICES ASSUME Inv, AtEnd, [Next]_vars, NEW s \in Stage, status'[s] = "done"
             PROVE  /\ conf' = conf
                    /\ it'[s] = Len(Order(s)) + 1
                    /\ \A q \in Queues : wgrads'[s][q] = <<>>
  BY DEF AtEnd, Order
<1>1. ASSUME conf' = conf, Left(s)
      PROVE  it'[s] = Len(Order(s)) + 1 /\ \A q \in Queues : wgrads'[s][q] = <<>>
  BY <1>1 DEF AtEnd, Left
<1>2. ASSUME Finish(s)
      PROVE  it'[s] = Len(Order(s)) + 1 /\ \A q \in Queues : wgrads'[s][q] = <<>>
  <2>1. UNCHANGED <<it, wgrads>> /\ it[s] = Len(Order(s)) + 1
    BY <1>2 DEF Finish, weights
  <2>2. \A q \in Queues : wgrads[s][q] = <<>>
    BY <1>2 DEF Finish, Inv, TypeOK, Queues
  <2> QED
    BY <2>1, <2>2
<1>3. ASSUME NEW t \in Stage, Handler(t)
      PROVE  conf' = conf /\ (Left(s) \/ Finish(s))
  BY <1>3, HandlerLeaves
<1> QED
  BY <1>1, <1>2, <1>3, StageHandlers

(* The queues of activations are not used in an evaluation.                   *)
NoActivations ==
  conf.forwardOnly =>
    \A s \in Stage : \A k \in Chunks : acts[s][k] = [ready |-> <<>>, tmp |-> <<>>]

LEMMA NoActivationsStep == Inv /\ NoActivations /\ [Next]_vars => NoActivations'
<1> SUFFICES ASSUME Inv, [Next]_vars, conf.forwardOnly
             PROVE  conf' = conf /\ acts' = acts
  <2>1. Inv /\ [Next]_vars => conf' = conf
    BY StepCases DEF Waits, Passes, Computes, Adds, Transfers
  <2> QED
    BY <2>1 DEF NoActivations
<1>1. ASSUME NEW s \in Stage, Computes(s) PROVE conf' = conf /\ acts' = acts
  <2>1. Node(s, it[s]).type = "F"
    BY <1>1 DEF Computes, Live, SkippedIn, Node
  <2> QED
    BY <1>1, <2>1 DEF Computes
<1> QED
  BY <1>1, StepCases DEF Waits, Passes, Adds, Transfers

(* At the end of its order a stage has used up what it was given ...          *)
LEMMA BuffersEmpty ==
  ASSUME Inv, Matched, NEW s \in Stage, it[s] = Len(Order(s)) + 1, NEW b \in Buffers
  PROVE  buf[s][b] = <<>>
<1> SUFFICES ASSUME buf[s][b] # <<>> PROVE FALSE
  OBVIOUS
<1>1. buf[s][b] \in Seq(Nat) /\ conf \in Conf
  BY StageFacts
<1>2. 1 \in 1 .. Len(buf[s][b])
  BY <1>1
<1>3. /\ buf[s][b][1] \in Givers(conf, s, b)
      /\ \A i \in Takers(conf, s, b) : i < it[s] => T(s, i) # G(s, buf[s][b][1])
  BY <1>2 DEF Matched, BuffersOK, Holds
<1>4. PICK i \in Takers(conf, s, b) : G(s, buf[s][b][1]) = T(s, i)
  BY <1>1, <1>3, BufferPairs
<1>5. i < it[s]
  BY <1>4, StageFacts DEF Takers
<1> QED
  BY <1>3, <1>4, <1>5

(* ... and every activation ...                                               *)
LEMMA ActivationsUsed ==
  ASSUME Inv, ActivationsOK, NoActivations, NEW s \in Stage, it[s] = Len(Order(s)) + 1,
         NEW k \in Chunks
  PROVE  acts[s][k] = [ready |-> <<>>, tmp |-> <<>>]
<1> DEFINE q == acts[s][k]
<1>1. CASE conf.forwardOnly
  BY <1>1 DEF NoActivations
<1>2. CASE ~ conf.forwardOnly
  <2>1. QueueHolds(s, k, q, it[s]) /\ conf \in Conf
    BY <1>2, StageFacts DEF ActivationsOK
  <2>2. \A j : ~ Undone(s, k, j, it[s])
    <3> SUFFICES ASSUME NEW j, Undone(s, k, j, it[s]) PROVE FALSE
      OBVIOUS
    <3>1. PICK i \in Bs(s, k) : Mate(s, i, j)
      BY <1>2, <2>1, Mates DEF Undone
    <3>2. i < it[s]
      BY <2>1, ForwardTypes, StageFacts
    <3> QED
      BY <3>1, <3>2 DEF Undone
  <2>3. \A g, c : ~ Cell(q, g, c)
    BY <2>1, <2>2 DEF QueueHolds, OnlyUndone
  <2>4. /\ q \in [ready : Seq(Seq(Tensors)), tmp : Seq(Tensors)]
        /\ \A g \in 1 .. Len(q.ready) : q.ready[g] # <<>>
    BY DEF Inv, StacksFull, IsSpQueue
  <2> HIDE DEF q
  <2>5. q.tmp = <<>>
    <3> SUFFICES ASSUME q.tmp # <<>> PROVE FALSE
      OBVIOUS
    <3>1. 1 \in 1 .. Len(q.tmp) /\ Len(q.ready) + 1 \in 1 .. Len(q.ready) + 1
      BY <2>4
    <3>2. Cell(q, Len(q.ready) + 1, 1)
      BY <3>1 DEF Cell, StackOf
    <3> QED
      BY <2>3, <3>2
  <2>6. q.ready = <<>>
    <3> SUFFICES ASSUME q.ready # <<>> PROVE FALSE
      OBVIOUS
    <3>1. 1 \in 1 .. Len(q.ready) /\ 1 \in 1 .. Len(q.ready) + 1 /\ 1 # Len(q.ready) + 1
      BY <2>4
    <3>2. q.ready[1] \in Seq(Tensors) /\ q.ready[1] # <<>>
      BY <2>4, <3>1
    <3>3. 1 \in 1 .. Len(q.ready[1])
      BY <3>2
    <3>4. Cell(q, 1, 1)
      BY <3>1, <3>3 DEF Cell, StackOf
    <3> QED
      BY <2>3, <3>4
  <2>7. q = [ready |-> <<>>, tmp |-> <<>>]
    BY <2>4, <2>5, <2>6
  <2> QED
    BY <2>7 DEF q
<1> QED
  BY <1>1, <1>2

(* ... has flushed every communication ...                                    *)
LEMMA BatchFlushed ==
  ASSUME Inv, Matched, NEW s \in Stage, it[s] = Len(Order(s)) + 1
  PROVE  batch[s] = {}
<1>1. ~ LiveComm(s, it[s])
  BY StageFacts DEF LiveComm
<1> QED
  BY <1>1, BatchBeforeComm DEF Matched, Groups

(* ... and has accumulated the gradient of every backward.                    *)
LEMMA GradientsAccumulated ==
  ASSUME Inv, Accounting, NEW s \in Stage, it[s] = Len(Order(s)) + 1, ~ conf.forwardOnly,
         \A q \in Queues : wgrads[s][q] = <<>>
  PROVE  grads[s] = {Key(Node(s, i)) : i \in {j \in DOMAIN Order(s) : IsBackward(Node(s, j))}}
<1>1. Account(Queues, Gradient(s), GradQueue(s), Backwards(s), wgrads[s], grads[s])
  BY DEF Accounting
<1>2. Backwards(s) = {j \in DOMAIN Order(s) : IsBackward(Node(s, j))}
  BY StageFacts DEF Backwards, Executed, IsBackward, Skipped, SkippedIn
<1>3. \A x \in grads[s] : \E i \in Backwards(s) : x = Gradient(s)[i]
  BY <1>1 DEF Account
<1>4. \A i \in Backwards(s) : Gradient(s)[i] \in grads[s]
  <2>1. \A q \in Queues : DOMAIN wgrads[s][q] = {}
    OBVIOUS
  <2> QED
    BY <1>1, <2>1 DEF Account
<1>5. \A i \in Backwards(s) : Gradient(s)[i] = Key(Node(s, i))
  BY <1>2 DEF Gradient
<1>6. grads[s] = {Key(Node(s, i)) : i \in Backwards(s)}
  BY <1>3, <1>4, <1>5
<1> QED
  BY <1>2, <1>6

Ending == Sound /\ AtEnd /\ NoActivations

LEMMA EndingInvariant == (Init => Ending) /\ (Ending /\ [Next]_vars => Ending')
<1>1. Init => AtEnd /\ NoActivations
  BY DEF Init, AtEnd, NoActivations
<1> QED
  BY <1>1, SoundInit, SoundStep, AtEndStep, NoActivationsStep DEF Ending, Sound

(* When a stage is done nothing is left of an iteration: every tensor that it *)
(* was handed or has produced is used up, every communication is flushed, and *)
(* in training the gradient of every backward is accumulated.                 *)
THEOREM FinishesClean == Spec => []CleanFinish
<1>1. Ending => CleanFinish
  <2> SUFFICES ASSUME Ending, NEW s \in Stage, status[s] = "done"
               PROVE  /\ \A b \in Buffers : buf[s][b] = <<>>
                      /\ \A k \in Chunks : acts[s][k] = [ready |-> <<>>, tmp |-> <<>>]
                      /\ batch[s] = {}
                      /\ conf.forwardOnly \/ grads[s] = {Key(Node(s, i)) : i \in
                           {j \in DOMAIN Order(s) : IsBackward(Node(s, j))}}
    BY DEF CleanFinish
  <2>1. it[s] = Len(Order(s)) + 1 /\ \A q \in Queues : wgrads[s][q] = <<>>
    BY DEF Ending, AtEnd
  <2> QED
    BY <2>1, BuffersEmpty, ActivationsUsed, BatchFlushed, GradientsAccumulated DEF Ending, Sound
<1> QED
  BY <1>1, EndingInvariant, PTL DEF Spec

-------------------------------------------------------------------------------
(* No stage raises.                                                           *)

(* A queue of weight gradients when x is next.                                *)
QueueOK(s, q, w, x) ==
  IF \E c \in Clearing(conf, s, q) : c < x THEN w = <<>>
  ELSE Len(w) + NumberBefore(Pops(conf, s, q), x) = NumberBefore(Deferrals(conf, s, q), x)

WeightsOK ==
  \A s \in Stage :
    /\ \A k \in Chunks : k \in cleared[s] <=> \E c \in Clears(conf, s, k) : c < it[s]
    /\ \A q \in Queues : QueueOK(s, q, wgrads[s][q], it[s])

LEMMA WeightNodeFacts ==
  ASSUME conf \in Conf, NEW s \in Stage, NEW q
  PROVE  /\ Deferrals(conf, s, q) \in SUBSET Nat /\ Pops(conf, s, q) \in SUBSET Nat
         /\ Deferrals(conf, s, q) \subseteq DOMAIN Order(s)
         /\ Pops(conf, s, q) \subseteq DOMAIN Order(s)
         /\ Clearing(conf, s, q) \subseteq DOMAIN Order(s)
         /\ Clearing(conf, s, q) \in SUBSET Nat
         /\ \A k : Clears(conf, s, k) \in SUBSET Nat
BY PositionsAreNumbers DEF Deferrals, Pops, Clears, Clearing, WeightNodes, Order

LEMMA InTime ==
  ASSUME conf \in Conf, NEW s \in Stage, NEW q \in Queues
  PROVE  /\ \A i \in Pops(conf, s, q) :
              NumberBefore(Pops(conf, s, q), i) < NumberBefore(Deferrals(conf, s, q), i)
         /\ \A c \in Clearing(conf, s, q), i \in Deferrals(conf, s, q) \cup Pops(conf, s, q) : i < c
         /\ Clearing(conf, s, q) = {} =>
              Cardinality(Deferrals(conf, s, q)) = Cardinality(Pops(conf, s, q))
BY WeightsInTime DEF Queues

(* What the node at i does to a queue.                                        *)
LEMMA QueueKept ==
  ASSUME conf \in Conf, NEW s \in Stage, NEW q \in Queues, NEW i \in Nat,
         NEW w \in Seq(Tensors), NEW v, QueueOK(s, q, w, i),
         \/ /\ i \notin Deferrals(conf, s, q) \cup Pops(conf, s, q) \cup Clearing(conf, s, q)
            /\ v = w
         \/ i \in Deferrals(conf, s, q) /\ i \notin Pops(conf, s, q) /\ \E x : v = Append(w, x)
         \/ i \in Pops(conf, s, q) /\ i \notin Deferrals(conf, s, q) /\ w # <<>> /\ v = Tail(w)
         \/ i \in Clearing(conf, s, q) /\ v = <<>>
  PROVE  QueueOK(s, q, v, i + 1)
<1> DEFINE P == Pops(conf, s, q)
           D == Deferrals(conf, s, q)
           C == Clearing(conf, s, q)
<1>1. /\ \A c \in C, j \in D \cup P : j < c
      /\ P \in SUBSET Nat /\ D \in SUBSET Nat /\ C \in SUBSET Nat
  BY InTime, WeightNodeFacts
<1>2. \A S \in SUBSET Nat :
        /\ NumberBefore(S, i) \in Nat
        /\ NumberBefore(S, i + 1) = IF i \in S THEN NumberBefore(S, i) + 1 ELSE NumberBefore(S, i)
  BY OneMoreBefore
<1>3. IF \E c \in C : c < i THEN w = <<>>
      ELSE Len(w) + NumberBefore(P, i) = NumberBefore(D, i)
  BY DEF QueueOK
<1>4. SUFFICES IF \E c \in C : c < i + 1 THEN v = <<>>
               ELSE Len(v) + NumberBefore(P, i + 1) = NumberBefore(D, i + 1)
  BY DEF QueueOK
<1> HIDE DEF P, D, C
<1>5. CASE i \notin D \cup P \cup C /\ v = w
  <2>1. (\E c \in C : c < i + 1) <=> (\E c \in C : c < i)
    BY <1>1, <1>5
  <2> QED
    BY <1>1, <1>2, <1>3, <1>5, <2>1
<1>6. CASE i \in D /\ i \notin P /\ \E x : v = Append(w, x)
  <2>1. ~ (\E c \in C : c < i + 1) /\ ~ (\E c \in C : c < i)
    BY <1>1, <1>6
  <2>2. Len(v) = Len(w) + 1 /\ Len(w) \in Nat
    BY <1>6
  <2>3. /\ NumberBefore(D, i + 1) = NumberBefore(D, i) + 1
        /\ NumberBefore(P, i + 1) = NumberBefore(P, i)
    BY <1>1, <1>2, <1>6
  <2>4. NumberBefore(D, i) \in Nat /\ NumberBefore(P, i) \in Nat
    BY <1>1, <1>2
  <2>5. Len(w) + NumberBefore(P, i) = NumberBefore(D, i)
    BY <1>3, <2>1
  <2>6. Len(v) + NumberBefore(P, i + 1) = NumberBefore(D, i + 1)
    BY <2>2, <2>3, <2>4, <2>5
  <2> QED
    BY <2>1, <2>6
<1>7. CASE i \in P /\ i \notin D /\ w # <<>> /\ v = Tail(w)
  <2>1. ~ (\E c \in C : c < i + 1) /\ ~ (\E c \in C : c < i)
    BY <1>1, <1>7
  <2>2. Len(v) = Len(w) - 1 /\ Len(w) \in Nat
    BY <1>7
  <2>3. /\ NumberBefore(D, i + 1) = NumberBefore(D, i)
        /\ NumberBefore(P, i + 1) = NumberBefore(P, i) + 1
    BY <1>1, <1>2, <1>7
  <2>4. NumberBefore(D, i) \in Nat /\ NumberBefore(P, i) \in Nat
    BY <1>1, <1>2
  <2>5. Len(w) + NumberBefore(P, i) = NumberBefore(D, i)
    BY <1>3, <2>1
  <2>6. Len(v) + NumberBefore(P, i + 1) = NumberBefore(D, i + 1)
    BY <2>2, <2>3, <2>4, <2>5
  <2> QED
    BY <2>1, <2>6
<1>8. CASE i \in C /\ v = <<>>
  BY <1>8
<1> QED
  BY <1>5, <1>6, <1>7, <1>8 DEF P, D, C

(* A W that is to pop finds a gradient ...                                    *)
LEMMA PopFinds ==
  ASSUME conf \in Conf, NEW s \in Stage, NEW q \in Queues,
         NEW w \in Seq(Tensors), NEW i \in Pops(conf, s, q), QueueOK(s, q, w, i)
  PROVE  w # <<>>
<1>1. i \in Nat /\ Clearing(conf, s, q) \in SUBSET Nat
  BY WeightNodeFacts
<1>2. ~ \E c \in Clearing(conf, s, q) : c < i
  BY <1>1, InTime
<1>3. /\ NumberBefore(Pops(conf, s, q), i) < NumberBefore(Deferrals(conf, s, q), i)
      /\ NumberBefore(Pops(conf, s, q), i) \in Nat /\ NumberBefore(Deferrals(conf, s, q), i) \in Nat
  BY <1>1, InTime, WeightNodeFacts, OneMoreBefore
<1>4. Len(w) + NumberBefore(Pops(conf, s, q), i) = NumberBefore(Deferrals(conf, s, q), i)
  BY <1>2 DEF QueueOK
<1> QED
  BY <1>3, <1>4

(* ... and at the end there is none left.                                     *)
LEMMA QueueEmptyAtEnd ==
  ASSUME conf \in Conf, NEW s \in Stage, NEW q \in Queues,
         NEW w \in Seq(Tensors), QueueOK(s, q, w, Len(Order(s)) + 1)
  PROVE  w = <<>>
<1> DEFINE x == Len(Order(s)) + 1
<1>1. DOMAIN Order(s) = 1 .. Len(Order(s)) /\ Len(Order(s)) \in Nat
  BY PositionsAreNumbers
<1>2. /\ {i \in Pops(conf, s, q) : i < x} = Pops(conf, s, q)
      /\ {i \in Deferrals(conf, s, q) : i < x} = Deferrals(conf, s, q)
      /\ \A c \in Clearing(conf, s, q) : c < x
  BY <1>1, WeightNodeFacts
<1>3. CASE Clearing(conf, s, q) # {}
  BY <1>2, <1>3 DEF QueueOK
<1>4. CASE Clearing(conf, s, q) = {}
  <2>1. NumberBefore(Deferrals(conf, s, q), x) = NumberBefore(Pops(conf, s, q), x)
    BY <1>2, <1>4, InTime DEF NumberBefore
  <2>2. NumberBefore(Pops(conf, s, q), x) \in Nat
    BY <1>1, WeightNodeFacts, OneMoreBefore
  <2>3. Len(w) + NumberBefore(Pops(conf, s, q), x) = NumberBefore(Deferrals(conf, s, q), x)
    BY <1>4 DEF QueueOK
  <2> QED
    BY <2>1, <2>2, <2>3
<1> QED
  BY <1>3, <1>4

(* A node finds what it takes from a buffer ...                               *)
LEMMA FindsOperand ==
  ASSUME Inv, Matched, NEW s \in Stage, it[s] \in Live(conf, s),
         NEW b, b = TakesFrom(s, Node(s, it[s]))
  PROVE  ~ Missing(s, b)
<1> DEFINE i == it[s]
<1> SUFFICES ASSUME b # NoBuffer PROVE buf[s][b] # <<>>
  BY DEF Missing
<1>1. conf \in Conf /\ b \in Buffers /\ i \in Takers(conf, s, b) /\ buf[s][b] \in Seq(Nat)
  BY StageFacts, UsesTypes DEF Takers, Node
<1>2. PICK j \in Givers(conf, s, b) : G(s, j) = T(s, i)
  BY <1>1, BufferPairs
<1>3. j < i
  BY <1>1, <1>2, GivenInTime DEF G, T, Node
<1>4. \A x \in Takers(conf, s, b) : x < i => T(s, x) # G(s, j)
  <2>1. ~ j < j
    BY <1>1, PositionsAreNumbers
  <2> QED
    BY <1>1, <1>2, <2>1, BufferPairs
<1>5. Holds(s, b, buf[s][b], i, i)
  BY <1>1 DEF Matched, BuffersOK
<1>6. \E c \in 1 .. Len(buf[s][b]) : buf[s][b][c] = j
  BY <1>3, <1>4, <1>5 DEF Holds
<1> QED
  BY <1>6

(* ... and a backward its activations.                                        *)
LEMMA FindsActivation ==
  ASSUME Inv, ActivationsOK, NEW s \in Stage, it[s] \in Live(conf, s),
         Node(s, it[s]).type \in {"B", "BW"}
  PROVE  acts[s][Node(s, it[s]).chunk].ready # <<>>
<1> DEFINE i == it[s]
           k == Node(s, i).chunk
           q == acts[s][k]
<1>1. conf \in Conf /\ ~ conf.forwardOnly /\ k \in Chunks /\ i \in Bs(s, k) /\ i \in Nat
  <2>1. Node(s, i) \in Nodes
    BY UsesTypes
  <2> QED
    BY <2>1, StageFacts DEF Bs, BackwardsOf, IsBackward, Live, SkippedIn, Node, Nodes
<1>2. QueueHolds(s, k, q, i)
  BY <1>1 DEF ActivationsOK
<1>3. PICK j \in Fs(s, k) : Mate(s, i, j)
  BY <1>1, Mates
<1>4. \A l \in Fs(s, k) : Mb(s, l) = Mb(s, j) => l < i
  <2>1. Mb(s, i) = Mb(s, j)
    BY <1>3 DEF Mate, SamePass, Mb, Node
  <2> QED
    BY <1>1, <2>1, ForwardsInTime DEF Fs, Bs, Mb, Node
<1>5. Undone(s, k, j, i)
  BY <1>1, <1>3, <1>4, OneBackward, ForwardTypes DEF Undone
<1> HIDE DEF q
<1>6. PICK g, c : Cell(q, g, c) /\ StackOf(q, g)[c] = Key(Node(s, j))
  BY <1>2, <1>5 DEF QueueHolds, AllUndone, InQueue
<1>7. g # Len(q.ready) + 1
  BY <1>2, <1>3, <1>4, <1>6 DEF QueueHolds, LastIsOpen, Open
<1>8. g \in 1 .. Len(q.ready) + 1 /\ q.ready \in Seq(Seq(Tensors))
  <2>1. q \in [ready : Seq(Seq(Tensors)), tmp : Seq(Tensors)]
    BY <1>1 DEF q, Inv, StacksFull, IsSpQueue
  <2> QED
    BY <1>6, <2>1 DEF Cell
<1>9. q.ready # <<>>
  BY <1>7, <1>8
<1> QED
  BY <1>9 DEF q

LEMMA LocalAllowed ==
  ASSUME Inv, NEW s \in Stage, it[s] \in Live(conf, s), Node(s, it[s]).type \in {"F", "B", "BW"}
  PROVE  LocalOK(s, Node(s, it[s]))
BY LocalsAllowed, StageFacts DEF Node

(* The handlers, when nothing is missing.                                     *)
LEMMA NeverRaises ==
  ASSUME Inv, Matched, ActivationsOK, WeightsOK, NEW s \in Stage, Handler(s)
  PROVE  status'[s] # "raised"
<1> DEFINE i == it[s]
           n == Node(s, i)
<1>1. \A q \in Queues : wgrads[s][q] \in Seq(Tensors) /\ QueueOK(s, q, wgrads[s][q], i)
  BY DEF WeightsOK, Inv, TypeOK, Queues
<1>2. status \in [Stage -> {"running", "raised", "done"}] /\ conf \in Conf
  BY DEF Inv, TypeOK
<1>3. ASSUME status' = status PROVE status'[s] # "raised"
  BY <1>3, HandlerLeaves
<1>4. CASE ForwardF(s)
  <2>1. i \in DOMAIN Order(s) /\ n.type = "F" /\ ~ Skipped(n)
    BY <1>4 DEF ForwardF, AtNode, Skipped, SkippedIn, BackwardComm
  <2>2. i \in Live(conf, s)
    BY <2>1, IsLive
  <2>3. ~ Missing(s, Source(s, n)) /\ LocalOK(s, n)
    BY <2>1, <2>2, FindsOperand, UsesTypes, LocalAllowed
  <2> QED
    BY <1>3, <1>4, <2>3 DEF ForwardF
<1>5. CASE BackwardB(s)
  <2>1. i \in DOMAIN Order(s) /\ n.type \in {"B", "BW"}
    BY <1>5 DEF BackwardB, AtNode
  <2>2. CASE Skipped(n)
    BY <1>3, <1>5, <2>2 DEF BackwardB, Skip
  <2>3. CASE ~ Skipped(n)
    <3>1. i \in Live(conf, s)
      BY <2>1, <2>3, IsLive
    <3>2. ~ Missing(s, Source(s, n)) /\ LocalOK(s, n) /\ acts[s][n.chunk].ready # <<>>
      BY <2>1, <3>1, FindsOperand, UsesTypes, LocalAllowed, FindsActivation
    <3> QED
      BY <1>3, <1>5, <2>3, <3>2 DEF BackwardB
  <2> QED
    BY <2>2, <2>3
<1>6. CASE WeightW(s)
  <2> DEFINE q == <<n.chunk, n.seq>>
  <2>1. i \in DOMAIN Order(s) /\ n.type = "W" /\ n \in Nodes
    BY <1>6, NodeIsNode, <1>2 DEF WeightW, AtNode
  <2>2. CASE ~ Skipped(n) /\ PopsOne(s, i)
    <3>1. q \in Queues
      BY <2>1 DEF Queues, Nodes
    <3>2. i \in Pops(conf, s, q)
      BY <2>1, <2>2 DEF Pops, WeightNodes, OfQueue, PopsOne, Skipped, Node, Order
    <3>3. wgrads[s][q] # <<>>
      BY <1>1, <1>2, <3>1, <3>2, PopFinds
    <3> QED
      BY <1>3, <1>6, <2>2, <3>3 DEF WeightW
  <2>3. CASE Skipped(n) \/ ~ PopsOne(s, i)
    BY <1>3, <1>6, <2>3 DEF WeightW, Skip
  <2> QED
    BY <2>2, <2>3
<1>7. CASE AddCommunication(s)
  <2>1. i \in DOMAIN Order(s) /\ n.type \in CommTypes
    BY <1>7 DEF AddCommunication, AtNode
  <2>2. CASE Skipped(n) \/ ~ IsSend(n)
    BY <1>3, <1>7, <2>2 DEF AddCommunication, Skip
  <2>3. CASE ~ Skipped(n) /\ IsSend(n)
    <3>1. i \in Live(conf, s) /\ n.type \in SendTypes
      BY <2>1, <2>3, IsLive DEF IsSend, CommTypes, SendTypes, RecvTypes
    <3>2. ~ Missing(s, BufferMap(n))
      BY <3>1, FindsOperand, UsesTypes
    <3> QED
      BY <1>3, <1>7, <2>3, <3>2 DEF AddCommunication
  <2> QED
    BY <2>2, <2>3
<1>8. CASE IgnorePostValidation(s)
  BY <1>3, <1>8 DEF IgnorePostValidation, Skip
<1>9. CASE Finish(s)
  <2>1. \A q \in Queues : wgrads[s][q] = <<>>
    BY <1>1, <1>2, <1>9, QueueEmptyAtEnd DEF Finish
  <2> QED
    BY <1>2, <1>9, <2>1 DEF Finish, Queues
<1> QED
  BY <1>4, <1>5, <1>6, <1>7, <1>8, <1>9 DEF Handler

(* What WeightsOK says of a stage after a step.                               *)
WeightsAfter(s) ==
  /\ \A k \in Chunks : k \in cleared'[s] <=> \E c \in Clears(conf, s, k) : c < it'[s]
  /\ \A q \in Queues : QueueOK(s, q, wgrads'[s][q], it'[s])

LEMMA WeightFacts ==
  ASSUME Inv, WeightsOK, NEW s \in Stage
  PROVE  /\ conf \in Conf /\ it[s] \in Nat
         /\ \A q \in Queues : wgrads[s][q] \in Seq(Tensors) /\ QueueOK(s, q, wgrads[s][q], it[s])
         /\ \A k \in Chunks : k \in cleared[s] <=> \E c \in Clears(conf, s, k) : c < it[s]
         /\ \A k : Clears(conf, s, k) \in SUBSET Nat
BY StageFacts, WeightNodeFacts, ZenonT(30) DEF WeightsOK, Inv, TypeOK, Queues

(* A node that has nothing to do with the weight gradients, or whose chunk is *)
(* cleared already.                                                           *)
LEMMA PassedWeights ==
  ASSUME Inv, WeightsOK, NEW s \in Stage, Advance(s),
         wgrads'[s] = wgrads[s], cleared'[s] = cleared[s],
         \A q \in Queues : /\ it[s] \notin Deferrals(conf, s, q)
                           /\ it[s] \notin Pops(conf, s, q)
                           /\ it[s] \notin Clearing(conf, s, q),
         \A k \in Chunks : it[s] \in Clears(conf, s, k) => k \in cleared[s]
  PROVE  WeightsAfter(s)
<1>1. it'[s] = it[s] + 1
  BY AdvancedStage
<1>2. \A k \in Chunks : k \in cleared'[s] <=> \E c \in Clears(conf, s, k) : c < it[s] + 1
  <2>1. \A k \in Chunks : \A c \in Clears(conf, s, k) : c < it[s] + 1 <=> c < it[s] \/ c = it[s]
    BY WeightFacts
  <2> QED
    BY <2>1, WeightFacts
<1>3. \A q \in Queues : QueueOK(s, q, wgrads[s][q], it[s] + 1)
  BY WeightFacts, QueueKept
<1> QED
  BY <1>1, <1>2, <1>3 DEF WeightsAfter

LEMMA NoWeights ==
  ASSUME Inv, WeightsOK, NEW s \in Stage, Advance(s),
         wgrads'[s] = wgrads[s], cleared'[s] = cleared[s],
         Node(s, it[s]).type # "W",
         \A q \in Queues : it[s] \notin Deferrals(conf, s, q)
  PROVE  WeightsAfter(s)
<1>1. it[s] \notin WeightNodes(conf, s)
  BY DEF WeightNodes, Node
<1>2. /\ \A q : it[s] \notin Pops(conf, s, q) /\ it[s] \notin Clearing(conf, s, q)
      /\ \A k : it[s] \notin Clears(conf, s, k)
  BY <1>1 DEF Pops, Clearing, Clears
<1> QED
  BY <1>2, PassedWeights

LEMMA BackwardBWeights ==
  ASSUME Inv, WeightsOK, NEW s \in Stage, BackwardB(s), ~ Raise(s)
  PROVE  WeightsAfter(s)
<1> DEFINE i == it[s]
           n == Node(s, i)
           q == <<n.chunk, n.seq>>
<1>1. /\ i \in DOMAIN Order(s) /\ n.type \in {"B", "BW"} /\ n \in Nodes
      /\ q \in Queues /\ Advance(s)
  <2>1. i \in DOMAIN Order(s) /\ n.type \in {"B", "BW"} /\ Advance(s)
    BY DEF BackwardB, AtNode, Skip
  <2>2. n \in Nodes
    BY <2>1, NodeIsNode, StageFacts
  <2> QED
    BY <2>1, <2>2 DEF Queues, Nodes
<1>2. CASE Skipped(n)
  <2>1. \A r \in Queues : i \notin Deferrals(conf, s, r)
    BY <1>2, SkippedNotLive DEF Deferrals
  <2>2. wgrads' = wgrads /\ cleared' = cleared
    BY <1>2 DEF BackwardB, Skip, weights
  <2> QED
    BY <1>1, <2>1, <2>2, NoWeights
<1>3. CASE ~ Skipped(n) /\ ~ (n.type = "B" /\ conf.splitSupported)
  <2>1. \A r \in Queues : i \notin Deferrals(conf, s, r)
    BY <1>3 DEF Deferrals, Node
  <2>2. wgrads' = wgrads /\ cleared' = cleared
    BY <1>3 DEF BackwardB
  <2> QED
    BY <1>1, <2>1, <2>2, NoWeights
<1>4. CASE ~ Skipped(n) /\ n.type = "B" /\ conf.splitSupported
  <2>1. i \in Live(conf, s)
    BY <1>1, <1>4, IsLive
  <2>2. /\ wgrads' = [wgrads EXCEPT ![s][q] = Append(wgrads[s][q], Key(n))]
        /\ cleared' = cleared
    BY <1>4 DEF BackwardB
  <2>3. /\ wgrads'[s][q] = Append(wgrads[s][q], Key(n))
        /\ \A r \in Queues : r # q => wgrads'[s][r] = wgrads[s][r]
    BY <1>1, <2>2 DEF Inv, TypeOK, Queues
  <2>4. i \in Deferrals(conf, s, q) /\ \A r : r # q => i \notin Deferrals(conf, s, r)
    BY <1>4, <2>1 DEF Deferrals, OfQueue, Node
  <2>5. /\ \A r : i \notin Pops(conf, s, r) /\ i \notin Clearing(conf, s, r)
        /\ \A k : i \notin Clears(conf, s, k)
    BY <1>4 DEF Pops, Clearing, Clears, WeightNodes, Node
  <2>6. \A r \in Queues : QueueOK(s, r, wgrads'[s][r], i + 1)
    BY <1>1, <2>3, <2>4, <2>5, WeightFacts, QueueKept
  <2>7. \A k \in Chunks : k \in cleared'[s] <=> \E c \in Clears(conf, s, k) : c < i + 1
    <3>1. \A k \in Chunks : \A c \in Clears(conf, s, k) : c < i + 1 <=> c < i
      BY <2>5, WeightFacts
    <3> QED
      BY <2>2, <3>1, WeightFacts
  <2> QED
    BY <1>1, <2>6, <2>7, AdvancedStage DEF WeightsAfter
<1> QED
  BY <1>2, <1>3, <1>4

LEMMA WeightWWeights ==
  ASSUME Inv, WeightsOK, NEW s \in Stage, WeightW(s), ~ Raise(s)
  PROVE  WeightsAfter(s)
<1> DEFINE i == it[s]
           n == Node(s, i)
           k == n.chunk
           q == <<k, n.seq>>
           w == wgrads[s][q]
<1>1. /\ i \in DOMAIN Order(s) /\ n.type = "W" /\ n \in Nodes
      /\ k \in Chunks /\ q \in Queues
  <2>1. i \in DOMAIN Order(s) /\ n.type = "W"
    BY DEF WeightW, AtNode
  <2>2. n \in Nodes
    BY <2>1, NodeIsNode, StageFacts
  <2> QED
    BY <2>1, <2>2 DEF Queues, Nodes
<1>2. \A r \in Queues : i \notin Deferrals(conf, s, r)
  BY <1>1 DEF Deferrals, Node
<1>3. w \in Seq(Tensors) /\ i \in Nat
  BY <1>1, WeightFacts
<1>4. CASE Skipped(n)
  <2>1. i \notin WeightNodes(conf, s)
    BY <1>4 DEF WeightNodes, Skipped, Node
  <2>2. /\ \A r : i \notin Pops(conf, s, r) /\ i \notin Clearing(conf, s, r)
        /\ \A l : i \notin Clears(conf, s, l)
    BY <2>1 DEF Pops, Clearing, Clears
  <2>3. Advance(s) /\ wgrads' = wgrads /\ cleared' = cleared
    BY <1>4 DEF WeightW, Skip, weights
  <2> QED
    BY <1>2, <2>2, <2>3, PassedWeights
<1>5. CASE ~ Skipped(n) /\ PopsOne(s, i)
  <2>1. /\ w # <<>> /\ Advance(s) /\ cleared' = cleared
        /\ wgrads' = [wgrads EXCEPT ![s][q] = SubSeq(w, 1 + 1, Len(w))]
    BY <1>5 DEF WeightW, DrainedQueue
  <2>2. SubSeq(w, 1 + 1, Len(w)) = Tail(w)
    BY <1>3, <2>1
  <2>3. /\ wgrads'[s][q] = Tail(w)
        /\ \A r \in Queues : r # q => wgrads'[s][r] = wgrads[s][r]
    BY <1>1, <2>1, <2>2 DEF Inv, TypeOK, Queues
  <2>4. i \in Pops(conf, s, q) /\ \A r : r # q => i \notin Pops(conf, s, r)
    BY <1>1, <1>5 DEF Pops, WeightNodes, OfQueue, PopsOne, Skipped, Node, Order
  <2>5. \A l : i \notin Clears(conf, s, l)
    BY <1>5 DEF Clears, PopsOne
  <2>6. \A r : i \notin Clearing(conf, s, r)
    BY <2>5 DEF Clearing
  <2>7. \A r \in Queues : QueueOK(s, r, wgrads'[s][r], i + 1)
    BY <1>1, <1>2, <2>1, <2>3, <2>4, <2>6, WeightFacts, QueueKept
  <2>8. \A l \in Chunks : l \in cleared'[s] <=> \E c \in Clears(conf, s, l) : c < i + 1
    <3>1. \A l \in Chunks : \A c \in Clears(conf, s, l) : c < i + 1 <=> c < i
      BY <2>5, WeightFacts
    <3> QED
      BY <2>1, <3>1, WeightFacts
  <2> QED
    BY <2>1, <2>7, <2>8, AdvancedStage DEF WeightsAfter
<1>6. CASE ~ Skipped(n) /\ ~ PopsOne(s, i)
  <2>1. i \in Clears(conf, s, k) /\ \A l : l # k => i \notin Clears(conf, s, l)
    BY <1>1, <1>6 DEF Clears, WeightNodes, PopsOne, Skipped, Node, Order
  <2>2. \A r : i \notin Pops(conf, s, r)
    BY <1>6 DEF Pops, PopsOne
  <2>3. \A r : r # q => i \notin Clearing(conf, s, r)
    BY DEF Clearing, OfQueue, Node
  <2>4. CASE k \in cleared[s]
    <3>1. Advance(s) /\ wgrads' = wgrads /\ cleared' = cleared
      BY <1>6, <2>4 DEF WeightW, Skip, weights
    <3>2. i \notin Clearing(conf, s, q)
      <4>1. PICK c \in Clears(conf, s, k) : c < i
        BY <1>1, <2>4, WeightFacts
      <4>2. q[1] = k /\ ~ i <= c
        BY <1>3, <4>1, WeightFacts
      <4> QED
        BY <4>1, <4>2 DEF Clearing
    <3> QED
      BY <1>2, <2>1, <2>2, <2>3, <2>4, <3>1, <3>2, PassedWeights
  <2>5. CASE k \notin cleared[s]
    <3>1. /\ Advance(s) /\ cleared' = [cleared EXCEPT ![s] = cleared[s] \cup {k}]
          /\ wgrads' = [wgrads EXCEPT ![s][q] = SubSeq(w, Len(w) + 1, Len(w))]
      BY <1>6, <2>5 DEF WeightW, DrainedQueue
    <3>2. SubSeq(w, Len(w) + 1, Len(w)) = <<>>
      BY <1>3
    <3>3. /\ wgrads'[s][q] = <<>>
          /\ \A r \in Queues : r # q => wgrads'[s][r] = wgrads[s][r]
      BY <1>1, <3>1, <3>2 DEF Inv, TypeOK, Queues
    <3>4. i \in Clearing(conf, s, q)
      <4>1. \A c \in Clears(conf, s, k) : ~ c < i
        BY <1>1, <2>5, WeightFacts
      <4>2. \A c \in Clears(conf, s, k) : i <= c
        BY <1>3, <4>1, WeightFacts
      <4>3. q[1] = k
        OBVIOUS
      <4> QED
        BY <2>1, <4>2, <4>3 DEF Clearing, OfQueue, Node
    <3>5. \A r \in Queues : QueueOK(s, r, wgrads'[s][r], i + 1)
      BY <1>1, <1>2, <2>2, <2>3, <3>3, <3>4, WeightFacts, QueueKept
    <3>6. \A l \in Chunks : l \in cleared'[s] <=> \E c \in Clears(conf, s, l) : c < i + 1
      <4>1. \A l \in Chunks : l \in cleared'[s] <=> l \in cleared[s] \/ l = k
        BY <3>1 DEF Inv, TypeOK
      <4>2. \A l \in Chunks : \A c \in Clears(conf, s, l) : c < i + 1 <=> c < i \/ c = i
        BY WeightFacts
      <4> QED
        BY <2>1, <4>1, <4>2, WeightFacts
    <3> QED
      BY <3>1, <3>5, <3>6, AdvancedStage DEF WeightsAfter
  <2> QED
    BY <2>4, <2>5
<1> QED
  BY <1>4, <1>5, <1>6

LEMMA HandlerWeights ==
  ASSUME Inv, WeightsOK, NEW s \in Stage, Handler(s)
  PROVE  WeightsAfter(s)
<1>1. ASSUME UNCHANGED <<it, wgrads, cleared>> PROVE WeightsAfter(s)
  BY <1>1, WeightFacts DEF WeightsAfter
<1>2. CASE Raise(s) \/ Finish(s)
  BY <1>1, <1>2 DEF Raise, Finish, weights
<1>3. ASSUME ~ Raise(s), ForwardF(s) \/ AddCommunication(s) \/ IgnorePostValidation(s)
      PROVE  WeightsAfter(s)
  <2>1. Advance(s) /\ wgrads' = wgrads /\ cleared' = cleared
    BY <1>3 DEF ForwardF, AddCommunication, IgnorePostValidation, Skip, weights
  <2>2. Node(s, it[s]).type \notin {"B", "W"}
    BY <1>3 DEF ForwardF, AddCommunication, IgnorePostValidation, AtNode, CommTypes, SendTypes,
                RecvTypes, PostValidationTypes
  <2>3. \A q \in Queues : it[s] \notin Deferrals(conf, s, q)
    BY <2>2 DEF Deferrals, Node
  <2> QED
    BY <2>1, <2>2, <2>3, NoWeights
<1> QED
  BY <1>2, <1>3, BackwardBWeights, WeightWWeights DEF Handler

LEMMA WeightsStep == Inv /\ WeightsOK /\ [Next]_vars => WeightsOK'
<1> SUFFICES ASSUME Inv, WeightsOK, [Next]_vars PROVE WeightsOK'
  OBVIOUS
<1>1. \A s \in Stage : Left(s) => WeightsAfter(s)
  BY WeightFacts DEF Left, WeightsAfter
<1>2. conf' = conf /\ \A s \in Stage : WeightsAfter(s)
  <2>1. ASSUME NEW t \in Stage, Handler(t)
        PROVE  conf' = conf /\ \A s \in Stage : WeightsAfter(s)
    BY <1>1, <2>1, HandlerLeaves, HandlerWeights
  <2> QED
    BY <1>1, <2>1, StageHandlers
<1> QED
  BY <1>2 DEF WeightsAfter, WeightsOK, QueueOK

LEMMA WeightsInit == Init => WeightsOK
<1> SUFFICES ASSUME Init, NEW s \in Stage
             PROVE  /\ \A k \in Chunks : k \in cleared[s] <=> \E c \in Clears(conf, s, k) : c < it[s]
                    /\ \A q \in Queues : QueueOK(s, q, wgrads[s][q], it[s])
  BY DEF WeightsOK
<1>1. conf \in Conf /\ it[s] = 1 /\ cleared[s] = {} /\ \A q \in Queues : wgrads[s][q] = <<>>
  BY DEF Init, Queues
<1>2. DOMAIN Order(s) = 1 .. Len(Order(s)) /\ Len(Order(s)) \in Nat
  BY <1>1, PositionsAreNumbers
<1>3. \A k : \A c \in Clears(conf, s, k) : ~ c < 1
  BY <1>2 DEF Clears, WeightNodes, Order
<1>4. \A q \in Queues : \A c \in Clearing(conf, s, q) \cup Pops(conf, s, q) \cup Deferrals(conf, s, q) : ~ c < 1
  BY <1>1, <1>2, WeightNodeFacts
<1>5. \A q \in Queues : {i \in Pops(conf, s, q) : i < 1} = {i \in Deferrals(conf, s, q) : i < 1}
  BY <1>4
<1>6. \A q \in Queues : NumberBefore(Pops(conf, s, q), 1) \in Nat
  BY <1>1, WeightNodeFacts, OneMoreBefore
<1>7. \A q \in Queues : QueueOK(s, q, <<>>, 1)
  BY <1>4, <1>5, <1>6 DEF QueueOK, NumberBefore
<1> QED
  BY <1>1, <1>3, <1>7

Running == Inv /\ Matched /\ ActivationsOK /\ WeightsOK /\ NoRaise

(* No stage raises, on any order that lines up and puts everything where it   *)
(* is taken from before it is taken, whatever the interleaving: no pop of an  *)
(* empty buffer, stack or queue, no failed assertion, no gradient left over.  *)
THEOREM RaisesNever == Spec => []NoRaise
<1>1. Init => Running
  <2>1. Init => NoRaise
    BY DEF Init, NoRaise
  <2> QED
    BY <2>1, InitInv, MatchedInit, ActivationsInit, WeightsInit DEF Running
<1>2. Running /\ [Next]_vars => NoRaise'
  <2> SUFFICES ASSUME Running, [Next]_vars, NEW s \in Stage PROVE status'[s] # "raised"
    BY DEF NoRaise
  <2>1. ASSUME NEW t \in Stage, Handler(t) PROVE status'[s] # "raised"
    <3>1. CASE s = t
      BY <2>1, <3>1, NeverRaises DEF Running
    <3>2. CASE s # t
      BY <2>1, <3>2, HandlerLeaves DEF Running, NoRaise, Left
    <3> QED
      BY <3>1, <3>2
  <2>2. ASSUME Left(s) PROVE status'[s] # "raised"
    BY <2>2 DEF Running, NoRaise, Left
  <2> QED
    BY <2>1, <2>2, StageHandlers DEF Running
<1>3. Running /\ [Next]_vars => Running'
  BY <1>2, NextStep, MatchedStep, ActivationsStep, WeightsStep DEF Running
<1>4. Running => NoRaise
  BY DEF Running
<1> QED
  BY <1>1, <1>3, <1>4, PTL DEF Spec
=============================================================================
