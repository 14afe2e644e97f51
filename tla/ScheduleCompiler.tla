--------------------------- MODULE ScheduleCompiler ---------------------------
(* The compilation of a builder's order for the runtime, one loop iteration   *)
(* of the passes per step (run_schedule_passes): find the peers, simulate the *)
(* time in rounds over the stages, plan the offload of activations where it   *)
(* is asked for, insert the sends, place the optimizer's post validation      *)
(* where it is asked for, insert the receives and, where the scheduler asks   *)
(* for it, validate the communications.                                       *)
EXTENDS SchedulePasses

(* The programs to compile, a set of records: the configuration cfg, the      *)
(* builder's order, whether to validate, whether the optimizer validates its  *)
(* step afterwards, the time of an offload in tenths of that of a forward and *)
(* backward (None without offload) and, for the memory property, what each    *)
(* type of node adds and the limit of each stage.                             *)
CONSTANT Programs

IsProgram(p) ==
  /\ p.cfg.n \in Nat \ {0} /\ p.cfg.chunks \in Nat \ {0}
  /\ p.cfg.comm \in Nat
  /\ \A s \in Stages(p.cfg) : p.cfg.f[s] \in Nat /\ p.cfg.b[s] \in Nat /\ p.cfg.w[s] \in Nat
  /\ p.order \in [Stages(p.cfg) ->
       Seq([type : ComputeTypes, stage : Int, mb : Nat, chunk : Nat, seq : Nat, lg : Nat,
            start : Int, end : Int, recvPeer : Int, sendPeer : Int,
            dir : {"NONE", "NEXT", "PREV"}, peer : Int, pair : Int, rollback : BOOLEAN,
            recompute : BOOLEAN, offload : BOOLEAN])]
  /\ p.validate \in BOOLEAN /\ p.postValidation \in BOOLEAN
  /\ p.offload \in Nat \cup {None}

(* Each node of a builder's order has a key of its own (the maps of the       *)
(* passes are indexed by it).                                                 *)
UniqueKeys(order) ==
  \A s, t \in DOMAIN order : \A i \in DOMAIN order[s], j \in DOMAIN order[t] :
    Key(order[s][i]) = Key(order[t][j]) => s = t /\ i = j

(* A layer group is on one stage: F, B, W and R of it run there.              *)
LayerGroupsOnOneStage(order) ==
  \A s, t \in DOMAIN order : \A i \in DOMAIN order[s], j \in DOMAIN order[t] :
    order[s][i].lg = order[t][j].lg => s = t

(* A backward is either split or fused.                                       *)
SplitOrFused(order) ==
  \A s, t \in DOMAIN order : \A i \in DOMAIN order[s], j \in DOMAIN order[t] :
    LET p == order[s][i]
        q == order[t][j]
    IN  p.type = "B" /\ q.type = "BW" => <<p.lg, p.mb, p.seq>> # <<q.lg, q.mb, q.seq>>

(* Times that can happen: a stage runs one computation at a time, in its      *)
(* order ...                                                                  *)
NoOverlap(o) ==
  \A s \in DOMAIN o : \A i, j \in DOMAIN o[s] :
    i < j /\ IsComputation(o[s][i]) /\ IsComputation(o[s][j]) => o[s][i].end <= o[s][j].start

(* ... and one starts no earlier than that it depends on ends (get_prev_key), *)
(* plus the communication when that is on another stage.                      *)
AfterDependency(cfg, o) ==
  \A s, t \in DOMAIN o : \A i \in DOMAIN o[s], j \in DOMAIN o[t] :
    IsComputation(o[s][i]) /\ Key(o[t][j]) = PrevKey(o[s][i], NumLayerGroups(cfg)) =>
      o[t][j].end + (IF s = t THEN 0 ELSE cfg.comm) <= o[s][i].start

(* A stage has a node before which its post validation must go.               *)
HasDeadlines(order) ==
  \A s \in DOMAIN order : \E i \in DOMAIN order[s] : order[s][i].type # "F" \/ order[s][i].chunk # 0

ASSUME ProgramsOK == \A p \in Programs : IsProgram(p) /\ UniqueKeys(p.order)
ASSUME OrdersOK   == \A p \in Programs : LayerGroupsOnOneStage(p.order) /\ SplitOrFused(p.order)
ASSUME TimedOK    == \A p \in Programs :
                       IsTimed(p.order) => NoOverlap(p.order) /\ AfterDependency(p.cfg, p.order)
ASSUME DeadlinesOK == \A p \in Programs : p.postValidation => HasDeadlines(p.order)

VARIABLES
  prog,          \* the program compiled, never changed
  phase,         \* the pass at work: "built", "timing", "timed", "sends",
                 \* "sorting", "receives", "validation", then "compiled" or "failed"
  localOrder,    \* the order of each stage so far
  simulation,    \* add_time: new_local_order and stage_curr_t
  cursor,        \* add_time: the stage the round is at
  ranOne,        \* add_time: whether the round has run a node
  pairs,         \* the communication pairs, in the order of their insertion
  next,          \* the position of the next pair to insert
  startIndices,  \* insert_recv_nodes: where each stage may still take an insertion
  matched        \* validate_communication: the pairs matched

vars == <<prog, phase, localOrder, simulation, cursor, ranOne, pairs, next, startIndices, matched>>

Cfg == prog.cfg

Init ==
  /\ prog \in Programs
  /\ phase = "built"
  /\ localOrder = prog.order
  /\ simulation = EmptySim(Cfg)
  /\ cursor = 0 /\ ranOne = FALSE
  /\ pairs = <<>> /\ next = 1
  /\ startIndices = [s \in Stages(Cfg) |-> 1]
  /\ matched = {}

Fail ==
  /\ phase' = "failed"
  /\ UNCHANGED <<prog, localOrder, simulation, cursor, ranOne, pairs, next, startIndices, matched>>

-------------------------------------------------------------------------------
(* pre_validate and add_send_recv_peer_stage.  add_time has nothing to do     *)
(* for an order whose times the builder has set.                              *)
FindPeers ==
  /\ phase = "built"
  /\ IF \/ \E s \in Stages(Cfg) : \E i \in DOMAIN localOrder[s] : localOrder[s][i].stage # s
        \/ MissingPrev(Cfg, localOrder)
     THEN Fail
     ELSE /\ localOrder' = AddSendRecvPeerStage(Cfg, localOrder)
          /\ phase' = IF IsTimed(localOrder) THEN "timed" ELSE "timing"
          /\ UNCHANGED <<prog, simulation, cursor, ranOne, pairs, next, startIndices, matched>>

(* add_time: the round runs the next node of the stage, or passes it over.    *)
VisitStage ==
  /\ phase = "timing"
  /\ cursor < Cfg.n
  /\ cursor' = cursor + 1
  /\ IF CanRun(Cfg, localOrder, simulation, cursor)
     THEN simulation' = RunNode(Cfg, localOrder, simulation, cursor) /\ ranOne' = TRUE
     ELSE UNCHANGED <<simulation, ranOne>>
  /\ UNCHANGED <<prog, phase, localOrder, pairs, next, startIndices, matched>>

(* Every node has run: ct = len(nodes).                                       *)
AllRun == \A s \in Stages(Cfg) : Len(simulation.order[s]) = Len(localOrder[s])

(* A round is over.  One that has run no node raises "Cannot find next        *)
(* runnable node".                                                            *)
EndRound ==
  /\ phase = "timing"
  /\ cursor = Cfg.n
  /\ IF AllRun
     THEN /\ localOrder' = simulation.order
          /\ phase' = "timed"
          /\ UNCHANGED <<prog, simulation, cursor, ranOne, pairs, next, startIndices, matched>>
     ELSE IF ~ ranOne THEN Fail
     ELSE /\ cursor' = 0 /\ ranOne' = FALSE
          /\ UNCHANGED <<prog, phase, localOrder, simulation, pairs, next, startIndices, matched>>

(* add_offload, where activations are offloaded; then the communication pairs *)
(* are made.                                                                  *)
Offload ==
  /\ phase = "timed"
  /\ \E planned \in {IF prog.offload = None THEN [ok |-> TRUE, order |-> localOrder]
                      ELSE AddOffload(Cfg, localOrder, prog.offload)} :
       IF ~ planned.ok THEN Fail
       ELSE /\ localOrder' = planned.order
            /\ pairs' = CommPairs(Cfg, planned.order)
            /\ phase' = "sends"
            /\ UNCHANGED <<prog, simulation, cursor, ranOne, next, startIndices, matched>>

(* insert_send_nodes: the send of the next pair.  A pair between stages that  *)
(* are not neighbours on the ring fails an assertion.                         *)
PlaceSend ==
  /\ phase = "sends"
  /\ next <= Len(pairs)
  /\ IF ~ Neighbours(Cfg, pairs[next]) THEN Fail
     ELSE /\ localOrder' = InsertSend(localOrder, pairs[next])
          /\ next' = next + 1
          /\ UNCHANGED <<prog, phase, simulation, cursor, ranOne, pairs, startIndices, matched>>

(* All the sends are in place: the post validation of every stage is placed,  *)
(* when there is one and it can be over before its deadline.                  *)
PostValidate ==
  /\ phase = "sends"
  /\ next = Len(pairs) + 1
  /\ prog.postValidation
  /\ \E post \in {AddPostValidation(Cfg, localOrder)} :
       IF ~ post.ok THEN Fail
       ELSE /\ localOrder' = post.order
            /\ pairs' = pairs \o post.pairs
            /\ phase' = "sorting"
            /\ UNCHANGED <<prog, simulation, cursor, ranOne, next, startIndices, matched>>

(* insert_recv_nodes sorts the pairs.                                         *)
SortPairs ==
  /\ IF prog.postValidation THEN phase = "sorting"
     ELSE phase = "sends" /\ next = Len(pairs) + 1
  /\ pairs' = SortedPairs(localOrder, pairs)
  /\ next' = 1
  /\ phase' = "receives"
  /\ UNCHANGED <<prog, localOrder, simulation, cursor, ranOne, startIndices, matched>>

(* insert_recv_nodes: the receive of the next pair.                           *)
PlaceRecv ==
  /\ phase = "receives"
  /\ next <= Len(pairs)
  /\ LET acc == InsertRecv([ok |-> TRUE, order |-> localOrder, first |-> startIndices],
                           pairs[next])
     IN  IF ~ acc.ok THEN Fail
         ELSE /\ localOrder' = acc.order
              /\ startIndices' = acc.first
              /\ next' = next + 1
              /\ UNCHANGED <<prog, phase, simulation, cursor, ranOne, pairs, matched>>

(* All the receives are in place: those that a rollback must drain are        *)
(* tagged, and validate_communication starts where there is one.              *)
EndRecvs ==
  /\ phase = "receives"
  /\ next = Len(pairs) + 1
  /\ IF prog.postValidation /\ ~ RollbackOK(localOrder) THEN Fail
     ELSE /\ localOrder' = IF prog.postValidation THEN TagRollback(localOrder) ELSE localOrder
          /\ phase' = IF prog.validate THEN "validation" ELSE "compiled"
          /\ UNCHANGED <<prog, simulation, cursor, ranOne, pairs, next, startIndices, matched>>

(* validate_communication: a round of matching.  One that matches nothing     *)
(* raises; when all are matched the order is compiled.                        *)
MatchPairs ==
  /\ phase = "validation"
  /\ IF matched = PairIds(localOrder)
     THEN phase' = "compiled" /\ UNCHANGED matched
     ELSE IF MatchRound(localOrder, matched) = matched
     THEN phase' = "failed" /\ UNCHANGED matched
     ELSE matched' = MatchRound(localOrder, matched) /\ UNCHANGED phase
  /\ UNCHANGED <<prog, localOrder, simulation, cursor, ranOne, pairs, next, startIndices>>

Stop == phase \in {"compiled", "failed"} /\ UNCHANGED vars

Next == \/ FindPeers \/ VisitStage \/ EndRound \/ Offload \/ PlaceSend \/ PostValidate
        \/ SortPairs \/ PlaceRecv \/ EndRecvs \/ MatchPairs \/ Stop

Spec     == Init /\ [][Next]_vars
FairSpec == Spec /\ WF_vars(Next)
-------------------------------------------------------------------------------
(* Properties.                                                                *)

(* The type of every variable.                                                *)
TypeOK ==
  /\ prog \in Programs
  /\ phase \in {"built", "timing", "timed", "sends", "sorting", "receives", "validation",
               "compiled", "failed"}
  /\ \A s \in Stages(Cfg) :
       /\ \A i \in DOMAIN localOrder[s] : localOrder[s][i].type \in NodeTypes
       /\ \A i \in DOMAIN simulation.order[s] : simulation.order[s][i].type \in ComputeTypes
       /\ simulation.time[s] \in Nat
       /\ startIndices[s] \in 1 .. Len(localOrder[s]) + 1
  /\ cursor \in 0 .. Cfg.n
  /\ ranOne \in BOOLEAN
  /\ \A k \in DOMAIN pairs : IsSend(pairs[k].send) /\ IsRecv(pairs[k].recv)
  /\ next \in 1 .. Len(pairs) + 1
  /\ matched \subseteq PairIds(localOrder)

(* The times that add_time or the builder gives, and those to which the       *)
(* offload pass postpones forwards, can happen.                               *)
TimesOK ==
  LET Possible(order) == NoOverlap(order) /\ AfterDependency(Cfg, order)
  IN  /\ phase = "timing" => Possible(simulation.order)
      /\ phase = "timed" \/ (phase = "sends" /\ next = 1) => Possible(localOrder)

(* No pass loses, repeats or reorders a computation of a stage.               *)
ComputationsKept ==
  \A s \in Stages(Cfg) :
    LET place == [k \in DOMAIN prog.order[s] |-> PositionOf(localOrder[s], Key(prog.order[s][k]))]
    IN  /\ {place[k] : k \in DOMAIN place}
             = {i \in DOMAIN localOrder[s] : IsComputation(localOrder[s][i])}
        /\ \A k, l \in DOMAIN place : k < l => place[k] < place[l]

(* A send stands after the computation that produces its tensor and a receive *)
(* before the one that consumes it: same layer group, microbatch and sequence *)
(* split, forward for forward and backward for backward.                      *)
Carries(comm, n) ==
  /\ n.type \in IF IsBackwardComm(comm) THEN {"B", "BW"} ELSE {"F"}
  /\ n.lg = comm.lg /\ n.mb = comm.mb /\ n.seq = comm.seq /\ n.chunk = comm.chunk

WellPlaced ==
  \A s \in Stages(Cfg) : \A i \in DOMAIN localOrder[s] :
    /\ localOrder[s][i].type \in SendTypes =>
         \E j \in 1 .. i - 1 : Carries(localOrder[s][i], localOrder[s][j])
    /\ localOrder[s][i].type \in RecvTypes =>
         \E j \in i + 1 .. Len(localOrder[s]) : Carries(localOrder[s][i], localOrder[s][j])

(* The two ends of a link agree: stage t receives from s in the order in      *)
(* which s sends to t.  NCCL matches by rank alone, so a compiled order       *)
(* without this would give a computation another microbatch's tensor.         *)
Link(s, t, types) ==
  {i \in DOMAIN localOrder[s] : localOrder[s][i].type \in types /\ localOrder[s][i].peer = t}

LinksAgree ==
  phase = "compiled" =>
    \A s, t \in Stages(Cfg) : s # t =>
      LET sends == Link(s, t, SendTypes)
          recvs == Link(t, s, RecvTypes)
          Paired(i, j) == localOrder[s][i].pair = localOrder[t][j].pair
      IN  /\ \A i \in sends : \E j \in recvs : Paired(i, j)
          /\ \A j \in recvs : \E i \in sends : Paired(i, j)
          /\ \A i \in sends, j \in recvs : Paired(i, j) =>
               \A i2 \in sends, j2 \in recvs : Paired(i2, j2) => (i < i2 <=> j < j2)

(* Every dependency across stages is communicated, once on either side.       *)
AllCommunicated ==
  phase = "compiled" =>
    \A s \in Stages(Cfg) : \A i \in DOMAIN localOrder[s] :
      LET n == localOrder[s][i]
          of(types, o) == {j \in DOMAIN o : o[j].type \in types /\ Carries(o[j], n)}
      IN  n.type \in {"F", "B", "BW"} =>
            /\ Cardinality(of(SendTypes, localOrder[s])) = IF n.sendPeer = None THEN 0 ELSE 1
            /\ Cardinality(of(RecvTypes, localOrder[s])) = IF n.recvPeer = None THEN 0 ELSE 1

(* What is compiled without validate_communication (1F1B, zero bubble) would  *)
(* have passed it: adjacent communications, fused into one kernel per stage,  *)
(* never leave the stages waiting for each other.                             *)
FusedCommunicationMatches == phase = "compiled" => ValidCommunication(localOrder)

(* No prefix of a stage's order holds more than the schedule's limit: the     *)
(* max_mem of the zero-bubble builder, whose own assertion of it is commented *)
(* out, and for 1F1B the number of stages from this one to the last.          *)
Held(p, s) ==
  LET held[i \in 0 .. Len(p.order[s])] ==
        IF i = 0 THEN 0 ELSE held[i - 1] + p.mem[p.order[s][i].type]
  IN  held

MemoryBound ==
  phase = "built" =>
    \A s \in Stages(Cfg) : \A i \in DOMAIN localOrder[s] : Held(prog, s)[i] <= prog.limit[s]

(* Two neighbouring stages agree on their use of the path to the host: the    *)
(* n-th barrier of one is the n-th of the other (the runtime pairs them by    *)
(* their number only), and behind one barrier they do not both copy to the    *)
(* host nor both copy back.                                                   *)
Barriers(s) ==
  LET found == SelectSeq(localOrder[s], HasOffloadBarrier)
  IN  [k \in DOMAIN found |-> found[k].type]

TransfersPaired ==
  phase = "compiled" /\ prog.offload # None =>
    \A s \in {x \in Stages(Cfg) : x % 2 = 0} :
      LET mine == Barriers(s)
          its  == Barriers(s + 1)
      IN  /\ DOMAIN mine = DOMAIN its
          /\ \A k \in DOMAIN mine : mine[k] # its[k]

(* The verdict on the optimizer's step reaches a stage before the next stage's *)
(* deadline is over ("completion_time of POST_VALIDATION needs to be strictly *)
(* less than the completion_time of last deadline node"), an assertion of     *)
(* add_post_validation_nodes_before_deadline.                                 *)
PostValidatedInTime ==
  phase = "sends" /\ next = Len(pairs) + 1 /\ prog.postValidation =>
    AddPostValidation(Cfg, localOrder).ok

(* The passes end, with an order and without raising: the rounds of add_time  *)
(* always find a node to run, every receive finds its place before its        *)
(* consumer, and the validation, where there is one, passes.                  *)
Compiles == <>(phase = "compiled")
=============================================================================
