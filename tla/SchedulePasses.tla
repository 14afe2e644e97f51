---------------------------- MODULE SchedulePasses ----------------------------
(* The passes that turn the computation order of a builder into the order the *)
(* runtime executes (scheduler/passes.py and scheduler/communication.py):     *)
(* find the peers, simulate the time, insert a send after each producer and a *)
(* receive before each consumer, add the optimizer's post validation, and     *)
(* check that the communications can all be matched.  A pass works on an      *)
(* order, a function from stages to sequences of nodes.  OffloadPasses has    *)
(* the pass that plans the offload of activations.                            *)
EXTENDS OffloadPasses

-------------------------------------------------------------------------------
(* add_send_recv_peer_stage.                                                  *)

(* The pass raises ValueError when a dependency is in no stage's order.       *)
MissingPrev(cfg, order) ==
  LET keys == {Key(n) : n \in AllNodes(order)}
  IN  \E n \in AllNodes(order) :
        PrevKey(n, NumLayerGroups(cfg)) \notin keys \cup {NoKey}

(* Both ends of a dependency across two stages learn the other's stage.       *)
AddSendRecvPeerStage(cfg, order) ==
  LET L     == NumLayerGroups(cfg)
      nodes == AllNodes(order)
      OtherStage(n, related) ==
        LET peers == {p.stage : p \in related} \ {n.stage}
        IN  IF peers = {} THEN None ELSE CHOOSE s \in peers : TRUE
  IN  [s \in DOMAIN order |->
        [i \in DOMAIN order[s] |->
          LET n == order[s][i]
          IN  [n EXCEPT
                !.recvPeer = OtherStage(n, {p \in nodes : Key(p) = PrevKey(n, L)}),
                !.sendPeer = OtherStage(n, {p \in nodes : PrevKey(p, L) = Key(n)})]] \o <<>>]

-------------------------------------------------------------------------------
(* add_time.                                                                  *)

(* The cost the simulation gives a node.  type_cost[BW] is the concatenation  *)
(* of the two per-stage lists, so indexing it by the stage finds cost_b.      *)
SimulatedCost(cfg, n) ==
  CASE n.type \in {"F", "R"}  -> cfg.f[n.stage]
    [] n.type \in {"B", "BW"} -> cfg.b[n.stage]
    [] OTHER                  -> cfg.w[n.stage]

(* sim.order is the new local order, sim.time the time of each stage.  The    *)
(* next node of stage s can run once its dependency has completed.            *)
NextNode(order, sim, s) == order[s][Len(sim.order[s]) + 1]

CanRun(cfg, order, sim, s) ==
  /\ Len(sim.order[s]) < Len(order[s])
  /\ LET prev == PrevKey(NextNode(order, sim, s), NumLayerGroups(cfg))
     IN  prev = NoKey \/ \E d \in AllNodes(sim.order) : Key(d) = prev

AvailableAtEnd(cfg, sim, s, prev) ==     \* fault: the communication takes no time
  IF prev = NoKey THEN 0
  ELSE (CHOOSE d \in AllNodes(sim.order) : Key(d) = prev).end

(* When the operand of a node of stage s is there: at once, or when the node  *)
(* it depends on has ended and, from another stage, been communicated.        *)
Available(cfg, sim, s, prev) ==
  LET from == CHOOSE d \in AllNodes(sim.order) : Key(d) = prev
  IN  IF prev = NoKey THEN 0
      ELSE from.end + (IF from.stage # s THEN cfg.comm ELSE 0)

(* A node runs not before its stage is free nor before its operand arrives.   *)
RunNode(cfg, order, sim, s) ==
  LET n     == NextNode(order, sim, s)
      avail == Available(cfg, sim, s, PrevKey(n, NumLayerGroups(cfg)))
      t     == IF avail > sim.time[s] THEN avail ELSE sim.time[s]
      end   == t + SimulatedCost(cfg, n)
  IN  [order |-> [sim.order EXCEPT ![s] = Append(@, [n EXCEPT !.start = t, !.end = end])],
       time  |-> [sim.time EXCEPT ![s] = end]]

EmptySim(cfg) == [order |-> [s \in Stages(cfg) |-> <<>>], time |-> [s \in Stages(cfg) |-> 0]]

(* A builder may have set the times already.                                  *)
IsTimed(order) == order[0][1].start # None

(* The times depend on the dependencies only, not on which runnable stage     *)
(* comes first; ScheduleCompiler has the code's rounds over the stages.       *)
AddTime(cfg, order) ==
  LET steps     == Cardinality(AllNodes(order))
      Step(sim) == LET can == {s \in Stages(cfg) : CanRun(cfg, order, sim, s)}
                   IN  IF can = {} THEN sim
                       ELSE RunNode(cfg, order, sim, CHOOSE s \in can : TRUE)
      sim[k \in 0 .. steps] == IF k = 0 THEN EmptySim(cfg) ELSE Step(sim[k - 1])
  IN  IF IsTimed(order) THEN order ELSE sim[steps].order

-------------------------------------------------------------------------------
(* insert_send_nodes.                                                         *)

CommNode(type, n, peer, t, dir, id) ==
  [n EXCEPT !.type = type, !.start = t, !.end = t, !.recvPeer = None, !.sendPeer = None,
            !.dir = dir, !.peer = peer, !.pair = id, !.recompute = FALSE, !.offload = FALSE]

RemoteSplitConsumer(n) ==                \* fault: the fused backward is forgotten
  n.type \in {"F", "B"} /\ n.recvPeer \notin {None, n.stage}

(* A consumer whose operand another stage produces.                           *)
RemoteConsumer(n) ==
  n.type \in {"F", "B", "BW"} /\ n.recvPeer \notin {None, n.stage}

(* A pair of communication nodes: the send, the receive and the consumer.     *)
CommPair(cfg, order, n, id) ==
  LET prevKey  == PrevKey(n, NumLayerGroups(cfg))
      producer == CHOOSE p \in AllNodes(order) : Key(p) = prevKey
      fromPrev == \/ n.recvPeer + 1 = n.stage
                  \/ n.stage = 0 /\ n.recvPeer = cfg.n - 1
  IN  [send     |-> CommNode(IF n.type = "F" THEN "SEND_FORWARD" ELSE "SEND_BACKWARD",
                             producer, n.stage, producer.end,
                             IF fromPrev THEN "NEXT" ELSE "PREV", id),
       recv     |-> CommNode(IF n.type = "F" THEN "RECV_FORWARD" ELSE "RECV_BACKWARD",
                             n, producer.stage, producer.end,
                             IF fromPrev THEN "PREV" ELSE "NEXT", id),
       producer |-> prevKey,
       deadline |-> Key(n)]

(* The pairs of the consumers, stage by stage, numbered from 0.               *)
StagePairs(cfg, order, pairs, s) ==
  LET PairUp(ps, n) == IF RemoteConsumer(n)
                       THEN Append(ps, CommPair(cfg, order, n, Len(ps)))
                       ELSE ps
  IN  ForEach(PairUp, pairs, order[s])

CommPairs(cfg, order) ==
  LET AddStage(pairs, s) == StagePairs(cfg, order, pairs, s)
  IN  ForEach(AddStage, <<>>, Upwards(0, cfg.n - 1))

(* The assertion on the stages of a pair: neighbours on the ring.             *)
Neighbours(cfg, pair) ==
  \/ (pair.send.stage + 1) % cfg.n = pair.recv.stage
  \/ (pair.recv.stage + 1) % cfg.n = pair.send.stage

SendForNode(order, pair) ==              \* fault: the send replaces a computation
  LET s == pair.send.stage
      i == SelectInSeq(order[s], LAMBDA n : n.start >= pair.send.start)
  IN  IF i = 0 THEN [order EXCEPT ![s] = Append(@, pair.send)]
      ELSE [order EXCEPT ![s][i] = pair.send]

SendAtEnd(order, pair) ==                \* fault: the end of a node is compared
  LET nodes == order[pair.send.stage]
      found == SelectInSeq(nodes, LAMBDA n : n.end >= pair.send.start)
  IN  [order EXCEPT ![pair.send.stage] =
         InsertAt(nodes, IF found = 0 THEN Len(nodes) + 1 ELSE found, pair.send)]

(* The send goes after its producer, before the first later node that does    *)
(* not start before the send does.                                            *)
InsertSend(order, pair) ==
  LET s     == pair.send.stage
      nodes == order[s]
      after == SelectInSeq(nodes, LAMBDA n : Key(n) = pair.producer) + 1
      found == SelectInSubSeq(nodes, after, Len(nodes),
                              LAMBDA n : n.start >= pair.send.start)
  IN  [order EXCEPT ![s] =
         InsertAt(nodes, IF found = 0 THEN Len(nodes) + 1 ELSE found, pair.send)]

InsertSendNodes(cfg, order) == ForEach(InsertSend, order, CommPairs(cfg, order))

-------------------------------------------------------------------------------
(* add_post_validation_nodes_before_deadline.                                 *)

(* A post-validation node; pair is None for the verdict itself.               *)
PostValidationNode(type, s, t, peer, pair) ==
  [ComputeNode(type, s, 0, 0, 0, -s) EXCEPT
     !.start = t, !.end = t, !.peer = peer, !.pair = pair]

(* The verdict of a stage comes before the deadline, its first computation    *)
(* other than a forward of chunk 0, and before the first node that starts     *)
(* after the verdict of the next stage, whose time is the accumulator's.  It  *)
(* must be over before the deadline of the next stage is.                     *)
PostValidateStage(acc, s) ==
  LET nodes    == acc.order[s]
      last     == DOMAIN acc.order = 0 .. s
      deadline == SelectInSeq(nodes, LAMBDA n : IsComputation(n) /\ (n.type # "F" \/ n.chunk # 0))
      later    == SelectInSubSeq(nodes, 1, deadline - 1, LAMBDA n : n.start > acc.time)
      at       == IF later = 0 THEN deadline ELSE later
      own      == IF at = 1 THEN nodes[1].start ELSE nodes[at - 1].end
      t        == IF acc.time > own THEN acc.time ELSE own
      send     == PostValidationNode("SEND_POST_VALIDATION", s, t, s - 1, -s)
      recv     == PostValidationNode("RECV_POST_VALIDATION", s, acc.time, s + 1, -(s + 1))
      validate == PostValidationNode("POST_VALIDATION", s, t, None, None)
      placed   == InsertAt(nodes, at, validate)
  IN  [ok       |-> acc.ok /\ (last \/ own < acc.deadline),
       order    |-> [acc.order EXCEPT ![s] = IF s = 0 THEN placed ELSE InsertAt(placed, at, send)],
       pairs    |-> IF last THEN <<>>
                    ELSE Append(acc.pairs, [send |-> acc.send, recv |-> recv, producer |-> NoKey,
                                            deadline |-> Key(IF s = 0 THEN validate ELSE send)]),
       send     |-> send,
       time     |-> t,
       deadline |-> nodes[deadline].end]

(* The stages from the last to the first; no time is before the last one's.   *)
AddPostValidation(cfg, order) ==
  LET none == PostValidationNode("SEND_POST_VALIDATION", cfg.n, None, None, None)
  IN  ForEach(PostValidateStage,
              [ok |-> TRUE, order |-> order, pairs |-> <<>>, send |-> none,
               time |-> None, deadline |-> None],
              [k \in 1 .. cfg.n |-> cfg.n - k])

-------------------------------------------------------------------------------
(* insert_recv_nodes.                                                         *)

PositionOf(nodes, key) == SelectInSeq(nodes, LAMBDA n : Key(n) = key)

(* cmp_pair: on one stage the sends' positions decide, across stages their    *)
(* start times and, when they are equal, a post validation goes first.        *)
SentBefore(order, p, q) ==
  LET At(x)        == PositionOf(order[x.send.stage], Key(x.send))
      Validates(x) == x.send.type = "SEND_POST_VALIDATION"
  IN  IF p.send.stage = q.send.stage THEN At(p) < At(q)
      ELSE \/ p.send.start < q.send.start
           \/ /\ p.send.start = q.send.start
              /\ Validates(p) /\ ~ Validates(q)

(* cmp_pair is not transitive, so what list.sort does matters.  It looks for  *)
(* the longest run in front that ascends, or strictly descends and is then    *)
(* reversed ...                                                               *)
SortRun(order, pairs) ==
  LET Less(i, j) == SentBefore(order, pairs[i], pairs[j])
      descending == Len(pairs) > 1 /\ Less(2, 1)
      breaks     == {i \in 2 .. Len(pairs) : Less(i, i - 1) # descending}
      run        == IF breaks = {} THEN Len(pairs) ELSE Min(breaks) - 1
  IN  [length |-> run,
       pairs  |-> [i \in DOMAIN pairs |->
                     IF descending /\ i <= run THEN pairs[run + 1 - i] ELSE pairs[i]]]

SortNothing(order, pairs, k) == pairs    \* fault: the receives in the pairs' order

(* ... and gives each later pair, the k-th, its place among those in front by *)
(* binary search.  (With 64 pairs or more it would merge such runs.)          *)
SortPair(order, pairs, k) ==
  LET Halve(w, i) == LET p == (w.l + w.r) \div 2
                     IN  IF w.l = w.r THEN w
                         ELSE IF SentBefore(order, pairs[k], pairs[p]) THEN [w EXCEPT !.r = p]
                         ELSE [w EXCEPT !.l = p + 1]
      place == ForEach(Halve, [l |-> 1, r |-> k], Upwards(1, k)).l
  IN  InsertAt(RemoveAt(pairs, k), place, pairs[k])

SortedPairs(order, pairs) ==
  LET Sort(acc, k) == IF k <= acc.length THEN acc
                      ELSE [acc EXCEPT !.pairs = SortPair(order, @, k)]
  IN  ForEach(Sort, SortRun(order, pairs), [k \in DOMAIN pairs |-> k]).pairs

RecvAtFirst(acc, pair) ==                \* fault: first is used but never moved on
  [acc EXCEPT !.order[pair.recv.stage] = InsertAt(@, acc.first[pair.recv.stage], pair.recv)]

RecvPastSends(acc, pair) ==              \* fault: a receive may overtake sends
  LET r     == pair.recv.stage
      nodes == acc.order[r]
      pos   == SelectInSubSeq(nodes, acc.first[r], Len(nodes),
                 LAMBDA n : pair.recv.start <= n.end \/ Key(n) = pair.deadline)
  IN  [acc EXCEPT !.order[r] = InsertAt(nodes, pos, pair.recv), !.first[r] = pos + 1]

PassNoBarrier(acc, nodes, from, to) == acc   \* fault: the pair does not keep up

(* The barriers of a stage in nodes[from .. to - 1], which lie before a send, *)
(* are met by as many on the other stage of its pair: no receive goes before  *)
(* those any more.  It fails when a send comes before one, or none is left.   *)
PassBarriers(acc, nodes, from, to) ==
  LET Pass(a, i) ==
        LET peer == PairedStage(nodes[i].stage)
            pos  == SelectInSubSeq(a.order[peer], a.first[peer], Len(a.order[peer]),
                                   LAMBDA n : IsSend(n) \/ HasOffloadBarrier(n))
        IN  IF ~ HasOffloadBarrier(nodes[i]) THEN a
            ELSE IF pos <= 1 \/ IsSend(a.order[peer][pos]) THEN [a EXCEPT !.ok = FALSE]
            ELSE [a EXCEPT !.first[peer] = pos + 1]
  IN  For(Pass, acc, Upwards(from, to - 1))

(* One receive: it goes on its stage at the first free place that ends after  *)
(* the send, or holds a send, a barrier or the consumer; first[s] is the      *)
(* place from which stage s may still receive an insertion.  It fails when no *)
(* place is left, when the send has been passed, or when no consumer follows. *)
InsertRecv(acc, pair) ==
  LET r       == pair.recv.stage
      s       == pair.send.stage
      sendPos == SelectInSubSeq(acc.order[s], acc.first[s], Len(acc.order[s]),
                                LAMBDA n : Key(n) = Key(pair.send))
      passed  == PassBarriers([acc EXCEPT !.first[s] = sendPos + 1],
                              acc.order[s], acc.first[s], sendPos)
      first   == passed.first
      nodes   == acc.order[r]
      pos     == SelectInSubSeq(nodes, first[r], Len(nodes),
                   LAMBDA n : \/ pair.recv.start <= n.end
                              \/ Key(n) = pair.deadline
                              \/ IsSend(n)
                              \/ HasOffloadBarrier(n))
  IN  IF \/ ~ acc.ok \/ sendPos = 0 \/ ~ passed.ok \/ pos = 0
         \/ PositionOf(nodes, pair.deadline) < pos
      THEN [acc EXCEPT !.ok = FALSE]
      ELSE [ok    |-> TRUE,
            order |-> [acc.order EXCEPT ![r] = InsertAt(nodes, pos, pair.recv)],
            first |-> [first EXCEPT ![r] = pos + 1]]

InsertRecvNodes(order, pairs) ==
  ForEach(InsertRecv, [ok |-> TRUE, order |-> order, first |-> [s \in DOMAIN order |-> 1]],
          SortedPairs(order, pairs))

-------------------------------------------------------------------------------
(* tag_rollback_communication.                                                *)

(* The forwards that stage s sends before its verdict.                        *)
SentBeforeVerdict(order, s) ==
  LET verdict == SelectInSeq(order[s], LAMBDA n : n.type = "POST_VALIDATION")
  IN  {i \in 1 .. verdict - 1 : order[s][i].type \in CommTypes}

(* Its assertions: before a verdict there are only communications of forwards *)
(* of chunk 0, and the next stage receives every one of them.                 *)
RollbackOK(order) ==
  \A s \in DOMAIN order : s + 1 \in DOMAIN order =>
    \A i \in SentBeforeVerdict(order, s) :
      LET n == order[s][i]
      IN  /\ ~ IsBackwardComm(n) /\ n.chunk = 0
          /\ n.type = "SEND_FORWARD" =>
               \E m \in AllNodes(order) :
                 m.stage = s + 1 /\ m.type = "RECV_FORWARD" /\ m.chunk = 0 /\ m.mb = n.mb

(* A receive whose microbatch the previous stage sends before its verdict is  *)
(* tagged: a stage that rolls back receives it all the same.  Of several      *)
(* receives of one microbatch the first is tagged.                            *)
TagRollback(order) ==
  LET Sent(s) == {order[s][i].mb : i \in {j \in SentBeforeVerdict(order, s) :
                                            order[s][j].type = "SEND_FORWARD"}}
      Of(n)   == n.type = "RECV_FORWARD" /\ n.chunk = 0
  IN  [s \in DOMAIN order |->
        [i \in DOMAIN order[s] |->
          LET n == order[s][i]
          IN  [n EXCEPT !.rollback =
                 /\ s > 0 /\ Of(n) /\ n.mb \in Sent(s - 1)
                 /\ \A j \in 1 .. i - 1 : ~ (Of(order[s][j]) /\ order[s][j].mb = n.mb)]]]

-------------------------------------------------------------------------------
(* validate_communication.                                                    *)

(* What the pass fuses: is_send or is_recv.                                   *)
InKernel(n) == IsSend(n) \/ IsRecv(n)

OpenKernel(nodes, done) ==               \* fault: a computation does not end a kernel
  LET i == SelectInSeq(nodes, LAMBDA n : InKernel(n) /\ n.pair \notin done)
  IN  IF i = 0 THEN {} ELSE {nodes[j].pair : j \in i .. Len(nodes)} \ done

(* The fused kernel at the head of a stage when the pairs in done have been   *)
(* matched: what is left of the maximal run of adjacent communications that   *)
(* holds the first unmatched one.                                             *)
HeadKernel(nodes, done) ==
  LET i == SelectInSeq(nodes, LAMBDA n : InKernel(n) /\ n.pair \notin done)
  IN  IF i = 0 THEN {}
      ELSE {nodes[j].pair : j \in {x \in i .. Len(nodes) :
              \A k \in i .. x : InKernel(nodes[k])}} \ done

(* One round of matching: a pair at the head of both its stages is done.      *)
MatchRound(order, done) ==
  done \cup UNION {HeadKernel(order[st[1]], done) \cap HeadKernel(order[st[2]], done) :
                     st \in {x \in (DOMAIN order) \X (DOMAIN order) : x[1] < x[2]}}

PairIds(order) == {n.pair : n \in {x \in AllNodes(order) : InKernel(x)}}

(* RuntimeError unless the rounds match every communication.                  *)
ValidCommunication(order) ==
  LET rounds == Cardinality(PairIds(order))
      done[k \in 0 .. rounds] == IF k = 0 THEN {} ELSE MatchRound(order, done[k - 1])
  IN  done[rounds] = PairIds(order)

-------------------------------------------------------------------------------
(* run_schedule_passes: what the runtime of each stage gets.  offload is the  *)
(* time of a copy in tenths of that of a forward and backward, None without.  *)
WithReceives(sends, pairs) == InsertRecvNodes(sends, pairs).order

WithPostValidation(post, pairs) == TagRollback(WithReceives(post.order, pairs \o post.pairs))

WithCommunication(cfg, timed, postValidation) ==
  IF postValidation
  THEN WithPostValidation(AddPostValidation(cfg, InsertSendNodes(cfg, timed)), CommPairs(cfg, timed))
  ELSE WithReceives(InsertSendNodes(cfg, timed), CommPairs(cfg, timed))

WithOffload(cfg, timed, offload) ==
  IF offload = None THEN timed ELSE AddOffload(cfg, timed, offload).order

RunSchedulePasses(cfg, order, postValidation, offload) ==
  WithCommunication(cfg,
    WithOffload(cfg, AddTime(cfg, AddSendRecvPeerStage(cfg, order) @@ <<>>), offload), postValidation)
=============================================================================
