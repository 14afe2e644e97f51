----------------------------- MODULE OffloadPasses -----------------------------
(* The pass that plans the offload of activations to host memory              *)
(* (scheduler/offloading.py).  A forward marked offload is followed by the    *)
(* copy of its activations to the host, SEND_START to SEND_END, and its       *)
(* backward preceded by the copy back, RECV_PREP and RECV_START, which        *)
(* RECV_END ends after the weight gradient.  Two neighbouring stages share    *)
(* the path to the host: their copies get slots of one time grid, so that one *)
(* sends while the other receives, and barriers keep them to it.              *)
EXTENDS ScheduleGraph, Loops, SequencesExt

OffloadKey(n) == <<n.lg, n.mb>>

(* The other stage of a pair.                                                 *)
PairedStage(s) == IF s % 2 = 0 THEN s + 1 ELSE s - 1

Reschedule(n, t) == [n EXCEPT !.start = t, !.end = t + (n.end - n.start)]
OffloadNode(n, type, t) == [n EXCEPT !.type = type, !.start = t, !.end = t]

-------------------------------------------------------------------------------
(* postpone_forward_in_warmup: on each stage, from the last, the forwards     *)
(* before the first backward start as late as the forward of the next layer   *)
(* group and what follows on the stage allow, with the time of a backward to  *)
(* spare.  The first one of the last chunk ends it.                           *)
PostponeOnStage(cfg, order, s) ==
  LET nodes   == order[s]
      first   == SelectInSeq(nodes, LAMBDA n : n.type \in {"B", "BW"})
      cost(n) == n.end - n.start
      Following(acc, n) ==
        CHOOSE x \in AllNodes(acc.order) : Key(x) = MakeKey("F", n.lg + 1, n.mb, n.seq)
      LatestStart(acc, n) ==
        Smaller(Following(acc, n).start - cfg.comm, acc.time) - cost(n)
      Postponed(acc, i) ==
        LET n == nodes[i]
            t == Larger(n.start, LatestStart(acc, n))
        IN  IF acc.over \/ (n.chunk = cfg.chunks - 1 /\ n.mb = 0)
            THEN [acc EXCEPT !.over = TRUE]
            ELSE [acc EXCEPT !.order[s][i] = Reschedule(n, t), !.time = t]
  IN  ForEach(Postponed,
              [order |-> order, over |-> FALSE, time |-> nodes[first].start - cost(nodes[first])],
              Downwards(first - 1, 1)).order

PostponeForwards(cfg, order) ==
  ForEach(LAMBDA o, s : PostponeOnStage(cfg, o, s), order, Downwards(cfg.n - 1, 0))

-------------------------------------------------------------------------------
(* add_send_recv.  Slot k of a stage starts at start + 2 * k * P, P being the *)
(* time of a copy; a send has the first half of its slot, and the half before *)
(* a slot is for a receive.                                                   *)

OffloadPass(index, n, t, time) == [index |-> index, node |-> n, start |-> t, end |-> t + time]
IsSendPass(p) == p.index % 2 = 0

(* The forwards to offload: those whose activations are back in time.         *)
WorthOffloading(nodes, P) ==
  LET offloaded(type) == {n \in {nodes[i] : i \in DOMAIN nodes} : n.type = type /\ n.offload}
  IN  {OffloadKey(b) : b \in {x \in offloaded("B") : \E f \in offloaded("F") :
         /\ OffloadKey(f) = OffloadKey(x)
         /\ x.start - (x.end - x.start) - f.end > 6 * P}}

(* The sends take the first free slot after their forward.                    *)
SendPasses(nodes, start, P, keys) ==
  LET SlotAfter(k, t) == Larger(k, (t - start + 2 * P - 1) \div (2 * P))
      Send(acc, n) ==
        LET k == SlotAfter(acc.slot, n.end)
        IN  IF n.type # "F" \/ ~ n.offload \/ OffloadKey(n) \notin keys THEN acc
            ELSE [slot   |-> k + 1,
                  passes |-> Append(acc.passes, OffloadPass(2 * k, n, start + 2 * P * k, P))]
      sent == ForEach(Send, [slot |-> 0, passes |-> <<>>], nodes)
  IN  [sent EXCEPT !.slot = SlotAfter(@, Last(nodes).end)]

(* The receives, from the last backward, take the last free half slot before  *)
(* their backward, with its time to spare.  They must come after their send.  *)
RecvPasses(nodes, start, P, keys, sent) ==
  LET SlotBefore(k, t) == Smaller(k, (t - start) \div (2 * P))
      SendOf(n) == CHOOSE p \in Range(sent.passes) : OffloadKey(p.node) = OffloadKey(n)
      Receive(acc, n) ==
        LET k == SlotBefore(acc.slot, n.start - (n.end - n.start))
            t == start + 2 * P * k - P
        IN  IF n.type # "B" \/ ~ n.offload \/ OffloadKey(n) \notin keys THEN acc
            ELSE [ok     |-> acc.ok /\ t > SendOf(n).start + P,
                  slot   |-> k - 1,
                  passes |-> <<OffloadPass(2 * k - 1, n, t, P)>> \o acc.passes]
  IN  ForEach(Receive, [ok |-> TRUE, slot |-> sent.slot, passes |-> <<>>], Reverse(nodes))

OffloadSchedule(nodes, start, P) ==
  LET Merged(sent, received) ==
        [ok     |-> received.ok,
         passes |-> SortSeq(sent.passes \o received.passes, LAMBDA p, q : p.index < q.index)]
      Scheduled(keys) ==
        Once(LAMBDA sent : Once(LAMBDA received : Merged(sent, received),
                                RecvPasses(nodes, start, P, keys, sent)),
             SendPasses(nodes, start, P, keys))
  IN  Once(Scheduled, WorthOffloading(nodes, P))

-------------------------------------------------------------------------------
(* adjust_warmup: before the first receive of either stage the path is free,  *)
(* and the sends of the two follow one another in their order, each in the    *)
(* time solo that a copy takes when no other runs.  passes[r] are those of    *)
(* stage r of the pair, whose slots count from r.                             *)
AdjustWarmUp(passes, solo) ==
  LET all       == {<<r, p>> : r \in {0}, p \in Range(passes[0])}
                   \cup {<<r, p>> : r \in {1}, p \in Range(passes[1])}
      receives  == {rp[1] + rp[2].index : rp \in {x \in all : ~ IsSendPass(x[2])}}
      firstRecv == Min({Last(passes[0]).index} \cup receives)
      Visit(acc, index, r) ==
        LET p == acc.passes[r][acc.next[r]]
            t == Larger(acc.time, p.node.end)
        IN  IF acc.next[r] > Len(acc.passes[r]) THEN [acc EXCEPT !.ok = FALSE]
            ELSE IF p.index + r # index THEN acc
            ELSE [ok     |-> t <= p.start,
                  passes |-> [acc.passes EXCEPT ![r][acc.next[r]] =
                                [p EXCEPT !.start = t, !.end = t + solo]],
                  next   |-> [acc.next EXCEPT ![r] = @ + 1],
                  time   |-> t + solo]
      Both(acc, index) == For(LAMBDA a, r : Visit(a, index, r), acc, <<0, 1>>)
  IN  IF passes[0] = <<>> THEN [ok |-> FALSE, passes |-> passes]
      ELSE LET first == passes[0][1]
           IN  For(Both, [ok |-> TRUE, passes |-> passes, next |-> [r \in {0, 1} |-> 1],
                          time |-> first.start],
                   Upwards(first.index, firstRecv - 1))

-------------------------------------------------------------------------------
(* add_send_recv_in_schedule.                                                 *)

Priority == [OFFLOAD_SEND_START |-> 0, OFFLOAD_SEND_END |-> 1, OFFLOAD_RECV_PREP |-> 2,
             OFFLOAD_RECV_START |-> 3, OFFLOAD_RECV_END |-> 4]

ByTime(nodes) ==
  SortSeq(nodes, LAMBDA x, y : \/ x.start < y.start
                               \/ x.start = y.start /\ Priority[x.type] < Priority[y.type])

(* Before a node go the ends and starts of receives that are over when it     *)
(* starts, and the starts of sends and preparations that come before it ends; *)
(* after the weight gradient of what was sent, the end of its receive.        *)
AddToSchedule(nodes, passes) ==
  LET left  == [k \in DOMAIN passes |->
                  OffloadNode(passes[k].node,
                    IF passes[k].node.type = "F" THEN "OFFLOAD_SEND_START" ELSE "OFFLOAD_RECV_PREP",
                    passes[k].start)]
      right == [k \in DOMAIN passes |->
                  IF passes[k].node.type = "F"
                  THEN OffloadNode(passes[k].node, "OFFLOAD_SEND_END", passes[k].end)
                  ELSE OffloadNode(passes[k].node, "OFFLOAD_RECV_START", passes[k].start)]
      sent  == {OffloadKey(p.node) : p \in {x \in Range(passes) : x.node.type = "F"}}
      From(queue, i, Stops(_)) ==
        LET j == SelectInSubSeq(queue, i, Len(queue), Stops)
        IN  IF j = 0 THEN Len(queue) + 1 ELSE j
      Add(acc, n) ==
        LET r == From(right, acc.right, LAMBDA x : x.end > n.start)
            l == From(left, acc.left, LAMBDA x : x.start >= n.end)
        IN  [out   |-> acc.out
                       \o ByTime(acc.new \o SubSeq(right, acc.right, r - 1)
                                         \o SubSeq(left, acc.left, l - 1))
                       \o <<n>>,
             right |-> r,
             left  |-> l,
             new   |-> IF n.type \in {"W", "BW"} /\ OffloadKey(n) \in sent
                       THEN <<OffloadNode(n, "OFFLOAD_RECV_END", n.end)>> ELSE <<>>]
      added == ForEach(Add, [out |-> <<>>, right |-> 1, left |-> 1, new |-> <<>>], nodes)
  IN  [ok    |-> added.left > Len(left) /\ added.right > Len(right),
       nodes |-> added.out \o added.new]

(* remove_unnecessary_offload: what is not copied is not marked any more.     *)
RemoveUnnecessary(nodes) ==
  LET copied == {OffloadKey(nodes[i]) : i \in {j \in DOMAIN nodes : nodes[j].type \in OffloadTypes}}
  IN  [i \in DOMAIN nodes |->
         [nodes[i] EXCEPT !.offload = @ /\ (nodes[i].type \in OffloadTypes
                                            \/ OffloadKey(nodes[i]) \in copied)]]

-------------------------------------------------------------------------------
(* add_barriers_before_offload.                                               *)

(* nodes[r] are those of stage r of the pair, at[r] how many are in out[r].   *)
NextSends(acc, nodes) ==             \* fault: no barrier for the copies back
  [r \in {0, 1} |-> SelectInSubSeq(nodes[r], acc.at[r] + 1, Len(nodes[r]),
                                   LAMBDA n : n.type = "OFFLOAD_SEND_START")] @@ <<>>

NextCopies(acc, nodes) ==
  [r \in {0, 1} |-> SelectInSubSeq(nodes[r], acc.at[r] + 1, Len(nodes[r]),
                                   LAMBDA n : n.type \in CopyStarts)] @@ <<>>

(* A turn of the loop: the earliest start of a copy on either stage is met by *)
(* one on the other at the same time, or by a barrier.                        *)
AtNextCopy(acc, nodes, s, next, time) ==
  LET Meets(r) == next[r] # 0 /\ nodes[r][next[r]].start <= time
      \* The nodes before the copy, if there is one, that start by then.
      Until(r) ==
        LET stop == IF next[r] = 0 THEN Len(nodes[r]) + 1 ELSE next[r]
            late == SelectInSubSeq(nodes[r], acc.at[r] + 1, stop - 1, LAMBDA n : n.start > time)
        IN  IF late = 0 THEN stop - 1 ELSE late - 1
      Barrier(r) == [ComputeNode("OFFLOAD_BARRIER", s + r, 0, 0, 0, None)
                       EXCEPT !.start = time, !.end = time]
  IN  [ok  |-> \A r \in {0, 1} : Meets(r) => Until(r) = next[r] - 1,
       at  |-> [r \in {0, 1} |-> Until(r) + (IF Meets(r) THEN 1 ELSE 0)] @@ <<>>,
       out |-> [r \in {0, 1} |-> acc.out[r] \o SubSeq(nodes[r], acc.at[r] + 1, Until(r))
                  \o (IF Meets(r) THEN <<nodes[r][next[r]]>> ELSE <<Barrier(r)>>)] @@ <<>>]

AddBarrier(acc, nodes, s) ==
  LET Time(next) ==
        Min({Last(nodes[0]).end}
            \cup {nodes[r][next[r]].start : r \in {x \in {0, 1} : next[x] # 0}})
  IN  Once(LAMBDA next : AtNextCopy(acc, nodes, s, next, Time(next)), NextCopies(acc, nodes))

AddBarriers(nodes, s) ==
  LET Copies(r, from) == {i \in from .. Len(nodes[r]) : nodes[r][i].type \in CopyStarts}
      More(acc) == \E r \in {0, 1} : Copies(r, acc.at[r] + 1) # {}
      turns     == Cardinality(Copies(0, 1)) + Cardinality(Copies(1, 1))
      Rest(acc) == [ok  |-> acc.ok /\ ~ More(acc),
                    out |-> [r \in {0, 1} |-> acc.out[r] \o SubSeq(nodes[r], acc.at[r] + 1,
                                                                   Len(nodes[r]))] @@ <<>>]
  IN  Rest(While(More, LAMBDA acc : AddBarrier(acc, nodes, s),
                 [ok |-> TRUE, at |-> [r \in {0, 1} |-> 0], out |-> [r \in {0, 1} |-> <<>>]],
                 turns))

-------------------------------------------------------------------------------
(* add_offload_passes, for the stages s and s + 1: the copies of both, the    *)
(* sends of the warm-up, the nodes in the orders and then the barriers.       *)
OnBoth(values) == [ok |-> values[0].ok /\ values[1].ok, of |-> values]

PlanPair(nodes, P) ==
  OnBoth([r \in {0, 1} |-> OffloadSchedule(nodes[r], nodes[0][1].end + r * P, P)] @@ <<>>)

AdjustPair(planned, P) ==
  AdjustWarmUp([r \in {0, 1} |-> planned.of[r].passes] @@ <<>>, (7 * P) \div 10)

AddPair(nodes, adjusted) ==
  OnBoth([r \in {0, 1} |-> AddToSchedule(nodes[r], adjusted.passes[r])] @@ <<>>)

BarPair(added, s) ==
  Once(LAMBDA nodes : AddBarriers(nodes, s),
       [r \in {0, 1} |-> RemoveUnnecessary(added.of[r].nodes) \o <<>>] @@ <<>>)

PutPair(acc, s, barred) ==
  IF ~ barred.ok THEN [acc EXCEPT !.ok = FALSE]
  ELSE [acc EXCEPT !.order[s] = barred.out[0], !.order[s + 1] = barred.out[1]]

OffloadPair(acc, s, P) ==
  LET nodes    == [r \in {0, 1} |-> acc.order[s + r]] @@ <<>>
      adjusted == Then(PlanPair(nodes, P), LAMBDA planned : AdjustPair(planned, P))
      added    == Then(adjusted, LAMBDA a : AddPair(nodes, a))
      barred   == Then(added, LAMBDA a : BarPair(a, s))
  IN  Once(LAMBDA b : PutPair(acc, s, b), barred)

(* add_offload: a copy takes tenths / 10 of the time of a forward with its    *)
(* backward and weight gradient, and 7 / 10 of that when no other runs.       *)
AddOffload(cfg, order, tenths) ==
  LET P     == (Max({cfg.f[s] + cfg.b[s] + cfg.w[s] : s \in Stages(cfg)}) * tenths) \div 10
      pairs == [k \in 1 .. cfg.n \div 2 |-> 2 * (k - 1)]
  IN  IF cfg.n % 2 # 0 THEN [ok |-> FALSE, order |-> order]
      ELSE For(LAMBDA acc, s : OffloadPair(acc, s, P),
               [ok |-> TRUE, order |-> PostponeForwards(cfg, order)], pairs)
=============================================================================
