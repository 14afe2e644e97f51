----------------------------- MODULE GreedyVOrder -----------------------------
(* The builder of the V-shaped zero-bubble schedules with controllable memory *)
(* (scheduler/zbv_greedy.py): a stable pattern of period 6 is repeated for    *)
(* every microbatch, its passes are moved to earlier slots as far as the      *)
(* memory does not grow, with the weight gradients and then without them, and *)
(* the weight gradients are put in the slots left free.                       *)
(*                                                                            *)
(* A layout gives, for each stage, the slots of its types of pass in the      *)
(* order of the microbatches (@@ <<>> writes such a table out once, where TLC *)
(* would evaluate an entry at every use).  The types have the code's numbers: *)
(* 0 and 1 are the forwards of chunk 0 and 1, 2 and 3 the backwards of chunk  *)
(* 1 and 0, 4 a weight gradient; 4 and 5 are those of chunk 1 and 0 when the  *)
(* weight gradients are split.                                                *)
EXTENDS ScheduleGraph, Loops, FiniteSetsExt, SequencesExt

(* The configuration that the scheduler gives the builder, whatever the costs *)
(* that were measured.                                                        *)
GreedyConfig(n, m) == [BasicConfig(n, m, 2, 1, 1000, 1000, 1000) EXCEPT !.comm = 1]

(* stable_pattern_v_min and stable_pattern_v_half: the first slot of types 0  *)
(* to 3 on stage s.                                                           *)
StablePattern(n, setup, s) ==
  LET min  == IF n % 3 = 0 THEN 2 ELSE 0
      half == IF n % 2 = 0 THEN 3 ELSE 0
  IN  IF setup = "min"
      THEN <<s, 2 * n - s - 1, 2 * n + min + s, 4 * n + min - s - 1>>
      ELSE <<2 * s, 3 * n - s - 2, 3 * n + half + 2 * s - 1, 6 * n + half - s - 2>>

Repeated(n, m, setup) ==
  [s \in 0 .. n - 1 |-> [t \in 0 .. 3 |->
     [i \in 1 .. m |-> StablePattern(n, setup, s)[t + 1] + 6 * (i - 1)] \o <<>>] @@ <<>>] @@ <<>>

(* The slots of a stage, of all its types or of some, and the last one.       *)
SlotsOf(stage, types) == UNION {Range(stage[t]) : t \in types \cap DOMAIN stage}
LastSlot(stage)       == Max(SlotsOf(stage, DOMAIN stage))

(* put_w: a slot without a pass takes a weight gradient that is due, and      *)
(* those still due at the end take the slots after the last one.              *)
FillWithW(stage, split) ==
  LET owner(t) == IF split /\ t = 3 THEN 5 ELSE 4
      m        == Len(stage[0])
      types    == 0 .. IF split THEN 5 ELSE 4
      Visit(acc, x) ==
        LET done == {t \in 0 .. 3 : x \in Range(stage[t])}
            due  == {w \in {4, 5} : acc.due[w] > 0}
        IN  CASE done # {} -> [acc EXCEPT !.due = [w \in {4, 5} |->
                                 @[w] + Cardinality({t \in done \cap {2, 3} : owner(t) = w})] @@ <<>>]
              [] done = {} /\ due # {} ->
                   [acc EXCEPT !.due[Min(due)] = @ - 1,
                               !.stage[Min(due)] = Append(@, x)]
              [] OTHER -> acc
      start == [due |-> [w \in {4, 5} |-> 0],
                stage |-> [t \in types |-> IF t < 4 THEN stage[t] ELSE <<>>] @@ <<>>]
  IN  ForEach(Visit, start, Upwards(0, LastSlot(stage) + 2 * m)).stage

FillAll(layout, split) == [s \in DOMAIN layout |-> FillWithW(layout[s], split)] @@ <<>>

(* mem_of_stage: the most forwards held at a slot, a weight gradient freeing  *)
(* one.  Without weight gradients a free slot counts as one that is due.      *)
MostHeld(full) ==
  LET HeldAt(x) == Cardinality({y \in SlotsOf(full, {0, 1}) : y <= x})
                   - Cardinality({y \in SlotsOf(full, {4}) : y <= x})
  IN  Max({HeldAt(x) : x \in SlotsOf(full, {0, 1})} \cup {0})

MemOfStage(stage) == MostHeld(IF 4 \in DOMAIN stage THEN stage ELSE FillWithW(stage, FALSE))

(* The passes by slot, then by stage: <<slot, stage, type, microbatch>>.  (The *)
(* code merges the lists of all types of all stages, which all ascend.)       *)
InPatternOrder(layout) ==
  LET n     == Cardinality(DOMAIN layout)
      types == Cardinality(DOMAIN layout[0])
      last  == Max({LastSlot(layout[s]) : s \in DOMAIN layout})
      cell(k) == <<k \div (n * types), (k \div types) % n, k % types>>
      at(c)   == {i \in DOMAIN layout[c[2]][c[3]] : layout[c[2]][c[3]][i] = c[1]}
      cells   == SelectSeq([k \in 1 .. (last + 1) * n * types |-> cell(k - 1)],
                           LAMBDA c : at(c) # {})
  IN  [k \in DOMAIN cells |-> Append(cells[k], (CHOOSE i \in at(cells[k]) : TRUE) - 1)]

(* The passes that one of type t and microbatch i on stage s follows: the one *)
(* that hands it its operand, its predecessor on its own stage and the same   *)
(* pass of the microbatch before.  A weight gradient has the last alone.      *)
Follows(n, s, t, i) ==
  {q \in {<<s - 1, t, i>>} : t \in {0, 2} /\ s > 0}
  \cup {q \in {<<s + 1, t, i>>} : t \in {1, 3} /\ s + 1 < n}
  \cup {q \in {<<s, t - 1, i>>} : t \in 1 .. 3}
  \cup {q \in {<<s, t, i - 1>>} : i > 0}

-------------------------------------------------------------------------------
(* eager_execution_time: the passes in the order of their slots, each as soon *)
(* as it can be.  The ends of the passes, and the order of each stage.        *)
EagerExecution(layout, cost, comm) ==
  LET n == Cardinality(DOMAIN layout)
      Run(acc, cell) ==
        LET s == cell[2]
            t == cell[3]
            i == cell[4]
            id == <<s, t, i>>
            start == Max({0, acc.free[s]} \cup
                         {acc.end[q] + (IF q[1] # s THEN comm ELSE 0) : q \in Follows(n, s, t, i)})
        IN  [end |-> (id :> start + cost[t]) @@ acc.end,
             free |-> [acc.free EXCEPT ![s] = start + cost[t]],
             order |-> [acc.order EXCEPT ![s] = Append(@, <<t, i>>)]]
      start == [end |-> <<>>, free |-> [s \in DOMAIN layout |-> 0] @@ <<>>,
                order |-> [s \in DOMAIN layout |-> <<>>] @@ <<>>]
  IN  ForEach(Run, start, InPatternOrder(layout))

(* The slots when every pass takes one slot and no time is communicated: the  *)
(* layout without the slots in which all stages wait.                         *)
EagerSlots(layout) ==
  CHOOSE slots \in {[s \in DOMAIN layout |-> [t \in DOMAIN layout[s] |->
                       [i \in DOMAIN layout[s][t] |-> end[<<s, t, i - 1>>] - 1] \o <<>>]
                          @@ <<>>] @@ <<>> :
                     end \in {EagerExecution(layout, [t \in 0 .. 4 |-> 1], 0).end}} : TRUE

(* The slots that a pass must come after: those of what it follows, and for a *)
(* weight gradient the backward that it belongs to, the i-th of its stage.    *)
AfterSlots(layout, s, t, i) ==
  LET backwards == SlotsOf(layout[s], {2, 3})
      nth(S)    == CHOOSE x \in S : Cardinality({y \in S : y < x}) = i
  IN  {layout[q[1]][q[2]][q[3] + 1] : q \in Follows(Cardinality(DOMAIN layout), s, t, i)}
      \cup (IF t = 4 THEN {nth(backwards)} ELSE {})

(* A pass moves to the first slot that is free, comes after what it must and  *)
(* does not make its stage hold more than any stage held before; what it must *)
(* come after is asserted to be before its own slot.                          *)
MovedTo(acc, limit, slot, s, t, i) ==
  LET Place(x) == [acc.layout EXCEPT ![s][t][i + 1] = x]
      first    == Max(AfterSlots(acc.layout, s, t, i) \cup {-1}) + 1
      better   == {x \in first .. slot - 1 : /\ <<s, x>> \notin acc.taken
                                             /\ MemOfStage(Place(x)[s]) <= limit}
  IN  Asserting(first <= slot, Min({slot} \cup better))

(* reorder.  The passes from the first backward of chunk 0 on stage 0 (phase  *)
(* 1) to the last forward (phase 2) keep their slots: the stable phase.  The  *)
(* ones before it move only while the weight gradients are considered.        *)
MovePasses(layout, considerW, limit) ==
  LET m == Len(layout[0][0])
      Visit(acc, cell) ==
        LET s == cell[2]
            t == cell[3]
            i == cell[4]
            part  == IF t = 3 /\ s = 0 /\ acc.part = 0 THEN 1 ELSE acc.part
            last  == t = 0 /\ i = m - 1
            stays == part = 1 \/ (part = 0 /\ ~ considerW)
            At(slot) == [part |-> IF part = 1 /\ last THEN 2 ELSE part,
                         taken |-> acc.taken \cup {<<s, slot>>},
                         layout |-> [acc.layout EXCEPT ![s][t][i + 1] = slot]]
        IN  At(IF stays THEN cell[1] ELSE MovedTo(acc, limit, cell[1], s, t, i))
  IN  ForEach(Visit, [part |-> 0, taken |-> {}, layout |-> layout], InPatternOrder(layout)).layout

MoveWithin(layout, considerW) ==
  MovePasses(layout, considerW, Max({MemOfStage(layout[s]) : s \in DOMAIN layout}))

Reorder(layout, considerW) ==
  EagerSlots(IF considerW THEN MoveWithin(FillAll(layout, FALSE), TRUE)
             ELSE FillAll(MoveWithin(layout, FALSE), FALSE))

WithoutW(layout) == [s \in DOMAIN layout |-> [t \in 0 .. 3 |-> layout[s][t]] @@ <<>>] @@ <<>>

(* schedule_from_pattern and create_schedule: the order of each stage.        *)
GreedyNode(cfg, s, t, i) ==
  LET chunk == IF t < 2 THEN t ELSE 1 - (t % 2)
  IN  ComputeNode(<<"F", "B", "W">>[1 + t \div 2], s, i, chunk, 0,
                  cfg.n * chunk + (IF chunk = 0 THEN s ELSE cfg.n - 1 - s))

GreedyNodes(cfg, s, passes) ==
  [k \in DOMAIN passes |-> GreedyNode(cfg, s, passes[k][1], passes[k][2])] \o <<>>

GreedyOrder(cfg, layout) ==
  LET cost == [t \in 0 .. 5 |-> <<cfg.f, cfg.b, cfg.w>>[1 + t \div 2][0]]
  IN  CHOOSE order \in {[s \in Stages(cfg) |-> GreedyNodes(cfg, s, passes[s])] @@ <<>> :
                          passes \in {EagerExecution(layout, cost, 1).order}} : TRUE

GreedyVSchedule(cfg, setup) ==
  LET Squeeze(layout, considerW) == WithoutW(Reorder(layout, considerW))
  IN  GreedyOrder(cfg, FillAll(ForEach(Squeeze, Repeated(cfg.n, cfg.m, setup), <<TRUE, FALSE>>), TRUE))
=============================================================================
