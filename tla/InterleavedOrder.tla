--------------------------- MODULE InterleavedOrder ---------------------------
(* The builder of the grouped interleaved 1F1B schedule                       *)
(* (scheduler/group_interleaved_1f1b.py).  A stage holds cfg.chunks chunks,   *)
(* and layer group n * c + s is chunk c of stage s, so that the last stage    *)
(* hands its tensors to the first one.  The passes of a group of microbatches *)
(* form a building block, which is repeated for every group; recomputations   *)
(* go before the backwards of the first chunks; later stages are shifted as   *)
(* far as the first stage need not wait for them, and with groups of several  *)
(* microbatches the waits are squeezed out.                                   *)
EXTENDS ScheduleGraph, Loops, FiniteSetsExt, SequencesExt

(* What a stage does in a slot of its schedule: a pass, or nothing.           *)
Pass(type, chunk, mb) == [type |-> type, chunk |-> chunk, mb |-> mb]
NoPass     == Pass("none", None, None)
IsNan(p)   == p.type = "none"

Ceil(a, b) == (a + b - 1) \div b
Gcd(a, b)  == Max({d \in 1 .. a : a % d = 0 /\ b % d = 0})

(* create_schedule: the least size, from half of the stages, of a group that  *)
(* takes a stage as long as all the forwards, or backwards, of a microbatch.  *)
MinGroupSize(cfg) ==
  LET fbw == Max({cfg.f[s] + cfg.b[s] + cfg.w[s] : s \in Stages(cfg)})
      sum(cost) == MapThenSumSet(LAMBDA s : cost[s], Stages(cfg))
  IN  Min({k \in Ceil(cfg.n, 2) .. cfg.n : fbw * k >= Larger(sum(cfg.f), sum(cfg.b))})

(* get_optimal_building_block and repeat_building_block: the slot of a pass   *)
(* of microbatch i on stage s, with groups of size microbatches.  The chunks  *)
(* come k groups of slots after each other, one more where the slots are      *)
(* taken; the backwards start after the first forward of the last chunk has   *)
(* gone through the remaining stages and its backward has come back.          *)
ChunkAfter(cfg, size, k, c) == 3 * size * (k * c + (c \div (cfg.chunks \div Gcd(cfg.chunks, k))))

SlotOf(cfg, size, s, type, chunk, i) ==
  LET After(c)  == ChunkAfter(cfg, size, Ceil(MinGroupSize(cfg), size), c)
      inGroup   == 3 * (i % size) + 3 * size * cfg.chunks * (i \div size)
      firstB    == s + 3 * (cfg.n - 1 - s) + 1
      Backward(c) == firstB + After(cfg.chunks - 1) + After(c)
  IN  IF type = "F" THEN After(chunk) + s + inGroup
      ELSE Backward(cfg.chunks - 1 - chunk) + inGroup + (IF type = "W" THEN 1 ELSE 0)

(* The assertions of get_optimal_building_block: what min_k groups lack of    *)
(* two slots per stage is less than a slot per stage, and no two passes of a  *)
(* group fall on one slot of the building block, modulo its length.           *)
BlockFits(cfg, size) ==
  LET passes == {"F", "B", "W"} \X (0 .. cfg.chunks - 1) \X (0 .. size - 1)
      extra  == Larger(0, 2 * cfg.n - 3 * size * Ceil(MinGroupSize(cfg), size))
      placed(s) == {SlotOf(cfg, size, s, p[1], p[2], p[3]) % (3 * size * cfg.chunks) : p \in passes}
  IN  /\ extra < cfg.n
      /\ \A s \in Stages(cfg) : Cardinality(placed(s)) = Cardinality(passes)

(* The slots of every stage; all stages have the same number of them.         *)
RepeatedSchedule(cfg, size) ==
  LET passes  == {"F", "B", "W"} \X (0 .. cfg.chunks - 1) \X (0 .. cfg.m - 1)
      slots   == [s \in Stages(cfg) |->
                    [p \in passes |-> SlotOf(cfg, size, s, p[1], p[2], p[3])] @@ <<>>] @@ <<>>
      groups  == Ceil(cfg.m, size)
      last    == Max({SlotOf(cfg, size, s, "W", 0, groups * size - 1) : s \in Stages(cfg)})
      PassIn(at) == IF at = {} THEN NoPass
                    ELSE LET p == CHOOSE p \in at : TRUE IN Pass(p[1], p[2], p[3])
  IN  [s \in Stages(cfg) |->
         [x \in 1 .. last + 1 |-> PassIn({p \in passes : slots[s][p] = x - 1})] \o <<>>] @@ <<>>

(* add_recomputation_pass: the backwards of the first chunks are preceded by  *)
(* a recomputation, their forwards save no activations.                       *)
AddRecomputation(schedule, chunks) ==
  LET With(p) == IF p.type = "B" /\ p.chunk < chunks THEN <<[p EXCEPT !.type = "R"], p>> ELSE <<p>>
      Append2(acc, p) == acc \o With(p)
  IN  [s \in DOMAIN schedule |-> ForEach(Append2, <<>>, schedule[s])] @@ <<>>

(* The slots between the forward of a microbatch on the last stage and its    *)
(* passes in the next chunk on the first one.                                 *)
Slacks(schedule) ==
  LET last == Max(DOMAIN schedule)
      forward(p) == CHOOSE x \in DOMAIN schedule[last] :
                      schedule[last][x] = Pass("F", p.chunk - 1, p.mb)
  IN  {x - 1 - forward(schedule[0][x]) :
         x \in {y \in DOMAIN schedule[0] : schedule[0][y].chunk > 0 /\ schedule[0][y].type # "R"}}

(* shift_schedule2meet_dependency: stage s starts s slots later, or as many   *)
(* as those slots allow; none of them is negative.                            *)
Shifted(schedule) ==
  LET slacks == Slacks(schedule)
      extra  == Asserting(slacks \subseteq Nat, Min({Max(DOMAIN schedule)} \cup slacks))
      waits(k) == [x \in 1 .. k |-> NoPass]
  IN  [s \in DOMAIN schedule |->
         waits(Smaller(s, extra)) \o schedule[s] \o waits(extra - Smaller(s, extra))] @@ <<>>

(* squeeze_without_change_order: in every slot each stage does its next pass  *)
(* if what it depends on was done in an earlier slot.                         *)
Squeezed(cfg, schedule) ==
  LET queue == [s \in DOMAIN schedule |-> SelectSeq(schedule[s], LAMBDA p : ~ IsNan(p))] @@ <<>>
      group(p, s) == cfg.n * p.chunk + s
      dependsOn(p, s) == CASE p.type = "F" -> Larger(group(p, s) - 1, 0)
                           [] p.type = "B" -> Smaller(group(p, s) + 1, NumLayerGroups(cfg) - 1)
                           [] OTHER        -> group(p, s)
      Ready(acc, s) ==
        /\ acc.done[s] < Len(queue[s])
        /\ LET p == queue[s][acc.done[s] + 1]
           IN  dependsOn(p, s) \in {group(p, s)} \cup
                 {d[3] : d \in {e \in acc.keys : e[1] = p.mb /\ e[2] = p.type}}
      Slot(acc, x) ==
        LET ready == {s \in DOMAIN schedule : Ready(acc, s)}
            head(s) == queue[s][acc.done[s] + 1]
        IN  [done |-> [s \in DOMAIN schedule |-> acc.done[s] + (IF s \in ready THEN 1 ELSE 0)] @@ <<>>,
             keys |-> acc.keys \cup {<<head(s).mb, head(s).type, group(head(s), s)>> : s \in ready}]
      squeezed == ForEach(Slot, [done |-> [s \in DOMAIN schedule |-> 0], keys |-> {}],
                          Upwards(1, Len(schedule[0])))
  IN  [s \in DOMAIN schedule |-> SubSeq(queue[s], 1, squeezed.done[s])] @@ <<>>

-------------------------------------------------------------------------------
(* transform_schedule.  Single microbatches keep their slots: the times of    *)
(* the nodes, which add_time then leaves as they are.  The forwards of the    *)
(* first chunks are to be recomputed, or those of the first to be offloaded.  *)
TransformSchedule(cfg, schedule, recomputed, offloaded, addTime) ==
  LET slot == Max(Range(cfg.f))
      Node(s, p) == [ComputeNode(p.type, s, p.mb, p.chunk, 0, cfg.n * p.chunk + s) EXCEPT
                       !.recompute = p.type = "F" /\ p.chunk < recomputed,
                       !.offload = p.chunk < offloaded]
      At(n, x)   == [n EXCEPT !.start = (x - 1) * slot, !.end = x * slot]
      Add(s, acc, x) ==
        LET p == schedule[s][x]
        IN  IF IsNan(p) THEN acc
            ELSE Append(acc, IF addTime THEN At(Node(s, p), x) ELSE Node(s, p))
  IN  [s \in DOMAIN schedule |->
         ForEach(LAMBDA acc, x : Add(s, acc, x), <<>>, Upwards(1, Len(schedule[s])))] @@ <<>>

(* create_schedule, with the size of the groups and the number of chunks to   *)
(* recompute or to offload; with a recomputation the groups are of one        *)
(* microbatch.                                                                *)
InterleavedSchedule(cfg, groupSize, recomputed, offloaded) ==
  LET size == IF recomputed > 0 THEN 1 ELSE Smaller(groupSize, cfg.n)
      repeated == Asserting(BlockFits(cfg, size), RepeatedSchedule(cfg, size))
      Filled(schedule) == IF size > 1 THEN Squeezed(cfg, schedule) ELSE schedule
  IN  TransformSchedule(cfg,
        Filled(Shifted(AddRecomputation(repeated, recomputed))),
        recomputed, offloaded, size = 1)
=============================================================================
