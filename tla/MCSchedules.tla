----------------------------- MODULE MCSchedules -----------------------------
(* Iteration configurations for PipelineRuntime: what the modelled builders   *)
(* and passes compile.  The MC modules of the runtime choose among them.      *)
EXTENDS MatchedOrders, ScheduleBuilders, SchedulePasses, ZeroBubbleOrder,
        VScheduleOrder, ZBVOrder, GreedyVOrder, InterleavedOrder

(* What a builder gives; Compiled has what the passes make of it.           *)
Iteration(cfg, order, forwardOnly, splitSupported) ==
  [cfg |-> cfg, order |-> order @@ <<>>, forwardOnly |-> forwardOnly,
   splitSupported |-> splitSupported, postValidation |-> FALSE, offload |-> None]

Compiled(iterations) ==
  {[order |-> RunSchedulePasses(i.cfg, i.order, i.postValidation, i.offload) @@ <<>>,
    forwardOnly |-> i.forwardOnly, splitSupported |-> i.splitSupported,
    micro |-> i.cfg.m] : i \in iterations}

OneF1B(n, m, forwardOnly) ==
  LET cfg == BasicConfig(n, m, 1, 1, 1, 1, 1)
  IN  Iteration(cfg, Basic1F1B(cfg), forwardOnly, TRUE)

SeqOneF1B(n, m, seqs) ==
  LET cfg == BasicConfig(n, m, 1, seqs, 2, 1, 1)
  IN  Iteration(cfg, Seq1F1B(cfg), FALSE, TRUE)

(* Zero bubble: a forward takes 4 units, of which B frees 3 and W the last;   *)
(* maxMem is in forwards.  With validated comes the optimizer's post          *)
(* validation.                                                                *)
ZB(n, m, f, b, w, maxMem, forwardOnly, splitSupported, validated) ==
  LET cfg == ZBConfig(n, m, f, b, w, 1, 4, -3, -1, 4 * maxMem)
  IN  [Iteration(cfg, ZeroBubble(cfg), forwardOnly, splitSupported) EXCEPT
         !.postValidation = validated]

VOneF1B(n, m, forwardOnly) ==
  LET cfg == BasicConfig(n, m, 2, 1, 1, 1, 1)
  IN  Iteration(cfg, VSchedule(cfg), forwardOnly, TRUE)

(* V-shaped zero bubble, and its variants with controllable memory.           *)
VZeroBubble(n, m, f, b, w) ==
  LET cfg == ZBVConfig(n, m, f, b, w, 1, 4, -3, -1)
  IN  Iteration(cfg, ZBVSchedule(cfg), FALSE, TRUE)

GreedyV(n, m, setup) ==
  LET cfg == GreedyConfig(n, m)
  IN  Iteration(cfg, GreedyVSchedule(cfg, setup), FALSE, TRUE)

(* Interleaved 1F1B over two chunks: the last stage feeds the first one.      *)
TwoInterleaved(n, m, size, forwardOnly) ==
  LET cfg == BasicConfig(n, m, 2, 1, 1, 1, 1)
  IN  Iteration(cfg, InterleavedSchedule(cfg, size, 0, 0), forwardOnly, TRUE)

(* With the first chunks recomputed, or offloaded at tenths / 10 of the time  *)
(* of a microbatch for a copy.                                                *)
RecomputedInterleaved(n, m, recomputed) ==
  LET cfg == BasicConfig(n, m, 2, 1, 1, 1, 1)
  IN  Iteration(cfg, InterleavedSchedule(cfg, 1, recomputed, 0), FALSE, TRUE)

OffloadedInterleaved(n, m, size, offloaded, tenths) ==
  LET cfg == BasicConfig(n, m, 2, 1, 100, 100, 100)
  IN  [Iteration(cfg, InterleavedSchedule(cfg, size, 0, offloaded), FALSE, TRUE) EXCEPT
         !.offload = tenths]

TwoChunks == {0, 1}
OneChunk  == {0}
NoSplit   == {0}
TwoSplits == {0, 1}
=============================================================================
