--------------------------- MODULE ScheduleBuilders ---------------------------
(* The builders of one-chunk schedules whose backward is not split            *)
(* (scheduler/basic1f1b.py and scheduler/seq1f1b.py): from a configuration,   *)
(* the order of the computations on each stage.                               *)
EXTENDS ScheduleGraph, Loops

(* basic1f1b.create_schedule: a warm-up of forwards, then a forward and a     *)
(* backward in turn, then the backwards that the warm-up left over.           *)
Basic1F1BStage(cfg, s) ==
  LET warmup    == Smaller(cfg.n - s - 1, cfg.m)
      remaining == cfg.m - warmup
      F(mb)     == ComputeNode("F", s, mb, 0, 0, s)
      BW(mb)    == ComputeNode("BW", s, mb, 0, 0, s)
  IN  [i \in 1 .. warmup |-> F(i - 1)]
      \o [i \in 1 .. 2 * remaining |-> IF i % 2 = 1 THEN F(warmup + i \div 2)
                                                    ELSE BW(i \div 2 - 1)]
      \o [i \in 1 .. warmup |-> BW(remaining + i - 1)]

Basic1F1B(cfg) == [s \in Stages(cfg) |-> Basic1F1BStage(cfg, s)]

(* seq1f1b.create_schedule: the same shape over (microbatch, sequence split)  *)
(* units; the splits of a microbatch run forward in increasing and backward   *)
(* in decreasing order.                                                       *)
Seq1F1BStage(cfg, s) ==
  LET units     == cfg.m * cfg.seqs
      warmup    == Smaller(cfg.n - s - 2 + cfg.seqs, units)
      remaining == units - warmup
      F(u)      == ComputeNode("F", s, u \div cfg.seqs, 0, u % cfg.seqs, s)
      BW(u)     == ComputeNode("BW", s, u \div cfg.seqs, 0,
                               cfg.seqs - 1 - (u % cfg.seqs), s)
  IN  [i \in 1 .. warmup |-> F(i - 1)]
      \o [i \in 1 .. 2 * remaining |-> IF i % 2 = 1 THEN F(warmup + i \div 2)
                                                    ELSE BW(i \div 2 - 1)]
      \o [i \in 1 .. warmup |-> BW(remaining + i - 1)]

Seq1F1B(cfg) == [s \in Stages(cfg) |-> Seq1F1BStage(cfg, s)]
=============================================================================
