------------------------------ MODULE MCCompiler ------------------------------
(* The compilation of the schedules of seven builders on up to four stages:   *)
(* 1F1B, 1F1B over sequence splits, zero bubble, V-shaped 1F1B, V-shaped zero *)
(* bubble, its variants with controllable memory, and grouped interleaved     *)
(* 1F1B, plain, with recomputation and with offload, with several costs,      *)
(* communication times and memory limits.                                     *)
EXTENDS ScheduleCompiler, ScheduleBuilders, ZeroBubbleOrder, VScheduleOrder, ZBVOrder,
        GreedyVOrder, InterleavedOrder

(* What 1F1B holds: a forward's activations until its backward.               *)
FusedMem == [type \in {"F", "BW"} |-> IF type = "F" THEN 1 ELSE -1]

Program1F1B(n, m, f, b, comm) ==
  LET cfg == [BasicConfig(n, m, 1, 1, f, b, b) EXCEPT !.comm = comm]
  IN  [cfg |-> cfg, order |-> Basic1F1B(cfg) @@ <<>>, validate |-> FALSE,
       postValidation |-> FALSE, offload |-> None, mem |-> FusedMem,
       limit |-> [s \in Stages(cfg) |-> Smaller(n - s, m)] @@ <<>>]

ProgramSeq1F1B(n, m, seqs, f, b) ==
  LET cfg == BasicConfig(n, m, 1, seqs, f, b, b)
  IN  [cfg |-> cfg, order |-> Seq1F1B(cfg) @@ <<>>, validate |-> TRUE,
       postValidation |-> FALSE, offload |-> None, mem |-> FusedMem,
       limit |-> [s \in Stages(cfg) |-> Smaller(n - s - 1 + seqs, m * seqs)] @@ <<>>]

(* A forward takes 4 units, of which B frees 3 and W the last one.            *)
ProgramZB(n, m, f, b, w, comm, maxMem, postValidation) ==
  LET cfg == ZBConfig(n, m, f, b, w, comm, 4, -3, -1, maxMem)
  IN  [cfg |-> cfg, order |-> ZeroBubble(cfg) @@ <<>>, validate |-> FALSE,
       postValidation |-> postValidation, offload |-> None, mem |-> cfg.mem,
       limit |-> [s \in Stages(cfg) |-> maxMem] @@ <<>>]

(* The V schedule may hold what its repeated pattern holds at most, whatever  *)
(* process_warmup_without_increasing_peak_mem moves.                          *)
ProgramV(n, m, f, b, w) ==
  LET cfg == BasicConfig(n, m, 2, 1, f, b, w)
  IN  [cfg |-> cfg, order |-> VSchedule(cfg) @@ <<>>, validate |-> TRUE,
       postValidation |-> FALSE, offload |-> None, mem |-> FusedMem,
       limit |-> [s \in Stages(cfg) |-> PeakMem(InitialLayout(n, m))] @@ <<>>]

ProgramZBV(n, m, f, b, w, comm) ==
  LET cfg == ZBVConfig(n, m, f, b, w, comm, 4, -3, -1)
  IN  [cfg |-> cfg, order |-> ZBVSchedule(cfg) @@ <<>>, validate |-> FALSE,
       postValidation |-> FALSE, offload |-> None, mem |-> cfg.mem,
       limit |-> [s \in Stages(cfg) |-> cfg.maxMem] @@ <<>>]

(* A weight gradient frees what a forward of its chunk holds; the passes are  *)
(* moved so that no stage holds more than the pattern makes one hold.         *)
SplitMem == [type \in {"F", "B", "W", "R"} |-> CASE type = "F" -> 1 [] type = "W" -> -1
                                                [] OTHER -> 0]

ProgramGreedy(n, m, setup, postValidation) ==
  LET cfg     == GreedyConfig(n, m)
      pattern == Repeated(n, m, setup)
  IN  [cfg |-> cfg, order |-> GreedyVSchedule(cfg, setup) @@ <<>>, validate |-> TRUE,
       postValidation |-> postValidation, offload |-> None, mem |-> SplitMem,
       limit |-> [s \in Stages(cfg) |->
                   Greatest({MemOfStage(pattern[t]) : t \in Stages(cfg)})] @@ <<>>]

(* This builder promises no limit below what all the microbatches take.       *)
ProgramInterleaved(n, m, chunks, size, recomputed, f, b, w) ==
  LET cfg == BasicConfig(n, m, chunks, 1, f, b, w)
  IN  [cfg |-> cfg, order |-> InterleavedSchedule(cfg, size, recomputed, 0) @@ <<>>,
       validate |-> TRUE, postValidation |-> FALSE, offload |-> None, mem |-> SplitMem,
       limit |-> [s \in Stages(cfg) |-> m * chunks] @@ <<>>]

(* The activations of the first chunks go to the host, a copy taking tenths / *)
(* 10 of the time of a microbatch on a stage.                                 *)
ProgramOffload(n, m, chunks, size, offloaded, tenths) ==
  LET cfg == BasicConfig(n, m, chunks, 1, 100, 100, 100)
  IN  [cfg |-> cfg, order |-> InterleavedSchedule(cfg, size, 0, offloaded) @@ <<>>,
       validate |-> TRUE, postValidation |-> FALSE, offload |-> tenths, mem |-> SplitMem,
       limit |-> [s \in Stages(cfg) |-> m * chunks] @@ <<>>]

(* The programs by builder, stages, microbatches and a variant: a choice of   *)
(* costs, and for the zero bubble of the communication time and the limit.    *)
Costs == << <<1, 1, 1, 0>>, <<2, 3, 1, 1>>, <<3, 2, 4, 2>> >>

(* The group size, the offloaded chunks and the time of a copy.               *)
Offloads == << <<1, 1, 1>>, <<2, 1, 1>>, <<1, 1, 2>>, <<1, 2, 2>> >>

Built(name) ==
  LET n == name[2]
      m == name[3]
      k == Costs[1 + (name[4] % 3)]
  IN  CASE name[1] = "1f1b" -> Program1F1B(n, m, k[1], k[2], 0)
        [] name[1] = "seq"  -> ProgramSeq1F1B(n, m, 2 + name[4] \div 3, k[1], k[2])
        [] name[1] = "zb"   -> ProgramZB(n, m, k[1], k[2], k[3], 1 + k[4],
                                         4 * (1 + 2 * (name[4] \div 3)), FALSE)
        [] name[1] = "pv"   -> ProgramZB(n, m, k[1], k[2], k[3], 1 + k[4], 4 * n, TRUE)
        [] name[1] = "v"    -> ProgramV(n, m, k[1], k[2], k[3])
        [] name[1] = "zbv"  -> ProgramZBV(n, m, k[1], k[2], k[3], k[4])
        [] name[1] = "greedy" ->
             ProgramGreedy(n, m, IF name[4] % 2 = 0 THEN "min" ELSE "half", name[4] >= 2)
        [] name[1] = "inter" ->
             ProgramInterleaved(n, m, 2 + name[4] \div 9, 1 + ((name[4] \div 3) % 3), 0,
                                k[1], k[2], k[3])
        [] name[1] = "recompute" ->
             ProgramInterleaved(n, m, 2 + (name[4] % 2), 1, 1 + name[4] \div 2, 1, 1, 1)
        [] name[1] = "offload" ->
             LET v == Offloads[1 + name[4]] IN ProgramOffload(n, m, 2, v[1], v[2], v[3])

Names ==
       {"1f1b"} \X (1 .. 4) \X {1, 2, 3, 5} \X (0 .. 1)
  \cup {"seq"} \X (2 .. 4) \X {1, 2} \X {0, 4}
  \cup {"zb"} \X (2 .. 4) \X {1, 2, 4} \X {0, 1, 2, 3, 4, 7}
  \cup {"pv"} \X (2 .. 3) \X {1, 2, 4} \X {0, 1, 2}
  \cup {"v"} \X (2 .. 3) \X {1, 2, 4} \X {0, 1}
  \cup {"zbv"} \X (1 .. 3) \X {1, 3} \X {0, 1, 2}
  \cup {"greedy"} \X (2 .. 3) \X {1, 3} \X (0 .. 3)
  \cup {"inter"} \X {2} \X {2, 3} \X {0, 4, 9, 13}
  \cup {"inter"} \X {3} \X {2, 3} \X {3, 7}
  \cup {"recompute"} \X (2 .. 3) \X {2} \X {0, 1, 3}
  \cup {"offload"} \X {2} \X {2, 3} \X (0 .. 3)
  \cup {"offload"} \X {4} \X {1} \X {0}

AllPrograms == {Built(name) : name \in Names}
MCPrograms  == AllPrograms
=============================================================================
