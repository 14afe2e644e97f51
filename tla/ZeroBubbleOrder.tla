--------------------------- MODULE ZeroBubbleOrder ---------------------------
(* The zero-bubble builder (scheduler/zb.py): Graph.manual_order places the   *)
(* forwards, backwards and weight gradients of every stage greedily, under a  *)
(* memory limit, and initial_solution keeps the best of eight variants.       *)
(* A configuration also gives, per stage, the memory that F, B and W add      *)
(* (cfg.mem["F"] > 0, the others at most 0) and the limit cfg.maxMem.         *)
EXTENDS ScheduleGraph, Loops, SequencesExt

ZBConfig(n, m, f, b, w, comm, memF, memB, memW, maxMem) ==
  [mem |-> [type \in {"F", "B", "W"} |-> CASE type = "F" -> memF
                                           [] type = "B" -> memB [] OTHER -> memW],
   maxMem |-> maxMem] @@ [BasicConfig(n, m, 1, 1, f, b, w) EXCEPT !.comm = comm]

(* The construction's state: how many of each type a stage has placed, when   *)
(* it becomes free, its memory in use, the idle time it has accumulated, the  *)
(* completion times and the order itself.                                     *)
Start(cfg) ==
  LET zero == [s \in Stages(cfg) |-> 0]
  IN  [ok |-> TRUE, count |-> [type \in {"F", "B", "W"} |-> zero], e |-> zero,
       m |-> zero, bubble |-> zero, t |-> <<>>,
       order |-> [s \in Stages(cfg) |-> <<>>]]

TimeOf(st, type, j, i) == IF <<type, j, i>> \in DOMAIN st.t THEN st.t[<<type, j, i>>] ELSE 0

MaxBubble(cfg, st) ==
  LET positive == {st.bubble[s] : s \in Stages(cfg)} \cup {0}
  IN  CHOOSE x \in positive : \A y \in positive : x >= y

(* The completion time of the next node of this type on stage j: as early as *)
(* the stage is free and, for F and B, the neighbour's result has arrived.    *)
Completion(cfg, st, j, type) ==
  LET i     == st.count[type][j]
      free  == st.e[j]
      ready == CASE type = "F" /\ j > 0         -> TimeOf(st, "F", j - 1, i) + cfg.comm
                 [] type = "B" /\ j < cfg.n - 1 -> TimeOf(st, "B", j + 1, i) + cfg.comm
                 [] OTHER                       -> free
  IN  Larger(free, ready) + GetCost(cfg, j, type)

PutAt(cfg, st, j, type, end) ==
  LET i == st.count[type][j]
  IN  [st EXCEPT !.count[type][j] = i + 1, !.e[j] = end, !.m[j] = @ + cfg.mem[type],
                 !.bubble[j] = IF st.count["F"][j] > 0
                               THEN @ + (end - st.e[j] - GetCost(cfg, j, type)) ELSE @,
                 !.t = (<<type, j, i>> :> end) @@ @,
                 !.order[j] = Append(@, ComputeNode(type, j, i, 0, 0, j))]

(* put: the next node of this type on stage j, as early as possible.          *)
Put(cfg, st, j, type) == PutAt(cfg, st, j, type, Completion(cfg, st, j, type))

PutIfOk(cfg, st, j, type) == IF st.ok THEN Put(cfg, st, j, type) ELSE st

PutMany(cfg, st, j, type, k) ==
  For(LAMBDA acc, x : Put(cfg, acc, j, type), st, Upwards(1, k))

PendingW(st, j) == st.count["B"][j] - st.count["W"][j]

-------------------------------------------------------------------------------
(* The warm-up: the first forward on every stage, more forwards while the     *)
(* first backward is under way, then the first backwards.                     *)

(* How many more forwards stage j has room and time for before the gradient   *)
(* of stage j + 1, which completes its first backward at last, arrives.       *)
ExtraForwards(cfg, st, allow, j, last) ==
  LET Stop(k) == \/ 1 + k >= cfg.m
                 \/ st.m[j] + (k + 1) * cfg.mem["F"] > cfg.maxMem
                 \/ IF allow THEN st.e[j] + (k + 1) * cfg.f[j] > last + cfg.comm
                             ELSE st.e[j] + k * cfg.f[j] >= last + cfg.comm
  IN  CHOOSE k \in 0 .. cfg.m : Stop(k) /\ \A x \in 0 .. k - 1 : ~ Stop(x)

(* f_required, from the last stage down: [ok, req, last].                     *)
WarmupWanted(cfg, st, allow) ==
  LET n == cfg.n
      Body(acc, j) ==
        LET k == ExtraForwards(cfg, st, allow, j, acc.last)
        IN  [acc EXCEPT !.req[j] = k,
                        !.last = Larger(st.e[j] + k * cfg.f[j], @ + cfg.comm) + cfg.b[j]]
  IN  For(Body, [ok |-> TRUE, req |-> [s \in Stages(cfg) |-> 0],
                 last |-> TimeOf(st, "F", n - 1, 0) + cfg.b[n - 1]],
          Downwards(n - 2, 0)).req

(* A stage other than the first runs fewer forwards ahead than the one below, *)
(* unless it already runs all of them.                                        *)
WarmupRequired(cfg, wanted) ==
  LET req[j \in Stages(cfg)] ==
        IF j = 0 \/ 1 + wanted[j] >= cfg.m \/ wanted[j] < req[j - 1] THEN wanted[j]
        ELSE Larger(0, req[j - 1] - 1)
  IN  req

RunAhead(cfg, st, allow) ==
  LET req == WarmupRequired(cfg, WarmupWanted(cfg, st, allow))
  IN  For(LAMBDA acc, j : PutMany(cfg, acc, j, "F", req[j]), st, Upwards(0, cfg.n - 1))

FirstForwards(cfg) ==
  For(LAMBDA acc, j : Put(cfg, acc, j, "F"), Start(cfg), Upwards(0, cfg.n - 1))

Warmup(cfg, allow) ==
  For(LAMBDA acc, j : Put(cfg, acc, j, "B"),
      RunAhead(cfg, FirstForwards(cfg), allow), Downwards(cfg.n - 1, 0))

-------------------------------------------------------------------------------
(* The rounds after the warm-up, one backward of every stage each.            *)

(* Whether stage j asks for a forward in this round.                          *)
WantsForward(cfg, st, prioritizeB, j) ==
  LET nextPlusFw == st.e[j + 1] + cfg.f[j + 1] + cfg.b[j + 1] + cfg.comm
      room(k)    == st.m[j] + cfg.mem["F"] + k * cfg.mem["W"] <= cfg.maxMem
      w          == CHOOSE k \in 0 .. PendingW(st, j) :
                      /\ room(k) \/ k = PendingW(st, j)
                      /\ \A x \in 0 .. k - 1 : ~ room(x)
  IN  /\ st.count["F"][j] < cfg.m
      /\ j + 1 < cfg.n /\ prioritizeB /\ st.count["F"][j] >= st.count["F"][j + 1] + 2 =>
           /\ st.e[j] < nextPlusFw
           /\ \/ st.e[j] + cfg.f[j] + w * cfg.w[j] <= nextPlusFw
              \/ nextPlusFw - st.e[j] > MaxBubble(cfg, st) - st.bubble[j]

NoRoomMade(cfg, st, j, type) == st     \* fault: the limit is not enforced

(* Weight gradients until a node of this type fits in the memory.             *)
MakeRoom(cfg, st, j, type) ==
  LET Body(acc, x) ==
        IF ~ acc.ok \/ acc.m[j] + cfg.mem[type] <= cfg.maxMem THEN acc
        ELSE IF PendingW(acc, j) <= 0 THEN [acc EXCEPT !.ok = FALSE]
        ELSE Put(cfg, acc, j, "W")
  IN  For(Body, st, Upwards(0, cfg.m))

(* Weight gradients in the idle time before t, and one more when it would     *)
(* only overrun t, unless the stage has idle time to spare and is not greedy. *)
FillGap(cfg, st, j, t, greedy) ==
  LET Fits(acc) == PendingW(acc, j) > 0 /\ acc.e[j] + cfg.w[j] <= t
      Overrun(full) ==
        IF /\ full.ok /\ PendingW(full, j) > 0 /\ full.e[j] < t
           /\ t - full.e[j] > MaxBubble(cfg, full) - full.bubble[j] \/ greedy
        THEN Put(cfg, full, j, "W") ELSE full
  IN  Overrun(For(LAMBDA acc, x : IF Fits(acc) THEN Put(cfg, acc, j, "W") ELSE acc,
                  st, Upwards(1, cfg.m)))

(* Before a forward or backward whose operand comes from a neighbour.         *)
BeforeForward(cfg, st, j, greedy) ==
  IF j = 0 \/ ~ st.ok THEN st
  ELSE FillGap(cfg, st, j, TimeOf(st, "F", j - 1, st.count["F"][j]) + cfg.comm, greedy)

BeforeBackward(cfg, st, j, i, greedy) ==
  IF j + 1 = cfg.n \/ ~ st.ok THEN st
  ELSE FillGap(cfg, st, j, TimeOf(st, "B", j + 1, i) + cfg.comm, greedy)

(* The first stage, all of its forwards done, places every pending W.         *)
Drain(cfg, st, j) ==
  IF j = 0 /\ st.count["F"][j] = cfg.m
  THEN PutMany(cfg, st, j, "W", PendingW(st, j)) ELSE st

PlaceForward(cfg, st, j, greedy) ==
  PutIfOk(cfg, BeforeForward(cfg, MakeRoom(cfg, st, j, "F"), j, greedy), j, "F")

PlaceBackward(cfg, st, j, i, greedy) ==
  PutIfOk(cfg, Drain(cfg, BeforeBackward(cfg, MakeRoom(cfg, st, j, "B"), j, i, greedy), j),
          j, "B")

(* A stage gets its forward only if all later stages get theirs.              *)
Round(cfg, st, i, prioritizeB, greedy) ==
  LET n        == cfg.n
      wants    == {j \in Stages(cfg) : WantsForward(cfg, st, prioritizeB, j)}
      required == SelectSeq(Upwards(0, n - 1), LAMBDA j : j .. n - 1 \subseteq wants)
  IN  For(LAMBDA acc, j : PlaceBackward(cfg, acc, j, i, greedy),
          For(LAMBDA acc, j : PlaceForward(cfg, acc, j, greedy), st, required),
          Downwards(n - 1, 0))

ManualOrder(cfg, allow, prioritizeB, greedy) ==
  For(LAMBDA acc, j : PutMany(cfg, acc, j, "W", cfg.m - acc.count["W"][j]),
      For(LAMBDA acc, i : Round(cfg, acc, i, prioritizeB, greedy),
          Warmup(cfg, allow), Upwards(1, cfg.m - 1)),
      Upwards(0, cfg.n - 1))

-------------------------------------------------------------------------------
(* The time from the start of the first forward to the end of the last weight *)
(* gradient, on the slowest stage.                                            *)
BestTime(cfg, st) ==
  LET times == {TimeOf(st, "W", s, cfg.m - 1) - TimeOf(st, "F", s, 0) + cfg.f[s]
                  : s \in Stages(cfg)} \cup {0}
  IN  CHOOSE x \in times : \A y \in times : x >= y

(* The variants in the order initial_solution tries them.                     *)
Variants ==
  FlattenSeq([a \in 1 .. 2 |-> FlattenSeq([p \in 1 .. 2 |->
    [g \in 1 .. 2 |-> <<a = 1, p = 1, g = 1>>]])])

(* The better of the best so far and the next one: the first of the fastest,  *)
(* unless one could not fit the memory, which raises.                         *)
Better(cfg, best, st) ==
  IF ~ best.ok \/ (st.ok /\ BestTime(cfg, best) <= BestTime(cfg, st)) THEN best ELSE st

BestOf(cfg, solutions) ==
  ForEach(LAMBDA best, st : Better(cfg, best, st), solutions[1], Tail(solutions))

InitialSolution(cfg) ==
  LET Solution(v) == ManualOrder(cfg, v[1], v[2], v[3])
  IN  BestOf(cfg, [k \in DOMAIN Variants |-> Solution(Variants[k])] \o <<>>)

(* create_schedule.  create_scheduled_nodes sorts a stage's nodes by their    *)
(* completion times, which put makes increase when the costs are positive.    *)
ZeroBubble(cfg) == InitialSolution(cfg).order
=============================================================================
