------------------------------- MODULE ZBVOrder -------------------------------
(* The builder of the V-shaped zero-bubble schedule (scheduler/zbv.py).  Each *)
(* stage has two chunks, the second of which runs from the last stage back to *)
(* the first; the builder counts the chunks of a pass in the order in which   *)
(* it meets them, so that its chunk 0 of a backward is the model's chunk 1.   *)
(* try_v_schedule places the passes greedily and fills the time that a stage  *)
(* waits with weight gradients; create_schedule keeps the best of four tries. *)
EXTENDS ScheduleGraph, Loops, FiniteSetsExt, SequencesExt

(* The memory that F, B and W add (cfg.mem["F"] > 0, the others at most 0),   *)
(* and the limit: two forwards for each stage.                                *)
ZBVConfig(n, m, f, b, w, comm, memF, memB, memW) ==
  [mem |-> [type \in {"F", "B", "W"} |-> CASE type = "F" -> memF
                                           [] type = "B" -> memB [] OTHER -> memW],
   maxMem |-> memF * n * 2] @@ [BasicConfig(n, m, 2, 1, f, b, w) EXCEPT !.comm = comm]

(* The state of the construction: how many of each pass a stage has placed,   *)
(* its time, its memory, the time it has waited, the chunks of its pending    *)
(* weight gradients and its order; the ends of all passes placed; and what    *)
(* the stages waited in the attempt before this one, if there was one.        *)
Begin(cfg, approved) ==
  LET zero == [s \in Stages(cfg) |-> 0]
  IN  [ok |-> TRUE, count |-> [pass \in {"F", "B", "W"} \X {0, 1} |-> zero],
       time |-> zero, mem |-> zero, bubble |-> zero, approved |-> approved,
       pending |-> [s \in Stages(cfg) |-> <<>>], ended |-> <<>>,
       order |-> [s \in Stages(cfg) |-> <<>>]]

Ended(st, type, chunk, s, i) ==
  LET id == <<type, chunk, s, i>>
  IN  IF id \in DOMAIN st.ended THEN st.ended[id] ELSE None

(* get_max_stage_bubble, of all stages and for one stage.                     *)
MostBubble(st) == Max(Range(st.bubble) \cup {0})

MaxStageBubble(st, s) ==
  Larger(MostBubble(st), Max(Range(st.approved)) - st.approved[s])

(* The stage that hands a pass of this chunk its operand.                     *)
From(chunk, s) == IF chunk = 0 THEN s - 1 ELSE s + 1

(* A forward starts on chunk 0, goes on to chunk 1, then come the backwards   *)
(* of both; the end of the pass before this one on its own stage.             *)
EndedBefore(st, type, chunk, s, i) ==
  CASE type = "F" /\ chunk = 0 -> 0
    [] type = "B" /\ chunk = 0 -> Ended(st, "F", 1, s, i)
    [] type = "W"              -> Ended(st, "B", chunk, s, i)
    [] OTHER                   -> Ended(st, type, 0, s, i)

(* The node of the model for the i-th pass of this kind.                      *)
ZBVNode(cfg, type, chunk, s, i) ==
  LET c == IF type = "F" THEN chunk ELSE 1 - chunk
  IN  ComputeNode(type, s, i, c, 0, cfg.n * c + (IF c = 0 THEN s ELSE cfg.n - 1 - s))

(* The i-th pass of this kind has ended at end, on a stage free until then.   *)
Placed(cfg, st, type, chunk, s, i, free, end) ==
  [st EXCEPT
    !.count[<<type, chunk>>][s] = i + 1,
    !.time[s] = end,
    !.mem[s] = @ + cfg.mem[type],
    !.bubble[s] = IF st.count[<<"F", 0>>][s] > 0 THEN @ + (end - free) ELSE @,
    !.pending[s] = IF type = "B" THEN Append(@, chunk) ELSE @,
    !.ended = (<<type, chunk, s, i>> :> end) @@ @,
    !.order[s] = Append(@, ZBVNode(cfg, type, chunk, s, i))]

(* put: the next pass of this kind on stage s.  It fails when all are placed, *)
(* the memory does not suffice or what it depends on has not been placed.     *)
PutPass(cfg, st, type, chunk, s) ==
  LET i       == st.count[<<type, chunk>>][s]
      cost    == GetCost(cfg, s, type)
      free    == st.time[s] + cost
      remote  == type # "W" /\ From(chunk, s) \in Stages(cfg)
      arrival == Ended(st, type, chunk, From(chunk, s), i)
  IN  IF \/ i >= cfg.m \/ st.mem[s] + cfg.mem[type] > cfg.maxMem
         \/ EndedBefore(st, type, chunk, s, i) < 0 \/ (remote /\ arrival < 0)
      THEN [st EXCEPT !.ok = FALSE]
      ELSE Placed(cfg, st, type, chunk, s, i, free,
                  IF remote THEN Larger(free, arrival + cfg.comm + cost) ELSE free)

TryPut(cfg, st, type, chunk, s) == IF st.ok THEN PutPass(cfg, st, type, chunk, s) ELSE st

(* put_w: the oldest pending weight gradient; there must be one.              *)
PutW(cfg, st, s) ==
  IF st.pending[s] = <<>> THEN [st EXCEPT !.ok = FALSE]
  ELSE PutPass(cfg, [st EXCEPT !.pending[s] = Tail(@)], "W", Head(st.pending[s]), s)

-------------------------------------------------------------------------------
(* The warm-up.                                                               *)

FirstChunkForwards(cfg, approved) ==
  For(LAMBDA st, s : PutPass(cfg, st, "F", 0, s), Begin(cfg, approved), Upwards(0, cfg.n - 1))

(* The stages run ahead with forwards of chunk 0, from the first to s, until  *)
(* the forward of chunk 1 arrives at s, as far as the memory allows.          *)
PutAhead(cfg, st, s) ==
  LET arrival == Ended(st, "F", 1, s + 1, 0) + cfg.comm
      Ahead(a) == /\ a.mem[s] + cfg.mem["F"] * (2 + 2 * s) <= cfg.maxMem
                  /\ a.time[s] + cfg.f[s] <= arrival
                  /\ a.count[<<"F", 0>>][s] < cfg.m
      Forwards(a) == For(LAMBDA acc, j : PutPass(cfg, acc, "F", 0, j), a, Upwards(0, s))
  IN  IF s = cfg.n - 1 THEN st ELSE While(Ahead, Forwards, st, cfg.m)

SecondForwards(cfg, start) ==
  For(LAMBDA st, s : TryPut(cfg, PutAhead(cfg, st, s), "F", 1, s),
      start, Downwards(cfg.n - 1, 0))

(* The two chunks take turns.                                                 *)
InTurn(st, turn) == [ok |-> st.ok, st |-> st, turn |-> turn]

(* Each stage catches up with the one before it, the two chunks in turn.      *)
CatchUp(cfg, acc, s) ==
  LET Count(a, chunk, t) == a.st.count[<<"F", chunk>>][t]
      Behind(a) == \/ Count(a, 0, s) + Count(a, 1, s) < Count(a, 0, s - 1) + Count(a, 1, s - 1)
                   \/ /\ Count(a, 1, s) <= Count(a, 1, s - 1)
                      /\ Count(a, 1, s - 1) < cfg.m
      PutMissing(chunk, st, j) ==
        IF st.count[<<"F", chunk>>][j] < cfg.m THEN PutPass(cfg, st, "F", chunk, j) ELSE st
      Turn(a) == InTurn(For(LAMBDA x, j : PutMissing(a.turn, x, j), a.st, Downwards(cfg.n - 1, s)),
                        1 - a.turn)
  IN  While(Behind, Turn, acc, 4 * cfg.m)

WarmUpRun(cfg, approved) ==
  For(LAMBDA acc, s : CatchUp(cfg, acc, s),
      InTurn(SecondForwards(cfg, FirstChunkForwards(cfg, approved)), 0),
      Upwards(1, cfg.n - 1)).st

-------------------------------------------------------------------------------
(* The rounds: a backward and a forward of every stage that can have one.     *)

(* Weight gradients until a pass of this type fits in the memory.             *)
FreeFor(cfg, st, type, s) ==
  While(LAMBDA a : a.mem[s] + cfg.mem[type] > cfg.maxMem, LAMBDA a : PutW(cfg, a, s),
        st, 2 * cfg.m + 1)

(* end_time[fa_id] for the pass that a stage waits for.  Where it waits for   *)
(* none, fa_id is -1 and Python reads the last element, which is the end of   *)
(* the last weight gradient of the last stage.                                *)
WaitedFor(cfg, st, type, chunk, s, i) ==
  IF From(chunk, s) \in Stages(cfg) THEN Ended(st, type, chunk, From(chunk, s), i)
  ELSE Ended(st, "W", 1, cfg.n - 1, cfg.m - 1)

(* Weight gradients while the stage would wait ...                            *)
FillWait(cfg, st, chunk, s, arrival) ==
  LET Fits(a) == /\ a.pending[s] # <<>> /\ From(chunk, s) \in Stages(cfg)
                 /\ arrival >= a.time[s] + cfg.w[s]
  IN  While(Fits, LAMBDA a : PutW(cfg, a, s), st, 2 * cfg.m)

(* ... and one more that delays the pass, where that is allowed and no stage  *)
(* has waited that much longer.                                               *)
DelayPass(cfg, st, s, arrival, fill) ==
  IF /\ st.ok /\ st.pending[s] # <<>> /\ fill
     /\ arrival - st.time[s] > MaxStageBubble(st, s) - st.bubble[s]
  THEN PutW(cfg, st, s) ELSE st

FillBubble(cfg, st, type, chunk, s, fill) ==
  LET arrival == WaitedFor(cfg, st, type, chunk, s, st.count[<<type, chunk>>][s]) + cfg.comm
  IN  DelayPass(cfg, FillWait(cfg, st, chunk, s, arrival), s, arrival, fill)

PutBackward(cfg, st, chunk, s, fillB) ==
  TryPut(cfg, FillBubble(cfg, st, "B", chunk, s, chunk = 1 \/ fillB), "B", chunk, s)

(* A stage continues with the second backward of a microbatch if it has one   *)
(* and its operand is there, or if all first backwards are placed.            *)
SecondBackward(cfg, st, s) ==
  LET first  == st.count[<<"B", 0>>][s]
      second == st.count[<<"B", 1>>][s]
  IN  /\ second < first
      /\ s = cfg.n - 1 \/ first >= cfg.m \/ Ended(st, "B", 1, s + 1, second) >= 0

(* From the last stage to the first those that continue with the second, then *)
(* the others in the other direction; roomy is the state before all of them.  *)
PutBackwards(cfg, roomy, fillB) ==
  LET passes == [k \in 1 .. 2 * cfg.n |-> IF k <= cfg.n THEN <<1, cfg.n - k>>
                                                        ELSE <<0, k - cfg.n - 1>>]
      Put(st, p) == IF SecondBackward(cfg, roomy, p[2]) = (p[1] = 1)
                    THEN PutBackward(cfg, st, p[1], p[2], fillB) ELSE st
  IN  For(Put, roomy, passes)

Backwards(cfg, st, fillB) ==
  PutBackwards(cfg, For(LAMBDA a, s : FreeFor(cfg, a, "B", s), st, Upwards(0, cfg.n - 1)), fillB)

(* The chunk whose forward a stage places next, or None.                      *)
NextForward(cfg, st, s) ==
  LET first  == st.count[<<"F", 0>>][s]
      second == st.count[<<"F", 1>>][s]
  IN  CASE second >= cfg.m                                            -> None
        [] second < cfg.m /\ second >= first                          -> 0
        [] /\ second < cfg.m /\ second < first
           /\ s = cfg.n - 1 \/ Ended(st, "F", 1, s + 1, second) >= 0   -> 1
        [] OTHER ->
             IF first < cfg.m /\ (s = 0 \/ Ended(st, "F", 0, s - 1, first) >= 0) THEN 0 ELSE None

PutForwardOf(cfg, roomy, chunk, s, fillF) ==
  IF ~ roomy.ok THEN roomy
  ELSE TryPut(cfg, FillBubble(cfg, roomy, "F", chunk, s, fillF), "F", chunk, s)

PutForward(cfg, st, s, fillF) ==
  LET chunk == NextForward(cfg, st, s)
  IN  IF chunk = None THEN st
      ELSE PutForwardOf(cfg, FreeFor(cfg, st, "F", s), chunk, s, fillF)

VRound(cfg, st, fillF, fillB) ==
  For(LAMBDA a, s : PutForward(cfg, a, s, fillF), Backwards(cfg, st, fillB),
      Upwards(0, cfg.n - 1))

PutAllW(cfg, st, s) ==
  While(LAMBDA a : a.pending[s] # <<>>, LAMBDA a : PutW(cfg, a, s), st, 2 * cfg.m)

Attempt(cfg, fillF, fillB, approved) ==
  For(LAMBDA st, s : PutAllW(cfg, st, s),
      For(LAMBDA st, k : VRound(cfg, st, fillF, fillB), WarmUpRun(cfg, approved),
          Upwards(1, 2 * cfg.m)),
      Upwards(0, cfg.n - 1))

-------------------------------------------------------------------------------
(* try_v_schedule tries again, with what the stages waited approved, as long  *)
(* as that makes the longest wait shorter.                                    *)
Improve(best, try) ==
  LET better == MostBubble(try) < MostBubble(best)
  IN  [ok |-> try.ok, best |-> IF better THEN try ELSE best, more |-> better]

TryAgain(cfg, fillF, fillB, first) ==
  While(LAMBDA acc : acc.more,
        LAMBDA acc : Improve(acc.best, Attempt(cfg, fillF, fillB, acc.best.bubble)),
        [ok |-> first.ok, best |-> first, more |-> TRUE], 1 + MostBubble(first))

TryVSchedule(cfg, fillF, fillB) ==
  TryAgain(cfg, fillF, fillB, Attempt(cfg, fillF, fillB, [s \in Stages(cfg) |-> -1])).best

(* create_schedule: the first of the four that wait least.                    *)
ZBVBest(cfg) ==
  LET Best(all) == CHOOSE k \in DOMAIN all :
        \A j \in DOMAIN all : /\ MostBubble(all[k]) <= MostBubble(all[j])
                              /\ j < k => MostBubble(all[k]) < MostBubble(all[j])
  IN  CHOOSE best \in {tries[Best(tries)] :
         tries \in {[k \in 1 .. 4 |-> TryVSchedule(cfg, k % 2 = 1, k <= 2)] \o <<>>}} : TRUE

ZBVSchedule(cfg) == ZBVBest(cfg).order
=============================================================================
