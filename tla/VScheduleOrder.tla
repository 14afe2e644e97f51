--------------------------- MODULE VScheduleOrder ---------------------------
(* The builder of the V-shaped 1F1B schedule (scheduler/v1f1b.py).  A stage   *)
(* holds two chunks: chunk 0 runs from stage 0 to the last stage, chunk 1     *)
(* back to stage 0.  The builder works with letters: F and f are the forwards *)
(* of chunk 0 and 1, B and b the backwards of chunk 1 and 0, W and w their    *)
(* weight gradients, which hold a slot of their own until the end.            *)
(*                                                                            *)
(* The code keeps, per stage, a table of slots; here a layout gives the slot  *)
(* of each cell <<stage, letter, k>>, the k-th of its letter on its stage.    *)
EXTENDS ScheduleGraph, Loops, SequencesExt

Letters == {"F", "f", "B", "b", "W", "w"}
Period  == 6                              \* pattern_size

Least(S)    == CHOOSE x \in S : \A y \in S : x <= y
Greatest(S) == CHOOSE x \in S : \A y \in S : x >= y

(* create_whole_pattern: the slot, in a period of 6, of each letter.  The     *)
(* forwards take successive slots along the V; the backwards two slots each   *)
(* (B then W), with three more after every third pair.                        *)
PatternSlot(p, s, letter) ==
  LET first   == 2 * p + 1 + (IF p % 3 = 0 THEN 3 ELSE 0)
      cyc     == (3 - ((p + 2) % 3)) % 3
      Pair(i) == first + 2 * i + 3 * ((cyc + i) \div 3)
      slot    == CASE letter = "F" -> s + 1
                   [] letter = "f" -> 2 * p - s
                   [] letter = "B" -> Pair(s)
                   [] letter = "W" -> Pair(s) + 1
                   [] letter = "b" -> Pair(2 * p - 1 - s)
                   [] letter = "w" -> Pair(2 * p - 1 - s) + 1
  IN  slot % Period

(* The first slot from index on that has this letter on stage s.              *)
NextSlot(p, s, letter, index) ==
  Least({x \in index .. index + Period - 1 : x % Period = PatternSlot(p, s, letter)})

(* clear_invalid_index: the m occurrences of a letter that survive start at   *)
(* the first slot after the one kept for the stage before, along F, f, B, b;  *)
(* those of a weight gradient at the first slot after their backward.         *)
Along(p, k) == LET s == k % p IN IF (k \div p) % 2 = 0 THEN s ELSE p - 1 - s

FirstSlots(p) ==
  LET letter(k) == <<"F", "f", "B", "b">>[1 + (k \div p)]
      kept[k \in 0 .. 4 * p - 1] ==
        NextSlot(p, Along(p, k), letter(k), IF k = 0 THEN Period ELSE kept[k - 1] + 1)
      at(s, l) == kept[CHOOSE k \in 0 .. 4 * p - 1 : letter(k) = l /\ Along(p, k) = s]
  IN  [c \in (0 .. p - 1) \X Letters |->
         CASE c[2] = "W" -> NextSlot(p, c[1], "W", at(c[1], "B") + 1)
           [] c[2] = "w" -> NextSlot(p, c[1], "w", at(c[1], "b") + 1)
           [] OTHER      -> at(c[1], c[2])] @@ <<>>

RepeatedSlots(p, m, slots) ==
  [c \in (0 .. p - 1) \X Letters \X (1 .. m) |->
     slots[<<c[1], c[2]>>] + Period * (c[3] - 1)] @@ <<>>

InitialLayout(p, m) == RepeatedSlots(p, m, FirstSlots(p))

-------------------------------------------------------------------------------
(* process_warmup_without_increasing_peak_mem.                                *)

Taken(layout, s, x) == \E c \in DOMAIN layout : c[1] = s /\ layout[c] = x

(* The forwards of a stage up to slot x less the weight gradients.            *)
HeldAt(layout, s, x) ==
  LET upTo(ls) == Cardinality({c \in DOMAIN layout :
                                 c[1] = s /\ c[2] \in ls /\ layout[c] <= x})
  IN  upTo({"F", "f"}) - upTo({"W", "w"})

PeakMem(layout) ==
  Greatest({HeldAt(layout, c[1], layout[c]) : c \in DOMAIN layout} \cup {0})

(* What must come before a cell: the one before it of its letter, and the     *)
(* computation, with its weight gradient, that it depends on.                 *)
Before(p, cell) ==
  LET s == cell[1]
      k == cell[3]
  IN  {<<s, cell[2], k - 1>>} \cup
      CASE cell[2] = "F" -> {<<s - 1, "F", k>>}
        [] cell[2] = "f" -> {IF s # p - 1 THEN <<s + 1, "f", k>> ELSE <<s, "F", k>>}
        [] cell[2] = "B" -> {IF s # 0 THEN <<s - 1, "W", k>> ELSE <<s, "f", k>>}
        [] cell[2] = "b" -> {IF s # p - 1 THEN <<s + 1, "w", k>> ELSE <<s, "W", k>>}
        [] cell[2] = "W" -> {<<s, "B", k>>}
        [] cell[2] = "w" -> {<<s, "b", k>>}

(* The slot to which a cell moves: the first free one after what it needs (a  *)
(* backward needs the slot after it too, so it never moves by just one); a    *)
(* forward goes only as far up as the memory stays below the peak.            *)
NewSlot(p, layout, cell, peak) ==
  LET s     == cell[1]
      i     == layout[cell]
      start == 1 + Greatest({layout[c] : c \in Before(p, cell) \cap DOMAIN layout} \cup {-1})
      free(x) == x = i \/ (~ Taken(layout, s, x) /\
                           (cell[2] \in {"B", "b"} => ~ Taken(layout, s, x + 1)))
      pos   == Least({x \in start .. i : free(x)})
      full  == {x \in pos .. i - 1 : HeldAt(layout, s, x) >= peak}
      place == IF full = {} THEN pos ELSE 1 + Greatest(full)
  IN  IF cell[2] \in {"F", "f"} THEN Least({x \in place .. i : free(x)}) ELSE pos

(* The cells by slot, then by stage.                                          *)
CellsInOrder(layout) ==
  LET earlier(a, b) == layout[a] < layout[b] \/ (layout[a] = layout[b] /\ a[1] < b[1])
      rank(c) == 1 + Cardinality({d \in DOMAIN layout : earlier(d, c)})
  IN  [k \in 1 .. Cardinality(DOMAIN layout) |-> CHOOSE c \in DOMAIN layout : rank(c) = k]

ProcessWarmup(p, layout) ==
  LET peak  == PeakMem(layout)
      Move(l, c) == [l EXCEPT ![c] = NewSlot(p, l, c, peak)]
  IN  ForEach(Move, layout, CellsInOrder(layout) \o <<>>)

-------------------------------------------------------------------------------
(* create_schedule and transform_schedule: the forwards and backwards of each *)
(* stage by slot, the weight gradients being part of the backwards.           *)
VNode(p, cell) ==
  LET s     == cell[1]
      chunk == IF cell[2] \in {"f", "B"} THEN 1 ELSE 0
  IN  ComputeNode(IF cell[2] \in {"F", "f"} THEN "F" ELSE "BW", s, cell[3] - 1, chunk, 0,
                  p * chunk + (IF chunk = 0 THEN s ELSE p - 1 - s))

VNodes(p, layout, s) ==
  LET cells == SelectSeq(CellsInOrder(layout) \o <<>>,
                         LAMBDA c : c[1] = s /\ c[2] \notin {"W", "w"})
  IN  [k \in DOMAIN cells |-> VNode(p, cells[k])] \o <<>>

VSchedule(cfg) ==
  CHOOSE order \in {[s \in Stages(cfg) |-> VNodes(cfg.n, layout, s)] @@ <<>> :
                      layout \in {ProcessWarmup(cfg.n, InitialLayout(cfg.n, cfg.m))}} : TRUE
=============================================================================
