-------------------------------- MODULE Loops --------------------------------
(* The loops of the builders and of the passes: a Python loop is a fold over  *)
(* the values of its counter.                                                 *)
EXTENDS Integers, Sequences

(* Apply Op to an accumulator and each element of a sequence in turn: a       *)
(* Python for loop.  (The singletons make TLC evaluate the sequence and each  *)
(* accumulator once, before they are used.)                                   *)
ForEach(Op(_, _), base, seq) ==
  LET Loop(b, s) ==
        LET acc[k \in 0 .. Len(s)] ==
              IF k = 0 THEN b
              ELSE CHOOSE r \in {Op(a, s[k]) : a \in {acc[k - 1]}} : TRUE
        IN  acc[Len(s)]
  IN  CHOOSE r \in {Loop(b, s) : b \in {base}, s \in {seq}} : TRUE

(* Apply Op to a value, computed once, and the next pass to the result of one *)
(* that has not raised.                                                       *)
Once(Op(_), value)  == CHOOSE r \in {Op(x) : x \in {value}} : TRUE
Then(result, Op(_)) == Once(LAMBDA r : IF r.ok THEN Op(r) ELSE r, result)

(* The value a builder goes on with after an assert.  When the assert fails   *)
(* there is none to choose, and TLC stops with an error.                      *)
Asserting(holds, value) == CHOOSE v \in {value} : holds

(* ForEach over the state st of a construction, which has a field ok: one    *)
(* that is not ok has raised and no longer changes.                           *)
For(Body(_, _), st, seq) ==
  ForEach(LAMBDA acc, x : IF acc.ok THEN Body(acc, x) ELSE acc, st, seq)

(* A while loop that ends after at most limit turns.                          *)
While(Test(_), Body(_), st, limit) ==
  For(LAMBDA acc, x : IF Test(acc) THEN Body(acc) ELSE acc, st, [k \in 1 .. limit |-> k])

Upwards(a, b)   == [k \in 1 .. b - a + 1 |-> a + k - 1]
Downwards(a, b) == [k \in 1 .. a - b + 1 |-> a - k + 1]

Smaller(a, b) == IF a <= b THEN a ELSE b
Larger(a, b)  == IF a >= b THEN a ELSE b
=============================================================================
