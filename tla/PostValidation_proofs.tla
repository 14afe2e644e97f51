------------------------ MODULE PostValidation_proofs ------------------------
(****************************************************************************)
(* For every pipeline, every compiled orders, every number of iterations    *)
(* and every sequence of verdicts: the batches kept for a rollback are the  *)
(* ones read last, in order (RollbackDataIteratorWrapper under the runtime  *)
(* and get_batch_func).  The invariant adds the type of the wrappers; each  *)
(* lemma is about one of their operations, and each step of the runtime     *)
(* applies a sequence of operations to the wrapper of one stage, or none.   *)
(* Then every computation has the operand of its dependency, through every  *)
(* sequence of verdicts.                                                    *)
(****************************************************************************)
EXTENDS ValidatedOrders, OperandMatching_proofs

Wrappers == [next : Nat, buffer : Seq(Nat), saving : BOOLEAN]

Good(w) == w \in Wrappers /\ InOrder(w)

DataGood == data \in [Stage -> Wrappers] /\ \A s \in Stage : InOrder(data[s])

-----------------------------------------------------------------------------
(* The operations of a wrapper.                                             *)

LEMMA WrapperGood == Good(Wrapper)
BY DEF Good, Wrappers, Wrapper, InOrder

\* A wrapper is made of its three parts.
LEMMA GoodParts ==
  ASSUME NEW n \in Nat, NEW b \in Seq(Nat), NEW v \in BOOLEAN,
         \A j \in 1 .. Len(b) : b[j] = n - Len(b) + j
  PROVE  Good([next |-> n, buffer |-> b, saving |-> v])
BY SMTT(30) DEF Good, Wrappers, InOrder

LEMMA Parts ==
  ASSUME NEW w, Good(w)
  PROVE  /\ w.next \in Nat /\ w.buffer \in Seq(Nat) /\ w.saving \in BOOLEAN
         /\ \A j \in 1 .. Len(w.buffer) : w.buffer[j] = w.next - Len(w.buffer) + j
         /\ w = [next |-> w.next, buffer |-> w.buffer, saving |-> w.saving]
BY DEF Good, Wrappers, InOrder

LEMMA ModeGood ==
  ASSUME NEW w, Good(w), NEW mode \in BOOLEAN
  PROVE  Good(SetMode(w, mode))
BY DEF Good, Wrappers, InOrder, SetMode

LEMMA ClearGood ==
  ASSUME NEW w, Good(w)
  PROVE  Good(ClearBuffer(w))
<1>0. /\ w.next \in Nat /\ w.saving \in BOOLEAN
      /\ w = [next |-> w.next, buffer |-> w.buffer, saving |-> w.saving]
  BY Parts
<1>1. ClearBuffer(w) = [next |-> w.next, buffer |-> <<>>, saving |-> w.saving]
  BY <1>0 DEF ClearBuffer
<1>2. <<>> \in Seq(Nat) /\ \A j \in 1 .. Len(<<>>) : <<>>[j] = w.next - Len(<<>>) + j
  OBVIOUS
<1> QED BY <1>0, <1>1, <1>2, GoodParts

LEMMA ModesGood ==
  ASSUME NEW w, Good(w)
  PROVE  /\ Good(PopFromBuffer(w))
         /\ Good(PopFromBuffer(ClearBuffer(w)))
         /\ Good(SaveToBuffer(ClearBuffer(w)))
<1>1. TRUE \in BOOLEAN /\ FALSE \in BOOLEAN
  OBVIOUS
<1>2. Good(ClearBuffer(w))
  BY ClearGood
<1> QED BY <1>1, <1>2, ModeGood, Zenon DEF PopFromBuffer, SaveToBuffer

\* A replayed element leaves the front of the buffer; a new one goes last or,
\* when nothing is saved, finds the buffer empty.
LEMMA NextGood ==
  ASSUME NEW w, Good(w)
  PROVE  Good(AfterNext(w))
<1> DEFINE b == w.buffer
           t == Tail(b)
           a == Append(b, w.next + 1)
<1>0. /\ w.next \in Nat /\ b \in Seq(Nat) /\ w.saving \in BOOLEAN
      /\ \A j \in 1 .. Len(b) : b[j] = w.next - Len(b) + j
      /\ w = [next |-> w.next, buffer |-> b, saving |-> w.saving]
  BY Parts
<1>1. CASE Replays(w)
  <2>1. AfterNext(w) = [next |-> w.next, buffer |-> t, saving |-> w.saving]
    BY <1>0, <1>1 DEF AfterNext
  <2>2. b # <<>>
    BY <1>1 DEF Replays
  <2>3. t \in Seq(Nat) /\ Len(t) = Len(b) - 1 /\ \A j \in 1 .. Len(t) : t[j] = b[j + 1]
    BY <1>0, <2>2
  <2> HIDE DEF b, t
  <2>4. Len(b) \in Nat /\ Len(t) \in Nat
    BY <1>0, <2>3
  <2>5. ASSUME NEW j \in 1 .. Len(t) PROVE t[j] = w.next - Len(t) + j
    <3>1. j + 1 \in 1 .. Len(b) /\ t[j] = b[j + 1]
      BY <2>3, <2>4
    <3>2. b[j + 1] = w.next - Len(b) + (j + 1)
      BY <1>0, <3>1
    <3> QED BY <1>0, <2>3, <2>4, <3>1, <3>2
  <2> QED BY <1>0, <2>1, <2>3, <2>5, GoodParts
<1>2. CASE ~ Replays(w) /\ w.saving
  <2>1. AfterNext(w) = [next |-> w.next + 1, buffer |-> a, saving |-> w.saving]
    BY <1>0, <1>2 DEF AfterNext
  <2>2. /\ a \in Seq(Nat) /\ Len(a) = Len(b) + 1
        /\ \A j \in 1 .. Len(b) : a[j] = b[j]
        /\ a[Len(b) + 1] = w.next + 1
    BY <1>0
  <2>3. \A j \in 1 .. Len(a) : a[j] = (w.next + 1) - Len(a) + j
    BY <1>0, <2>2
  <2>4. w.next + 1 \in Nat
    BY <1>0
  <2> HIDE DEF b, a
  <2> QED BY <1>0, <2>1, <2>2, <2>3, <2>4, GoodParts
<1>3. CASE ~ Replays(w) /\ ~ w.saving
  <2>1. b = <<>>
    BY <1>3 DEF Replays
  <2>2. AfterNext(w) = [next |-> w.next + 1, buffer |-> b, saving |-> w.saving]
    BY <1>0, <1>3 DEF AfterNext
  <2>3. w.next + 1 \in Nat /\ \A j \in 1 .. Len(b) : b[j] = (w.next + 1) - Len(b) + j
    BY <1>0, <2>1
  <2> HIDE DEF b
  <2> QED BY <1>0, <2>2, <2>3, GoodParts
<1> QED BY <1>1, <1>2, <1>3

LEMMA BatchGood ==
  ASSUME NEW w, Good(w)
  PROVE  Good(AfterBatch(w))
BY NextGood DEF AfterBatch

-----------------------------------------------------------------------------
(* The steps of the runtime.                                                *)

\* A step that leaves the wrappers, or gives one stage another good one.
LEMMA OneWrapper ==
  ASSUME DataGood, NEW s \in Stage, NEW w, Good(w),
         data' = data \/ data' = [data EXCEPT ![s] = w]
  PROVE  DataGood'
BY DEF DataGood, Good

LEMMA GoodAt == ASSUME DataGood, NEW s \in Stage PROVE Good(data[s])
BY DEF DataGood, Good

LEMMA ForwardStep ==
  ASSUME DataGood, NEW s \in Stage, ForwardAndRead(s)
  PROVE  DataGood'
<1>1. data' = data \/ data' = [data EXCEPT ![s] = AfterBatch(data[s])]
  BY DEF ForwardAndRead
<1> QED BY <1>1, GoodAt, BatchGood, OneWrapper

LEMMA StageStep ==
  ASSUME DataGood, NEW s \in Stage,
         \/ BeginValidation(s) \/ WarmUp(s) \/ ReceiveVerdict(s) \/ SendVerdict(s)
         \/ Accept(s) \/ RollBack(s) \/ BeginRun(s) \/ Execute(s) \/ EndRun(s)
  PROVE  DataGood'
<1>0. Good(data[s])
  BY GoodAt
<1>1. CASE BeginValidation(s)
  <2>1. data' = data \/ data' = [data EXCEPT ![s] = SaveToBuffer(ClearBuffer(data[s]))]
    BY <1>1 DEF BeginValidation
  <2> QED BY <1>0, <2>1, ModesGood, OneWrapper
<1>2. CASE WarmUp(s)
  <2>1. data' = data \/ ForwardAndRead(s)
    BY <1>2 DEF WarmUp, rollback
  <2> QED BY <1>0, <2>1, ForwardStep, OneWrapper
<1>3. CASE Accept(s)
  <2>1. data' = [data EXCEPT ![s] = PopFromBuffer(ClearBuffer(data[s]))]
    BY <1>3 DEF Accept
  <2> QED BY <1>0, <2>1, ModesGood, OneWrapper
<1>4. CASE RollBack(s)
  <2>1. data' = [data EXCEPT ![s] = PopFromBuffer(data[s])]
    BY <1>4 DEF RollBack
  <2> QED BY <1>0, <2>1, ModesGood, OneWrapper
<1>5. CASE Execute(s)
  <2>1. data' = data \/ ForwardAndRead(s)
    BY <1>5 DEF Execute, rollback
  <2> QED BY <1>0, <2>1, ForwardStep, OneWrapper
<1>6. CASE ReceiveVerdict(s) \/ SendVerdict(s) \/ BeginRun(s) \/ EndRun(s)
  <2>1. data' = data
    BY <1>6 DEF ReceiveVerdict, SendVerdict, BeginRun, EndRun, rollback
  <2> QED BY <1>0, <2>1, OneWrapper
<1> QED BY <1>1, <1>2, <1>3, <1>4, <1>5, <1>6

\* The wrappers keep, in order, what was read last: nothing is lost or read
\* twice by a rollback, whatever the schedules and the verdicts.
THEOREM BatchesReplayed == ValidationSpec => []BufferInOrder
<1>1. ValidationInit => DataGood
  BY WrapperGood DEF ValidationInit, DataGood, Good
<1>2. DataGood /\ [ValidationNext]_allVars => DataGood'
  <2> SUFFICES ASSUME DataGood, [ValidationNext]_allVars PROVE DataGood'
    OBVIOUS
  <2>1. CASE Network \/ Stop \/ UNCHANGED allVars
    <3>1. data' = data
      BY <2>1 DEF Network, Stop, allVars, rollback
    <3> QED BY <3>1 DEF DataGood
  <2>2. CASE \E s \in Stage : \/ BeginValidation(s) \/ WarmUp(s) \/ ReceiveVerdict(s)
                              \/ SendVerdict(s) \/ Accept(s) \/ RollBack(s)
                              \/ BeginRun(s) \/ Execute(s) \/ EndRun(s)
    BY <2>2, StageStep
  <2> QED BY <2>1, <2>2 DEF ValidationNext
<1>3. DataGood => BufferInOrder
  BY DEF DataGood, BufferInOrder
<1> QED BY <1>1, <1>2, <1>3, PTL DEF ValidationSpec

-----------------------------------------------------------------------------
(* The batches that the forwards use.                                       *)

(* The number of elements that the iterations before k take of the data.    *)
First(k) == 2 * ((k - 1) * conf.micro)

Participates(s, k) == s < outcome[k].taken

(* What phase p of iteration k, at node x, says of the wrapper w of a stage *)
(* that reads data and of the row u of used: how far it has read, and how   *)
(* much of that it would read again.                                        *)
AtPhase(s, p, k, x, w, u) ==
  LET c == 2 * ForwardsBefore(conf, s, x)
  IN  /\ p = "finished" => ~ w.saving /\ w.buffer = <<>> /\ w.next = First(k + 1)
      /\ p = "validating" /\ Participates(s, k) =>
           w.saving /\ Len(w.buffer) = c /\ w.next = First(k) + c
      /\ p = "validating" /\ ~ Participates(s, k) =>
           ~ w.saving /\ w.buffer = <<>> /\ w.next = First(k)
      /\ p \in {"validated", "running"} =>
           /\ ~ w.saving /\ w.next - Len(w.buffer) = First(k) + c
           /\ w.next <= First(k + 1)
      /\ p # "validating" \/ Participates(s, k) =>
           \A i \in ForwardNodes(conf, s) :
             i < x => u[i] = First(k) + 2 * Node(s, i).mb + 2

Statuses == {"running", "raised", "done"}

Phases == {"finished", "validating", "validated", "running"}

Typed ==
  /\ conf \in Conf
  /\ it \in [Stage -> Nat]
  /\ status \in [Stage -> Statuses]
  /\ iteration \in [Stage -> 0 .. Iterations]
  /\ phase \in [Stage -> Phases]
  /\ \A s \in Stage : phase[s] # "finished" => iteration[s] >= 1
  /\ outcome \in [1 .. Iterations -> Outcomes]
  /\ used = [s \in Stage |-> used[s]]
  /\ \A s \in Stage : DOMAIN used[s] = DOMAIN Order(s)

Stands(s) == AtPhase(s, phase[s], iteration[s], it[s], data[s], used[s])

Batches == Typed /\ DataGood /\ \A s \in Stage : ReadsData(s) => Stands(s)

-----------------------------------------------------------------------------
(* The forwards of an order, counted.                                       *)

LEMMA ForwardsCounted ==
  ASSUME conf \in Conf, NEW s \in Stage, NEW x \in Nat
  PROVE  /\ conf.micro \in Nat
         /\ ForwardsBefore(conf, s, x) \in Nat
         /\ ForwardsBefore(conf, s, x) <= conf.micro
         /\ ForwardsBefore(conf, s, 1) = 0
         /\ x = Len(Order(s)) + 1 => ForwardsBefore(conf, s, x) = conf.micro
         /\ ForwardsBefore(conf, s, x + 1) =
              IF x \in ForwardNodes(conf, s) THEN ForwardsBefore(conf, s, x) + 1
              ELSE ForwardsBefore(conf, s, x)
<1> DEFINE S == ForwardNodes(conf, s)
           L(y) == {i \in S : i < y}
<1>1. conf.micro \in Nat /\ DOMAIN Order(s) = 1 .. Len(Order(s)) /\ Len(Order(s)) \in Nat
  BY ConfOK DEF IsConf, Order
<1>2. S \subseteq 1 .. Len(Order(s))
  BY <1>1 DEF ForwardNodes, Order
<1>3. IsFiniteSet(S)
  <2>1. IsFiniteSet(1 .. Len(Order(s)))
    BY <1>1, FS_Interval
  <2> QED BY <1>2, <2>1, FS_Subset
<1>4. Cardinality(S) = conf.micro
  BY MicrobatchesInOrder
<1>5. L(x) \subseteq S /\ L(1) = {} /\ (x = Len(Order(s)) + 1 => L(x) = S)
  BY <1>1, <1>2
<1>6. L(x + 1) = IF x \in S THEN L(x) \cup {x} ELSE L(x)
  BY <1>1, <1>2
<1>7. x \notin L(x)
  OBVIOUS
<1> HIDE DEF S, L
<1>8. IsFiniteSet(L(x)) /\ Cardinality(L(x)) <= Cardinality(S) /\ Cardinality(L(x)) \in Nat
  BY <1>3, <1>5, FS_Subset, FS_CardinalityType
<1>9. Cardinality(L(x) \cup {x}) = Cardinality(L(x)) + 1
  BY <1>7, <1>8, FS_AddElement
<1>10. Cardinality({}) = 0
  BY FS_EmptySet
<1> QED BY <1>1, <1>4, <1>5, <1>6, <1>8, <1>9, <1>10 DEF ForwardsBefore, S, L

LEMMA FirstAfter ==
  ASSUME conf \in Conf, NEW k \in Nat
  PROVE  First(k) \in Int /\ First(k + 1) = First(k) + 2 * conf.micro /\ First(1) = 0
<1>1. conf.micro \in Nat
  BY ConfOK DEF IsConf
<1>2. ((k + 1) - 1) * conf.micro = (k - 1) * conf.micro + conf.micro
  BY <1>1
<1>3. (k - 1) * conf.micro \in Int /\ (1 - 1) * conf.micro = 0
  BY <1>1
<1> QED BY <1>1, <1>2, <1>3 DEF First

-----------------------------------------------------------------------------
(* What a read gives and leaves.                                            *)

Position(w) == IF w.saving THEN w.next ELSE w.next - Len(w.buffer)

LEMMA OneRead ==
  ASSUME NEW w, Good(w)
  PROVE  /\ Good(AfterNext(w))
         /\ Position(w) \in Int
         /\ NextElement(w) = Position(w) + 1
         /\ AfterNext(w).saving = w.saving
         /\ Position(AfterNext(w)) = Position(w) + 1
         /\ w.saving => /\ Len(AfterNext(w).buffer) = Len(w.buffer) + 1
                        /\ AfterNext(w).next = w.next + 1
         /\ ~ w.saving => \/ AfterNext(w).next = w.next
                          \/ AfterNext(w).next = Position(w) + 1
<1> DEFINE b == w.buffer
<1>0. /\ w.next \in Nat /\ b \in Seq(Nat) /\ w.saving \in BOOLEAN
      /\ \A j \in 1 .. Len(b) : b[j] = w.next - Len(b) + j
      /\ w = [next |-> w.next, buffer |-> b, saving |-> w.saving]
  BY Parts
<1>1. Good(AfterNext(w)) /\ Len(b) \in Nat
  BY <1>0, NextGood
<1>2. CASE Replays(w)
  <2>1. AfterNext(w) = [next |-> w.next, buffer |-> Tail(b), saving |-> w.saving]
    BY <1>0, <1>2 DEF AfterNext
  <2>2. b # <<>> /\ ~ w.saving
    BY <1>2 DEF Replays
  <2>3. Len(Tail(b)) = Len(b) - 1 /\ Head(b) = b[1] /\ 1 \in 1 .. Len(b)
    BY <1>0, <2>2
  <2>4. NextElement(w) = w.next - Len(b) + 1
    BY <1>0, <1>2, <2>3 DEF NextElement
  <2> HIDE DEF b
  <2> QED BY <1>0, <1>1, <2>1, <2>2, <2>3, <2>4 DEF Position, b
<1>3. CASE ~ Replays(w) /\ w.saving
  <2>1. AfterNext(w) =
          [next |-> w.next + 1, buffer |-> Append(b, w.next + 1), saving |-> w.saving]
    BY <1>0, <1>3 DEF AfterNext
  <2>2. Len(Append(b, w.next + 1)) = Len(b) + 1
    BY <1>0
  <2>3. NextElement(w) = w.next + 1
    BY <1>3 DEF NextElement
  <2> HIDE DEF b
  <2> QED BY <1>0, <1>1, <1>3, <2>1, <2>2, <2>3 DEF Position, b
<1>4. CASE ~ Replays(w) /\ ~ w.saving
  <2>1. b = <<>> /\ Len(b) = 0
    BY <1>4 DEF Replays
  <2>2. AfterNext(w) = [next |-> w.next + 1, buffer |-> b, saving |-> w.saving]
    BY <1>0, <1>4 DEF AfterNext
  <2>3. NextElement(w) = w.next + 1
    BY <1>4 DEF NextElement
  <2> HIDE DEF b
  <2> QED BY <1>0, <1>1, <1>4, <2>1, <2>2, <2>3 DEF Position, b
<1> QED BY <1>2, <1>3, <1>4

LEMMA BatchRead ==
  ASSUME NEW w, Good(w)
  PROVE  /\ UsedBatch(w) = Position(w) + 2
         /\ AfterBatch(w).saving = w.saving
         /\ Position(AfterBatch(w)) = Position(w) + 2
         /\ w.saving => /\ Len(AfterBatch(w).buffer) = Len(w.buffer) + 2
                        /\ AfterBatch(w).next = w.next + 2
         /\ ~ w.saving => \/ AfterBatch(w).next <= w.next
                          \/ AfterBatch(w).next <= Position(w) + 2
<1> DEFINE v == AfterNext(w)
<1>1. /\ Good(v) /\ w.next \in Nat /\ Len(w.buffer) \in Nat
      /\ v.next \in Nat /\ Len(v.buffer) \in Nat
  <2>1. Good(v)
    BY OneRead
  <2> HIDE DEF v
  <2> QED BY <2>1, Parts
<1>2. /\ Position(w) \in Int /\ v.saving = w.saving /\ Position(v) = Position(w) + 1
      /\ w.saving => Len(v.buffer) = Len(w.buffer) + 1 /\ v.next = w.next + 1
      /\ ~ w.saving => v.next = w.next \/ v.next = Position(w) + 1
  BY OneRead
<1> HIDE DEF v
<1>3. /\ NextElement(v) = Position(v) + 1 /\ AfterNext(v).saving = v.saving
      /\ Position(AfterNext(v)) = Position(v) + 1
      /\ v.saving => Len(AfterNext(v).buffer) = Len(v.buffer) + 1 /\ AfterNext(v).next = v.next + 1
      /\ ~ v.saving => AfterNext(v).next = v.next \/ AfterNext(v).next = Position(v) + 1
  BY <1>1, OneRead
<1>4. UsedBatch(w) = NextElement(v) /\ AfterBatch(w) = AfterNext(v)
  BY DEF UsedBatch, AfterBatch, v
<1> QED BY <1>1, <1>2, <1>3, <1>4, SMTT(30)

-----------------------------------------------------------------------------
(* The steps: one stage moves, the others stand where they did.             *)

Becomes(s, p, k, x, w, u) ==
  /\ conf' = conf /\ outcome' = outcome
  /\ phase' = [phase EXCEPT ![s] = p]
  /\ iteration' = [iteration EXCEPT ![s] = k]
  /\ it' = [it EXCEPT ![s] = x]
  /\ data' = [data EXCEPT ![s] = w]
  /\ used' = [used EXCEPT ![s] = u]
  /\ status' \in [Stage -> Statuses]

LEMMA BatchesKept ==
  ASSUME Batches, NEW s \in Stage, NEW p \in Phases, NEW k \in 0 .. Iterations,
         NEW x \in Nat, NEW w, NEW u, Becomes(s, p, k, x, w, u),
         p # "finished" => k >= 1, Good(w), DOMAIN u = DOMAIN Order(s),
         ReadsData(s) => AtPhase(s, p, k, x, w, u)
  PROVE  Batches'
<1>1. /\ phase'[s] = p /\ iteration'[s] = k /\ it'[s] = x /\ data'[s] = w /\ used'[s] = u
      /\ \A t \in Stage \ {s} :
           /\ phase'[t] = phase[t] /\ iteration'[t] = iteration[t] /\ it'[t] = it[t]
           /\ data'[t] = data[t] /\ used'[t] = used[t]
  BY DEF Becomes, Batches, Typed, DataGood
<1>2. conf' = conf /\ outcome' = outcome /\ \A t \in Stage : Order(t)' = Order(t)
  BY DEF Becomes, Order
<1>3. Typed'
  <2>1. phase' \in [Stage -> Phases] /\ iteration' \in [Stage -> 0 .. Iterations]
        /\ it' \in [Stage -> Nat] /\ status' \in [Stage -> Statuses]
        /\ conf' \in Conf /\ outcome' \in [1 .. Iterations -> Outcomes]
    BY DEF Becomes, Batches, Typed
  <2>2. used' = [t \in Stage |-> used'[t]]
    <3>1. used = [t \in Stage |-> used[t]]
      BY DEF Batches, Typed
    <3>2. used' = [[t \in Stage |-> used[t]] EXCEPT ![s] = u]
      BY <3>1, Zenon DEF Becomes
    <3>3. used' = [t \in Stage |-> IF t = s THEN u ELSE used[t]]
      BY <3>2
    <3> QED BY <3>3
  <2>3. \A t \in Stage : DOMAIN used'[t] = DOMAIN Order(t)
    BY <1>1 DEF Batches, Typed
  <2>4. \A t \in Stage : phase'[t] # "finished" => iteration'[t] >= 1
    BY <1>1 DEF Batches, Typed
  <2> QED BY <1>2, <2>1, <2>2, <2>3, <2>4 DEF Typed
<1>4. DataGood'
  BY OneWrapper DEF Becomes, Batches
<1>5. ASSUME NEW t \in Stage, ReadsData(t) PROVE Stands(t)'
  <2>1. CASE t = s
    BY <1>1, <1>2, <1>5, <2>1
       DEF Stands, AtPhase, First, Participates, ForwardsBefore, ForwardNodes, Node
  <2>2. CASE t # s
    <3>1. AtPhase(t, phase[t], iteration[t], it[t], data[t], used[t])
      BY <1>5 DEF Batches, Stands
    <3>2. phase'[t] = phase[t] /\ iteration'[t] = iteration[t] /\ it'[t] = it[t]
          /\ data'[t] = data[t] /\ used'[t] = used[t]
      BY <1>1, <2>2
    <3> QED BY <1>2, <3>1, <3>2, Zenon
            DEF Stands, AtPhase, First, Participates, ForwardsBefore, ForwardNodes, Node
  <2> QED BY <2>1, <2>2
<1> QED BY <1>3, <1>4, <1>5 DEF Batches, ReadsData

\* What holds of a stage in every state.
LEMMA AtStage ==
  ASSUME Batches, NEW s \in Stage
  PROVE  /\ phase[s] \in Phases /\ iteration[s] \in 0 .. Iterations /\ it[s] \in Nat
         /\ conf \in Conf /\ Iterations \in Nat
         /\ phase[s] # "finished" => iteration[s] >= 1
         /\ Good(data[s]) /\ DOMAIN used[s] = DOMAIN Order(s)
         /\ ReadsData(s) =>
              AtPhase(s, phase[s], iteration[s], it[s], data[s], used[s])
BY GoodAt, IterationsOK DEF Batches, Typed, Stands

LEMMA Unmoved ==
  ASSUME Batches, NEW s \in Stage
  PROVE  /\ phase = [phase EXCEPT ![s] = phase[s]]
         /\ iteration = [iteration EXCEPT ![s] = iteration[s]]
         /\ it = [it EXCEPT ![s] = it[s]]
         /\ data = [data EXCEPT ![s] = data[s]]
         /\ used = [used EXCEPT ![s] = used[s]]
<1>1. used = [t \in Stage |-> used[t]]
  BY DEF Batches, Typed
<1>2. used = [used EXCEPT ![s] = used[s]]
  BY <1>1
<1> QED BY <1>2 DEF Batches, Typed, DataGood

\* What an action of the runtime other than a forward does to a stage.
MovesOn(s) ==
  /\ conf' = conf
  /\ it' = it \/ Advance(s)
  /\ status' = status \/ status' = [status EXCEPT ![s] = "raised"]

LEMMA PassesOn ==
  ASSUME NEW s \in Stage,
         \/ Skip(s) \/ Raise(s) \/ BackwardB(s) \/ WeightW(s) \/ AddCommunication(s)
         \/ IgnorePostValidation(s)
  PROVE  MovesOn(s)
BY DEF MovesOn, Skip, Raise, BackwardB, WeightW, AddCommunication, IgnorePostValidation

\* A stage that goes on without reading stands, unless it passes over a forward
\* that it should have carried out.
LEMMA NoReadStep ==
  ASSUME Batches, NEW s \in Stage, MovesOn(s), UNCHANGED <<iteration, phase, outcome, data, used>>,
         \/ it[s] \notin ForwardNodes(conf, s)
         \/ phase[s] = "validating" /\ ~ DoThisStep(s)
         \/ it' = it
  PROVE  Batches'
<1> DEFINE x == it'[s]
<1>0. /\ phase[s] \in Phases /\ iteration[s] \in 0 .. Iterations /\ it[s] \in Nat
      /\ conf \in Conf /\ (phase[s] # "finished" => iteration[s] >= 1)
      /\ Good(data[s]) /\ DOMAIN used[s] = DOMAIN Order(s)
  BY AtStage
<1>1. x = it[s] \/ x = it[s] + 1
  BY DEF MovesOn, Advance, Batches, Typed
<1>2. it' = [it EXCEPT ![s] = x]
  BY <1>1, Unmoved DEF MovesOn, Advance
<1>3. status' \in [Stage -> Statuses]
  <2>1. status \in [Stage -> Statuses]
    BY DEF Batches, Typed
  <2> QED BY <2>1 DEF MovesOn, Statuses
<1>4. Becomes(s, phase[s], iteration[s], x, data[s], used[s])
  BY <1>2, <1>3, Unmoved DEF Becomes, MovesOn
<1>5. ASSUME ReadsData(s) PROVE AtPhase(s, phase[s], iteration[s], x, data[s], used[s])
  <2>0. AtPhase(s, phase[s], iteration[s], it[s], data[s], used[s])
    BY <1>5, AtStage
  <2>1. CASE x = it[s]
    BY <2>0, <2>1
  <2>2. CASE x = it[s] + 1 /\ it[s] \notin ForwardNodes(conf, s)
    <3>1. ForwardsBefore(conf, s, x) = ForwardsBefore(conf, s, it[s])
      BY <1>0, <2>2, ForwardsCounted
    <3>2. \A i \in ForwardNodes(conf, s) : i < x <=> i < it[s]
      BY <1>0, <2>2, ConfOK DEF ForwardNodes, IsConf
    <3> HIDE DEF x
    <3> QED BY <2>0, <3>1, <3>2, Zenon DEF AtPhase
  <2>3. CASE phase[s] = "validating" /\ ~ DoThisStep(s)
    <3>1. ~ Participates(s, iteration[s])
      BY <2>3 DEF DoThisStep, Outcome, Participates
    <3> HIDE DEF x
    <3> QED BY <2>0, <2>3, <3>1 DEF AtPhase
  <2> QED BY <1>1, <2>1, <2>2, <2>3
<1> HIDE DEF x
<1> QED BY <1>0, <1>1, <1>4, <1>5, BatchesKept

\* A forward reads the batch of its microbatch.
LEMMA ReadStep ==
  ASSUME Batches, NEW s \in Stage, ForwardAndRead(s),
         phase[s] = "running" \/ (phase[s] = "validating" /\ DoThisStep(s))
  PROVE  Batches'
<1> DEFINE x == it[s]
           k == iteration[s]
           w == data[s]
           u == used[s]
<1>0. /\ phase[s] \in Phases /\ k \in 0 .. Iterations /\ x \in Nat
      /\ conf \in Conf /\ (phase[s] # "finished" => k >= 1)
      /\ Good(w) /\ DOMAIN u = DOMAIN Order(s) /\ k \in Nat
      /\ (ReadsData(s) => AtPhase(s, phase[s], k, x, w, u))
  BY AtStage
<1>1. status[s] = "running" /\ x \in ForwardNodes(conf, s) /\ x \in DOMAIN Order(s)
  BY DEF ForwardAndRead, ForwardF, AtNode, ForwardNodes, Order, Node
<1>2. CASE Raise(s)
  <2>1. status'[s] = "raised"
    BY <1>2 DEF Raise, Batches, Typed
  <2>2. UNCHANGED <<iteration, phase, outcome, data, used>> /\ it' = it
    BY <1>2, <2>1 DEF ForwardAndRead, Raise
  <2> QED BY <1>2, <2>2, PassesOn, NoReadStep
<1>3. CASE Advance(s) /\ conf' = conf /\ status' = status
  <2>1. it' = [it EXCEPT ![s] = x + 1] /\ status' \in [Stage -> Statuses]
    BY <1>3 DEF Advance, Batches, Typed
  <2>2. phase[s] \in {"running", "validating"} /\ k >= 1 /\ k \in 0 .. Iterations
    BY <1>0
  <2>3. CASE ~ ReadsData(s)
    <3>1. UNCHANGED <<iteration, phase, outcome, data, used>>
      BY <2>3 DEF ForwardAndRead
    <3>2. Becomes(s, phase[s], k, x + 1, w, u)
      BY <1>3, <2>1, <3>1, Unmoved DEF Becomes
    <3> QED BY <1>0, <2>3, <3>2, BatchesKept
  <2>4. CASE ReadsData(s)
    <3> DEFINE v == AfterBatch(w)
               r == [u EXCEPT ![x] = UsedBatch(w)]
               c == ForwardsBefore(conf, s, x)
    <3>1. /\ used' = [used EXCEPT ![s] = r] /\ data' = [data EXCEPT ![s] = v]
          /\ UNCHANGED <<iteration, phase, outcome>>
      BY <1>1, <1>3, <2>4 DEF ForwardAndRead
    <3>2. Becomes(s, phase[s], k, x + 1, v, r)
      BY <1>3, <2>1, <3>1, Unmoved DEF Becomes
    <3>3. Good(v) /\ DOMAIN r = DOMAIN Order(s)
      BY <1>0, BatchGood
    <3>4. /\ conf.micro \in Nat /\ c \in Nat
          /\ ForwardsBefore(conf, s, x + 1) = c + 1 /\ c + 1 <= conf.micro
      <4>1. /\ conf.micro \in Nat /\ c \in Nat /\ ForwardsBefore(conf, s, x + 1) = c + 1
        BY <1>0, <1>1, ForwardsCounted
      <4>2. x + 1 \in Nat
        BY <1>0
      <4>3. ForwardsBefore(conf, s, x + 1) <= conf.micro
        BY <1>0, <4>2, ForwardsCounted
      <4> QED BY <4>1, <4>3
    <3>5. First(k) \in Int /\ First(k + 1) = First(k) + 2 * conf.micro
      BY <1>0, FirstAfter
    <3>6. /\ UsedBatch(w) = Position(w) + 2 /\ v.saving = w.saving
          /\ Position(v) = Position(w) + 2
          /\ w.saving => Len(v.buffer) = Len(w.buffer) + 2 /\ v.next = w.next + 2
          /\ ~ w.saving => v.next <= w.next \/ v.next <= Position(w) + 2
      BY <1>0, BatchRead
    <3>7. /\ w.next \in Nat /\ Len(w.buffer) \in Nat
          /\ v.next \in Nat /\ Len(v.buffer) \in Nat
      <4> HIDE DEF v, w
      <4>1. w.next \in Nat /\ w.buffer \in Seq(Nat) /\ v.next \in Nat /\ v.buffer \in Seq(Nat)
        BY <1>0, <3>3, Parts
      <4> QED BY <4>1
    <3>8. Position(w) = First(k) + 2 * c
      BY <1>0, <2>2, <2>4, <3>7 DEF AtPhase, Position, Participates, DoThisStep, Outcome
    <3>9. Node(s, x).mb = c
      BY <1>0, <1>1, MicrobatchesInOrder DEF Node
    <3>10. ASSUME NEW i \in ForwardNodes(conf, s), i < x + 1
           PROVE  r[i] = First(k) + 2 * Node(s, i).mb + 2
      <4>1. CASE i = x
        <5>1. r[i] = UsedBatch(w)
          BY <1>0, <1>1, <4>1
        <5> QED BY <3>4, <3>5, <3>6, <3>8, <3>9, <4>1, <5>1
      <4>2. CASE i # x
        <5>1. i < x
          BY <1>0, <3>10, <4>2, ConfOK DEF ForwardNodes, IsConf
        <5>2. u[i] = First(k) + 2 * Node(s, i).mb + 2
          BY <1>0, <2>4, <5>1 DEF AtPhase, Participates, DoThisStep, Outcome
        <5>3. r[i] = u[i]
          BY <4>2
        <5> QED BY <5>2, <5>3
      <4> QED BY <4>1, <4>2
    <3>11. CASE phase[s] = "validating"
      <4>1. /\ w.saving /\ Len(w.buffer) = 2 * c /\ w.next = First(k) + 2 * c
            /\ Participates(s, k)
        BY <1>0, <2>4, <3>11 DEF AtPhase, Participates, DoThisStep, Outcome
      <4>2. v.saving /\ Len(v.buffer) = 2 * (c + 1) /\ v.next = First(k) + 2 * (c + 1)
        <5>1. v.saving /\ Len(v.buffer) = Len(w.buffer) + 2 /\ v.next = w.next + 2
          BY <3>6, <4>1, Zenon
        <5> HIDE DEF v, w, c
        <5> QED BY <3>4, <3>5, <4>1, <5>1
      <4>3. AtPhase(s, phase[s], k, x + 1, v, r)
        <5> HIDE DEF v, w, c, r, x, k
        <5> QED BY <3>4, <3>10, <3>11, <4>1, <4>2 DEF AtPhase
      <4> HIDE DEF v, r
      <4> QED BY <1>0, <2>2, <3>2, <3>3, <4>3, BatchesKept
    <3>12. CASE phase[s] = "running"
      <4>1. ~ w.saving /\ w.next <= First(k + 1)
        BY <1>0, <2>4, <3>12 DEF AtPhase
      <4>2. /\ ~ v.saving /\ v.next - Len(v.buffer) = First(k) + 2 * (c + 1)
            /\ v.next <= First(k + 1)
        <5>1. Position(v) = v.next - Len(v.buffer)
          BY <3>6, <4>1 DEF Position
        <5> HIDE DEF v, w, c
        <5> QED BY <3>4, <3>5, <3>6, <3>7, <3>8, <4>1, <5>1, SMTT(30)
      <4>3. AtPhase(s, phase[s], k, x + 1, v, r)
        <5> HIDE DEF v, w, c, r, x, k
        <5> QED BY <3>4, <3>10, <3>12, <4>2 DEF AtPhase
      <4> HIDE DEF v, r
      <4> QED BY <1>0, <2>2, <3>2, <3>3, <4>3, BatchesKept
    <3> QED BY <2>2, <3>11, <3>12
  <2> QED BY <2>3, <2>4
<1> QED BY <1>2, <1>3 DEF ForwardAndRead, ForwardF

\* The iteration begins where the one before has ended, and keeps what it reads
\* if the stage takes the step.
LEMMA BeginStep ==
  ASSUME Batches, NEW s \in Stage, BeginValidation(s)
  PROVE  Batches'
<1> DEFINE k == iteration[s] + 1
           u == NoneOf(s, None)
           w == data[s]
           v == IF ReadsData(s) /\ Participates(s, k) THEN SaveToBuffer(ClearBuffer(w)) ELSE w
<1>0. /\ iteration[s] \in 0 .. Iterations /\ conf \in Conf /\ Good(w) /\ Iterations \in Nat
      /\ ReadsData(s) => AtPhase(s, "finished", iteration[s], it[s], w, used[s])
  BY AtStage DEF BeginValidation
<1>1. /\ k \in 0 .. Iterations /\ k \in Nat /\ k >= 1 /\ 1 \in Nat
      /\ "validating" \in Phases /\ DOMAIN u = DOMAIN Order(s)
  BY <1>0 DEF BeginValidation, Phases, NoneOf
<1>2. Becomes(s, "validating", k, 1, v, u)
  <2>1. data' = [data EXCEPT ![s] = v]
    BY Unmoved DEF BeginValidation, Participates
  <2>2. status' \in [Stage -> Statuses]
    BY DEF BeginValidation, Batches, Typed, Statuses
  <2> QED BY <2>1, <2>2 DEF BeginValidation, Becomes, Reset
<1>3. Good(v)
  BY <1>0, ModesGood
<1>4. ASSUME ReadsData(s) PROVE AtPhase(s, "validating", k, 1, v, u)
  <2>1. ~ w.saving /\ w.buffer = <<>> /\ w.next = First(k)
    BY <1>0, <1>4 DEF AtPhase
  <2>2. ForwardsBefore(conf, s, 1) = 0 /\ First(k) \in Int
    BY <1>0, <1>1, ForwardsCounted, FirstAfter
  <2>3. \A i \in ForwardNodes(conf, s) : ~ i < 1
    BY <1>0, ConfOK DEF ForwardNodes, IsConf
  <2>4. CASE Participates(s, k)
    <3>1. v.saving /\ v.buffer = <<>> /\ v.next = w.next
      <4>1. w = [next |-> w.next, buffer |-> w.buffer, saving |-> w.saving]
        BY <1>0, Parts
      <4> QED BY <1>4, <2>4, <4>1 DEF SaveToBuffer, SetMode, ClearBuffer
    <3> HIDE DEF v, k, u, w
    <3> QED BY <2>1, <2>2, <2>3, <2>4, <3>1 DEF AtPhase
  <2>5. CASE ~ Participates(s, k)
    <3>1. v = w
      BY <2>5
    <3> HIDE DEF v, k, u, w
    <3> QED BY <2>1, <2>5, <3>1 DEF AtPhase
  <2> QED BY <2>4, <2>5
<1> HIDE DEF v, k, u
<1> QED BY <1>1, <1>2, <1>3, <1>4, BatchesKept

\* Only stages that take part in a step can find that it stands.
LEMMA AcceptStep ==
  ASSUME Batches, NEW s \in Stage, Accept(s)
  PROVE  Batches'
<1> DEFINE k == iteration[s]
           w == data[s]
           v == PopFromBuffer(ClearBuffer(w))
<1>0. /\ phase[s] = "validating" /\ "validated" \in Phases /\ k \in 0 .. Iterations /\ k >= 1
      /\ k \in Nat /\ it[s] \in Nat /\ conf \in Conf /\ Good(w)
      /\ DOMAIN used[s] = DOMAIN Order(s)
      /\ ReadsData(s) => AtPhase(s, "validating", k, it[s], w, used[s])
  BY AtStage DEF Accept, Validating, Phases
<1>1. Becomes(s, "validated", k, it[s], v, used[s])
  BY Unmoved DEF Accept, Becomes, Batches, Typed
<1>2. Good(v)
  BY <1>0, ModesGood
<1>3. Participates(s, k)
  <2>1. outcome[k] \in Outcomes /\ outcome[k].stands
    BY <1>0 DEF Batches, Typed, Accept, Outcome
  <2> QED BY <2>1, ConstantsOK DEF Outcomes, Participates, Stage
<1>4. ASSUME ReadsData(s) PROVE AtPhase(s, "validated", k, it[s], v, used[s])
  <2>1. w.saving /\ w.next = First(k) + 2 * ForwardsBefore(conf, s, it[s])
    BY <1>0, <1>3, <1>4 DEF AtPhase
  <2>2. ~ v.saving /\ v.buffer = <<>> /\ v.next = w.next
    <3>1. w = [next |-> w.next, buffer |-> w.buffer, saving |-> w.saving]
      BY <1>0, Parts
    <3> QED BY <3>1 DEF PopFromBuffer, SetMode, ClearBuffer
  <2>3. /\ ForwardsBefore(conf, s, it[s]) \in Nat /\ conf.micro \in Nat
        /\ ForwardsBefore(conf, s, it[s]) <= conf.micro
    BY <1>0, ForwardsCounted
  <2>4. First(k) \in Int /\ First(k + 1) = First(k) + 2 * conf.micro
    BY <1>0, FirstAfter
  <2>5. /\ v.next - Len(v.buffer) = First(k) + 2 * ForwardsBefore(conf, s, it[s])
        /\ v.next <= First(k + 1)
    <3>1. Len(v.buffer) = 0
      BY <2>2
    <3> HIDE DEF v, w, k
    <3> QED BY <2>1, <2>2, <2>3, <2>4, <3>1
  <2> HIDE DEF v
  <2> QED BY <1>0, <1>3, <1>4, <2>2, <2>5 DEF AtPhase
<1> HIDE DEF v
<1> QED BY <1>0, <1>1, <1>2, <1>4, BatchesKept

\* After a rollback the iteration starts again, before what it has read.
LEMMA RollBackStep ==
  ASSUME Batches, NEW s \in Stage, RollBack(s)
  PROVE  Batches'
<1> DEFINE k == iteration[s]
           w == data[s]
           v == PopFromBuffer(w)
           u == NoneOf(s, None)
<1>0. /\ phase[s] = "validating" /\ "validated" \in Phases /\ k \in 0 .. Iterations /\ k >= 1
      /\ k \in Nat /\ it[s] \in Nat /\ conf \in Conf /\ Good(w) /\ 1 \in Nat
      /\ DOMAIN u = DOMAIN Order(s)
      /\ ReadsData(s) => AtPhase(s, "validating", k, it[s], w, used[s])
  BY AtStage DEF RollBack, Validating, Phases, NoneOf
<1>1. Becomes(s, "validated", k, 1, v, u)
  BY Unmoved DEF RollBack, Becomes, Reset, Batches, Typed
<1>2. Good(v)
  BY <1>0, ModesGood
<1>3. ASSUME ReadsData(s) PROVE AtPhase(s, "validated", k, 1, v, u)
  <2>1. /\ ~ v.saving /\ v.buffer = w.buffer /\ v.next = w.next
        /\ w.next \in Nat /\ Len(w.buffer) \in Nat
    <3>1. /\ w = [next |-> w.next, buffer |-> w.buffer, saving |-> w.saving]
          /\ w.next \in Nat /\ w.buffer \in Seq(Nat)
      BY <1>0, Parts
    <3> QED BY <3>1 DEF PopFromBuffer, SetMode
  <2>2. /\ ForwardsBefore(conf, s, it[s]) \in Nat /\ conf.micro \in Nat
        /\ ForwardsBefore(conf, s, it[s]) <= conf.micro
        /\ ForwardsBefore(conf, s, 1) = 0
    BY <1>0, ForwardsCounted
  <2>3. First(k) \in Int /\ First(k + 1) = First(k) + 2 * conf.micro
    BY <1>0, FirstAfter
  <2>4. w.next - Len(w.buffer) = First(k) /\ w.next <= First(k + 1)
    <3>1. CASE Participates(s, k)
      <4>1. /\ Len(w.buffer) = 2 * ForwardsBefore(conf, s, it[s])
            /\ w.next = First(k) + 2 * ForwardsBefore(conf, s, it[s])
        BY <1>0, <1>3, <3>1 DEF AtPhase
      <4> HIDE DEF w, k
      <4> QED BY <2>2, <2>3, <4>1, SMTT(30)
    <3>2. CASE ~ Participates(s, k)
      <4>1. Len(w.buffer) = 0 /\ w.next = First(k)
        BY <1>0, <1>3, <3>2 DEF AtPhase
      <4> HIDE DEF w, k
      <4> QED BY <2>2, <2>3, <4>1
    <3> QED BY <3>1, <3>2
  <2>5. \A i \in ForwardNodes(conf, s) : ~ i < 1
    BY <1>0, ConfOK DEF ForwardNodes, IsConf
  <2> HIDE DEF v, w, u, k
  <2> QED BY <2>1, <2>2, <2>3, <2>4, <2>5 DEF AtPhase
<1> HIDE DEF v, u
<1> QED BY <1>0, <1>1, <1>2, <1>3, BatchesKept

LEMMA BeginRunStep ==
  ASSUME Batches, NEW s \in Stage, BeginRun(s)
  PROVE  Batches'
<1>0. /\ phase[s] = "validated" /\ "running" \in Phases /\ iteration[s] \in 0 .. Iterations
      /\ iteration[s] >= 1 /\ it[s] \in Nat /\ Good(data[s])
      /\ DOMAIN used[s] = DOMAIN Order(s)
      /\ ReadsData(s) => AtPhase(s, "validated", iteration[s], it[s], data[s], used[s])
  BY AtStage DEF BeginRun, Phases
<1>1. Becomes(s, "running", iteration[s], it[s], data[s], used[s])
  BY Unmoved DEF BeginRun, Becomes, vars, Batches, Typed
<1>2. ReadsData(s) => AtPhase(s, "running", iteration[s], it[s], data[s], used[s])
  BY <1>0 DEF AtPhase
<1> QED BY <1>0, <1>1, <1>2, BatchesKept

\* A run that ends has read all of its batches again and keeps none.
LEMMA EndRunStep ==
  ASSUME Batches, NEW s \in Stage, EndRun(s)
  PROVE  Batches'
<1> DEFINE k == iteration[s]
           w == data[s]
<1>0. /\ phase[s] = "running" /\ "running" \in Phases /\ "finished" \in Phases
      /\ k \in 0 .. Iterations /\ k \in Nat /\ conf \in Conf
      /\ k >= 1 /\ it[s] \in Nat /\ Good(w)
      /\ DOMAIN used[s] = DOMAIN Order(s)
      /\ ReadsData(s) => AtPhase(s, "running", k, it[s], w, used[s])
  BY AtStage DEF EndRun, Phases
<1>1. PICK p \in {"running", "finished"} : phase' = [phase EXCEPT ![s] = p]
  BY <1>0 DEF EndRun
<1>2. Becomes(s, p, k, it[s], w, used[s])
  <2>1. status' \in [Stage -> Statuses]
    BY DEF EndRun, Finish, Batches, Typed, Statuses
  <2> QED BY <1>1, <2>1, Unmoved DEF EndRun, Finish, Becomes
<1>3. ASSUME ReadsData(s) PROVE AtPhase(s, p, k, it[s], w, used[s])
  <2>1. it[s] = Len(Order(s)) + 1
    BY DEF EndRun, Finish
  <2>2. ForwardsBefore(conf, s, it[s]) = conf.micro /\ conf.micro \in Nat
    BY <1>0, <2>1, ForwardsCounted
  <2>3. First(k) \in Int /\ First(k + 1) = First(k) + 2 * conf.micro
    BY <1>0, FirstAfter
  <2>4. /\ ~ w.saving /\ w.next - Len(w.buffer) = First(k) + 2 * conf.micro
        /\ w.next <= First(k + 1)
    BY <1>0, <1>3, <2>2 DEF AtPhase
  <2>5. w.next \in Nat /\ w.buffer \in Seq(Nat) /\ Len(w.buffer) \in Nat
    <3>1. w.next \in Nat /\ w.buffer \in Seq(Nat)
      BY <1>0, Parts
    <3> QED BY <3>1
  <2>6. Len(w.buffer) = 0 /\ w.next = First(k + 1)
    <3> HIDE DEF w, k
    <3> QED BY <2>2, <2>3, <2>4, <2>5
  <2>7. w.buffer = <<>>
    BY <2>5, <2>6
  <2> HIDE DEF w, k
  <2> QED BY <1>0, <1>3, <2>4, <2>6, <2>7 DEF AtPhase
<1> HIDE DEF w, k
<1> QED BY <1>0, <1>1, <1>2, <1>3, BatchesKept DEF k

LEMMA OtherNode ==
  ASSUME NEW s \in Stage, NEW types, AtNode(s, types), "F" \notin types
  PROVE  it[s] \notin ForwardNodes(conf, s)
BY DEF AtNode, ForwardNodes, Order, Node

LEMMA WarmUpStep ==
  ASSUME Batches, NEW s \in Stage, WarmUp(s)
  PROVE  Batches'
<1> DEFINE n == Node(s, it[s])
<1>0. phase[s] = "validating"
  BY DEF WarmUp, Validating
<1>1. CASE Raise(s) /\ UNCHANGED rollback
  <2>1. it' = it
    BY <1>1 DEF Raise
  <2> QED BY <1>1, <2>1, PassesOn, NoReadStep DEF rollback
<1>2. CASE PassesOver(s, n) /\ Skip(s) /\ UNCHANGED rollback
  BY <1>0, <1>2, PassesOn, NoReadStep DEF rollback, PassesOver
<1>3. CASE ~ PassesOver(s, n) /\ n.type = "F" /\ ForwardAndRead(s)
  BY <1>0, <1>3, ReadStep DEF PassesOver
<1>4. CASE AddCommunication(s) /\ UNCHANGED rollback
  <2>1. AtNode(s, CommTypes) /\ "F" \notin CommTypes
    BY <1>4 DEF AddCommunication, CommTypes, SendTypes, RecvTypes
  <2> QED BY <1>4, <2>1, OtherNode, PassesOn, NoReadStep DEF rollback
<1> QED BY <1>1, <1>2, <1>3, <1>4 DEF WarmUp

LEMMA VerdictStep ==
  ASSUME Batches, NEW s \in Stage, ReceiveVerdict(s) \/ SendVerdict(s)
  PROVE  Batches'
<1>1. it[s] \notin ForwardNodes(conf, s)
  BY DEF ReceiveVerdict, SendVerdict, Validating, AtNode, ForwardNodes, Order, Node
<1>2. Skip(s) /\ UNCHANGED <<iteration, phase, outcome, data, used>>
  BY DEF ReceiveVerdict, SendVerdict, rollback
<1> QED BY <1>1, <1>2, PassesOn, NoReadStep

LEMMA ExecuteStep ==
  ASSUME Batches, NEW s \in Stage, Execute(s)
  PROVE  Batches'
<1>0. phase[s] = "running"
  BY DEF Execute
<1>1. CASE ForwardAndRead(s)
  BY <1>0, <1>1, ReadStep
<1>2. CASE /\ BackwardB(s) \/ WeightW(s) \/ AddCommunication(s) \/ IgnorePostValidation(s)
           /\ UNCHANGED rollback
  <2>1. it[s] \notin ForwardNodes(conf, s)
    BY <1>2
       DEF BackwardB, WeightW, AddCommunication, IgnorePostValidation, AtNode,
           PostValidationTypes, CommTypes, SendTypes, RecvTypes, ForwardNodes, Order, Node
  <2> QED BY <1>2, <2>1, PassesOn, NoReadStep DEF rollback
<1> QED BY <1>1, <1>2 DEF Execute

LEMMA BatchesStart == ValidationInit => Batches
<1> SUFFICES ASSUME ValidationInit PROVE Batches
  OBVIOUS
<1>1. conf \in Conf /\ Iterations \in Nat \ {0}
  BY IterationsOK DEF ValidationInit, Init
<1>2. DataGood
  BY WrapperGood DEF ValidationInit, DataGood, Good
<1>3. Typed
  <2>1. used = [s \in Stage |-> NoneOf(s, None)]
    BY DEF ValidationInit, NoneOf
  <2>2. used = [s \in Stage |-> used[s]] /\ \A s \in Stage : DOMAIN used[s] = DOMAIN Order(s)
    BY <2>1 DEF NoneOf
  <2>3. /\ it \in [Stage -> Nat] /\ status \in [Stage -> Statuses]
        /\ iteration \in [Stage -> 0 .. Iterations] /\ phase \in [Stage -> Phases]
        /\ \A s \in Stage : phase[s] = "finished"
    BY <1>1 DEF ValidationInit, Init, Statuses, Phases
  <2>4. outcome \in [1 .. Iterations -> Outcomes]
    BY DEF ValidationInit
  <2> QED BY <1>1, <2>2, <2>3, <2>4 DEF Typed
<1>4. ASSUME NEW s \in Stage PROVE Stands(s)
  <2>1. /\ phase[s] = "finished" /\ iteration[s] = 0 /\ it[s] = 1
        /\ data[s] = Wrapper
    BY DEF ValidationInit, Init
  <2>2. First(0 + 1) = 0
    BY <1>1, FirstAfter
  <2>3. \A i \in ForwardNodes(conf, s) : ~ i < 1
    BY <1>1, ConfOK DEF ForwardNodes, IsConf
  <2> QED BY <2>1, <2>2, <2>3 DEF Stands, AtPhase, Wrapper
<1> QED BY <1>2, <1>3, <1>4 DEF Batches

LEMMA BatchesStep == Batches /\ [ValidationNext]_allVars => Batches'
<1> SUFFICES ASSUME Batches, [ValidationNext]_allVars PROVE Batches'
  OBVIOUS
<1>1. CASE Network \/ Stop \/ UNCHANGED allVars
  <2>1. /\ conf' = conf /\ it' = it /\ status' = status
        /\ UNCHANGED <<iteration, phase, outcome, data, used>>
    BY <1>1 DEF Network, Transfer, Stop, allVars, rollback, vars
  <2> QED BY <2>1, ZenonT(30)
         DEF Batches, Typed, DataGood, Stands, AtPhase, First, Participates, ForwardsBefore,
             ForwardNodes, Node, Order, ReadsData
<1>2. ASSUME NEW s \in Stage, \/ BeginValidation(s) \/ WarmUp(s) \/ ReceiveVerdict(s)
                              \/ SendVerdict(s) \/ Accept(s) \/ RollBack(s)
                              \/ BeginRun(s) \/ Execute(s) \/ EndRun(s)
      PROVE  Batches'
  BY <1>2, BeginStep, WarmUpStep, VerdictStep, AcceptStep, RollBackStep, BeginRunStep,
     ExecuteStep, EndRunStep
<1> QED BY <1>1, <1>2 DEF ValidationNext

\* Forward m of an iteration uses the same batch on the first and on the last
\* stage, the one it would have used had no step ever been taken back.
THEOREM BatchesRight == ValidationSpec => []RightBatch
<1>1. Batches => RightBatch
  <2> SUFFICES ASSUME Batches, NEW s \in Stage, NEW i \in Executed(s, {"F"}),
                      ReadsData(s), TookPart(s)
               PROVE  used[s][i] = 2 * ((iteration[s] - 1) * conf.micro + Node(s, i).mb) + 2
    BY DEF RightBatch
  <2>1. /\ iteration[s] \in 0 .. Iterations /\ conf \in Conf /\ Iterations \in Nat
        /\ AtPhase(s, phase[s], iteration[s], it[s], data[s], used[s])
    BY AtStage
  <2>2. i \in ForwardNodes(conf, s) /\ i < it[s]
    BY DEF Executed, ForwardNodes, Order, Node
  <2>3. used[s][i] = First(iteration[s]) + 2 * Node(s, i).mb + 2
    BY <2>1, <2>2 DEF AtPhase, TookPart, DoThisStep, Outcome, Participates
  <2>4. ForwardsBefore(conf, s, i) \in Nat /\ Node(s, i).mb = ForwardsBefore(conf, s, i)
    <3>1. i \in Nat
      BY <2>1, <2>2, ConfOK DEF ForwardNodes, IsConf
    <3> QED BY <2>1, <2>2, <3>1, ForwardsCounted, MicrobatchesInOrder DEF Node
  <2>5. conf.micro \in Nat /\ iteration[s] \in Nat
    BY <2>1, ConfOK DEF IsConf
  <2>6. (iteration[s] - 1) * conf.micro \in Int
    BY <2>5
  <2> QED BY <2>3, <2>4, <2>6 DEF First
<1> QED BY <1>1, BatchesStart, BatchesStep, PTL DEF ValidationSpec

-----------------------------------------------------------------------------
(* The operands of the computations.  A stage posts communications in two   *)
(* attempts at an iteration when the step before it does not stand, and the *)
(* ends of a link may be in different ones.  The invariant counts the       *)
(* attempts: 2k is the one at iteration k that counts, 2k - 1 the warm-up   *)
(* that is taken back; labs[s][g] is the attempt of group g of stage s.     *)

Attempt(s) ==
  IF phase[s] = "validating" /\ ~ Outcome(s).stands THEN 2 * iteration[s] - 1
  ELSE 2 * iteration[s]

(* What stage s communicates in the warm-up of iteration k that is taken    *)
(* back, with what it still receives then.                                  *)
TakenBack(s, k) ==
  {i \in WarmUpSends(conf, s) : s < outcome[k].taken}
  \cup {i \in WarmUpRecvs(conf, s) : s <= outcome[k].taken}

Posts(s, e) ==
  {i \in Live(conf, s) :
     /\ Node(s, i).type \in CommTypes
     /\ \E k \in 1 .. Iterations :
          e = 2 * k \/ (e = 2 * k - 1 /\ ~ outcome[k].stands /\ i \in TakenBack(s, k))}

LEMMA OutcomeTypes ==
  ASSUME Typed, NEW k \in 1 .. Iterations
  PROVE  /\ outcome[k].taken \in 0 .. N /\ outcome[k].stands \in BOOLEAN
         /\ outcome[k].stands => outcome[k].taken = N
         /\ N \in Nat
  BY ConstantsOK DEF Typed, Outcomes

(* In every attempt, what a stage sends is what the other receives.         *)
LEMMA AttemptPairs ==
  ASSUME Typed, NEW s \in Stage, NEW t \in Stage, s # t, NEW e
  PROVE  /\ \A i \in Posts(s, e) \cap Sends(conf, s, t) :
              \E j \in Posts(t, e) \cap Recvs(conf, t, s) : T(s, i) = G(t, j)
         /\ \A j \in Posts(t, e) \cap Recvs(conf, t, s) :
              \E i \in Posts(s, e) \cap Sends(conf, s, t) : T(s, i) = G(t, j)
<1>1. conf \in Conf
  BY DEF Typed
<1> DEFINE sends == WarmUpSends(conf, s) \cap Sends(conf, s, t)
           recvs == WarmUpRecvs(conf, t) \cap Recvs(conf, t, s)
<1>2. /\ sends \cup recvs # {} => t = s + 1
      /\ \A i \in sends : \E j \in recvs : T(s, i) = G(t, j)
      /\ \A j \in recvs : \E i \in sends : T(s, i) = G(t, j)
  BY <1>1, WarmUpMatched DEF T, G, Node
<1>3. /\ \A i \in Sends(conf, s, t) : \E j \in Recvs(conf, t, s) : T(s, i) = G(t, j)
      /\ \A j \in Recvs(conf, t, s) : \E i \in Sends(conf, s, t) : T(s, i) = G(t, j)
  BY <1>1, LinkPairs
<1>4. /\ \A i \in Sends(conf, s, t) : LiveComm(s, i) /\ Node(s, i).type \in SendTypes
      /\ \A j \in Recvs(conf, t, s) : LiveComm(t, j) /\ Node(t, j).type \in RecvTypes
  BY EndsAreComms
<1>5. SendTypes \cap RecvTypes = {} /\ "RECV_FORWARD" \in RecvTypes /\ "SEND_FORWARD" \in SendTypes
  BY DEF SendTypes, RecvTypes
<1>6. ASSUME NEW i \in Posts(s, e) \cap Sends(conf, s, t)
      PROVE  \E j \in Posts(t, e) \cap Recvs(conf, t, s) : T(s, i) = G(t, j)
  <2>1. PICK k \in 1 .. Iterations :
          e = 2 * k \/ (e = 2 * k - 1 /\ ~ outcome[k].stands /\ i \in TakenBack(s, k))
    BY DEF Posts
  <2>2. CASE e = 2 * k
    <3>1. PICK j \in Recvs(conf, t, s) : T(s, i) = G(t, j)
      BY <1>3
    <3>2. j \in Posts(t, e)
      BY <1>4, <2>2 DEF Posts, LiveComm
    <3> QED
      BY <3>1, <3>2
  <2>3. CASE e = 2 * k - 1 /\ ~ outcome[k].stands /\ i \in TakenBack(s, k)
    <3>1. i \in WarmUpSends(conf, s) /\ s < outcome[k].taken
      BY <1>4, <1>5, <2>3 DEF TakenBack, WarmUpRecvs, Node
    <3>2. PICK j \in recvs : T(s, i) = G(t, j)
      BY <1>2, <3>1
    <3>3. t = s + 1
      BY <1>2, <3>1
    <3>4. t <= outcome[k].taken
      BY <3>1, <3>3, OutcomeTypes DEF Stage
    <3>5. j \in TakenBack(t, k)
      BY <3>4 DEF TakenBack
    <3>6. j \in Posts(t, e)
      BY <1>4, <2>3, <3>5 DEF Posts, LiveComm
    <3> QED
      BY <3>2, <3>6
  <2> QED
    BY <2>1, <2>2, <2>3
<1>7. ASSUME NEW j \in Posts(t, e) \cap Recvs(conf, t, s)
      PROVE  \E i \in Posts(s, e) \cap Sends(conf, s, t) : T(s, i) = G(t, j)
  <2>1. PICK k \in 1 .. Iterations :
          e = 2 * k \/ (e = 2 * k - 1 /\ ~ outcome[k].stands /\ j \in TakenBack(t, k))
    BY DEF Posts
  <2>2. CASE e = 2 * k
    <3>1. PICK i \in Sends(conf, s, t) : T(s, i) = G(t, j)
      BY <1>3
    <3>2. i \in Posts(s, e)
      BY <1>4, <2>2 DEF Posts, LiveComm
    <3> QED
      BY <3>1, <3>2
  <2>3. CASE e = 2 * k - 1 /\ ~ outcome[k].stands /\ j \in TakenBack(t, k)
    <3>1. j \in WarmUpRecvs(conf, t) /\ t <= outcome[k].taken
      BY <1>4, <1>5, <2>3 DEF TakenBack, WarmUpSends, Node
    <3>2. PICK i \in sends : T(s, i) = G(t, j)
      BY <1>2, <3>1
    <3>3. t = s + 1
      BY <1>2, <3>1
    <3>4. s < outcome[k].taken
      BY <3>1, <3>3, OutcomeTypes DEF Stage
    <3>5. i \in TakenBack(s, k)
      BY <3>4 DEF TakenBack
    <3>6. i \in Posts(s, e)
      BY <1>4, <2>3, <3>5 DEF Posts, LiveComm
    <3> QED
      BY <3>2, <3>6
  <2> QED
    BY <2>1, <2>2, <2>3
<1> QED
  BY <1>6, <1>7

(* What two stages communicate is in the same order at both ends.           *)
LEMMA LinkOrder ==
  ASSUME conf \in Conf, NEW s \in Stage, NEW t \in Stage, s # t,
         NEW i \in Sends(conf, s, t), NEW k \in Sends(conf, s, t),
         NEW j \in Recvs(conf, t, s), NEW l \in Recvs(conf, t, s),
         T(s, i) = G(t, j), T(s, k) = G(t, l)
  PROVE  i < k <=> j < l
<1>1. EarlierOp(conf, s, i, k) <=> EarlierOp(conf, t, j, l)
  BY LinkPairs
<1>2. /\ LiveComm(s, i) /\ LiveComm(s, k) /\ Node(s, i).peer = t /\ Node(s, k).peer = t
      /\ LiveComm(t, j) /\ LiveComm(t, l) /\ Node(t, j).peer = s /\ Node(t, l).peer = s
  BY EndsAreComms
<1>3. Node(s, i).dir = Node(s, k).dir /\ Node(t, j).dir = Node(t, l).dir
  BY <1>2, OneDirection DEF LiveComm, Node
<1> QED
  BY <1>1, <1>3 DEF EarlierOp, Node

-----------------------------------------------------------------------------
(* The attempts of the groups.                                              *)

Added(s, e) ==
  {i \in Posts(s, e) : e < Attempt(s) \/ (e = Attempt(s) /\ i < it[s])}

(* Communication i of attempt d is added before communication j of e.       *)
Before(d, i, e, j) == d < e \/ (d = e /\ i < j)

(* The groups hold what has been added, in the order of attempts and        *)
(* positions, and the batch comes last.                                     *)
Labelled(s, lab) ==
  /\ lab \in Seq(Nat) /\ Len(lab) = Len(posted[s])
  /\ \A g \in 1 .. Len(lab) :
       /\ posted[s][g].left \subseteq posted[s][g].ops
       /\ \A i \in posted[s][g].ops :
            /\ i \in Added(s, lab[g])
            /\ \A j \in batch[s] : Before(lab[g], i, Attempt(s), j)
            /\ \A h \in 1 .. Len(lab) : g < h =>
                 \A j \in posted[s][h].ops : Before(lab[g], i, lab[h], j)
  /\ batch[s] \subseteq Added(s, Attempt(s))

InNetwork(s, lab, e, i) ==
  \/ e = Attempt(s) /\ i \in batch[s]
  \/ \E g \in 1 .. Len(lab) : lab[g] = e /\ i \in posted[s][g].left

Over(s, lab, e, i) == i \in Added(s, e) /\ ~ InNetwork(s, lab, e, i)

(* A step of stage s ends no communication.                                 *)
Keeps(s, lab, m) ==
  /\ Labelled(s, m)'
  /\ \A e \in Nat : \A i : Over(s, m, e, i)' <=> Over(s, lab, e, i)

FusedGroups == [ops : SUBSET Nat, left : SUBSET Nat]

LEMMA Numbered ==
  ASSUME Inv, Batches, NEW s \in Stage
  PROVE  /\ posted[s] \in Seq(FusedGroups) /\ Len(posted[s]) \in Nat
         /\ \A g \in 1 .. Len(posted[s]) :
              posted[s][g].ops \subseteq Nat /\ posted[s][g].left \subseteq Nat
         /\ batch[s] \subseteq Nat
         /\ it[s] \in Nat /\ iteration[s] \in 0 .. Iterations /\ Iterations \in Nat
         /\ phase[s] # "finished" => iteration[s] >= 1
         /\ Attempt(s) \in Nat
<1>1. /\ iteration[s] \in 0 .. Iterations /\ Iterations \in Nat /\ it[s] \in Nat
      /\ phase[s] # "finished" => iteration[s] >= 1
  BY AtStage
<1>2. phase[s] = "validating" => iteration[s] >= 1
  BY <1>1
<1>3. Attempt(s) \in Nat
  BY <1>1, <1>2 DEF Attempt
<1> QED
  BY <1>1, <1>3, GroupTypes DEF FusedGroups

(* The stage adds the positions new of its attempt d and posts the groups   *)
(* ext of it.                                                               *)
Adding(s, d, new, ext) ==
  /\ \A x \in new : x \in Nat /\ it[s] <= x
  /\ \A e \in Nat : Added(s, e)' = IF e = d THEN Added(s, e) \cup new ELSE Added(s, e)
  /\ Attempt(s)' \in Nat
  /\ Attempt(s)' = d \/ (Attempt(s)' > d /\ batch'[s] = {})
  /\ ext \in Seq(FusedGroups) /\ posted'[s] = posted[s] \o ext
  /\ \A x : x \in batch[s] \cup new <=>
              x \in batch'[s] \/ \E g \in 1 .. Len(ext) : x \in ext[g].ops
  /\ \A g \in 1 .. Len(ext) :
       /\ ext[g].left = ext[g].ops
       /\ \A i \in ext[g].ops :
            /\ \A j \in batch'[s] : i < j
            /\ \A h \in 1 .. Len(ext) : g < h => \A j \in ext[h].ops : i < j

LEMMA AddingKeeps ==
  ASSUME Inv, Batches, NEW s \in Stage, NEW lab, Labelled(s, lab), NEW new, NEW ext,
         Adding(s, Attempt(s), new, ext)
  PROVE  \E m : Keeps(s, lab, m)
<1>0. PICK d, c, b, n, l, p :
        /\ d = Attempt(s) /\ c = Attempt(s)' /\ b = batch'[s]
        /\ n = Len(posted[s]) /\ l = Len(ext) /\ p = posted'[s]
  OBVIOUS
<1>b. PICK m : m = [g \in 1 .. n + l |-> IF g <= n THEN lab[g] ELSE d]
  OBVIOUS
<1>1. /\ n \in Nat /\ l \in Nat /\ d \in Nat /\ Len(lab) = n /\ lab \in Seq(Nat)
      /\ posted[s] \in Seq(FusedGroups) /\ ext \in Seq(FusedGroups) /\ p = posted[s] \o ext
      /\ it[s] \in Nat /\ batch[s] \subseteq Nat
      /\ \A g \in 1 .. n : posted[s][g].ops \subseteq Nat
  BY <1>0, Numbered DEF Adding, Labelled
<1>2. /\ m \in Seq(Nat) /\ Len(m) = n + l /\ Len(p) = n + l
      /\ \A g \in 1 .. n : m[g] = lab[g] /\ p[g] = posted[s][g]
      /\ \A g \in 1 .. l : m[n + g] = d /\ p[n + g] = ext[g]
      /\ \A g \in 1 .. n + l : g \in 1 .. n \/ (g - n \in 1 .. l /\ m[g] = d /\ p[g] = ext[g - n])
  <2>1. \A g \in 1 .. n : lab[g] \in Nat
    BY <1>1
  <2>2. m \in Seq(Nat) /\ Len(m) = n + l
    BY <1>b, <1>1, <2>1
  <2>3. Len(p) = n + l /\ \A g \in 1 .. n + l : p[g] = IF g <= n THEN posted[s][g] ELSE ext[g - n]
    BY <1>0, <1>1
  <2>4. \A g \in 1 .. l : n + g - n = g /\ n + g \in 1 .. n + l /\ ~ n + g <= n
    BY <1>1
  <2>5. ASSUME NEW g \in 1 .. l PROVE p[n + g] = ext[g]
    <3>1. PICK u : u = n + g
      OBVIOUS
    <3>2. u - n = g /\ u \in 1 .. n + l /\ ~ u <= n
      BY <1>1, <3>1
    <3>3. p[u] = ext[u - n]
      BY <2>3, <3>2
    <3> QED
      BY <3>1, <3>2, <3>3
  <2>6. \A g \in 1 .. n + l : m[g] = IF g <= n THEN lab[g] ELSE d
    BY <1>b
  <2>7. \A g \in 1 .. n + l : g <= n \/ g - n \in 1 .. l
    BY <1>1
  <2>8. \A g \in 1 .. n : g \in 1 .. n + l /\ g <= n
    BY <1>1
  <2>9. \A g \in 1 .. n + l : g <= n => g \in 1 .. n
    BY <1>1
  <2>10. \A g \in 1 .. n : m[g] = lab[g] /\ p[g] = posted[s][g]
    BY <2>3, <2>6, <2>8
  <2>11. \A g \in 1 .. l : m[n + g] = d
    BY <2>4, <2>6
  <2>12. ASSUME NEW g \in 1 .. n + l, g \notin 1 .. n
         PROVE  g - n \in 1 .. l /\ m[g] = d /\ p[g] = ext[g - n]
    <3>1. ~ g <= n
      BY <2>9, <2>12
    <3> QED
      BY <2>3, <2>6, <2>7, <3>1
  <2> QED
    BY <2>2, <2>3, <2>5, <2>10, <2>11, <2>12
<1>c. \A g \in 1 .. n : lab[g] \in Nat
  BY <1>1
<1>3. /\ \A g \in 1 .. n : posted[s][g].left \subseteq posted[s][g].ops
      /\ \A g \in 1 .. n : \A i \in posted[s][g].ops :
           /\ i \in Added(s, lab[g])
           /\ \A j \in batch[s] : Before(lab[g], i, d, j)
           /\ \A h \in 1 .. n : g < h => \A j \in posted[s][h].ops : Before(lab[g], i, lab[h], j)
      /\ batch[s] \subseteq Added(s, d)
  BY <1>0, <1>1 DEF Labelled
<1>4. /\ \A x \in new : x \in Nat /\ it[s] <= x
      /\ \A e \in Nat : Added(s, e)' = IF e = d THEN Added(s, e) \cup new ELSE Added(s, e)
      /\ c \in Nat /\ (c = d \/ (c > d /\ b = {}))
      /\ \A x : x \in batch[s] \cup new <=> x \in b \/ \E g \in 1 .. l : x \in ext[g].ops
      /\ \A g \in 1 .. l :
           /\ ext[g].left = ext[g].ops
           /\ \A i \in ext[g].ops :
                /\ \A j \in b : i < j
                /\ \A h \in 1 .. l : g < h => \A j \in ext[h].ops : i < j
  BY <1>0 DEF Adding
<1>5. \A e, i : i \in Added(s, e) => e < d \/ (e = d /\ i < it[s])
  BY <1>0 DEF Added
(* What is new comes after all that is posted.                              *)
<1>6. \A g \in 1 .. n : \A i \in posted[s][g].ops : \A j \in batch[s] \cup new :
        Before(lab[g], i, d, j)
  <2> SUFFICES ASSUME NEW g \in 1 .. n, NEW i \in posted[s][g].ops, NEW j \in new
               PROVE  Before(lab[g], i, d, j)
    BY <1>3
  <2>1. lab[g] < d \/ (lab[g] = d /\ i < it[s])
    BY <1>c, <1>3, <1>5
  <2>2. i \in Nat /\ it[s] \in Nat /\ it[s] <= j /\ j \in Nat
    BY <1>1, <1>4
  <2> QED
    BY <2>1, <2>2 DEF Before
<1>7. \A g \in 1 .. n + l : p[g].left \subseteq p[g].ops
  BY <1>2, <1>3, <1>4
<1>8. \A e \in Nat : \A i \in Added(s, e) : i \in Added(s, e)'
  BY <1>4
<1>9. \A i \in batch[s] \cup new : i \in Added(s, d)'
  BY <1>1, <1>3, <1>4
<1>10. ASSUME NEW g \in 1 .. n + l, NEW i \in p[g].ops
       PROVE  /\ i \in Added(s, m[g])'
              /\ \A j \in b : Before(m[g], i, c, j)
              /\ \A h \in 1 .. n + l : g < h => \A j \in p[h].ops : Before(m[g], i, m[h], j)
  <2>1. CASE g \in 1 .. n
    <3>1. m[g] = lab[g] /\ i \in posted[s][g].ops /\ lab[g] \in Nat
      BY <1>2, <1>c, <2>1
    <3>2. i \in Added(s, m[g])'
      BY <1>3, <1>8, <2>1, <3>1
    <3>3. ASSUME NEW j \in b PROVE Before(m[g], i, c, j)
      <4>1. c = d /\ j \in batch[s] \cup new
        BY <1>4
      <4> QED
        BY <1>6, <2>1, <3>1, <4>1
    <3>4. ASSUME NEW h \in 1 .. n + l, g < h, NEW j \in p[h].ops PROVE Before(m[g], i, m[h], j)
      <4>1. CASE h \in 1 .. n
        BY <1>2, <1>3, <2>1, <3>1, <3>4, <4>1
      <4>2. CASE h - n \in 1 .. l /\ m[h] = d /\ p[h] = ext[h - n]
        <5>1. j \in batch[s] \cup new
          BY <1>4, <4>2
        <5> QED
          BY <1>6, <2>1, <3>1, <4>2, <5>1
      <4> QED
        BY <1>2, <4>1, <4>2
    <3> QED
      BY <3>2, <3>3, <3>4
  <2>2. CASE g - n \in 1 .. l /\ m[g] = d /\ p[g] = ext[g - n]
    <3> DEFINE f == g - n
    <3>1. f \in 1 .. l /\ i \in ext[f].ops /\ i \in batch[s] \cup new
      BY <1>4, <2>2
    <3>2. i \in Added(s, m[g])'
      BY <1>9, <2>2, <3>1
    <3>3. ASSUME NEW j \in b PROVE Before(m[g], i, c, j)
      <4>1. c = d /\ i < j
        BY <1>4, <3>1
      <4> QED
        BY <2>2, <4>1 DEF Before
    <3>4. ASSUME NEW h \in 1 .. n + l, g < h, NEW j \in p[h].ops PROVE Before(m[g], i, m[h], j)
      <4>1. h \notin 1 .. n
        BY <1>1, <2>2, <3>4
      <4>2. h - n \in 1 .. l /\ m[h] = d /\ p[h] = ext[h - n]
        BY <1>2, <4>1
      <4>3. f < h - n
        BY <1>1, <3>4
      <4>4. i < j
        BY <1>4, <3>1, <4>2, <4>3
      <4> QED
        BY <2>2, <4>2, <4>4 DEF Before
    <3> QED
      BY <3>2, <3>3, <3>4
  <2> QED
    BY <1>2, <2>1, <2>2
<1>11. b \subseteq Added(s, c)'
  BY <1>9, <1>4
<1>12. Labelled(s, m)'
  BY <1>0, <1>2, <1>7, <1>10, <1>11 DEF Labelled
(* What is new is in the network.                                           *)
<1>13. ASSUME NEW e \in Nat, NEW i
       PROVE  InNetwork(s, m, e, i)' <=> InNetwork(s, lab, e, i) \/ (e = d /\ i \in new)
  <2> DEFINE Holding(q, r, k) == \E g \in 1 .. k : r[g] = e /\ i \in q[g].left
  <2>1. InNetwork(s, m, e, i)' <=> (e = c /\ i \in b) \/ Holding(p, m, n + l)
    BY <1>0, <1>2 DEF InNetwork
  <2>2. InNetwork(s, lab, e, i) <=> (e = d /\ i \in batch[s]) \/ Holding(posted[s], lab, n)
    BY <1>0, <1>1 DEF InNetwork
  <2>3. Holding(p, m, n + l) <=>
          Holding(posted[s], lab, n) \/ (e = d /\ \E g \in 1 .. l : i \in ext[g].ops)
    <3>1. ASSUME Holding(p, m, n + l)
          PROVE  Holding(posted[s], lab, n) \/ (e = d /\ \E g \in 1 .. l : i \in ext[g].ops)
      <4>1. PICK g \in 1 .. n + l : m[g] = e /\ i \in p[g].left
        BY <3>1
      <4> QED
        BY <1>2, <1>4, <4>1
    <3>2. ASSUME Holding(posted[s], lab, n) PROVE Holding(p, m, n + l)
      <4>1. PICK g \in 1 .. n : lab[g] = e /\ i \in posted[s][g].left
        BY <3>2
      <4>2. g \in 1 .. n + l
        BY <1>1
      <4> QED
        BY <1>2, <4>1, <4>2
    <3>3. ASSUME e = d, NEW g \in 1 .. l, i \in ext[g].ops PROVE Holding(p, m, n + l)
      <4>1. n + g \in 1 .. n + l
        BY <1>1
      <4> QED
        BY <1>2, <1>4, <3>3, <4>1
    <3> QED
      BY <3>1, <3>2, <3>3
  <2> HIDE DEF Holding
  <2>4. e = c /\ i \in b <=> e = d /\ i \in b
    BY <1>4
  <2> QED
    BY <1>4, <2>1, <2>2, <2>3, <2>4
<1>14. ASSUME NEW e \in Nat, NEW i
       PROVE  Over(s, m, e, i)' <=> Over(s, lab, e, i)
  <2>1. ASSUME i \in new, e = d, i \in Added(s, e) PROVE FALSE
    <3>1. i < it[s]
      BY <1>1, <1>5, <2>1
    <3>2. i \in Nat /\ it[s] <= i
      BY <1>4, <2>1
    <3> QED
      BY <1>1, <3>1, <3>2
  <2>2. i \in Added(s, e)' <=> i \in Added(s, e) \/ (e = d /\ i \in new)
    BY <1>4
  <2> QED
    BY <1>13, <2>1, <2>2 DEF Over
<1> QED
  BY <1>12, <1>14 DEF Keeps

(* The network takes operation i of the first group.                        *)
LEMMA TransferLabels ==
  ASSUME Inv, Batches, NEW s \in Stage, NEW lab, Labelled(s, lab),
         1 \in 1 .. Len(posted[s]), NEW i \in posted[s][1].left,
         posted'[s] = Through(posted[s], i), batch'[s] = batch[s],
         Attempt(s)' = Attempt(s), \A e \in Nat : Added(s, e)' = Added(s, e)
  PROVE  \E m : /\ Labelled(s, m)'
                /\ \A e \in Nat : \A x :
                     Over(s, m, e, x)' <=> Over(s, lab, e, x) \/ (e = lab[1] /\ x = i)
<1>0. PICK n, p, q : n = Len(posted[s]) /\ p = posted'[s] /\ q = posted[s]
  OBVIOUS
<1>1. /\ n \in Nat /\ Len(lab) = n /\ lab \in Seq(Nat) /\ q \in Seq(FusedGroups) /\ q # <<>>
      /\ 1 \in 1 .. n /\ Len(q) = n /\ Head(q) = q[1]
      /\ i \in q[1].left /\ p = Through(q, i) /\ Attempt(s) \in Nat
  BY <1>0, Numbered DEF Labelled
<1>2. /\ \A g \in 1 .. n : q[g].left \subseteq q[g].ops
      /\ \A g \in 1 .. n : \A j \in q[g].ops :
           /\ j \in Added(s, lab[g])
           /\ \A k \in batch[s] : Before(lab[g], j, Attempt(s), k)
           /\ \A h \in 1 .. n : g < h => \A k \in q[h].ops : Before(lab[g], j, lab[h], k)
      /\ batch[s] \subseteq Added(s, Attempt(s))
  BY <1>0, <1>1 DEF Labelled
<1>3. /\ \A g \in 1 .. n : lab[g] \in Nat
      /\ i \in Nat /\ i \in q[1].ops
  BY <1>0, <1>1, <1>2, Numbered
(* Each group that stays is one of before, with its label.                  *)
<1>4. \E z \in {0, 1} : \E m \in Seq(Nat) :
        /\ Len(m) = n - z /\ Len(p) = n - z
        /\ \A g \in 1 .. n - z : /\ g + z \in 1 .. n
                                 /\ m[g] = lab[g + z] /\ p[g].ops = q[g + z].ops
                                 /\ p[g].left = q[g + z].left \ {x \in {i} : g + z = 1}
        /\ z = 1 => q[1].left = {i}
  <2>1. CASE q[1].left = {i}
    <3>1. p = Tail(q)
      BY <1>1, <2>1 DEF Through
    <3>2. Len(p) = n - 1 /\ \A g \in 1 .. n - 1 : p[g] = q[g + 1]
      BY <1>1, <3>1
    <3>3. /\ Tail(lab) \in Seq(Nat) /\ Len(Tail(lab)) = n - 1
          /\ \A g \in 1 .. n - 1 : Tail(lab)[g] = lab[g + 1]
      BY <1>1
    <3>4. \A g \in 1 .. n - 1 : g + 1 \in 1 .. n /\ g + 1 # 1
      BY <1>1
    <3>5. \A g \in 1 .. n - 1 : {x \in {i} : g + 1 = 1} = {}
      BY <3>4
    <3> QED
      BY <2>1, <3>2, <3>3, <3>4, <3>5
  <2>2. CASE q[1].left # {i}
    <3>1. p = [q EXCEPT ![1].left = q[1].left \ {i}]
      BY <1>1, <2>2 DEF Through
    <3>2. Len(p) = n
      BY <1>1, <3>1
    <3>3. \A g \in 1 .. n : g # 1 => p[g] = q[g]
      BY <1>1, <3>1
    <3>4. q[1] \in FusedGroups
      BY <1>1
    <3>5. p[1].ops = q[1].ops /\ p[1].left = q[1].left \ {i}
      BY <1>1, <3>1, <3>4 DEF FusedGroups
    <3>6. \A g \in 1 .. n : /\ p[g].ops = q[g].ops
                            /\ p[g].left = q[g].left \ {x \in {i} : g = 1}
      BY <3>3, <3>5
    <3>7. \A g \in 1 .. n : g + 0 = g
      OBVIOUS
    <3>8. n - 0 = n
      BY <1>1
    <3> QED
      BY <1>1, <3>2, <3>6, <3>7, <3>8
  <2> QED
    BY <2>1, <2>2
<1>5. PICK z \in {0, 1} : \E m \in Seq(Nat) :
        /\ Len(m) = n - z /\ Len(p) = n - z
        /\ \A g \in 1 .. n - z : /\ g + z \in 1 .. n
                                 /\ m[g] = lab[g + z] /\ p[g].ops = q[g + z].ops
                                 /\ p[g].left = q[g + z].left \ {x \in {i} : g + z = 1}
        /\ z = 1 => q[1].left = {i}
  BY <1>4
<1>6. PICK m \in Seq(Nat) :
        /\ Len(m) = n - z /\ Len(p) = n - z
        /\ \A g \in 1 .. n - z : /\ g + z \in 1 .. n
                                 /\ m[g] = lab[g + z] /\ p[g].ops = q[g + z].ops
                                 /\ p[g].left = q[g + z].left \ {x \in {i} : g + z = 1}
        /\ z = 1 => q[1].left = {i}
  BY <1>5
<1>7. ASSUME NEW g \in 1 .. n - z
      PROVE  /\ p[g].left \subseteq p[g].ops
             /\ \A j \in p[g].ops :
                  /\ j \in Added(s, m[g])'
                  /\ \A k \in batch[s] : Before(m[g], j, Attempt(s), k)
                  /\ \A h \in 1 .. n - z : g < h =>
                       \A k \in p[h].ops : Before(m[g], j, m[h], k)
  <2>0. PICK f : f = g + z
    OBVIOUS
  <2>1. f \in 1 .. n /\ m[g] = lab[f] /\ p[g].ops = q[f].ops /\ p[g].left \subseteq q[f].left
    BY <1>6, <2>0
  <2>2. ASSUME NEW j \in q[f].ops, NEW h \in 1 .. n - z, g < h, NEW k \in p[h].ops
        PROVE  Before(m[g], j, m[h], k)
    <3>0. PICK f2 : f2 = h + z
      OBVIOUS
    <3>1. f2 \in 1 .. n /\ m[h] = lab[f2] /\ p[h].ops = q[f2].ops
      BY <1>6, <3>0
    <3>2. f < f2
      BY <1>1, <2>0, <2>2, <3>0
    <3> QED
      BY <1>2, <2>1, <2>2, <3>1, <3>2
  <2>3. \A j \in q[f].ops : j \in Added(s, lab[f])'
    BY <1>2, <1>3, <2>1
  <2> QED
    BY <1>2, <2>1, <2>2, <2>3
<1>8. batch'[s] \subseteq Added(s, Attempt(s))'
  BY <1>1, <1>2
<1>9. Labelled(s, m)'
  BY <1>0, <1>6, <1>7, <1>8 DEF Labelled
(* Operation i is in no other group of its attempt and not in the batch.    *)
<1>10. ASSUME NEW e \in Nat, NEW x
       PROVE  InNetwork(s, m, e, x)' <=> InNetwork(s, lab, e, x) /\ ~ (e = lab[1] /\ x = i)
  <2>1. InNetwork(s, m, e, x)' <=>
          (e = Attempt(s) /\ x \in batch[s]) \/ \E g \in 1 .. n - z : m[g] = e /\ x \in p[g].left
    BY <1>0, <1>6 DEF InNetwork
  <2>2. InNetwork(s, lab, e, x) <=>
          (e = Attempt(s) /\ x \in batch[s]) \/ \E g \in 1 .. n : lab[g] = e /\ x \in q[g].left
    BY <1>0, <1>1 DEF InNetwork
  <2>3. ASSUME e = Attempt(s), x \in batch[s], e = lab[1], x = i PROVE FALSE
    <3>1. Before(lab[1], i, Attempt(s), i)
      BY <1>1, <1>2, <1>3, <2>3
    <3> QED
      BY <1>3, <2>3, <3>1 DEF Before
  <2>4. ASSUME NEW g \in 1 .. n - z, m[g] = e, x \in p[g].left
        PROVE  /\ \E f \in 1 .. n : lab[f] = e /\ x \in q[f].left
               /\ ~ (e = lab[1] /\ x = i)
    <3>0. PICK f : f = g + z
      OBVIOUS
    <3>1. /\ f \in 1 .. n /\ m[g] = lab[f] /\ p[g].left = q[f].left \ {y \in {i} : f = 1}
      BY <1>6, <3>0
    <3>2. x \in q[f].left /\ ~ (f = 1 /\ x = i)
      BY <2>4, <3>1
    <3>3. ASSUME e = lab[1], x = i PROVE FALSE
      <4>1. 1 < f
        BY <3>1, <3>2, <3>3
      <4>2. x \in q[f].ops /\ i \in q[1].ops
        BY <1>2, <1>3, <3>1, <3>2
      <4>3. Before(lab[1], i, lab[f], x)
        BY <1>1, <1>2, <3>1, <4>1, <4>2
      <4>4. Before(e, i, e, i)
        BY <2>4, <3>1, <3>3, <4>3
      <4> QED
        BY <1>3, <4>4 DEF Before
    <3> QED
      BY <2>4, <3>1, <3>2, <3>3
  <2>5. ASSUME NEW f \in 1 .. n, lab[f] = e, x \in q[f].left, ~ (e = lab[1] /\ x = i)
        PROVE  \E g \in 1 .. n - z : m[g] = e /\ x \in p[g].left
    <3>1. f = 1 => x # i
      BY <2>5
    <3>2. ~ (z = 1 /\ f = 1)
      BY <1>6, <2>5, <3>1
    <3>3. PICK g : g = f - z
      OBVIOUS
    <3>4. g \in 1 .. n - z /\ g + z = f
      BY <1>1, <3>2, <3>3
    <3>5. m[g] = lab[f] /\ p[g].left = q[f].left \ {y \in {i} : f = 1}
      BY <1>6, <3>4
    <3> QED
      BY <2>5, <3>1, <3>4, <3>5
  <2> QED
    BY <2>1, <2>2, <2>3, <2>4, <2>5
<1>11. i \in Added(s, lab[1])
  BY <1>1, <1>2, <1>3
<1>12. \A e \in Nat : \A x : Over(s, m, e, x)' <=> Over(s, lab, e, x) \/ (e = lab[1] /\ x = i)
  BY <1>10, <1>11 DEF Over
<1> QED
  BY <1>9, <1>12

(* The next operation of a stage with a peer comes before all others with   *)
(* it that are not over.                                                    *)
LEMMA NextComesFirst ==
  ASSUME Inv, Batches, NEW s \in Stage, NEW lab, Labelled(s, lab), NEW t \in Stage, NEW types,
         NEW i, NextOf(s, t, types, i), types \subseteq CommTypes,
         NEW e \in Nat, NEW k \in Posts(s, e), Node(s, k).type \in types, Node(s, k).peer = t,
         ~ Over(s, lab, e, k)
  PROVE  /\ 1 \in 1 .. Len(posted[s]) /\ i \in posted[s][1].left /\ lab[1] \in Nat
         /\ i \in Posts(s, lab[1]) /\ Node(s, i).type \in types /\ Node(s, i).peer = t
         /\ Before(lab[1], i, e, k) \/ (e = lab[1] /\ k = i)
<1>1. /\ posted[s] # <<>> /\ i \in Head(posted[s]).left
      /\ Node(s, i).type \in types /\ Node(s, i).peer = t
      /\ \A j \in Head(posted[s]).left :
           Node(s, j).type \in types /\ Node(s, j).peer = t /\ j # i => ListedBefore(s, i, j)
  BY DEF NextOf
<1>2. /\ Len(posted[s]) \in Nat /\ 1 \in 1 .. Len(posted[s]) /\ Head(posted[s]) = posted[s][1]
      /\ it[s] \in Nat /\ Attempt(s) \in Nat /\ conf \in Conf
  BY <1>1, Numbered, GroupTypes DEF Inv, TypeOK
<1>3. /\ lab \in Seq(Nat) /\ Len(lab) = Len(posted[s])
      /\ \A g \in 1 .. Len(lab) :
           /\ posted[s][g].left \subseteq posted[s][g].ops
           /\ \A x \in posted[s][g].ops :
                /\ x \in Added(s, lab[g])
                /\ \A j \in batch[s] : Before(lab[g], x, Attempt(s), j)
                /\ \A h \in 1 .. Len(lab) : g < h =>
                     \A j \in posted[s][h].ops : Before(lab[g], x, lab[h], j)
  BY DEF Labelled
<1>4. i \in posted[s][1].ops /\ i \in Added(s, lab[1]) /\ lab[1] \in Nat
  BY <1>1, <1>2, <1>3
<1>5. /\ i \in Posts(s, lab[1]) /\ i \in Live(conf, s) /\ k \in Live(conf, s)
      /\ Node(s, k).type \in CommTypes /\ Node(s, i).type \in CommTypes
      /\ lab[1] < Attempt(s) \/ (lab[1] = Attempt(s) /\ i < it[s])
  BY <1>4 DEF Added, Posts
<1>6. i \in Nat /\ k \in Nat
  BY <1>2, <1>5, PositionsAreNumbers
<1>7. CASE k \notin Added(s, e)
  <2>1. ~ e < Attempt(s) /\ ~ (e = Attempt(s) /\ k < it[s])
    BY <1>7 DEF Added
  <2> QED
    BY <1>1, <1>2, <1>4, <1>5, <1>6, <2>1 DEF Before
<1>8. CASE InNetwork(s, lab, e, k)
  <2>1. CASE e = Attempt(s) /\ k \in batch[s]
    BY <1>1, <1>2, <1>3, <1>4, <1>5, <2>1
  <2>2. CASE \E g \in 1 .. Len(lab) : lab[g] = e /\ k \in posted[s][g].left
    <3>1. PICK g \in 1 .. Len(lab) : lab[g] = e /\ k \in posted[s][g].left
      BY <2>2
    <3>2. CASE g = 1
      <4>1. k # i => ListedBefore(s, i, k)
        BY <1>1, <1>2, <3>1, <3>2
      <4>2. Node(s, i).dir = Node(s, k).dir
        BY <1>1, <1>2, <1>5, OneDirection DEF Node
      <4>3. k # i => i < k
        BY <4>1, <4>2 DEF ListedBefore
      <4> QED
        BY <1>1, <1>2, <1>4, <1>5, <3>1, <3>2, <4>3 DEF Before
    <3>3. CASE g # 1
      <4>1. 1 < g /\ 1 \in 1 .. Len(lab)
        BY <1>2, <1>3, <3>3
      <4>2. k \in posted[s][g].ops
        BY <1>3, <3>1
      <4>3. Before(lab[1], i, lab[g], k)
        BY <1>3, <1>4, <4>1, <4>2
      <4> QED
        BY <1>1, <1>2, <1>4, <1>5, <3>1, <4>3
    <3> QED
      BY <3>2, <3>3
  <2> QED
    BY <1>8, <2>1, <2>2 DEF InNetwork
<1> QED
  BY <1>7, <1>8 DEF Over

-----------------------------------------------------------------------------
(* The links.                                                               *)

(* A tensor x of the name k, of the orders of this iteration.               *)
Called(x, k) ==
  /\ Name(x) = k
  /\ \E u \in Stage : \E j \in DOMAIN Order(u) :
       Node(u, j).type \in {"F", "B", "BW"} /\ x = Key(Node(u, j))

(* In every attempt both ends of a transfer are over, or neither.           *)
EndsTogether(labs) ==
  \A s, t \in Stage : s # t =>
    \A e \in Nat : \A i \in Posts(s, e) \cap Sends(conf, s, t) :
      \A j \in Posts(t, e) \cap Recvs(conf, t, s) :
        T(s, i) = G(t, j) => (Over(s, labs[s], e, i) <=> Over(t, labs[t], e, j))

Carried(labs) ==
  \A s \in Stage : \A e \in Nat : \A i :
    /\ i \in Added(s, e) /\ Node(s, i).type \in SendTypes => Called(payload[s][i], T(s, i))
    /\ Over(s, labs[s], e, i) /\ Node(s, i).type \in RecvTypes => Called(payload[s][i], G(s, i))

Links(labs) ==
  /\ \A s \in Stage : Labelled(s, labs[s])
  /\ EndsTogether(labs) /\ Carried(labs)

Communicated == \E labs : Links(labs)

LEMMA SamePosts ==
  ASSUME conf' = conf, outcome' = outcome
  PROVE  /\ \A s, e : Posts(s, e)' = Posts(s, e)
         /\ \A s, i : T(s, i)' = T(s, i) /\ G(s, i)' = G(s, i) /\ Node(s, i)' = Node(s, i)
         /\ \A x, k : Called(x, k)' <=> Called(x, k)
<1>1. \A s, i : Node(s, i)' = Node(s, i)
  BY DEF Node
<1>2. \A s : Order(s)' = Order(s)
  BY DEF Order
<1>3. ASSUME NEW s, NEW e PROVE Posts(s, e)' = Posts(s, e)
  BY <1>1 DEF Posts, TakenBack
<1> QED
  BY <1>1, <1>2, <1>3 DEF T, G, Called

(* A stage that does nothing stays where it is.                             *)
Stays(u) ==
  /\ it'[u] = it[u] /\ phase'[u] = phase[u] /\ iteration'[u] = iteration[u]
  /\ batch'[u] = batch[u] /\ posted'[u] = posted[u] /\ payload'[u] = payload[u]

LEMMA StaysLabelled ==
  ASSUME conf' = conf, outcome' = outcome, NEW u \in Stage, Stays(u)
  PROVE  /\ Attempt(u)' = Attempt(u)
         /\ \A e : Added(u, e)' = Added(u, e)
         /\ \A lab : Labelled(u, lab)' <=> Labelled(u, lab)
         /\ \A lab, e, i : Over(u, lab, e, i)' <=> Over(u, lab, e, i)
<1>1. Attempt(u)' = Attempt(u)
  BY DEF Attempt, Outcome, Stays
<1>2. \A e : Added(u, e)' = Added(u, e)
  BY <1>1, SamePosts DEF Added, Stays
<1>3. ASSUME NEW lab PROVE Labelled(u, lab)' <=> Labelled(u, lab)
  BY <1>1, <1>2 DEF Labelled, Stays
<1>4. ASSUME NEW lab, NEW e, NEW i PROVE Over(u, lab, e, i)' <=> Over(u, lab, e, i)
  BY <1>1, <1>2 DEF Over, InNetwork, Stays
<1> QED
  BY <1>1, <1>2, <1>3, <1>4

(* The operations that the network matches are of one attempt and belong    *)
(* together.                                                                *)
LEMMA NextIsPosted ==
  ASSUME Inv, Batches, NEW s \in Stage, NEW lab, Labelled(s, lab), NEW t \in Stage, NEW types,
         NEW i, NextOf(s, t, types, i)
  PROVE  /\ 1 \in 1 .. Len(posted[s]) /\ i \in posted[s][1].left /\ lab[1] \in Nat
         /\ i \in Posts(s, lab[1]) /\ Node(s, i).type \in types /\ Node(s, i).peer = t
         /\ ~ Over(s, lab, lab[1], i)
<1>1. /\ posted[s] # <<>> /\ i \in Head(posted[s]).left
      /\ Node(s, i).type \in types /\ Node(s, i).peer = t
  BY DEF NextOf
<1>2. /\ Len(posted[s]) \in Nat /\ 1 \in 1 .. Len(posted[s]) /\ Head(posted[s]) = posted[s][1]
  BY <1>1, GroupTypes
<1>3. /\ lab \in Seq(Nat) /\ Len(lab) = Len(posted[s])
      /\ posted[s][1].left \subseteq posted[s][1].ops
      /\ \A x \in posted[s][1].ops : x \in Added(s, lab[1])
  BY <1>2 DEF Labelled
<1>4. i \in Added(s, lab[1]) /\ lab[1] \in Nat
  BY <1>1, <1>2, <1>3
<1>5. InNetwork(s, lab, lab[1], i)
  BY <1>1, <1>2, <1>3 DEF InNetwork
<1> QED
  BY <1>1, <1>2, <1>4, <1>5 DEF Added, Over

LEMMA AttemptsMatch ==
  ASSUME Inv, Batches, NEW labs, Links(labs), NEW s \in Stage, NEW t \in Stage, s # t,
         NEW i, NextOf(s, t, SendTypes, i), NEW j, NextOf(t, s, RecvTypes, j)
  PROVE  /\ labs[s][1] \in Nat /\ labs[s][1] = labs[t][1]
         /\ i \in Posts(s, labs[s][1]) \cap Sends(conf, s, t)
         /\ j \in Posts(t, labs[s][1]) \cap Recvs(conf, t, s)
         /\ T(s, i) = G(t, j)
<1>0. PICK a, b, d, e : a = labs[s] /\ b = labs[t] /\ d = a[1] /\ e = b[1]
  OBVIOUS
<1>1. Labelled(s, a) /\ Labelled(t, b)
  BY <1>0 DEF Links
<1>2. /\ d \in Nat /\ i \in Posts(s, d) /\ Node(s, i).type \in SendTypes /\ Node(s, i).peer = t
      /\ ~ Over(s, a, d, i)
  BY <1>0, <1>1, NextIsPosted
<1>3. /\ e \in Nat /\ j \in Posts(t, e) /\ Node(t, j).type \in RecvTypes /\ Node(t, j).peer = s
      /\ ~ Over(t, b, e, j)
  BY <1>0, <1>1, NextIsPosted
<1>4. i \in Sends(conf, s, t) /\ j \in Recvs(conf, t, s)
  BY <1>2, <1>3 DEF Posts, Sends, Recvs, Node
<1>5. conf \in Conf /\ Typed
  BY DEF Batches, Typed
<1>6. PICK y \in Posts(t, d) \cap Recvs(conf, t, s) : T(s, i) = G(t, y)
  BY <1>2, <1>4, <1>5, AttemptPairs
<1>7. PICK x \in Posts(s, e) \cap Sends(conf, s, t) : T(s, x) = G(t, j)
  BY <1>3, <1>4, <1>5, AttemptPairs
<1>8. /\ Node(s, x).type \in SendTypes /\ Node(s, x).peer = t
      /\ Node(t, y).type \in RecvTypes /\ Node(t, y).peer = s
  BY EndsAreComms
<1>9. ~ Over(t, b, d, y)
  BY <1>0, <1>2, <1>4, <1>6 DEF Links, EndsTogether
<1>10. ~ Over(s, a, e, x)
  BY <1>0, <1>3, <1>4, <1>7 DEF Links, EndsTogether
<1>11. SendTypes \subseteq CommTypes /\ RecvTypes \subseteq CommTypes
  BY DEF CommTypes
<1>12. Before(e, j, d, y) \/ (d = e /\ y = j)
  BY <1>0, <1>1, <1>2, <1>6, <1>8, <1>9, <1>11, NextComesFirst
<1>13. Before(d, i, e, x) \/ (e = d /\ x = i)
  BY <1>0, <1>1, <1>3, <1>7, <1>8, <1>10, <1>11, NextComesFirst
<1>14. /\ Live(conf, s) \subseteq Nat /\ Live(conf, t) \subseteq Nat
  BY <1>5, PositionsAreNumbers
<1>15. i \in Nat /\ x \in Nat /\ j \in Nat /\ y \in Nat
  BY <1>2, <1>3, <1>6, <1>7, <1>14 DEF Posts
<1>16. i < x <=> y < j
  BY <1>4, <1>5, <1>6, <1>7, LinkOrder
<1>17. d = e
  BY <1>2, <1>3, <1>12, <1>13 DEF Before
<1>18. y = j \/ x = i
  BY <1>2, <1>12, <1>13, <1>15, <1>16, <1>17 DEF Before
<1> QED
  BY <1>0, <1>2, <1>3, <1>4, <1>6, <1>7, <1>17, <1>18

LEMMA OnlyPair ==
  ASSUME conf \in Conf, NEW s \in Stage, NEW t \in Stage, s # t,
         NEW i \in Sends(conf, s, t), NEW k \in Sends(conf, s, t),
         NEW j \in Recvs(conf, t, s), NEW l \in Recvs(conf, t, s),
         T(s, i) = G(t, j), T(s, k) = G(t, l)
  PROVE  i = k <=> j = l
<1>1. (i < k <=> j < l) /\ (k < i <=> l < j)
  BY LinkOrder
<1>2. i \in Nat /\ k \in Nat /\ j \in Nat /\ l \in Nat
  BY PositionsAreNumbers DEF Sends, Recvs
<1> QED
  BY <1>1, <1>2

LEMMA TransferCommunicated ==
  ASSUME Inv, Batches, Communicated, UNCHANGED rollback,
         NEW s \in Stage, NEW t \in Stage, NEW i \in DOMAIN Order(s), NEW j \in DOMAIN Order(t),
         Transfers(s, t, i, j)
  PROVE  Communicated'
<1>1. PICK labs : Links(labs)
  BY DEF Communicated
<1>2. /\ s # t /\ NextOf(s, t, SendTypes, i) /\ NextOf(t, s, RecvTypes, j)
      /\ payload' = [payload EXCEPT ![t][j] = payload[s][i]]
      /\ posted' = [posted EXCEPT ![s] = Through(posted[s], i), ![t] = Through(posted[t], j)]
      /\ conf' = conf /\ it' = it /\ batch' = batch
      /\ outcome' = outcome /\ phase' = phase /\ iteration' = iteration
  BY DEF Transfers, rollback
<1>3. PICK d : d = labs[s][1]
  OBVIOUS
<1>4. /\ d \in Nat /\ d = labs[t][1]
      /\ i \in Posts(s, d) \cap Sends(conf, s, t) /\ j \in Posts(t, d) \cap Recvs(conf, t, s)
      /\ T(s, i) = G(t, j)
  BY <1>1, <1>2, <1>3, AttemptsMatch
<1>5. /\ 1 \in 1 .. Len(posted[s]) /\ i \in posted[s][1].left
      /\ 1 \in 1 .. Len(posted[t]) /\ j \in posted[t][1].left
  BY <1>1, <1>2, NextIsPosted DEF Links
<1>6. /\ posted'[s] = Through(posted[s], i) /\ posted'[t] = Through(posted[t], j)
      /\ \A u \in Stage : u # s /\ u # t => posted'[u] = posted[u]
  BY <1>2 DEF Inv, TypeOK
<1>7. \A u \in Stage : Attempt(u)' = Attempt(u) /\ \A e \in Nat : Added(u, e)' = Added(u, e)
  BY <1>2, SamePosts DEF Attempt, Outcome, Added
<1>8. PICK m : /\ Labelled(s, m)'
               /\ \A e \in Nat : \A x :
                    Over(s, m, e, x)' <=> Over(s, labs[s], e, x) \/ (e = d /\ x = i)
  <2>0. PICK a : a = labs[s]
    OBVIOUS
  <2>1. Labelled(s, a) /\ batch'[s] = batch[s] /\ d = a[1]
    BY <1>1, <1>2, <1>3, <2>0 DEF Links
  <2>2. /\ 1 \in 1 .. Len(posted[s]) /\ i \in posted[s][1].left
        /\ posted'[s] = Through(posted[s], i)
    BY <1>5, <1>6
  <2>3. Attempt(s)' = Attempt(s) /\ \A e \in Nat : Added(s, e)' = Added(s, e)
    BY <1>7
  <2>4. \E m : /\ Labelled(s, m)'
               /\ \A e \in Nat : \A x :
                    Over(s, m, e, x)' <=> Over(s, a, e, x) \/ (e = a[1] /\ x = i)
    BY <2>1, <2>2, <2>3, TransferLabels
  <2> QED
    BY <2>0, <2>1, <2>4
<1>9. PICK r : /\ Labelled(t, r)'
               /\ \A e \in Nat : \A x :
                    Over(t, r, e, x)' <=> Over(t, labs[t], e, x) \/ (e = d /\ x = j)
  <2>0. PICK a : a = labs[t]
    OBVIOUS
  <2>1. Labelled(t, a) /\ batch'[t] = batch[t] /\ d = a[1]
    BY <1>1, <1>2, <1>4, <2>0 DEF Links
  <2>2. /\ 1 \in 1 .. Len(posted[t]) /\ j \in posted[t][1].left
        /\ posted'[t] = Through(posted[t], j)
    BY <1>5, <1>6
  <2>3. Attempt(t)' = Attempt(t) /\ \A e \in Nat : Added(t, e)' = Added(t, e)
    BY <1>7
  <2>4. \E q : /\ Labelled(t, q)'
               /\ \A e \in Nat : \A x :
                    Over(t, q, e, x)' <=> Over(t, a, e, x) \/ (e = a[1] /\ x = j)
    BY <2>1, <2>2, <2>3, TransferLabels
  <2> QED
    BY <2>0, <2>1, <2>4
<1>10. PICK new : new = [u \in Stage |-> IF u = s THEN m ELSE IF u = t THEN r ELSE labs[u]]
  OBVIOUS
<1>11. /\ payload'[t][j] = payload[s][i]
       /\ \A u \in Stage : \A x \in DOMAIN Order(u) :
            ~ (u = t /\ x = j) => payload'[u][x] = payload[u][x]
  <2>1. /\ DOMAIN payload = Stage /\ DOMAIN payload[t] = DOMAIN Order(t)
    BY DEF Inv, TypeOK, PerNode
  <2>2. payload'[t] = [payload[t] EXCEPT ![j] = payload[s][i]]
    BY <1>2, <2>1
  <2>3. \A u \in Stage : u # t => payload'[u] = payload[u]
    BY <1>2, <2>1
  <2>4. payload'[t][j] = payload[s][i]
    BY <2>1, <2>2
  <2>5. ASSUME NEW x \in DOMAIN Order(t), x # j PROVE payload'[t][x] = payload[t][x]
    BY <2>1, <2>2, <2>5
  <2> QED
    BY <2>3, <2>4, <2>5
<1>12. ASSUME NEW u \in Stage
       PROVE  /\ Labelled(u, new[u])'
              /\ \A e \in Nat : \A x :
                   Over(u, new[u], e, x)' <=>
                     \/ Over(u, labs[u], e, x)
                     \/ (u = s /\ e = d /\ x = i)
                     \/ (u = t /\ e = d /\ x = j)
  <2>0. PICK w : w = new[u]
    OBVIOUS
  <2>1. CASE u = s
    <3>1. w = m
      BY <1>10, <2>0, <2>1
    <3> QED
      BY <1>2, <1>8, <2>0, <2>1, <3>1
  <2>2. CASE u = t
    <3>1. w = r
      BY <1>2, <1>10, <2>0, <2>2
    <3> QED
      BY <1>2, <1>9, <2>0, <2>2, <3>1
  <2>3. CASE u # s /\ u # t
    <3>1. w = labs[u]
      BY <1>10, <2>0, <2>3
    <3>2. Stays(u)
      <4>1. payload'[u] = payload[u]
        BY <1>2, <2>3 DEF Inv, TypeOK, PerNode
      <4> QED
        BY <1>2, <1>6, <2>3, <4>1 DEF Stays
    <3>3. Labelled(u, w) /\ \A e, x : Over(u, w, e, x) <=> Over(u, labs[u], e, x)
      BY <1>1, <3>1 DEF Links
    <3>4. Labelled(u, w)' /\ \A e, x : Over(u, w, e, x)' <=> Over(u, w, e, x)
      BY <1>2, <3>2, <3>3, StaysLabelled
    <3> QED
      BY <2>0, <2>3, <3>3, <3>4
  <2> QED
    BY <2>1, <2>2, <2>3
<1>13. SendTypes \cap RecvTypes = {} /\ conf \in Conf
  BY DEF SendTypes, RecvTypes, Inv, TypeOK
<1>14. /\ Node(s, i).type \in SendTypes /\ Node(s, i).peer = t
       /\ Node(t, j).type \in RecvTypes /\ Node(t, j).peer = s
  BY <1>2 DEF NextOf
<1>15. ASSUME NEW u \in Stage, NEW v \in Stage, u # v, NEW e \in Nat,
              NEW x \in Posts(u, e) \cap Sends(conf, u, v),
              NEW y \in Posts(v, e) \cap Recvs(conf, v, u), T(u, x) = G(v, y)
       PROVE  Over(u, new[u], e, x)' <=> Over(v, new[v], e, y)'
  <2>1. Over(u, labs[u], e, x) <=> Over(v, labs[v], e, y)
    BY <1>1, <1>15 DEF Links, EndsTogether
  <2>2. /\ Node(u, x).type \in SendTypes /\ Node(u, x).peer = v
        /\ Node(v, y).type \in RecvTypes /\ Node(v, y).peer = u
    BY EndsAreComms
  <2>3. ~ (u = t /\ x = j) /\ ~ (v = s /\ y = i)
    BY <1>13, <1>14, <2>2
  <2>4. u = s /\ x = i <=> v = t /\ y = j
    <3>1. CASE u = s /\ v = t
      BY <1>2, <1>4, <1>13, <1>15, <3>1, OnlyPair
    <3>2. CASE ~ (u = s /\ v = t)
      BY <1>14, <2>2, <3>2
    <3> QED
      BY <3>1, <3>2
  <2>5. Over(u, new[u], e, x)' <=> Over(u, labs[u], e, x) \/ (u = s /\ e = d /\ x = i)
    <3>1. Over(u, new[u], e, x)' <=>
            \/ Over(u, labs[u], e, x)
            \/ (u = s /\ e = d /\ x = i)
            \/ (u = t /\ e = d /\ x = j)
      BY <1>12
    <3> QED
      BY <2>3, <3>1
  <2>6. Over(v, new[v], e, y)' <=> Over(v, labs[v], e, y) \/ (v = t /\ e = d /\ y = j)
    <3>1. Over(v, new[v], e, y)' <=>
            \/ Over(v, labs[v], e, y)
            \/ (v = s /\ e = d /\ y = i)
            \/ (v = t /\ e = d /\ y = j)
      BY <1>12
    <3> QED
      BY <2>3, <3>1
  <2> QED
    BY <2>1, <2>4, <2>5, <2>6
<1>16. EndsTogether(new)'
  <2>1. \A u, v \in Stage : Sends(conf, u, v)' = Sends(conf, u, v) /\ Recvs(conf, u, v)' = Recvs(conf, u, v)
    BY <1>2
  <2>2. /\ \A u, e : Posts(u, e)' = Posts(u, e)
        /\ \A u, x : T(u, x)' = T(u, x) /\ G(u, x)' = G(u, x)
    BY <1>2, SamePosts
  <2> QED
    BY <1>2, <1>15, <2>1, <2>2 DEF EndsTogether
<1>17. ASSUME NEW u \in Stage, NEW e \in Nat, NEW x
       PROVE  /\ x \in Added(u, e) /\ Node(u, x).type \in SendTypes => Called(payload'[u][x], T(u, x))
              /\ Over(u, new[u], e, x)' /\ Node(u, x).type \in RecvTypes =>
                   Called(payload'[u][x], G(u, x))
  <2>1. /\ x \in Added(u, e) /\ Node(u, x).type \in SendTypes => Called(payload[u][x], T(u, x))
        /\ Over(u, labs[u], e, x) /\ Node(u, x).type \in RecvTypes => Called(payload[u][x], G(u, x))
    BY <1>1 DEF Links, Carried
  <2>2. Called(payload'[t][j], G(t, j))
    <3>1. i \in Added(s, d)
      BY <1>1, <1>3, <1>5 DEF Links, Labelled
    <3>2. Called(payload[s][i], T(s, i))
      BY <1>1, <1>4, <1>14, <3>1 DEF Links, Carried
    <3> QED
      BY <1>4, <1>11, <3>2
  <2>3. CASE u = t /\ x = j
    BY <1>13, <1>14, <2>2, <2>3
  <2>4. CASE ~ (u = t /\ x = j)
    <3>0. Over(u, new[u], e, x)' <=>
            \/ Over(u, labs[u], e, x)
            \/ (u = s /\ e = d /\ x = i)
            \/ (u = t /\ e = d /\ x = j)
      BY <1>12
    <3>1. Over(u, new[u], e, x)' /\ Node(u, x).type \in RecvTypes => Over(u, labs[u], e, x)
      BY <1>13, <1>14, <2>4, <3>0
    <3>2. x \in Added(u, e) \/ Over(u, labs[u], e, x) => x \in DOMAIN Order(u)
      BY DEF Over, Added, Posts, Live, Order
    <3>3. x \in DOMAIN Order(u) => payload'[u][x] = payload[u][x]
      BY <1>11, <2>4
    <3> QED
      BY <2>1, <3>1, <3>2, <3>3
  <2> QED
    BY <2>3, <2>4
<1>18. Carried(new)'
  <2>1. /\ \A u, x : T(u, x)' = T(u, x) /\ G(u, x)' = G(u, x) /\ Node(u, x)' = Node(u, x)
        /\ \A x, k : Called(x, k)' <=> Called(x, k)
    BY <1>2, SamePosts
  <2>2. \A u \in Stage : \A e \in Nat : Added(u, e)' = Added(u, e)
    BY <1>7
  <2> QED
    BY <1>17, <2>1, <2>2 DEF Carried
<1>19. Links(new)'
  BY <1>12, <1>16, <1>18 DEF Links
<1> QED
  BY <1>19 DEF Communicated

-----------------------------------------------------------------------------
(* The steps of a stage, as the links see them.                             *)

LEMMA StageCommunicates ==
  ASSUME Inv, Batches, Communicated, conf' = conf, outcome' = outcome, NEW s \in Stage,
         \A u \in Stage : u # s => Stays(u),
         NEW new, NEW ext, Adding(s, Attempt(s), new, ext),
         \A i \in DOMAIN Order(s) :
           \/ payload'[s][i] = payload[s][i]
           \/ Node(s, i).type \in SendTypes /\ Called(payload'[s][i], T(s, i)),
         \A i \in new : Node(s, i).type \in SendTypes => Called(payload'[s][i], T(s, i))
  PROVE  Communicated'
<1>1. PICK labs : Links(labs)
  BY DEF Communicated
<1>2. PICK a : a = labs[s]
  OBVIOUS
<1>3. Labelled(s, a)
  BY <1>1, <1>2 DEF Links
<1>4. PICK m : Keeps(s, a, m)
  BY <1>3, AddingKeeps
<1>5. PICK d : d = Attempt(s)
  OBVIOUS
<1>6. /\ d \in Nat
      /\ \A e \in Nat : Added(s, e)' = IF e = d THEN Added(s, e) \cup new ELSE Added(s, e)
  BY <1>5, Numbered DEF Adding
<1>7. PICK z : z = [u \in Stage |-> IF u = s THEN m ELSE labs[u]]
  OBVIOUS
<1>8. ASSUME NEW u \in Stage
      PROVE  /\ Labelled(u, z[u])'
             /\ \A e \in Nat : \A x : Over(u, z[u], e, x)' <=> Over(u, labs[u], e, x)
  <2>0. PICK w : w = z[u]
    OBVIOUS
  <2>1. CASE u = s
    <3>1. w = m
      BY <1>7, <2>0, <2>1
    <3>2. Labelled(s, m)' /\ \A e \in Nat : \A x : Over(s, m, e, x)' <=> Over(s, a, e, x)
      BY <1>4 DEF Keeps
    <3> QED
      BY <1>2, <2>0, <2>1, <3>1, <3>2
  <2>2. CASE u # s
    <3>1. w = labs[u]
      BY <1>7, <2>0, <2>2
    <3>2. Labelled(u, w)
      BY <1>1, <3>1 DEF Links
    <3>3. Labelled(u, w)' /\ \A e, x : Over(u, w, e, x)' <=> Over(u, w, e, x)
      BY <2>2, <3>2, StaysLabelled
    <3> QED
      BY <2>0, <3>1, <3>3
  <2> QED
    BY <2>1, <2>2
<1>9. /\ \A u, e : Posts(u, e)' = Posts(u, e)
      /\ \A u, x : T(u, x)' = T(u, x) /\ G(u, x)' = G(u, x) /\ Node(u, x)' = Node(u, x)
      /\ \A x, k : Called(x, k)' <=> Called(x, k)
  BY SamePosts
<1>10. EndsTogether(z)'
  <2>1. ASSUME NEW u \in Stage, NEW v \in Stage, u # v, NEW e \in Nat,
               NEW x \in Posts(u, e) \cap Sends(conf, u, v),
               NEW y \in Posts(v, e) \cap Recvs(conf, v, u), T(u, x) = G(v, y)
        PROVE  Over(u, z[u], e, x)' <=> Over(v, z[v], e, y)'
    <3>1. Over(u, labs[u], e, x) <=> Over(v, labs[v], e, y)
      BY <1>1, <2>1 DEF Links, EndsTogether
    <3>2. Over(u, z[u], e, x)' <=> Over(u, labs[u], e, x)
      BY <1>8
    <3>3. Over(v, z[v], e, y)' <=> Over(v, labs[v], e, y)
      BY <1>8
    <3> QED
      BY <3>1, <3>2, <3>3
  <2>2. \A u, v \in Stage : Sends(conf, u, v)' = Sends(conf, u, v) /\ Recvs(conf, u, v)' = Recvs(conf, u, v)
    OBVIOUS
  <2> QED
    BY <1>9, <2>1, <2>2 DEF EndsTogether
<1>11. ASSUME NEW u \in Stage, NEW e \in Nat, NEW x
       PROVE  /\ x \in Added(u, e)' /\ Node(u, x).type \in SendTypes => Called(payload'[u][x], T(u, x))
              /\ Over(u, z[u], e, x)' /\ Node(u, x).type \in RecvTypes =>
                   Called(payload'[u][x], G(u, x))
  <2>1. /\ x \in Added(u, e) /\ Node(u, x).type \in SendTypes => Called(payload[u][x], T(u, x))
        /\ Over(u, labs[u], e, x) /\ Node(u, x).type \in RecvTypes => Called(payload[u][x], G(u, x))
    BY <1>1 DEF Links, Carried
  <2>2. Over(u, z[u], e, x)' <=> Over(u, labs[u], e, x)
    BY <1>8
  <2>3. SendTypes \cap RecvTypes = {}
    BY DEF SendTypes, RecvTypes
  <2>4. CASE u = s
    <3>1. x \in Added(s, e)' => x \in Added(s, e) \/ x \in new
      BY <1>6
    <3>2. x \in DOMAIN Order(s) =>
            \/ payload'[s][x] = payload[s][x]
            \/ Node(s, x).type \in SendTypes /\ Called(payload'[s][x], T(s, x))
      OBVIOUS
    <3>3. x \in Added(s, e) \/ Over(s, labs[s], e, x) => x \in DOMAIN Order(s)
      BY DEF Over, Added, Posts, Live, Order
    <3> QED
      BY <2>1, <2>2, <2>3, <2>4, <3>1, <3>2, <3>3
  <2>5. CASE u # s
    <3>1. payload'[u] = payload[u] /\ Added(u, e)' = Added(u, e)
      BY <2>5, StaysLabelled DEF Stays
    <3> QED
      BY <2>1, <2>2, <3>1
  <2> QED
    BY <2>4, <2>5
<1>12. Carried(z)'
  BY <1>9, <1>11 DEF Carried
<1>13. Links(z)'
  BY <1>8, <1>10, <1>12 DEF Links
<1> QED
  BY <1>13 DEF Communicated

(* A stage that stays, or advances past what it does not post.              *)
LEMMA QuietAdding ==
  ASSUME Inv, Batches, conf' = conf, outcome' = outcome, NEW s \in Stage,
         batch'[s] = batch[s], posted'[s] = posted[s], Attempt(s)' = Attempt(s),
         \/ it'[s] = it[s]
         \/ it'[s] = it[s] + 1 /\ it[s] \notin Posts(s, Attempt(s))
  PROVE  Adding(s, Attempt(s), {}, <<>>)
<1>1. /\ posted[s] \in Seq(FusedGroups) /\ it[s] \in Nat /\ Attempt(s) \in Nat /\ conf \in Conf
  BY Numbered DEF Inv, TypeOK
<1>2. PICK d : d = Attempt(s)
  OBVIOUS
<1>3. ASSUME NEW e \in Nat PROVE Added(s, e)' = Added(s, e)
  <2>1. Posts(s, e)' = Posts(s, e)
    BY SamePosts
  <2>2. Posts(s, e) \subseteq Nat
    BY <1>1, PositionsAreNumbers DEF Posts
  <2>3. \A i \in Posts(s, e) : e = d => (i < it'[s] <=> i < it[s])
    BY <1>1, <1>2, <2>2
  <2>4. Added(s, e)' = {i \in Posts(s, e) : e < d \/ (e = d /\ i < it'[s])}
    BY <1>2, <2>1 DEF Added
  <2>5. Added(s, e) = {i \in Posts(s, e) : e < d \/ (e = d /\ i < it[s])}
    BY <1>2 DEF Added
  <2> QED
    BY <2>3, <2>4, <2>5
<1>4. <<>> \in Seq(FusedGroups) /\ posted[s] \o <<>> = posted[s] /\ Len(<<>>) = 0
  BY <1>1
<1> QED
  BY <1>1, <1>3, <1>4 DEF Adding

(* A stage that adds the communication at its position.                     *)
LEMMA AddsAdding ==
  ASSUME Inv, Batches, outcome' = outcome, NEW s \in Stage, Adds(s),
         Attempt(s)' = Attempt(s), it[s] \in Posts(s, Attempt(s))
  PROVE  \E ext : Adding(s, Attempt(s), {it[s]}, ext)
<1>0. PICK d, i, ops : d = Attempt(s) /\ i = it[s] /\ ops = batch[s] \cup {i}
  OBVIOUS
<1>1. /\ posted[s] \in Seq(FusedGroups) /\ i \in Nat /\ d \in Nat /\ conf \in Conf
      /\ batch[s] \subseteq Nat /\ ops \subseteq Nat
  BY <1>0, Numbered DEF Inv, TypeOK
<1>2. /\ conf' = conf /\ it'[s] = i + 1
      /\ \/ batch'[s] = {} /\ posted'[s] = Append(posted[s], [ops |-> ops, left |-> ops])
         \/ batch'[s] = ops /\ posted'[s] = posted[s]
  <2>1. conf' = conf /\ it'[s] = i + 1
    BY <1>0, AdvancedStage DEF Adds
  <2>2. CASE FlushesIn(conf, s, i)
    <3>1. batch'[s] = {} /\ posted'[s] = Append(posted[s], [ops |-> ops, left |-> ops])
      BY <1>0, <2>2 DEF Adds, Inv, TypeOK
    <3> QED
      BY <2>1, <3>1
  <2>3. CASE ~ FlushesIn(conf, s, i)
    <3>1. batch'[s] = ops /\ posted'[s] = posted[s]
      BY <1>0, <2>3 DEF Adds, Inv, TypeOK
    <3> QED
      BY <2>1, <3>1
  <2> QED
    BY <2>2, <2>3
<1>3. ASSUME NEW e \in Nat
      PROVE  Added(s, e)' = IF e = d THEN Added(s, e) \cup {i} ELSE Added(s, e)
  <2>1. Posts(s, e)' = Posts(s, e)
    BY <1>2, SamePosts
  <2>2. Posts(s, e) \subseteq Nat
    BY <1>1, PositionsAreNumbers DEF Posts
  <2>3. \A x \in Nat : x < i + 1 <=> x < i \/ x = i
    BY <1>1
  <2>4. Added(s, e)' = {x \in Posts(s, e) : e < d \/ (e = d /\ x < i + 1)}
    BY <1>0, <1>2, <2>1 DEF Added
  <2>5. Added(s, e) = {x \in Posts(s, e) : e < d \/ (e = d /\ x < i)}
    BY <1>0 DEF Added
  <2>6. e = d => i \in Posts(s, e)
    BY <1>0
  <2> HIDE DEF Posts
  <2> QED
    BY <1>1, <2>2, <2>3, <2>4, <2>5, <2>6
<1>4. \A x \in {i} : x \in Nat /\ it[s] <= x
  BY <1>0, <1>1
<1>5. Attempt(s)' = d /\ d \in Nat
  BY <1>0, <1>1
<1>6. CASE batch'[s] = {} /\ posted'[s] = Append(posted[s], [ops |-> ops, left |-> ops])
  <2>1. PICK ext : ext = <<[ops |-> ops, left |-> ops]>>
    OBVIOUS
  <2>2. /\ ext \in Seq(FusedGroups) /\ Len(ext) = 1
        /\ ext[1].ops = ops /\ ext[1].left = ops
        /\ posted'[s] = posted[s] \o ext
    BY <1>1, <1>6, <2>1 DEF FusedGroups
  <2>3. \A g \in 1 .. Len(ext) : g = 1
    BY <2>2
  <2>4. \A x : x \in batch[s] \cup {i} <=> x \in batch'[s] \/ \E g \in 1 .. Len(ext) : x \in ext[g].ops
    BY <1>0, <1>6, <2>2
  <2>5. \A g \in 1 .. Len(ext) : /\ ext[g].left = ext[g].ops
                                 /\ \A h \in 1 .. Len(ext) : ~ g < h
    BY <2>2, <2>3
  <2> QED
    BY <1>0, <1>3, <1>4, <1>5, <1>6, <2>2, <2>4, <2>5 DEF Adding
<1>7. CASE batch'[s] = ops /\ posted'[s] = posted[s]
  <2>1. <<>> \in Seq(FusedGroups) /\ posted[s] \o <<>> = posted[s] /\ Len(<<>>) = 0
    BY <1>1
  <2>2. \A x : x \in batch[s] \cup {i} <=> x \in batch'[s] \/ \E g \in 1 .. Len(<<>>) : x \in <<>>[g].ops
    BY <1>0, <1>7, <2>1
  <2>3. Adding(s, d, {i}, <<>>)
    BY <1>0, <1>3, <1>4, <1>5, <1>7, <2>1, <2>2 DEF Adding
  <2> QED
    BY <1>0, <2>3
<1> QED
  BY <1>2, <1>6, <1>7

-----------------------------------------------------------------------------
(* The receives of a rollback.                                              *)

LEMMA LeastPosition ==
  ASSUME NEW S \in SUBSET Nat, S # {}
  PROVE  \E l \in S : \A x \in S : l <= x
<1>1. PICK R : IsWellFoundedOn(R, Nat) /\ \A x, y \in Nat : x < y => <<x, y>> \in R
  <2>1. IsWellFoundedOn(OpToRel(<, Nat), Nat)
    BY NatLessThanWellFounded, Zenon
  <2>2. \A x, y \in Nat : x < y => <<x, y>> \in OpToRel(<, Nat)
    BY DEF OpToRel
  <2> QED
    BY <2>1, <2>2, Zenon
<1>2. PICK l \in S : \A x \in S : ~ (<<x, l>> \in R)
  <2>1. S \subseteq Nat
    OBVIOUS
  <2>2. IsWellFoundedOn(R, Nat)
    BY <1>1
  <2> QED
    BY <2>1, <2>2, WFMin
<1>3. ASSUME NEW x \in S PROVE l <= x
  <2>1. x \in Nat /\ l \in Nat /\ ~ (<<x, l>> \in R)
    BY <1>2
  <2>2. ~ (x < l)
    BY <1>1, <2>1
  <2> QED
    BY <2>1, <2>2
<1> QED
  BY <1>3

IsAscending(q) == \A a, b \in DOMAIN q : a < b => q[a] < q[b]

(* A finite set of numbers has its order: its least element goes first.     *)
LEMMA HasOrder ==
  ASSUME NEW S \in SUBSET Nat, IsFiniteSet(S)
  PROVE  \E q \in [1 .. Cardinality(S) -> S] : IsAscending(q)
<1> DEFINE Ordered(U) == \E q \in [1 .. Cardinality(U) -> U] : IsAscending(q)
           Bad == {n \in Nat : \E U \in SUBSET Nat : /\ IsFiniteSet(U) /\ Cardinality(U) = n
                                                     /\ ~ Ordered(U)}
<1>1. SUFFICES ASSUME ~ Ordered(S) PROVE FALSE
  OBVIOUS
<1>2. Bad \in SUBSET Nat /\ Bad # {}
  BY <1>1, FS_CardinalityType
<1> HIDE DEF Bad
<1>3. PICK n \in Bad : \A x \in Bad : n <= x
  BY <1>2, LeastPosition
<1>4. PICK U \in SUBSET Nat : IsFiniteSet(U) /\ Cardinality(U) = n /\ ~ Ordered(U)
  BY DEF Bad
<1>5. n \in Nat
  BY <1>2
<1>6. U # {}
  <2>1. ASSUME U = {} PROVE FALSE
    <3>1. n = 0
      BY <1>4, <2>1, FS_EmptySet
    <3>2. PICK q : q = [k \in 1 .. n |-> k]
      OBVIOUS
    <3>3. q \in [1 .. n -> U] /\ IsAscending(q)
      BY <2>1, <3>1, <3>2 DEF IsAscending
    <3> QED
      BY <1>4, <3>3
  <2> QED
    BY <2>1
<1>7. PICK l \in U : \A x \in U : l <= x
  BY <1>6, LeastPosition
<1>8. PICK V : V = U \ {l}
  OBVIOUS
<1>9. IsFiniteSet(V) /\ Cardinality(V) = n - 1 /\ V \in SUBSET Nat
  BY <1>4, <1>7, <1>8, FS_RemoveElement
<1>10. n - 1 \in Nat
  BY <1>9, FS_CardinalityType
<1>11. n - 1 \notin Bad
  BY <1>3, <1>5
<1>12. PICK r \in [1 .. n - 1 -> V] : IsAscending(r)
  <2>1. Ordered(V)
    BY <1>9, <1>10, <1>11 DEF Bad
  <2> QED
    BY <1>9, <2>1
<1>13. PICK q : q = [k \in 1 .. n |-> IF k = 1 THEN l ELSE r[k - 1]]
  OBVIOUS
<1>14. \A k \in 1 .. n : k # 1 => k - 1 \in 1 .. n - 1 /\ r[k - 1] \in V
  BY <1>5
<1>15. q \in [1 .. n -> U]
  BY <1>8, <1>13, <1>14
<1>16. IsAscending(q)
  <2> SUFFICES ASSUME NEW a \in 1 .. n, NEW b \in 1 .. n, a < b PROVE q[a] < q[b]
    BY <1>13 DEF IsAscending
  <2>1. b # 1 /\ q[b] = r[b - 1] /\ r[b - 1] \in V
    BY <1>5, <1>13, <1>14
  <2>2. CASE a = 1
    <3>1. q[a] = l /\ l <= r[b - 1] /\ r[b - 1] # l /\ l \in Nat /\ r[b - 1] \in Nat
      BY <1>7, <1>8, <1>9, <1>13, <2>1, <2>2
    <3> QED
      BY <2>1, <3>1
  <2>3. CASE a # 1
    <3>1. q[a] = r[a - 1] /\ a - 1 \in 1 .. n - 1 /\ b - 1 \in 1 .. n - 1 /\ a - 1 < b - 1
      BY <1>5, <1>13, <1>14, <2>1, <2>3
    <3> QED
      BY <1>12, <2>1, <3>1 DEF IsAscending
  <2> QED
    BY <2>2, <2>3
<1> QED
  BY <1>4, <1>15, <1>16

LEMMA AscendingOrder ==
  ASSUME NEW S \in SUBSET Nat, IsFiniteSet(S)
  PROVE  /\ Ascending(S) \in Seq(S) /\ Len(Ascending(S)) \in Nat
         /\ DOMAIN Ascending(S) = 1 .. Len(Ascending(S))
         /\ IsAscending(Ascending(S))
         /\ \A x \in S : \E a \in 1 .. Len(Ascending(S)) : Ascending(S)[a] = x
<1>1. PICK n, q : n = Cardinality(S) /\ q = Ascending(S)
  OBVIOUS
<1>2. n \in Nat
  BY <1>1, FS_CardinalityType
<1>3. q \in [1 .. n -> S] /\ IsAscending(q)
  <2>1. \E p \in [1 .. n -> S] : IsAscending(p)
    BY <1>1, HasOrder
  <2>2. \E p \in [1 .. n -> S] : \A a, b \in DOMAIN p : a < b => p[a] < p[b]
    BY <2>1 DEF IsAscending
  <2>3. q = CHOOSE p \in [1 .. n -> S] : \A a, b \in DOMAIN p : a < b => p[a] < p[b]
    BY <1>1 DEF Ascending
  <2>4. q \in [1 .. n -> S] /\ \A a, b \in DOMAIN q : a < b => q[a] < q[b]
    BY <2>2, <2>3
  <2> QED
    BY <2>4 DEF IsAscending
<1>4. q \in Injection(1 .. n, S)
  <2>1. ASSUME NEW a \in 1 .. n, NEW b \in 1 .. n, q[a] = q[b] PROVE a = b
    <3>1. q[a] \in Nat /\ q[b] \in Nat
      BY <1>3
    <3>2. ~ q[a] < q[b] /\ ~ q[b] < q[a]
      BY <2>1, <3>1
    <3>3. ~ a < b /\ ~ b < a
      BY <1>3, <3>2 DEF IsAscending
    <3> QED
      BY <3>3
  <2> QED
    BY <1>3, <2>1 DEF Injection, IsInjective
<1>5. Cardinality(1 .. n) = n
  BY <1>2, FS_Interval
<1>6. q \in Surjection(1 .. n, S)
  BY <1>1, <1>4, <1>5, FS_Injection
<1>7. \A x \in S : \E a \in 1 .. n : q[a] = x
  BY <1>6 DEF Surjection
<1>8. q \in Seq(S) /\ Len(q) = n
  BY <1>2, <1>3
<1> QED
  BY <1>1, <1>2, <1>3, <1>7, <1>8

LEMMA Joined ==
  ASSUME NEW S, NEW a \in Seq(S), NEW b \in Seq(S), NEW c \in Seq(S)
  PROVE  (a \o b) \o c = a \o (b \o c)
OBVIOUS

(* What a flush posts.                                                      *)
LEMMA FlushedGroups ==
  ASSUME Inv, NEW s \in Stage
  PROVE  /\ FlushedBatch(s) \in Seq(FusedGroups) /\ Len(FlushedBatch(s)) \in Nat
         /\ \A g \in 1 .. Len(FlushedBatch(s)) :
              /\ FlushedBatch(s)[g].ops = batch[s] /\ FlushedBatch(s)[g].left = batch[s]
              /\ \A h \in 1 .. Len(FlushedBatch(s)) : ~ g < h
         /\ batch[s] # {} => 1 \in 1 .. Len(FlushedBatch(s))
<1>1. batch[s] \subseteq Nat
  BY GroupTypes
<1>2. CASE batch[s] = {}
  <2>1. FlushedBatch(s) = <<>> /\ Len(<<>>) = 0 /\ <<>> \in Seq(FusedGroups)
    BY <1>2 DEF FlushedBatch
  <2> QED
    BY <1>2, <2>1
<1>3. CASE batch[s] # {}
  <2>1. PICK q : q = FlushedBatch(s)
    OBVIOUS
  <2>2. q = <<[ops |-> batch[s], left |-> batch[s]]>>
    BY <1>3, <2>1 DEF FlushedBatch
  <2>3. q \in Seq(FusedGroups) /\ Len(q) = 1 /\ q[1].ops = batch[s] /\ q[1].left = batch[s]
    BY <1>1, <2>2 DEF FusedGroups
  <2>4. \A g \in 1 .. Len(q) : g = 1
    BY <2>3
  <2> QED
    BY <2>1, <2>3, <2>4
<1> QED
  BY <1>2, <1>3

(* The numbers of two attempts.                                             *)
LEMMA AttemptNumbers ==
  ASSUME NEW k \in Nat, NEW l \in Nat
  PROVE  /\ 2 * k # 2 * l - 1
         /\ 2 * k = 2 * l => k = l
         /\ 2 * k - 1 = 2 * l - 1 => k = l
         /\ 2 * k + 1 # 2 * l
         /\ 2 * k + 1 = 2 * l - 1 => l = k + 1
         /\ 2 * k = 0 => k = 0
OBVIOUS

LEMMA AcceptAdding ==
  ASSUME Inv, Batches, NEW s \in Stage, Accept(s)
  PROVE  Adding(s, Attempt(s), {}, FlushedBatch(s))
<1>1. /\ phase[s] = "validating" /\ Outcome(s).stands /\ phase'[s] = "validated"
      /\ conf' = conf /\ outcome' = outcome /\ iteration' = iteration /\ it' = it
      /\ posted'[s] = posted[s] \o FlushedBatch(s) /\ batch'[s] = {}
  BY DEF Accept, Validating, Batches, Typed, Inv, TypeOK
<1>2. Attempt(s)' = Attempt(s) /\ Attempt(s) \in Nat
  BY <1>1, Numbered DEF Attempt
<1>3. \A e : Added(s, e)' = Added(s, e)
  BY <1>1, <1>2, SamePosts DEF Added
<1>4. PICK ext : ext = FlushedBatch(s)
  OBVIOUS
<1>5. /\ ext \in Seq(FusedGroups)
      /\ \A g \in 1 .. Len(ext) : /\ ext[g].ops = batch[s] /\ ext[g].left = batch[s]
                                  /\ \A h \in 1 .. Len(ext) : ~ g < h
      /\ batch[s] # {} => 1 \in 1 .. Len(ext)
  BY <1>4, FlushedGroups
<1>6. \A x : x \in batch[s] <=> \E g \in 1 .. Len(ext) : x \in ext[g].ops
  BY <1>5
<1> QED
  BY <1>1, <1>2, <1>3, <1>4, <1>5, <1>6 DEF Adding

(* The receives that the rollback adds are all those of the attempt that    *)
(* are left.                                                                *)
LEMMA RollBackPosts ==
  ASSUME Inv, Batches, NEW s \in Stage, RollBack(s)
  PROVE  /\ Attempt(s) = 2 * iteration[s] - 1
         /\ Tagged(s) \in SUBSET Nat /\ IsFiniteSet(Tagged(s))
         /\ \A x \in Tagged(s) : it[s] <= x
         /\ \A i : i \in Posts(s, Attempt(s)) <=>
                     \/ i \in Posts(s, Attempt(s)) /\ i < it[s]
                     \/ DoPrevStep(s) /\ i \in Tagged(s)
<1>1. /\ phase[s] = "validating" /\ ~ Outcome(s).stands
      /\ it[s] \in DOMAIN Order(s) /\ Node(s, it[s]).type = "POST_VALIDATION"
  BY DEF RollBack, Validating, AtNode
<1>2. /\ conf \in Conf /\ it[s] \in Nat /\ it[s] >= 1
      /\ DOMAIN Order(s) = 1 .. Len(Order(s)) /\ Len(Order(s)) \in Nat
  BY StageFacts
<1>3. PICK k : k = iteration[s]
  OBVIOUS
<1>4. k \in 1 .. Iterations /\ Iterations \in Nat /\ k \in Nat
  BY <1>1, <1>3, Numbered
<1>5. PICK d : d = Attempt(s)
  OBVIOUS
<1>6. d = 2 * k - 1 /\ ~ outcome[k].stands
  BY <1>1, <1>3, <1>5 DEF Attempt, Outcome
<1>7. Tagged(s) \subseteq it[s] .. Len(Order(s))
  BY DEF Tagged
<1>8. IsFiniteSet(Tagged(s))
  <2>0. it[s] \in Int /\ Len(Order(s)) \in Int
    BY <1>2
  <2>1. IsFiniteSet(it[s] .. Len(Order(s)))
    BY <2>0, FS_Interval
  <2> QED
    BY <1>7, <2>1, FS_Subset
<1>9. \A x \in Tagged(s) : x \in Nat /\ it[s] <= x /\ x \in DOMAIN Order(s)
  BY <1>2, <1>7
<1>10. ASSUME NEW i \in Posts(s, d), ~ i < it[s]
       PROVE  DoPrevStep(s) /\ i \in Tagged(s)
  <2>1. PICK l \in 1 .. Iterations :
          d = 2 * l \/ (d = 2 * l - 1 /\ ~ outcome[l].stands /\ i \in TakenBack(s, l))
    BY <1>10 DEF Posts
  <2>2. l = k
    BY <1>4, <1>6, <2>1, AttemptNumbers
  <2>3. i \in TakenBack(s, k)
    BY <1>4, <1>6, <2>1, <2>2, AttemptNumbers
  <2>4. i \in Nat /\ i \in DOMAIN Order(s) /\ it[s] \in 1 .. i
    BY <1>2, <1>10, PositionsAreNumbers DEF Posts
  <2>5. i \notin BeforeVerdict(conf, s)
    BY <1>1, <2>4 DEF BeforeVerdict, Node
  <2>6. i \in WarmUpRecvs(conf, s) /\ s <= outcome[k].taken
    BY <2>3, <2>5 DEF TakenBack, WarmUpSends
  <2>7. Node(s, i).type = "RECV_FORWARD" /\ Node(s, i).rollback
    BY <2>5, <2>6 DEF WarmUpRecvs, Node
  <2>8. i \in it[s] .. Len(Order(s))
    BY <1>2, <1>10, <2>4
  <2> QED
    BY <1>3, <2>6, <2>7, <2>8 DEF Tagged, DoPrevStep, Outcome
<1>11. ASSUME DoPrevStep(s), NEW i \in Tagged(s) PROVE i \in Posts(s, d)
  <2>1. i \in DOMAIN Order(s) /\ Node(s, i).type = "RECV_FORWARD" /\ Node(s, i).rollback
    BY <1>9 DEF Tagged
  <2>2. ~ Skipped(Node(s, i)) /\ Node(s, i).type \in CommTypes
    BY <2>1 DEF Skipped, SkippedIn, BackwardComm, CommTypes, RecvTypes
  <2>3. i \in Live(conf, s)
    BY <2>1, <2>2, IsLive
  <2>4. i \in WarmUpRecvs(conf, s)
    BY <2>1 DEF WarmUpRecvs, Node, Order
  <2>5. i \in TakenBack(s, k)
    BY <1>3, <1>11, <2>4 DEF TakenBack, DoPrevStep, Outcome
  <2> QED
    BY <1>4, <1>6, <2>2, <2>3, <2>5 DEF Posts
<1> QED
  BY <1>3, <1>5, <1>6, <1>8, <1>9, <1>10, <1>11

LEMMA DummyGroups ==
  ASSUME NEW s \in Stage, Tagged(s) \in SUBSET Nat, IsFiniteSet(Tagged(s))
  PROVE  /\ Dummies(s) \in Seq(FusedGroups) /\ Len(Dummies(s)) \in Nat
         /\ \A g \in 1 .. Len(Dummies(s)) :
              /\ Dummies(s)[g].left = Dummies(s)[g].ops /\ Dummies(s)[g].ops \subseteq Tagged(s)
              /\ \A h \in 1 .. Len(Dummies(s)) : g < h =>
                   \A i \in Dummies(s)[g].ops, j \in Dummies(s)[h].ops : i < j
         /\ DoPrevStep(s) => \A x \in Tagged(s) : \E g \in 1 .. Len(Dummies(s)) : x \in Dummies(s)[g].ops
         /\ ~ DoPrevStep(s) => Len(Dummies(s)) = 0
<1>1. CASE ~ DoPrevStep(s)
  <2>1. Dummies(s) = <<>> /\ Len(<<>>) = 0 /\ <<>> \in Seq(FusedGroups)
    BY <1>1 DEF Dummies
  <2> QED
    BY <1>1, <2>1
<1>2. CASE DoPrevStep(s)
  <2>1. PICK q, r, n : q = Ascending(Tagged(s)) /\ r = Dummies(s) /\ n = Len(q)
    OBVIOUS
  <2>2. /\ q \in Seq(Tagged(s)) /\ n \in Nat /\ DOMAIN q = 1 .. n /\ IsAscending(q)
        /\ \A x \in Tagged(s) : \E a \in 1 .. n : q[a] = x
    BY <2>1, AscendingOrder
  <2>3. r = [k \in 1 .. n |-> [ops |-> {q[k]}, left |-> {q[k]}]]
    BY <1>2, <2>1, <2>2 DEF Dummies
  <2>4. \A k \in 1 .. n : q[k] \in Tagged(s) /\ q[k] \in Nat
    BY <2>2
  <2>5. \A k \in 1 .. n : [ops |-> {q[k]}, left |-> {q[k]}] \in FusedGroups
    BY <2>4 DEF FusedGroups
  <2>6. r \in Seq(FusedGroups) /\ Len(r) = n
    <3>1. \A k \in 1 .. n : r[k] \in FusedGroups
      BY <2>3, <2>5
    <3>2. r \in [1 .. n -> FusedGroups]
      BY <2>3, <3>1
    <3> QED
      BY <2>2, <3>2
  <2>7. \A g \in 1 .. n : r[g].ops = {q[g]} /\ r[g].left = {q[g]}
    BY <2>3
  <2>8. \A g, h \in 1 .. n : g < h => q[g] < q[h]
    BY <2>2 DEF IsAscending
  <2>9. \A g \in 1 .. n :
          /\ r[g].left = r[g].ops /\ r[g].ops \subseteq Tagged(s)
          /\ \A h \in 1 .. n : g < h => \A i \in r[g].ops, j \in r[h].ops : i < j
    BY <2>4, <2>7, <2>8
  <2>10. \A x \in Tagged(s) : \E g \in 1 .. n : x \in r[g].ops
    BY <2>2, <2>7
  <2> QED
    BY <1>2, <2>1, <2>2, <2>6, <2>9, <2>10
<1> QED
  BY <1>1, <1>2

LEMMA RollBackAdding ==
  ASSUME Inv, Batches, NEW s \in Stage, RollBack(s), batch[s] \subseteq Added(s, Attempt(s))
  PROVE  \E new, ext : /\ Adding(s, Attempt(s), new, ext)
                       /\ \A i \in new : Node(s, i).type = "RECV_FORWARD"
<1>1. /\ phase[s] = "validating" /\ phase'[s] = "validated"
      /\ conf' = conf /\ outcome' = outcome /\ iteration' = iteration /\ it'[s] = 1
      /\ posted'[s] = posted[s] \o FlushedBatch(s) \o Dummies(s) /\ batch'[s] = {}
  BY DEF RollBack, Reset, Validating, Batches, Typed, Inv, TypeOK
<1>2. PICK k, d : k = iteration[s] /\ d = Attempt(s)
  OBVIOUS
<1>3. /\ k \in 1 .. Iterations /\ k \in Nat /\ d \in Nat /\ posted[s] \in Seq(FusedGroups)
      /\ it[s] \in Nat /\ batch[s] \subseteq Nat
  BY <1>1, <1>2, Numbered
<1>4. PICK new : new = {x \in Tagged(s) : DoPrevStep(s)}
  OBVIOUS
<1>5. /\ d = 2 * k - 1
      /\ Tagged(s) \in SUBSET Nat /\ IsFiniteSet(Tagged(s))
      /\ \A x \in Tagged(s) : it[s] <= x
  BY <1>2, RollBackPosts
<1>6. \A i : i \in Posts(s, d) <=> (i \in Posts(s, d) /\ i < it[s]) \/ i \in new
  <2>1. \A i : i \in Posts(s, d) <=>
                     \/ i \in Posts(s, d) /\ i < it[s]
                     \/ DoPrevStep(s) /\ i \in Tagged(s)
    BY <1>2, RollBackPosts
  <2> QED
    BY <1>4, <2>1
<1>7. Attempt(s)' = d + 1 /\ d + 1 \in Nat
  <2>1. Attempt(s)' = 2 * k
    BY <1>1, <1>2 DEF Attempt
  <2> QED
    BY <1>3, <1>5, <2>1
<1>8. ASSUME NEW e \in Nat
      PROVE  Added(s, e)' = IF e = d THEN Added(s, e) \cup new ELSE Added(s, e)
  <2>1. Posts(s, e)' = Posts(s, e)
    BY <1>1, SamePosts
  <2>2. \A i \in Posts(s, e) : i \in Nat /\ i >= 1
    <3>1. Posts(s, e) \subseteq DOMAIN Order(s) /\ DOMAIN Order(s) = 1 .. Len(Order(s))
      BY StageFacts DEF Posts
    <3> QED
      BY <3>1
  <2>3. Added(s, e)' = {i \in Posts(s, e) : e < d + 1 \/ (e = d + 1 /\ i < 1)}
    BY <1>1, <1>7, <2>1 DEF Added
  <2>4. Added(s, e) = {i \in Posts(s, e) : e < d \/ (e = d /\ i < it[s])}
    BY <1>2 DEF Added
  <2>5. CASE e = d
    <3>1. Added(s, e)' = Posts(s, e) /\ Added(s, e) = {i \in Posts(s, e) : i < it[s]}
      BY <1>3, <2>3, <2>4, <2>5
    <3> QED
      BY <1>6, <2>5, <3>1
  <2>6. CASE e # d
    <3>1. \A i \in Posts(s, e) : (e < d + 1 \/ (e = d + 1 /\ i < 1)) <=> (e < d \/ (e = d /\ i < it[s]))
      BY <1>3, <2>2, <2>6
    <3> QED
      BY <2>3, <2>4, <2>6, <3>1
  <2> QED
    BY <2>5, <2>6
<1>9. PICK p, q, m, n : p = FlushedBatch(s) /\ q = Dummies(s) /\ m = Len(p) /\ n = Len(q)
  OBVIOUS
<1>10. /\ p \in Seq(FusedGroups) /\ m \in Nat
       /\ \A g \in 1 .. m : /\ p[g].ops = batch[s] /\ p[g].left = batch[s]
                            /\ \A h \in 1 .. m : ~ g < h
       /\ batch[s] # {} => 1 \in 1 .. m
  BY <1>9, FlushedGroups
<1>11. /\ q \in Seq(FusedGroups) /\ n \in Nat
       /\ \A g \in 1 .. n :
            /\ q[g].left = q[g].ops /\ q[g].ops \subseteq Tagged(s)
            /\ \A h \in 1 .. n : g < h => \A i \in q[g].ops, j \in q[h].ops : i < j
       /\ DoPrevStep(s) => \A x \in Tagged(s) : \E g \in 1 .. n : x \in q[g].ops
       /\ ~ DoPrevStep(s) => n = 0
  BY <1>5, <1>9, DummyGroups
<1>12. PICK ext : ext = p \o q
  OBVIOUS
<1>13. /\ ext \in Seq(FusedGroups) /\ Len(ext) = m + n
       /\ \A g \in 1 .. m + n : ext[g] = IF g <= m THEN p[g] ELSE q[g - m]
  BY <1>9, <1>10, <1>11, <1>12
<1>14. posted'[s] = posted[s] \o ext
  <2>1. (posted[s] \o p) \o q = posted[s] \o (p \o q)
    <3>1. PICK r, S : r = posted[s] /\ S = FusedGroups
      OBVIOUS
    <3>2. r \in Seq(S) /\ p \in Seq(S) /\ q \in Seq(S)
      BY <1>3, <1>10, <1>11, <3>1
    <3>3. (r \o p) \o q = r \o (p \o q)
      BY <3>2, Joined
    <3> QED
      BY <3>1, <3>3
  <2> QED
    BY <1>1, <1>9, <1>12, <2>1
<1>15. \A g \in 1 .. m + n :
         \/ g \in 1 .. m /\ ext[g] = p[g] /\ ext[g].ops = batch[s]
         \/ g - m \in 1 .. n /\ ext[g] = q[g - m] /\ ~ g <= m
  <2>1. ASSUME NEW g \in 1 .. m + n
        PROVE  (g \in 1 .. m /\ g <= m) \/ (g - m \in 1 .. n /\ ~ g <= m)
    BY <1>10, <1>11
  <2> QED
    BY <1>10, <1>13, <2>1
<1>16. \A g \in 1 .. n : g + m \in 1 .. m + n /\ ext[g + m] = q[g]
  <2> SUFFICES ASSUME NEW g \in 1 .. n PROVE g + m \in 1 .. m + n /\ ext[g + m] = q[g]
    OBVIOUS
  <2>1. PICK x : x = g + m
    OBVIOUS
  <2>2. x \in 1 .. m + n /\ ~ x <= m /\ x - m = g
    BY <1>10, <1>11, <2>1
  <2>3. ext[x] = q[x - m]
    BY <1>13, <2>2
  <2> QED
    BY <2>1, <2>2, <2>3
<1>17. ASSUME NEW x
       PROVE  x \in batch[s] \cup new <=> \E g \in 1 .. m + n : x \in ext[g].ops
  <2>1. ASSUME x \in batch[s] PROVE \E g \in 1 .. m + n : x \in ext[g].ops
    <3>1. 1 \in 1 .. m /\ 1 \in 1 .. m + n /\ 1 <= m
      BY <1>10, <1>11, <2>1
    <3> QED
      BY <1>10, <1>13, <2>1, <3>1
  <2>2. ASSUME x \in new PROVE \E g \in 1 .. m + n : x \in ext[g].ops
    <3>1. DoPrevStep(s) /\ x \in Tagged(s)
      BY <1>4, <2>2
    <3>2. PICK g \in 1 .. n : x \in q[g].ops
      BY <1>11, <3>1
    <3> QED
      BY <1>16, <3>2
  <2>3. ASSUME NEW g \in 1 .. m + n, x \in ext[g].ops PROVE x \in batch[s] \cup new
    <3>1. CASE g - m \in 1 .. n /\ ext[g] = q[g - m]
      <4>1. DoPrevStep(s)
        BY <1>11, <3>1
      <4>2. x \in Tagged(s)
        BY <1>11, <2>3, <3>1
      <4> QED
        BY <1>4, <4>1, <4>2
    <3> QED
      BY <1>15, <2>3, <3>1
  <2> QED
    BY <2>1, <2>2, <2>3
<1>18. \A i \in batch[s] : i < it[s] /\ i \in Nat
  BY <1>2, <1>3 DEF Added
<1>19. ASSUME NEW g \in 1 .. m + n
       PROVE  /\ ext[g].left = ext[g].ops
              /\ \A i \in ext[g].ops : \A h \in 1 .. m + n : g < h => \A j \in ext[h].ops : i < j
  <2>1. ext[g].left = ext[g].ops
    BY <1>10, <1>11, <1>15
  <2>2. ASSUME NEW i \in ext[g].ops, NEW h \in 1 .. m + n, g < h, NEW j \in ext[h].ops
        PROVE  i < j
    <3>1. CASE g \in 1 .. m /\ ext[g].ops = batch[s] /\ h \in 1 .. m
      BY <1>10, <2>2, <3>1
    <3>2. CASE g \in 1 .. m /\ ext[g].ops = batch[s] /\ h - m \in 1 .. n /\ ext[h] = q[h - m]
      <4>1. j \in Tagged(s)
        BY <1>11, <2>2, <3>2
      <4>2. it[s] <= j /\ j \in Nat
        BY <1>5, <4>1
      <4>3. i < it[s] /\ i \in Nat
        BY <1>18, <2>2, <3>2
      <4> QED
        BY <1>3, <4>2, <4>3
    <3>3. CASE g - m \in 1 .. n /\ ext[g] = q[g - m] /\ h - m \in 1 .. n /\ ext[h] = q[h - m]
      <4>1. g - m < h - m
        BY <1>10, <2>2
      <4> QED
        BY <1>11, <2>2, <3>3, <4>1
    <3>4. CASE ~ g <= m /\ h \in 1 .. m
      BY <1>10, <2>2, <3>4
    <3> QED
      BY <1>15, <3>1, <3>2, <3>3, <3>4
  <2> QED
    BY <2>1, <2>2
<1>20. \A x \in new : x \in Nat /\ it[s] <= x
  BY <1>4, <1>5
<1>21. Attempt(s)' \in Nat /\ Attempt(s)' > d /\ batch'[s] = {}
  BY <1>1, <1>3, <1>7
<1>22. Adding(s, d, new, ext)
  BY <1>8, <1>13, <1>14, <1>17, <1>19, <1>20, <1>21 DEF Adding
<1>23. \A i \in new : Node(s, i).type = "RECV_FORWARD"
  BY <1>4 DEF Tagged
<1> QED
  BY <1>2, <1>22, <1>23

(* An iteration begins when the one before has nothing left to add.         *)
LEMMA BeginAdding ==
  ASSUME Inv, Batches, NEW s \in Stage, BeginValidation(s), batch[s] = {},
         iteration[s] = 0 \/ it[s] = Len(Order(s)) + 1
  PROVE  Adding(s, Attempt(s), {}, <<>>)
<1>1. /\ phase[s] = "finished" /\ phase'[s] = "validating"
      /\ conf' = conf /\ outcome' = outcome /\ it'[s] = 1
      /\ iteration[s] < Iterations /\ iteration'[s] = iteration[s] + 1
      /\ posted'[s] = posted[s] /\ batch'[s] = {}
  BY DEF BeginValidation, Reset, Batches, Typed, Inv, TypeOK
<1>2. PICK k, d, c : k = iteration[s] /\ d = Attempt(s) /\ c = Attempt(s)'
  OBVIOUS
<1>3. /\ k \in 0 .. Iterations /\ k \in Nat /\ d \in Nat /\ posted[s] \in Seq(FusedGroups)
      /\ it[s] \in Nat /\ d = 2 * k /\ k < Iterations /\ Iterations \in Nat
  BY <1>1, <1>2, Numbered DEF Attempt
<1>4. c = IF outcome[k + 1].stands THEN 2 * k + 2 ELSE 2 * k + 1
  <2>1. c = IF ~ outcome[k + 1].stands THEN 2 * (k + 1) - 1 ELSE 2 * (k + 1)
    BY <1>1, <1>2 DEF Attempt, Outcome
  <2> QED
    BY <1>3, <2>1
<1>5. c \in Nat /\ c > d
  BY <1>3, <1>4
(* All of the attempt that is over has been added.                          *)
<1>6. \A i \in Posts(s, d) : i < it[s]
  <2>1. CASE k = 0
    <3>1. \A l \in 1 .. Iterations : d # 2 * l /\ d # 2 * l - 1
      BY <1>3, <2>1
    <3> QED
      BY <3>1 DEF Posts
  <2>2. CASE it[s] = Len(Order(s)) + 1
    <3>1. Posts(s, d) \subseteq 1 .. Len(Order(s)) /\ Len(Order(s)) \in Nat
      BY StageFacts DEF Posts
    <3> QED
      BY <2>2, <3>1
  <2> QED
    BY <1>2, <2>1, <2>2
(* A warm-up that stands is not taken back.                                 *)
<1>7. outcome[k + 1].stands => Posts(s, 2 * k + 1) = {}
  <2> SUFFICES ASSUME outcome[k + 1].stands, NEW i \in Posts(s, 2 * k + 1) PROVE FALSE
    OBVIOUS
  <2>1. PICK l \in 1 .. Iterations :
          2 * k + 1 = 2 * l \/ (2 * k + 1 = 2 * l - 1 /\ ~ outcome[l].stands)
    BY DEF Posts
  <2>2. l = k + 1
    BY <1>3, <2>1, AttemptNumbers
  <2>3. ~ outcome[l].stands
    BY <1>3, <2>1, <2>2, AttemptNumbers
  <2> QED
    BY <2>2, <2>3
<1>8. ASSUME NEW e \in Nat PROVE Added(s, e)' = Added(s, e)
  <2>1. Posts(s, e)' = Posts(s, e)
    BY <1>1, SamePosts
  <2>2. \A i \in Posts(s, e) : i \in Nat /\ i >= 1
    <3>1. Posts(s, e) \subseteq DOMAIN Order(s) /\ DOMAIN Order(s) = 1 .. Len(Order(s))
      BY StageFacts DEF Posts
    <3> QED
      BY <3>1
  <2>3. Added(s, e)' = {i \in Posts(s, e) : e < c \/ (e = c /\ i < 1)}
    BY <1>1, <1>2, <2>1 DEF Added
  <2>4. Added(s, e) = {i \in Posts(s, e) : e < d \/ (e = d /\ i < it[s])}
    BY <1>2 DEF Added
  <2>5. \A i \in Posts(s, e) : (e < c \/ (e = c /\ i < 1)) <=> (e < d \/ (e = d /\ i < it[s]))
    <3>1. CASE e = d
      BY <1>3, <1>5, <1>6, <3>1
    <3>2. CASE e = 2 * k + 1 /\ outcome[k + 1].stands
      BY <1>7, <3>2
    <3>3. CASE e # d /\ ~ (e = 2 * k + 1 /\ outcome[k + 1].stands)
      <4>1. e < c <=> e < d
        BY <1>3, <1>4, <3>3
      <4> QED
        BY <2>2, <3>3, <4>1
    <3> QED
      BY <3>1, <3>2, <3>3
  <2> QED
    BY <2>3, <2>4, <2>5
<1>9. <<>> \in Seq(FusedGroups) /\ posted[s] \o <<>> = posted[s] /\ Len(<<>>) = 0
  BY <1>3
<1> QED
  BY <1>1, <1>2, <1>5, <1>8, <1>9 DEF Adding

-----------------------------------------------------------------------------
(* The stages.                                                              *)

WarmUpTypes == {"F", "SEND_FORWARD", "RECV_FORWARD", "SEND_POST_VALIDATION",
                "RECV_POST_VALIDATION"}

(* Computation i of stage s has the operand x of its dependency.            *)
RightOperandFor(s, i, x) ==
  IF Source(s, Node(s, i)) = NoBuffer THEN x = NoKey ELSE Called(x, T(s, i))

(* What phase p of iteration k, at node x, says of the batch c of a stage,  *)
(* of its buffers f and of the row o of operand.                            *)
TidyAt(s, p, k, x, c, f, o) ==
  /\ p = "validating" => \A y \in 1 .. x - 1 : Node(s, y).type \in WarmUpTypes
  /\ p = "finished" => c = {} /\ (k = 0 \/ x = Len(Order(s)) + 1)
  /\ p # "validating" \/ Participates(s, k) =>
       /\ c # {} => LiveComm(s, x)
       /\ \A b \in Buffers : Holds(s, b, f[b], x, x)
       /\ \A i \in Live(conf, s) :
            i < x /\ Node(s, i).type \in {"F", "B", "BW"} => RightOperandFor(s, i, o[i])

Tidy(s) == TidyAt(s, phase[s], iteration[s], it[s], batch[s], buf[s], operand[s])

LEMMA TidyNext ==
  ASSUME conf' = conf, outcome' = outcome, NEW s \in Stage,
         TidyAt(s, phase'[s], iteration'[s], it'[s], batch'[s], buf'[s], operand'[s])
  PROVE  Tidy(s)'
<1>0. PICK p, k, x, c, f, o : /\ p = phase'[s] /\ k = iteration'[s] /\ x = it'[s]
                              /\ c = batch'[s] /\ f = buf'[s] /\ o = operand'[s]
  OBVIOUS
<1>1. TidyAt(s, p, k, x, c, f, o)
  BY <1>0
<1>2. /\ \A y : Node(s, y)' = Node(s, y) /\ T(s, y)' = T(s, y) /\ G(s, y)' = G(s, y)
      /\ \A y, z : Called(y, z)' <=> Called(y, z)
  BY SamePosts
<1>3. /\ Order(s)' = Order(s) /\ Live(conf, s)' = Live(conf, s)
      /\ \A b : Givers(conf, s, b)' = Givers(conf, s, b) /\ Takers(conf, s, b)' = Takers(conf, s, b)
  BY DEF Order
<1>4. Participates(s, k)' <=> Participates(s, k)
  BY DEF Participates
<1>5. LiveComm(s, x)' <=> LiveComm(s, x)
  BY <1>2, <1>3 DEF LiveComm
<1>6. \A b : Holds(s, b, f[b], x, x)' <=> Holds(s, b, f[b], x, x)
  BY <1>2, <1>3 DEF Holds
<1>7. \A n : Source(s, n)' = Source(s, n)
  OBVIOUS
<1>8. \A i, y : RightOperandFor(s, i, y)' <=> RightOperandFor(s, i, y)
  BY <1>2, <1>7 DEF RightOperandFor
<1>9. TidyAt(s, p, k, x, c, f, o)'
  BY <1>1, <1>2, <1>3, <1>4, <1>5, <1>6, <1>8 DEF TidyAt
<1> QED
  BY <1>0, <1>9 DEF Tidy

(* A stage that does nothing stays tidy.                                    *)
LEMMA StaysTidy ==
  ASSUME conf' = conf, outcome' = outcome, NEW s \in Stage, Tidy(s), Stays(s),
         buf'[s] = buf[s], operand'[s] = operand[s]
  PROVE  Tidy(s)'
<1>1. TidyAt(s, phase'[s], iteration'[s], it'[s], batch'[s], buf'[s], operand'[s])
  BY DEF Tidy, Stays
<1> QED
  BY <1>1, TidyNext

LEMMA NextWarmUp ==
  ASSUME NEW s \in Stage, NEW x \in Nat, Node(s, x).type \in WarmUpTypes,
         \A y \in 1 .. x - 1 : Node(s, y).type \in WarmUpTypes
  PROVE  \A y \in 1 .. (x + 1) - 1 : Node(s, y).type \in WarmUpTypes
<1>1. \A y \in 1 .. (x + 1) - 1 : y = x \/ y \in 1 .. x - 1
  OBVIOUS
<1> QED
  BY <1>1

(* A stage that does not take part in the warm-up only passes its nodes.    *)
LEMMA IdleTidy ==
  ASSUME NEW s \in Stage, NEW k, NEW x \in Nat, NEW c, NEW f, NEW o, NEW d, NEW g, NEW r,
         TidyAt(s, "validating", k, x, c, f, o), ~ Participates(s, k),
         Node(s, x).type \in WarmUpTypes
  PROVE  TidyAt(s, "validating", k, x + 1, d, g, r)
<1>1. \A y \in 1 .. x - 1 : Node(s, y).type \in WarmUpTypes
  BY DEF TidyAt
<1>2. \A y \in 1 .. (x + 1) - 1 : Node(s, y).type \in WarmUpTypes
  BY <1>1, NextWarmUp
<1> QED
  BY <1>2 DEF TidyAt

(* A node that is not live changes nothing.                                 *)
LEMMA PassedTidy ==
  ASSUME conf \in Conf, NEW s \in Stage, NEW p, NEW k, NEW x \in Nat, NEW c, NEW f, NEW o,
         TidyAt(s, p, k, x, c, f, o), p # "finished", x \notin Live(conf, s),
         p = "validating" => Node(s, x).type \in WarmUpTypes
  PROVE  TidyAt(s, p, k, x + 1, c, f, o)
<1>1. p = "validating" => \A y \in 1 .. (x + 1) - 1 : Node(s, y).type \in WarmUpTypes
  <2> SUFFICES ASSUME p = "validating"
               PROVE  \A y \in 1 .. (x + 1) - 1 : Node(s, y).type \in WarmUpTypes
    OBVIOUS
  <2>1. Node(s, x).type \in WarmUpTypes /\ \A y \in 1 .. x - 1 : Node(s, y).type \in WarmUpTypes
    BY DEF TidyAt
  <2> QED
    BY <2>1, NextWarmUp
<1>2. ASSUME p # "validating" \/ Participates(s, k)
      PROVE  /\ c # {} => LiveComm(s, x + 1)
             /\ \A b \in Buffers : Holds(s, b, f[b], x + 1, x + 1)
             /\ \A i \in Live(conf, s) :
                  i < x + 1 /\ Node(s, i).type \in {"F", "B", "BW"} => RightOperandFor(s, i, o[i])
  <2>1. /\ c # {} => LiveComm(s, x)
        /\ \A b \in Buffers : Holds(s, b, f[b], x, x)
        /\ \A i \in Live(conf, s) :
             i < x /\ Node(s, i).type \in {"F", "B", "BW"} => RightOperandFor(s, i, o[i])
    BY <1>2 DEF TidyAt
  <2>2. c = {}
    BY <2>1 DEF LiveComm
  <2>3. ASSUME NEW b \in Buffers PROVE Holds(s, b, f[b], x + 1, x + 1)
    <3>1. Holds(s, b, f[b], x, x)
      BY <2>1
    <3> QED
      BY <3>1, NotUsed
  <2>4. \A i \in Live(conf, s) : i < x + 1 => i < x
    BY PositionsAreNumbers
  <2> QED
    BY <2>1, <2>2, <2>3, <2>4
<1> QED
  BY <1>1, <1>2 DEF TidyAt

(* What a stage communicates in its attempt is among its posts.             *)
LEMMA PostsOfAttempt ==
  ASSUME Inv, Batches, NEW s \in Stage, phase[s] # "finished", NEW i, LiveComm(s, i), i <= it[s],
         phase[s] = "validating" =>
           /\ \A y \in 1 .. it[s] - 1 : Node(s, y).type \in WarmUpTypes
           /\ \/ Node(s, i).type \in {"SEND_FORWARD", "RECV_FORWARD"} /\ DoThisStep(s)
              \/ Node(s, i).type = "RECV_FORWARD" /\ DoPrevStep(s)
  PROVE  i \in Posts(s, Attempt(s))
<1>1. PICK k, d : k = iteration[s] /\ d = Attempt(s)
  OBVIOUS
<1>2. k \in 1 .. Iterations /\ k \in Nat /\ it[s] \in Nat
  BY <1>1, Numbered
<1>3. i \in Live(conf, s) /\ Node(s, i).type \in CommTypes /\ i \in DOMAIN Order(s)
      /\ i \in Nat
  BY StageFacts DEF LiveComm
<1>4. CASE d = 2 * k
  BY <1>1, <1>2, <1>3, <1>4 DEF Posts
<1>5. CASE phase[s] = "validating" /\ ~ outcome[k].stands /\ d = 2 * k - 1
  <2>1. \A y \in 1 .. i : Node(s, y).type # "POST_VALIDATION"
    <3>1. \A y \in 1 .. i : y = i \/ y \in 1 .. it[s] - 1
      BY <1>2, <1>3
    <3>2. Node(s, i).type # "POST_VALIDATION"
      BY <1>5
    <3>3. \A y \in 1 .. it[s] - 1 : Node(s, y).type # "POST_VALIDATION"
      BY <1>5 DEF WarmUpTypes
    <3> QED
      BY <3>1, <3>2, <3>3
  <2>2. i \in BeforeVerdict(conf, s)
    BY <1>3, <2>1 DEF BeforeVerdict, Node, Order
  <2>3. outcome[k].taken \in Int /\ s \in Int
    BY <1>2, OutcomeTypes DEF Batches, Stage
  <2>4. i \in TakenBack(s, k)
    <3>1. CASE Node(s, i).type = "SEND_FORWARD" /\ DoThisStep(s)
      <4>1. i \in WarmUpSends(conf, s)
        BY <2>2, <3>1 DEF WarmUpSends, Node
      <4> QED
        BY <1>1, <3>1, <4>1 DEF TakenBack, DoThisStep, Outcome
    <3>2. CASE Node(s, i).type = "RECV_FORWARD" /\ (DoThisStep(s) \/ DoPrevStep(s))
      <4>1. i \in WarmUpRecvs(conf, s)
        BY <1>3, <2>2, <3>2 DEF WarmUpRecvs, Node, Order
      <4>2. s <= outcome[k].taken
        BY <1>1, <2>3, <3>2 DEF DoThisStep, DoPrevStep, Outcome
      <4> QED
        BY <4>1, <4>2 DEF TakenBack
    <3> QED
      BY <1>5, <3>1, <3>2
  <2> QED
    BY <1>1, <1>2, <1>3, <1>5, <2>4 DEF Posts
<1> QED
  BY <1>1, <1>4, <1>5 DEF Attempt, Outcome

(* What it passes over is not.                                              *)
LEMMA PassedOverPosts ==
  ASSUME Inv, Batches, NEW s \in Stage, phase[s] = "validating",
         PassesOver(s, Node(s, it[s]))
  PROVE  it[s] \notin Posts(s, Attempt(s)) /\ ~ Participates(s, iteration[s])
<1>1. PICK k, d, i : k = iteration[s] /\ d = Attempt(s) /\ i = it[s]
  OBVIOUS
<1>2. k \in 1 .. Iterations /\ k \in Nat
  BY <1>1, Numbered
<1>3. /\ outcome[k].taken \in Int /\ s \in Int /\ s < N
      /\ outcome[k].stands => outcome[k].taken = N
  BY <1>2, OutcomeTypes DEF Batches, Stage
<1>4. /\ ~ s < outcome[k].taken
      /\ Node(s, i).type = "RECV_FORWARD" => ~ s <= outcome[k].taken
  BY <1>1 DEF PassesOver, DoThisStep, DoPrevStep, Outcome
<1>5. ~ outcome[k].stands
  BY <1>3, <1>4
<1>6. d = 2 * k - 1
  BY <1>1, <1>5 DEF Attempt, Outcome
<1>7. i \notin TakenBack(s, k)
  BY <1>4 DEF TakenBack, WarmUpRecvs, Node
<1>8. ASSUME NEW l \in 1 .. Iterations,
             d = 2 * l \/ (d = 2 * l - 1 /\ i \in TakenBack(s, l))
      PROVE  FALSE
  <2>1. l \in Nat
    OBVIOUS
  <2>2. d # 2 * l
    BY <1>2, <1>6, <2>1, AttemptNumbers
  <2>3. d = 2 * l - 1 => l = k
    BY <1>2, <1>6, <2>1, AttemptNumbers
  <2> QED
    BY <1>7, <1>8, <2>2, <2>3
<1>9. i \notin Posts(s, d)
  BY <1>8 DEF Posts
<1> QED
  BY <1>1, <1>4, <1>9 DEF Participates

(* A node finds in its buffer the tensor it takes, in every attempt.        *)
LEMMA FoundTensor ==
  ASSUME Inv, Batches, NEW labs, Links(labs), NEW s \in Stage, Tidy(s), phase[s] # "finished",
         TookPart(s), NEW src \in Buffers, NEW p \in Givers(conf, s, src),
         p = Head(buf[s][src]), p < it[s],
         src[1] \in RecvTypes => batch[s] = {} /\ Complete(s, p)
  PROVE  Called(TensorIn(s, src), G(s, p))
<1>1. src # NoBuffer
  BY DEF NoBuffer, Buffers, CommTypes, SendTypes, RecvTypes
<1>2. CASE src[1] \in RecvTypes
  <2>1. LiveComm(s, p) /\ Node(s, p).type \in RecvTypes /\ p \in Nat /\ it[s] \in Nat
    BY <1>2, GiverKinds, StageFacts
  <2>2. p <= it[s]
    BY <2>1
  <2>3. ASSUME phase[s] = "validating"
        PROVE  /\ \A y \in 1 .. it[s] - 1 : Node(s, y).type \in WarmUpTypes
               /\ Node(s, p).type \in {"SEND_FORWARD", "RECV_FORWARD"} /\ DoThisStep(s)
    <3>1. \A y \in 1 .. it[s] - 1 : Node(s, y).type \in WarmUpTypes
      BY <2>3 DEF Tidy, TidyAt
    <3>2. p \in 1 .. it[s] - 1
      <4>1. p \in 1 .. Len(Order(s))
        BY <2>1, StageFacts DEF LiveComm
      <4> QED
        BY <2>1, <4>1
    <3>3. Node(s, p).type \in WarmUpTypes
      BY <3>1, <3>2
    <3> QED
      BY <2>1, <2>3, <3>1, <3>3 DEF WarmUpTypes, RecvTypes, TookPart
  <2>4. p \in Posts(s, Attempt(s))
    BY <2>1, <2>2, <2>3, PostsOfAttempt
  <2>5. PICK d, a : d = Attempt(s) /\ a = labs[s]
    OBVIOUS
  <2>6. d \in Nat /\ Len(posted[s]) \in Nat /\ posted[s] \in Seq(FusedGroups)
    BY <2>5, Numbered
  <2>7. p \in Added(s, d)
    BY <2>4, <2>5 DEF Added
  <2>8. Labelled(s, a)
    BY <2>5 DEF Links
  <2>9. ~ InNetwork(s, a, d, p)
    <3>1. /\ Len(a) = Len(posted[s])
          /\ \A g \in 1 .. Len(a) : posted[s][g].left \subseteq posted[s][g].ops
      BY <2>8 DEF Labelled
    <3>2. \A g \in 1 .. Len(a) : p \notin posted[s][g].left
      BY <1>2, <2>6, <3>1 DEF Complete
    <3> QED
      BY <1>2, <3>2 DEF InNetwork
  <2>10. Over(s, a, d, p)
    BY <2>7, <2>9 DEF Over
  <2>11. Called(payload[s][p], G(s, p))
    BY <2>1, <2>5, <2>6, <2>10 DEF Links, Carried
  <2> QED
    BY <1>1, <1>2, <2>11 DEF TensorIn
<1>3. CASE src[1] \notin RecvTypes
  <2>1. Node(s, p).type \in {"F", "B", "BW"} /\ p \in Live(conf, s)
    BY <1>3, GiverKinds
  <2>2. p \in DOMAIN Order(s)
    BY <2>1, StageFacts
  <2>3. Name(Key(Node(s, p))) = G(s, p)
    BY <2>1, OwnName DEF G
  <2>4. Called(Key(Node(s, p)), G(s, p))
    BY <2>1, <2>2, <2>3 DEF Called
  <2> QED
    BY <1>1, <1>3, <2>4 DEF TensorIn
<1> QED
  BY <1>2, <1>3

(* What a live node does to the buffers of its stage.                       *)
LEMMA NodeTakes ==
  ASSUME Inv, NEW s \in Stage, Tidy(s), phase[s] # "finished", TookPart(s),
         it[s] \in Live(conf, s),
         NEW src, src = TakesFrom(s, Node(s, it[s])), ~ Missing(s, src),
         buf' = [buf EXCEPT ![s] =
                   Pushed(Popped(buf[s], src), GivesTo(s, Node(s, it[s])), it[s])]
  PROVE  /\ \A b \in Buffers : Holds(s, b, buf'[s][b], it[s] + 1, it[s] + 1)
         /\ \A u \in Stage : u # s => buf'[u] = buf[u]
         /\ src # NoBuffer => /\ src \in Buffers
                              /\ Head(buf[s][src]) \in Givers(conf, s, src)
                              /\ Head(buf[s][src]) < it[s]
                              /\ G(s, Head(buf[s][src])) = T(s, it[s])
<1> DEFINE i   == it[s]
           snk == GivesTo(s, Node(s, i))
           h   == Pushed(Popped(buf[s], src), snk, i)
<1>1. /\ src \in Buffers \cup {NoBuffer} /\ snk \in Buffers \cup {NoBuffer}
      /\ src # NoBuffer => buf[s][src] # <<>>
  BY UsesTypes DEF Missing
<1>2. conf \in Conf /\ buf[s] \in [Buffers -> Seq(Nat)]
  BY StageFacts
<1>3. \A b \in Buffers : Holds(s, b, buf[s][b], i, i)
  BY DEF Tidy, TidyAt, TookPart, DoThisStep, Outcome, Participates
<1>4. /\ \A b \in Buffers : Holds(s, b, h[b], i + 1, i + 1)
      /\ src # NoBuffer => /\ Head(buf[s][src]) \in Givers(conf, s, src)
                           /\ Head(buf[s][src]) < i
                           /\ G(s, Head(buf[s][src])) = T(s, i)
  BY <1>1, <1>2, <1>3, TakeAndGive
<1>5. buf'[s] = h /\ \A u \in Stage : u # s => buf'[u] = buf[u]
  BY DEF Inv, TypeOK
<1> QED
  BY <1>1, <1>4, <1>5

LEMMA ComputedTidy ==
  ASSUME Inv, Batches, Communicated, NEW s \in Stage, Tidy(s), phase[s] # "finished", TookPart(s),
         Computes(s), phase[s] = "validating" => Node(s, it[s]).type \in WarmUpTypes
  PROVE  TidyAt(s, phase[s], iteration[s], it'[s], batch'[s], buf'[s], operand'[s])
<1>1. PICK i, src : i = it[s] /\ src = Source(s, Node(s, i))
  OBVIOUS
<1>2. PICK labs : Links(labs)
  BY DEF Communicated
<1>3. /\ i \in Live(conf, s) /\ Node(s, i).type \in {"F", "B", "BW"}
      /\ ~ Missing(s, src) /\ Arrived(s, src) /\ Advance(s) /\ conf' = conf
      /\ buf' = [buf EXCEPT ![s] = Pushed(Popped(buf[s], src), Sink(s, Node(s, i)), i)]
      /\ operand' = [operand EXCEPT ![s][i] = TensorIn(s, src)]
      /\ batch' = batch
  BY <1>1 DEF Computes
<1>4. src = TakesFrom(s, Node(s, i)) /\ Sink(s, Node(s, i)) = GivesTo(s, Node(s, i))
  BY <1>1, <1>3, UsesTypes
<1>5. buf' = [buf EXCEPT ![s] = Pushed(Popped(buf[s], src), GivesTo(s, Node(s, it[s])), it[s])]
  BY <1>1, <1>3, <1>4
<1>6. /\ \A b \in Buffers : Holds(s, b, buf'[s][b], i + 1, i + 1)
      /\ src # NoBuffer => /\ src \in Buffers
                           /\ Head(buf[s][src]) \in Givers(conf, s, src)
                           /\ Head(buf[s][src]) < i
                           /\ G(s, Head(buf[s][src])) = T(s, i)
  BY <1>1, <1>3, <1>4, <1>5, NodeTakes
<1>7. it'[s] = i + 1 /\ i \in Nat /\ i \in DOMAIN Order(s)
  BY <1>1, <1>3, AdvancedStage, StageFacts
<1>8. /\ batch[s] # {} => LiveComm(s, i)
      /\ \A x \in Live(conf, s) :
           x < i /\ Node(s, x).type \in {"F", "B", "BW"} => RightOperandFor(s, x, operand[s][x])
      /\ phase[s] = "validating" => \A y \in 1 .. i - 1 : Node(s, y).type \in WarmUpTypes
  BY <1>1 DEF Tidy, TidyAt, TookPart, DoThisStep, Outcome, Participates
<1>9. batch[s] = {}
  BY <1>3, <1>8 DEF LiveComm, CommTypes, SendTypes, RecvTypes
<1>10. RightOperandFor(s, i, TensorIn(s, src))
  <2>1. CASE src = NoBuffer
    BY <1>1, <2>1 DEF RightOperandFor, TensorIn
  <2>2. CASE src # NoBuffer
    <3>1. PICK p : p = Head(buf[s][src])
      OBVIOUS
    <3>2. src \in Buffers /\ p \in Givers(conf, s, src) /\ p < i /\ G(s, p) = T(s, i)
      BY <1>6, <2>2, <3>1
    <3>3. src[1] \in RecvTypes => Complete(s, p)
      BY <1>3, <2>2, <3>1 DEF Arrived
    <3>4. Called(TensorIn(s, src), G(s, p))
      BY <1>1, <1>2, <1>9, <3>1, <3>2, <3>3, FoundTensor
    <3> QED
      BY <1>1, <2>2, <3>2, <3>4 DEF RightOperandFor
  <2> QED
    BY <2>1, <2>2
<1>11. /\ operand'[s][i] = TensorIn(s, src)
       /\ \A x \in DOMAIN Order(s) : x # i => operand'[s][x] = operand[s][x]
  <2>1. DOMAIN operand = Stage /\ DOMAIN operand[s] = DOMAIN Order(s)
    BY DEF Inv, TypeOK, PerNode
  <2>2. operand'[s] = [operand[s] EXCEPT ![i] = TensorIn(s, src)]
    BY <1>3, <2>1
  <2> QED
    BY <1>7, <2>1, <2>2
<1>12. ASSUME NEW x \in Live(conf, s), x < i + 1, Node(s, x).type \in {"F", "B", "BW"}
       PROVE  RightOperandFor(s, x, operand'[s][x])
  <2>1. x \in Nat /\ x \in DOMAIN Order(s)
    BY StageFacts
  <2>2. CASE x = i
    BY <1>10, <1>11, <2>2
  <2>3. CASE x # i
    <3>1. x < i
      BY <1>7, <1>12, <2>1, <2>3
    <3>2. RightOperandFor(s, x, operand[s][x])
      BY <1>8, <1>12, <3>1
    <3> QED
      BY <1>11, <2>1, <2>3, <3>2
  <2> QED
    BY <2>2, <2>3
<1>13. phase[s] = "validating" => \A y \in 1 .. (i + 1) - 1 : Node(s, y).type \in WarmUpTypes
  <2> SUFFICES ASSUME phase[s] = "validating"
               PROVE  \A y \in 1 .. (i + 1) - 1 : Node(s, y).type \in WarmUpTypes
    OBVIOUS
  <2>1. Node(s, i).type \in WarmUpTypes /\ \A y \in 1 .. i - 1 : Node(s, y).type \in WarmUpTypes
    BY <1>1, <1>8
  <2> QED
    BY <1>7, <2>1, NextWarmUp
<1>14. batch'[s] = {}
  BY <1>3, <1>9
<1>15. TidyAt(s, phase[s], iteration[s], i + 1, batch'[s], buf'[s], operand'[s])
  BY <1>6, <1>12, <1>13, <1>14 DEF TidyAt
<1> QED
  BY <1>7, <1>15

LEMMA AddedTidy ==
  ASSUME Inv, Batches, Communicated, NEW s \in Stage, Tidy(s), phase[s] # "finished", TookPart(s),
         Adds(s), phase[s] = "validating" => Node(s, it[s]).type \in WarmUpTypes
  PROVE  /\ TidyAt(s, phase[s], iteration[s], it'[s], batch'[s], buf'[s], operand'[s])
         /\ Node(s, it[s]).type \in SendTypes =>
              Called(TensorIn(s, BufferMap(Node(s, it[s]))), T(s, it[s]))
<1>1. PICK i, src : i = it[s] /\ src = TakesFrom(s, Node(s, i))
  OBVIOUS
<1>2. PICK labs : Links(labs)
  BY DEF Communicated
<1>3. /\ i \in Live(conf, s) /\ Node(s, i).type \in SendTypes \cup RecvTypes
      /\ Node(s, i).type \in SendTypes => ~ Missing(s, BufferMap(Node(s, i)))
      /\ Advance(s) /\ conf' = conf /\ operand' = operand
  BY <1>1 DEF Adds, LiveComm, CommTypes
<1>4. SendTypes \cap RecvTypes = {}
  BY DEF SendTypes, RecvTypes
<1>5. /\ Node(s, i).type \in SendTypes =>
           /\ src = BufferMap(Node(s, i)) /\ GivesTo(s, Node(s, i)) = NoBuffer
           /\ BufferMap(Node(s, i))[1] \in SendTypes
      /\ Node(s, i).type \in RecvTypes =>
           src = NoBuffer /\ GivesTo(s, Node(s, i)) = BufferMap(Node(s, i))
  BY <1>1, <1>3, UsesTypes
<1>6. ~ Missing(s, src)
  BY <1>3, <1>5 DEF Missing
<1>7. buf' = [buf EXCEPT ![s] = Pushed(Popped(buf[s], src), GivesTo(s, Node(s, it[s])), it[s])]
  <2>1. CASE Node(s, i).type \in SendTypes
    <3>1. buf' = [buf EXCEPT ![s] = Popped(buf[s], BufferMap(Node(s, i)))]
      BY <1>1, <2>1 DEF Adds
    <3> QED
      BY <1>1, <1>5, <2>1, <3>1 DEF Pushed
  <2>2. CASE Node(s, i).type \in RecvTypes
    <3>1. buf' = [buf EXCEPT ![s] = Pushed(buf[s], BufferMap(Node(s, i)), i)]
      BY <1>1, <1>4, <2>2 DEF Adds
    <3> QED
      BY <1>1, <1>5, <2>2, <3>1 DEF Popped
  <2> QED
    BY <1>3, <2>1, <2>2
<1>8. /\ \A b \in Buffers : Holds(s, b, buf'[s][b], i + 1, i + 1)
      /\ src # NoBuffer => /\ src \in Buffers
                           /\ Head(buf[s][src]) \in Givers(conf, s, src)
                           /\ Head(buf[s][src]) < i
                           /\ G(s, Head(buf[s][src])) = T(s, i)
  BY <1>1, <1>3, <1>6, <1>7, NodeTakes
<1>9. it'[s] = i + 1 /\ i \in Nat /\ i \in DOMAIN Order(s)
  BY <1>1, <1>3, AdvancedStage, StageFacts
<1>10. /\ \A x \in Live(conf, s) :
            x < i /\ Node(s, x).type \in {"F", "B", "BW"} => RightOperandFor(s, x, operand[s][x])
       /\ phase[s] = "validating" => \A y \in 1 .. i - 1 : Node(s, y).type \in WarmUpTypes
  BY <1>1 DEF Tidy, TidyAt, TookPart, DoThisStep, Outcome, Participates
<1>11. ASSUME NEW x \in Live(conf, s), x < i + 1, Node(s, x).type \in {"F", "B", "BW"}
       PROVE  RightOperandFor(s, x, operand'[s][x])
  <2>1. x # i
    BY <1>3, <1>11 DEF SendTypes, RecvTypes
  <2>2. x < i
    BY <1>9, <1>11, <2>1, StageFacts
  <2> QED
    BY <1>3, <1>10, <1>11, <2>2
<1>12. phase[s] = "validating" => \A y \in 1 .. (i + 1) - 1 : Node(s, y).type \in WarmUpTypes
  <2> SUFFICES ASSUME phase[s] = "validating"
               PROVE  \A y \in 1 .. (i + 1) - 1 : Node(s, y).type \in WarmUpTypes
    OBVIOUS
  <2>1. Node(s, i).type \in WarmUpTypes /\ \A y \in 1 .. i - 1 : Node(s, y).type \in WarmUpTypes
    BY <1>1, <1>10
  <2> QED
    BY <1>9, <2>1, NextWarmUp
(* The batch is kept only for a communication that comes next.              *)
<1>13. ASSUME batch'[s] # {} PROVE LiveComm(s, i + 1)
  <2>1. ~ FlushesIn(conf, s, i)
    <3>1. FlushesIn(conf, s, i) => batch'[s] = {}
      BY <1>1 DEF Adds, Inv, TypeOK
    <3> QED
      BY <1>13, <3>1
  <2>2. i < Len(Order(s)) /\ Node(s, i + 1).type \in CommTypes /\ ~ conf.forwardOnly
    BY <2>1 DEF FlushesIn, Order, Node
  <2>3. i + 1 \in DOMAIN Order(s)
    BY <1>9, <2>2, StageFacts
  <2> QED
    BY <2>2, <2>3, IsLive DEF LiveComm, Skipped, SkippedIn
<1>14. TidyAt(s, phase[s], iteration[s], i + 1, batch'[s], buf'[s], operand'[s])
  BY <1>8, <1>11, <1>12, <1>13 DEF TidyAt
<1>15. ASSUME Node(s, i).type \in SendTypes PROVE Called(TensorIn(s, src), T(s, i))
  <2>1. PICK p : p = Head(buf[s][src])
    OBVIOUS
  <2>2. src # NoBuffer /\ src[1] \notin RecvTypes
    BY <1>4, <1>5, <1>15 DEF NoBuffer, SendTypes
  <2>3. src \in Buffers /\ p \in Givers(conf, s, src) /\ p < i /\ G(s, p) = T(s, i)
    BY <1>8, <2>1, <2>2
  <2>4. Called(TensorIn(s, src), G(s, p))
    BY <1>1, <1>2, <2>1, <2>2, <2>3, FoundTensor
  <2> QED
    BY <2>3, <2>4
<1> QED
  BY <1>1, <1>5, <1>9, <1>14, <1>15

-----------------------------------------------------------------------------
(* The steps.                                                               *)

Sound == Communicated /\ \A s \in Stage : Tidy(s)

Elsewhere(s) ==
  \A u \in Stage : u # s => Stays(u) /\ buf'[u] = buf[u] /\ operand'[u] = operand[u]

LEMMA OneStage ==
  ASSUME Inv, Batches, Sound, conf' = conf, outcome' = outcome, NEW s \in Stage, Elsewhere(s),
         TidyAt(s, phase'[s], iteration'[s], it'[s], batch'[s], buf'[s], operand'[s]),
         NEW new, NEW ext, Adding(s, Attempt(s), new, ext),
         \A i \in DOMAIN Order(s) :
           \/ payload'[s][i] = payload[s][i]
           \/ Node(s, i).type \in SendTypes /\ Called(payload'[s][i], T(s, i)),
         \A i \in new : Node(s, i).type \in SendTypes => Called(payload'[s][i], T(s, i))
  PROVE  Sound'
<1>1. \A u \in Stage : u # s => Stays(u)
  BY DEF Elsewhere
<1>2. Communicated
  BY DEF Sound
<1>3. Communicated'
  BY <1>1, <1>2, StageCommunicates
<1>4. Tidy(s)'
  BY TidyNext
<1>5. ASSUME NEW u \in Stage, u # s PROVE Tidy(u)'
  <2>1. Tidy(u) /\ Stays(u) /\ buf'[u] = buf[u] /\ operand'[u] = operand[u]
    BY <1>5 DEF Sound, Elsewhere
  <2> QED
    BY <2>1, StaysTidy
<1> QED
  BY <1>3, <1>4, <1>5 DEF Sound

(* A stage that adds nothing to the links.                                  *)
LEMMA QuietStage ==
  ASSUME Inv, Batches, Sound, conf' = conf, outcome' = outcome, NEW s \in Stage, Elsewhere(s),
         TidyAt(s, phase'[s], iteration'[s], it'[s], batch'[s], buf'[s], operand'[s]),
         batch'[s] = batch[s], posted'[s] = posted[s], payload'[s] = payload[s],
         Attempt(s)' = Attempt(s),
         \/ it'[s] = it[s]
         \/ it'[s] = it[s] + 1 /\ it[s] \notin Posts(s, Attempt(s))
  PROVE  Sound'
<1>1. Adding(s, Attempt(s), {}, <<>>)
  BY QuietAdding
<1>2. \A i \in {} : Node(s, i).type \in SendTypes => Called(payload'[s][i], T(s, i))
  OBVIOUS
<1>3. \A i \in DOMAIN Order(s) :
        \/ payload'[s][i] = payload[s][i]
        \/ Node(s, i).type \in SendTypes /\ Called(payload'[s][i], T(s, i))
  OBVIOUS
<1> QED
  BY <1>1, <1>2, <1>3, OneStage

LEMMA SameAttempt ==
  ASSUME UNCHANGED <<iteration, phase, outcome>>, NEW s
  PROVE  Attempt(s)' = Attempt(s)
BY DEF Attempt, Outcome

LEMMA StepElsewhere ==
  ASSUME Inv, NEW s \in Stage, UNCHANGED <<iteration, phase>>,
         Waits \/ Passes(s) \/ Computes(s) \/ Adds(s)
  PROVE  conf' = conf /\ Elsewhere(s)
<1>1. conf' = conf /\ (it' = it \/ Advance(s))
  BY DEF Waits, Passes, Computes, Adds
<1>2. \A u \in Stage : u # s => it'[u] = it[u]
  BY <1>1, AdvancedStage
<1>3. \A u \in Stage : u # s => /\ batch'[u] = batch[u] /\ posted'[u] = posted[u]
                                /\ buf'[u] = buf[u]
  BY DEF Waits, Passes, Computes, Adds, Inv, TypeOK
<1>4. DOMAIN payload = Stage /\ DOMAIN operand = Stage
  BY DEF Inv, TypeOK, PerNode
<1>5. ASSUME NEW u \in Stage, u # s PROVE payload'[u] = payload[u]
  <2>1. payload' = payload \/ \E x : payload' = [payload EXCEPT ![s][it[s]] = x]
    BY DEF Waits, Passes, Computes, Adds
  <2> QED
    BY <1>4, <1>5, <2>1
<1>6. ASSUME NEW u \in Stage, u # s PROVE operand'[u] = operand[u]
  <2>1. operand' = operand \/ \E x : operand' = [operand EXCEPT ![s][it[s]] = x]
    BY DEF Waits, Passes, Computes, Adds
  <2> QED
    BY <1>4, <1>6, <2>1
<1> QED
  BY <1>1, <1>2, <1>3, <1>5, <1>6 DEF Elsewhere, Stays

LEMMA WaitsSound ==
  ASSUME Inv, Batches, Sound, NEW s \in Stage, UNCHANGED <<iteration, phase, outcome>>, Waits
  PROVE  Sound'
<1>1. conf' = conf /\ Elsewhere(s)
  BY StepElsewhere
<1>2. /\ it' = it /\ batch' = batch /\ buf' = buf /\ operand' = operand
      /\ posted' = posted /\ payload' = payload
  BY DEF Waits
<1>3. TidyAt(s, phase'[s], iteration'[s], it'[s], batch'[s], buf'[s], operand'[s])
  BY <1>2 DEF Sound, Tidy
<1>4. Attempt(s)' = Attempt(s)
  BY SameAttempt
<1> QED
  BY <1>1, <1>2, <1>3, <1>4, QuietStage

(* A node that is not live, or a stage that does not take part.             *)
LEMMA PassesSound ==
  ASSUME Inv, Batches, Sound, NEW s \in Stage, UNCHANGED <<iteration, phase, outcome>>,
         phase[s] # "finished", Passes(s),
         phase[s] = "validating" => Node(s, it[s]).type \in WarmUpTypes
  PROVE  Sound'
<1>1. conf' = conf /\ Elsewhere(s)
  BY StepElsewhere
<1>2. /\ it[s] \notin Live(conf, s) /\ Advance(s) /\ batch' = batch /\ buf' = buf
      /\ operand' = operand /\ posted' = posted /\ payload' = payload
  BY DEF Passes
<1>3. it'[s] = it[s] + 1 /\ it[s] \in Nat /\ conf \in Conf
  BY <1>2, AdvancedStage, StageFacts
<1>4. TidyAt(s, phase[s], iteration[s], it[s], batch[s], buf[s], operand[s])
  BY DEF Sound, Tidy
<1>5. TidyAt(s, phase[s], iteration[s], it[s] + 1, batch[s], buf[s], operand[s])
  BY <1>2, <1>3, <1>4, PassedTidy
<1>6. TidyAt(s, phase'[s], iteration'[s], it'[s], batch'[s], buf'[s], operand'[s])
  BY <1>2, <1>3, <1>5
<1>7. it[s] \notin Posts(s, Attempt(s))
  BY <1>2 DEF Posts
<1>8. Attempt(s)' = Attempt(s)
  BY SameAttempt
<1> QED
  BY <1>1, <1>2, <1>3, <1>6, <1>7, <1>8, QuietStage

LEMMA SkipsOverSound ==
  ASSUME Inv, Batches, Sound, NEW s \in Stage, UNCHANGED <<iteration, phase, outcome>>,
         phase[s] = "validating", Skip(s), PassesOver(s, Node(s, it[s])),
         Node(s, it[s]).type \in WarmUpTypes
  PROVE  Sound'
<1>1. /\ Advance(s) /\ conf' = conf /\ batch' = batch /\ buf' = buf
      /\ operand' = operand /\ posted' = posted /\ payload' = payload
  BY DEF Skip, network
<1>2. it'[s] = it[s] + 1 /\ it[s] \in Nat /\ \A u \in Stage : u # s => it'[u] = it[u]
  BY <1>1, AdvancedStage, StageFacts
<1>3. Elsewhere(s)
  BY <1>1, <1>2 DEF Elsewhere, Stays
<1>4. it[s] \notin Posts(s, Attempt(s)) /\ ~ Participates(s, iteration[s])
  BY PassedOverPosts
<1>5. TidyAt(s, "validating", iteration[s], it[s], batch[s], buf[s], operand[s])
  BY DEF Sound, Tidy
<1>6. TidyAt(s, "validating", iteration[s], it[s] + 1, batch[s], buf[s], operand[s])
  BY <1>2, <1>4, <1>5, IdleTidy
<1>7. TidyAt(s, phase'[s], iteration'[s], it'[s], batch'[s], buf'[s], operand'[s])
  BY <1>1, <1>2, <1>6
<1>8. Attempt(s)' = Attempt(s)
  BY SameAttempt
<1> QED
  BY <1>1, <1>2, <1>3, <1>4, <1>7, <1>8, QuietStage

LEMMA ComputesSound ==
  ASSUME Inv, Batches, Sound, NEW s \in Stage, UNCHANGED <<iteration, phase, outcome>>,
         phase[s] # "finished", TookPart(s), Computes(s),
         phase[s] = "validating" => Node(s, it[s]).type \in WarmUpTypes
  PROVE  Sound'
<1>1. conf' = conf /\ Elsewhere(s)
  BY StepElsewhere
<1>2. /\ Node(s, it[s]).type \in {"F", "B", "BW"} /\ Advance(s) /\ batch' = batch
      /\ posted' = posted /\ payload' = payload
  BY DEF Computes
<1>3. it'[s] = it[s] + 1
  BY <1>2, AdvancedStage
<1>4. Communicated /\ Tidy(s)
  BY DEF Sound
<1>5. TidyAt(s, phase[s], iteration[s], it'[s], batch'[s], buf'[s], operand'[s])
  BY <1>4, ComputedTidy
<1>6. TidyAt(s, phase'[s], iteration'[s], it'[s], batch'[s], buf'[s], operand'[s])
  BY <1>5
<1>7. it[s] \notin Posts(s, Attempt(s))
  BY <1>2 DEF Posts, CommTypes, SendTypes, RecvTypes
<1>8. Attempt(s)' = Attempt(s)
  BY SameAttempt
<1> QED
  BY <1>1, <1>2, <1>3, <1>6, <1>7, <1>8, QuietStage

LEMMA AddsSound ==
  ASSUME Inv, Batches, Sound, NEW s \in Stage, UNCHANGED <<iteration, phase, outcome>>,
         phase[s] # "finished", Adds(s),
         phase[s] = "validating" =>
           \/ Node(s, it[s]).type \in {"SEND_FORWARD", "RECV_FORWARD"} /\ DoThisStep(s)
           \/ Node(s, it[s]).type = "RECV_FORWARD" /\ DoPrevStep(s)
  PROVE  Sound'
<1>1. conf' = conf /\ Elsewhere(s)
  BY StepElsewhere
<1>2. PICK i : i = it[s]
  OBVIOUS
<1>3. /\ LiveComm(s, i) /\ Advance(s) /\ i \in Nat /\ i <= it[s] /\ it'[s] = i + 1
      /\ i \in DOMAIN Order(s)
  BY <1>2, AdvancedStage, StageFacts DEF Adds, LiveComm
<1>4. /\ Communicated /\ Tidy(s)
      /\ TidyAt(s, phase[s], iteration[s], i, batch[s], buf[s], operand[s])
  BY <1>2 DEF Sound, Tidy
<1>5. i \in Posts(s, Attempt(s))
  <2>1. phase[s] = "validating" => \A y \in 1 .. i - 1 : Node(s, y).type \in WarmUpTypes
    BY <1>4 DEF TidyAt
  <2> QED
    BY <1>2, <1>3, <2>1, PostsOfAttempt
<1>6. Attempt(s)' = Attempt(s)
  BY SameAttempt
<1>7. PICK ext : Adding(s, Attempt(s), {i}, ext)
  <2>1. \E ext : Adding(s, Attempt(s), {it[s]}, ext)
    BY <1>2, <1>5, <1>6, AddsAdding
  <2> QED
    BY <1>2, <2>1
<1>8. phase[s] = "validating" => Node(s, i).type \in WarmUpTypes
  BY <1>2 DEF WarmUpTypes
<1>9. /\ TidyAt(s, phase[s], iteration[s], it'[s], batch'[s], buf'[s], operand'[s])
      /\ Node(s, i).type \in SendTypes =>
           Called(TensorIn(s, BufferMap(Node(s, i))), T(s, i))
  <2>1. CASE TookPart(s)
    BY <1>2, <1>4, <1>8, <2>1, AddedTidy
  <2>2. CASE ~ TookPart(s)
    <3>1. phase[s] = "validating" /\ ~ Participates(s, iteration[s])
      BY <2>2 DEF TookPart, DoThisStep, Outcome, Participates
    <3>2. Node(s, i).type = "RECV_FORWARD"
      BY <1>2, <2>2, <3>1 DEF TookPart
    <3>3. TidyAt(s, "validating", iteration[s], i + 1, batch'[s], buf'[s], operand'[s])
      BY <1>3, <1>4, <1>8, <3>1, IdleTidy
    <3> QED
      BY <1>3, <3>1, <3>2, <3>3 DEF SendTypes
  <2> QED
    BY <2>1, <2>2
<1>10. TidyAt(s, phase'[s], iteration'[s], it'[s], batch'[s], buf'[s], operand'[s])
  BY <1>9
<1>11. DOMAIN payload = Stage /\ DOMAIN payload[s] = DOMAIN Order(s)
  BY DEF Inv, TypeOK, PerNode
<1>12. \/ Node(s, i).type \notin SendTypes /\ payload' = payload
       \/ /\ Node(s, i).type \in SendTypes
          /\ payload' = [payload EXCEPT ![s][i] = TensorIn(s, BufferMap(Node(s, i)))]
  BY <1>2 DEF Adds
<1>13. Node(s, i).type \in SendTypes => Called(payload'[s][i], T(s, i))
  BY <1>3, <1>9, <1>11, <1>12
<1>14. \A x \in DOMAIN Order(s) : x # i => payload'[s][x] = payload[s][x]
  BY <1>11, <1>12
<1>15. \A x \in DOMAIN Order(s) :
         \/ payload'[s][x] = payload[s][x]
         \/ Node(s, x).type \in SendTypes /\ Called(payload'[s][x], T(s, x))
  <2>1. Node(s, i).type \notin SendTypes => payload'[s] = payload[s]
    BY <1>12
  <2> QED
    BY <1>13, <1>14, <2>1
<1>16. \A x \in {i} : Node(s, x).type \in SendTypes => Called(payload'[s][x], T(s, x))
  BY <1>13
<1> QED
  BY <1>1, <1>7, <1>10, <1>15, <1>16, OneStage

(* A stage that starts from its first node.                                 *)
Empty == [b \in Buffers |-> <<>>]

LEMMA FreshTidy ==
  ASSUME conf \in Conf, NEW s \in Stage, NEW p, p # "finished", NEW k, NEW o
  PROVE  TidyAt(s, p, k, 1, {}, Empty, o)
<1>1. \A y \in 1 .. 1 - 1 : FALSE
  OBVIOUS
<1>2. Live(conf, s) \subseteq Nat /\ \A i \in Live(conf, s) : ~ i < 1
  BY PositionsAreNumbers
<1>3. \A b \in Buffers : Empty[b] = <<>>
  BY DEF Empty
<1>4. ASSUME NEW b \in Buffers PROVE Holds(s, b, Empty[b], 1, 1)
  <2>1. Holds(s, b, <<>>, 1, 1)
    BY <1>2 DEF Holds, Givers, Takers
  <2> QED
    BY <1>3, <2>1
<1> QED
  BY <1>1, <1>2, <1>4 DEF TidyAt

LEMMA ResetParts ==
  ASSUME Inv, NEW s \in Stage, Reset(s)
  PROVE  /\ it'[s] = 1 /\ batch'[s] = {} /\ buf'[s] = Empty
         /\ \A u \in Stage : u # s => it'[u] = it[u] /\ batch'[u] = batch[u] /\ buf'[u] = buf[u]
BY DEF Reset, Empty, Inv, TypeOK

LEMMA BeginSound ==
  ASSUME Inv, Batches, Sound, NEW s \in Stage, BeginValidation(s)
  PROVE  Sound'
<1>1. /\ phase[s] = "finished" /\ phase' = [phase EXCEPT ![s] = "validating"]
      /\ iteration' = [iteration EXCEPT ![s] = iteration[s] + 1]
      /\ operand' = [operand EXCEPT ![s] = NoneOf(s, NoKey)]
      /\ Reset(s) /\ conf' = conf /\ outcome' = outcome /\ posted' = posted /\ payload' = payload
  BY DEF BeginValidation
<1>2. /\ it'[s] = 1 /\ batch'[s] = {} /\ buf'[s] = Empty
      /\ \A u \in Stage : u # s => it'[u] = it[u] /\ batch'[u] = batch[u] /\ buf'[u] = buf[u]
  BY <1>1, ResetParts
<1>3. /\ phase'[s] = "validating"
      /\ \A u \in Stage : u # s => /\ phase'[u] = phase[u] /\ iteration'[u] = iteration[u]
                                   /\ operand'[u] = operand[u]
  BY <1>1 DEF Batches, Typed, Inv, TypeOK, PerNode
<1>4. Elsewhere(s)
  BY <1>1, <1>2, <1>3 DEF Elsewhere, Stays
<1>5. conf \in Conf
  BY DEF Inv, TypeOK
<1>6. TidyAt(s, phase'[s], iteration'[s], it'[s], batch'[s], buf'[s], operand'[s])
  <2>1. PICK k, o : k = iteration'[s] /\ o = operand'[s]
    OBVIOUS
  <2>2. TidyAt(s, "validating", k, 1, {}, Empty, o)
    BY <1>5, FreshTidy
  <2> QED
    BY <1>2, <1>3, <2>1, <2>2
<1>7. batch[s] = {} /\ (iteration[s] = 0 \/ it[s] = Len(Order(s)) + 1)
  BY <1>1 DEF Sound, Tidy, TidyAt
<1>8. Adding(s, Attempt(s), {}, <<>>)
  BY <1>7, BeginAdding
<1>9. \A i \in {} : Node(s, i).type \in SendTypes => Called(payload'[s][i], T(s, i))
  OBVIOUS
<1>10. \A i \in DOMAIN Order(s) :
         \/ payload'[s][i] = payload[s][i]
         \/ Node(s, i).type \in SendTypes /\ Called(payload'[s][i], T(s, i))
  BY <1>1
<1> QED
  BY <1>1, <1>4, <1>6, <1>8, <1>9, <1>10, OneStage

(* Only a stage that has taken the step finds that it stands.               *)
LEMMA AcceptSound ==
  ASSUME Inv, Batches, Sound, NEW s \in Stage, Accept(s)
  PROVE  Sound'
<1>1. /\ phase[s] = "validating" /\ Outcome(s).stands
      /\ phase' = [phase EXCEPT ![s] = "validated"]
      /\ posted' = [posted EXCEPT ![s] = posted[s] \o FlushedBatch(s)]
      /\ batch' = [batch EXCEPT ![s] = {}]
      /\ conf' = conf /\ outcome' = outcome /\ iteration' = iteration
      /\ it' = it /\ buf' = buf /\ operand' = operand /\ payload' = payload
  BY DEF Accept, Validating
<1>2. /\ phase'[s] = "validated" /\ batch'[s] = {}
      /\ \A u \in Stage : u # s => /\ phase'[u] = phase[u] /\ batch'[u] = batch[u]
                                   /\ posted'[u] = posted[u]
  BY <1>1 DEF Batches, Typed, Inv, TypeOK
<1>3. Elsewhere(s)
  BY <1>1, <1>2 DEF Elsewhere, Stays
<1>4. iteration[s] \in 1 .. Iterations
  BY <1>1, Numbered
<1>5. Participates(s, iteration[s])
  BY <1>1, <1>4, OutcomeTypes DEF Batches, Participates, Outcome, Stage
<1>6. TidyAt(s, "validating", iteration[s], it[s], batch[s], buf[s], operand[s])
  BY <1>1 DEF Sound, Tidy
<1>7. TidyAt(s, "validated", iteration[s], it[s], {}, buf[s], operand[s])
  BY <1>5, <1>6 DEF TidyAt
<1>8. TidyAt(s, phase'[s], iteration'[s], it'[s], batch'[s], buf'[s], operand'[s])
  BY <1>1, <1>2, <1>7
<1>9. Adding(s, Attempt(s), {}, FlushedBatch(s))
  BY AcceptAdding
<1>10. \A i \in {} : Node(s, i).type \in SendTypes => Called(payload'[s][i], T(s, i))
  OBVIOUS
<1>11. \A i \in DOMAIN Order(s) :
         \/ payload'[s][i] = payload[s][i]
         \/ Node(s, i).type \in SendTypes /\ Called(payload'[s][i], T(s, i))
  BY <1>1
<1> QED
  BY <1>1, <1>3, <1>8, <1>9, <1>10, <1>11, OneStage

LEMMA RollBackSound ==
  ASSUME Inv, Batches, Sound, NEW s \in Stage, RollBack(s)
  PROVE  Sound'
<1>1. /\ phase' = [phase EXCEPT ![s] = "validated"]
      /\ posted' = [posted EXCEPT ![s] = posted[s] \o FlushedBatch(s) \o Dummies(s)]
      /\ operand' = [operand EXCEPT ![s] = NoneOf(s, NoKey)]
      /\ Reset(s) /\ conf' = conf /\ outcome' = outcome /\ iteration' = iteration
      /\ payload' = payload
  BY DEF RollBack
<1>2. /\ it'[s] = 1 /\ batch'[s] = {} /\ buf'[s] = Empty
      /\ \A u \in Stage : u # s => it'[u] = it[u] /\ batch'[u] = batch[u] /\ buf'[u] = buf[u]
  BY <1>1, ResetParts
<1>3. /\ phase'[s] = "validated"
      /\ \A u \in Stage : u # s => /\ phase'[u] = phase[u] /\ posted'[u] = posted[u]
                                   /\ operand'[u] = operand[u]
  BY <1>1 DEF Batches, Typed, Inv, TypeOK, PerNode
<1>4. Elsewhere(s)
  BY <1>1, <1>2, <1>3 DEF Elsewhere, Stays
<1>5. conf \in Conf
  BY DEF Inv, TypeOK
<1>6. TidyAt(s, phase'[s], iteration'[s], it'[s], batch'[s], buf'[s], operand'[s])
  <2>1. PICK k, o : k = iteration'[s] /\ o = operand'[s]
    OBVIOUS
  <2>2. TidyAt(s, "validated", k, 1, {}, Empty, o)
    BY <1>5, FreshTidy
  <2> QED
    BY <1>2, <1>3, <2>1, <2>2
<1>7. batch[s] \subseteq Added(s, Attempt(s))
  <2>1. PICK labs : Links(labs)
    BY DEF Sound, Communicated
  <2> QED
    BY <2>1 DEF Links, Labelled
<1>8. PICK new, ext : /\ Adding(s, Attempt(s), new, ext)
                      /\ \A i \in new : Node(s, i).type = "RECV_FORWARD"
  BY <1>7, RollBackAdding
<1>9. \A i \in new : Node(s, i).type \in SendTypes => Called(payload'[s][i], T(s, i))
  BY <1>8 DEF SendTypes
<1>10. \A i \in DOMAIN Order(s) :
         \/ payload'[s][i] = payload[s][i]
         \/ Node(s, i).type \in SendTypes /\ Called(payload'[s][i], T(s, i))
  BY <1>1
<1> QED
  BY <1>1, <1>4, <1>6, <1>8, <1>9, <1>10, OneStage

LEMMA BeginRunSound ==
  ASSUME Inv, Batches, Sound, NEW s \in Stage, BeginRun(s)
  PROVE  Sound'
<1>1. /\ phase[s] = "validated" /\ phase' = [phase EXCEPT ![s] = "running"]
      /\ UNCHANGED vars /\ iteration' = iteration /\ outcome' = outcome
  BY DEF BeginRun
<1>2. UNCHANGED <<conf, it, buf, batch, posted, payload, operand>>
  BY <1>1 DEF vars, network
<1>3. phase'[s] = "running" /\ \A u \in Stage : u # s => phase'[u] = phase[u]
  BY <1>1 DEF Batches, Typed
<1>4. Elsewhere(s)
  BY <1>1, <1>2, <1>3 DEF Elsewhere, Stays
<1>5. TidyAt(s, "validated", iteration[s], it[s], batch[s], buf[s], operand[s])
  BY <1>1 DEF Sound, Tidy
<1>6. TidyAt(s, "running", iteration[s], it[s], batch[s], buf[s], operand[s])
  BY <1>5 DEF TidyAt
<1>7. TidyAt(s, phase'[s], iteration'[s], it'[s], batch'[s], buf'[s], operand'[s])
  BY <1>1, <1>2, <1>3, <1>6
<1>8. Attempt(s)' = Attempt(s)
  BY <1>1, <1>3 DEF Attempt
<1> QED
  BY <1>1, <1>2, <1>4, <1>7, <1>8, QuietStage

LEMMA EndRunSound ==
  ASSUME Inv, Batches, Sound, NEW s \in Stage, EndRun(s)
  PROVE  Sound'
<1>1. /\ phase[s] = "running" /\ it[s] = Len(Order(s)) + 1
      /\ UNCHANGED <<conf, it, buf, batch, posted, payload, operand>>
      /\ iteration' = iteration /\ outcome' = outcome
  BY DEF EndRun, Finish, network
<1>2. PICK p \in {"running", "finished"} : phase' = [phase EXCEPT ![s] = p]
  BY <1>1 DEF EndRun
<1>3. phase'[s] = p /\ \A u \in Stage : u # s => phase'[u] = phase[u]
  BY <1>2 DEF Batches, Typed
<1>4. Elsewhere(s)
  BY <1>1, <1>3 DEF Elsewhere, Stays
<1>5. TidyAt(s, "running", iteration[s], it[s], batch[s], buf[s], operand[s])
  BY <1>1 DEF Sound, Tidy
<1>6. batch[s] = {}
  <2>1. ~ LiveComm(s, it[s])
    BY <1>1, StageFacts DEF LiveComm
  <2> QED
    BY <1>5, <2>1 DEF TidyAt
<1>7. TidyAt(s, p, iteration[s], it[s], batch[s], buf[s], operand[s])
  BY <1>1, <1>5, <1>6 DEF TidyAt
<1>8. TidyAt(s, phase'[s], iteration'[s], it'[s], batch'[s], buf'[s], operand'[s])
  BY <1>1, <1>3, <1>7
<1>9. Attempt(s)' = Attempt(s)
  BY <1>1, <1>3 DEF Attempt
<1> QED
  BY <1>1, <1>4, <1>8, <1>9, QuietStage

LEMMA WarmUpSound ==
  ASSUME Inv, Batches, Sound, NEW s \in Stage, WarmUp(s)
  PROVE  Sound'
<1>1. phase[s] = "validating" /\ phase[s] # "finished"
  BY DEF WarmUp, Validating
<1>2. PICK n : n = Node(s, it[s])
  OBVIOUS
<1>3. CASE Raise(s) /\ UNCHANGED rollback
  <2>1. Waits /\ UNCHANGED <<iteration, phase, outcome>>
    BY <1>3 DEF Raise, Waits, network, rollback
  <2> QED
    BY <2>1, WaitsSound
<1>4. CASE /\ n.type \in {"F", "SEND_FORWARD", "RECV_FORWARD"}
           /\ PassesOver(s, n) /\ Skip(s) /\ UNCHANGED rollback
  <2>1. UNCHANGED <<iteration, phase, outcome>>
    BY <1>4 DEF rollback
  <2> QED
    BY <1>1, <1>2, <1>4, <2>1, SkipsOverSound DEF WarmUpTypes
<1>5. CASE n.type = "F" /\ ~ PassesOver(s, n) /\ ForwardAndRead(s)
  <2>1. ForwardF(s) /\ UNCHANGED <<iteration, phase, outcome>>
    BY <1>5 DEF ForwardAndRead
  <2>2. TookPart(s)
    BY <1>5 DEF TookPart, PassesOver
  <2>3. Waits \/ Computes(s)
    BY <2>1, ForwardFComputes
  <2>4. Node(s, it[s]).type \in WarmUpTypes
    BY <1>2, <1>5 DEF WarmUpTypes
  <2> QED
    BY <1>1, <2>1, <2>2, <2>3, <2>4, WaitsSound, ComputesSound
<1>6. CASE /\ n.type \in {"SEND_FORWARD", "RECV_FORWARD"} /\ ~ PassesOver(s, n)
           /\ AddCommunication(s) /\ UNCHANGED rollback
  <2>1. UNCHANGED <<iteration, phase, outcome>>
    BY <1>6 DEF rollback
  <2>2. Waits \/ Passes(s) \/ Adds(s)
    BY <1>6, AddCommunicationAdds
  <2>3. /\ Node(s, it[s]).type \in WarmUpTypes
        /\ \/ Node(s, it[s]).type \in {"SEND_FORWARD", "RECV_FORWARD"} /\ DoThisStep(s)
           \/ Node(s, it[s]).type = "RECV_FORWARD" /\ DoPrevStep(s)
    BY <1>2, <1>6 DEF WarmUpTypes, PassesOver
  <2>4. CASE Waits
    BY <2>1, <2>4, WaitsSound
  <2>5. CASE Passes(s)
    BY <1>1, <2>1, <2>3, <2>5, PassesSound
  <2>6. CASE Adds(s)
    BY <1>1, <2>1, <2>3, <2>6, AddsSound
  <2> QED
    BY <2>2, <2>4, <2>5, <2>6
<1> QED
  BY <1>2, <1>3, <1>4, <1>5, <1>6 DEF WarmUp

LEMMA VerdictSound ==
  ASSUME Inv, Batches, Sound, NEW s \in Stage, ReceiveVerdict(s) \/ SendVerdict(s)
  PROVE  Sound'
<1>1. /\ phase[s] = "validating" /\ it[s] \in DOMAIN Order(s)
      /\ Node(s, it[s]).type \in {"RECV_POST_VALIDATION", "SEND_POST_VALIDATION"}
      /\ Skip(s) /\ UNCHANGED <<iteration, phase, outcome>>
  BY DEF ReceiveVerdict, SendVerdict, Validating, AtNode, rollback
<1>2. it[s] \notin Live(conf, s)
  BY <1>1 DEF Live, Node, CommTypes, SendTypes, RecvTypes
<1>3. Passes(s)
  BY <1>1, <1>2, SkipPasses
<1>4. Node(s, it[s]).type \in WarmUpTypes /\ phase[s] # "finished"
  BY <1>1 DEF WarmUpTypes
<1> QED
  BY <1>1, <1>3, <1>4, PassesSound

LEMMA ExecuteSound ==
  ASSUME Inv, Batches, Sound, NEW s \in Stage, Execute(s)
  PROVE  Sound'
<1>1. /\ phase[s] = "running" /\ phase[s] # "finished" /\ phase[s] # "validating" /\ TookPart(s)
      /\ UNCHANGED <<iteration, phase, outcome>>
  BY DEF Execute, TookPart, ForwardAndRead, rollback
<1>2. ForwardF(s) \/ BackwardB(s) \/ WeightW(s) \/ AddCommunication(s) \/ IgnorePostValidation(s)
  BY DEF Execute, ForwardAndRead
<1>3. IgnorePostValidation(s) => Passes(s)
  <2> SUFFICES ASSUME IgnorePostValidation(s) PROVE Passes(s)
    OBVIOUS
  <2>1. it[s] \in DOMAIN Order(s) /\ Node(s, it[s]).type \in PostValidationTypes /\ Skip(s)
    BY DEF IgnorePostValidation, AtNode
  <2>2. it[s] \notin Live(conf, s)
    BY <2>1 DEF Live, Node, CommTypes, SendTypes, RecvTypes, PostValidationTypes
  <2> QED
    BY <2>1, <2>2, SkipPasses
<1>4. Waits \/ Passes(s) \/ Computes(s) \/ Adds(s)
  BY <1>2, <1>3, ForwardFComputes, BackwardBComputes, WeightWPasses, AddCommunicationAdds
<1>5. CASE Waits
  BY <1>1, <1>5, WaitsSound
<1>6. CASE Passes(s)
  BY <1>1, <1>6, PassesSound
<1>7. CASE Computes(s)
  BY <1>1, <1>7, ComputesSound
<1>8. CASE Adds(s)
  BY <1>1, <1>8, AddsSound
<1> QED
  BY <1>4, <1>5, <1>6, <1>7, <1>8

LEMMA NetworkSound ==
  ASSUME Inv, Batches, Sound, Network
  PROVE  Sound'
<1>1. PICK s, t \in Stage : Transfer(s, t)
  BY DEF Network
<1>2. UNCHANGED rollback
  BY DEF Network
<1>3. PICK i \in DOMAIN Order(s), j \in DOMAIN Order(t) : Transfers(s, t, i, j)
  BY <1>1 DEF Transfer, Transfers
<1>4. Communicated'
  BY <1>2, <1>3, TransferCommunicated DEF Sound
<1>5. /\ UNCHANGED <<conf, it, buf, batch, operand>>
      /\ UNCHANGED <<iteration, phase, outcome>>
  BY <1>2, <1>3 DEF Transfers, rollback
<1>6. ASSUME NEW u \in Stage PROVE Tidy(u)'
  <2>1. TidyAt(u, phase[u], iteration[u], it[u], batch[u], buf[u], operand[u])
    BY DEF Sound, Tidy
  <2>2. TidyAt(u, phase'[u], iteration'[u], it'[u], batch'[u], buf'[u], operand'[u])
    BY <1>5, <2>1
  <2> QED
    BY <1>5, <2>2, TidyNext
<1> QED
  BY <1>4, <1>6 DEF Sound

LEMMA SoundStep == Inv /\ Batches /\ Sound /\ [ValidationNext]_allVars => Sound'
<1> SUFFICES ASSUME Inv, Batches, Sound, [ValidationNext]_allVars PROVE Sound'
  OBVIOUS
<1>1. CASE UNCHANGED allVars
  <2>1. 0 \in Stage
    BY ConstantsOK DEF Stage
  <2>2. Waits /\ UNCHANGED <<iteration, phase, outcome>>
    BY <1>1 DEF allVars, vars, rollback, Waits, network
  <2> QED
    BY <2>1, <2>2, WaitsSound
<1>2. CASE Stop
  BY <1>1, <1>2 DEF Stop
<1>3. CASE Network
  BY <1>3, NetworkSound
<1>4. ASSUME NEW s \in Stage, \/ BeginValidation(s) \/ WarmUp(s) \/ ReceiveVerdict(s)
                              \/ SendVerdict(s) \/ Accept(s) \/ RollBack(s)
                              \/ BeginRun(s) \/ Execute(s) \/ EndRun(s)
      PROVE  Sound'
  BY <1>4, BeginSound, WarmUpSound, VerdictSound, AcceptSound, RollBackSound, BeginRunSound,
     ExecuteSound, EndRunSound
<1> QED
  BY <1>1, <1>2, <1>3, <1>4 DEF ValidationNext

-----------------------------------------------------------------------------
(* The invariant.                                                           *)

(* A stage that starts again, on payloads that stay, keeps its types.       *)
LEMMA ResetInv ==
  ASSUME Inv, NEW s \in Stage, Reset(s), conf' = conf, payload' = payload,
         operand' = [operand EXCEPT ![s] = NoneOf(s, NoKey)],
         PerNode(saved)', wgrads' = wgrads,
         status' \in [Stage -> {"running", "raised", "done"}],
         grads' \in [Stage -> SUBSET Tensors],
         posted' \in [Stage -> Seq([ops : SUBSET Nat, left : SUBSET Nat])]
  PROVE  Inv'
<1>1. Empty \in [Buffers -> Seq(Nat)] /\ EntriesOK(s, Empty)
  BY DEF Empty, EntriesOK
<1>2. buf' = [buf EXCEPT ![s] = Empty]
  BY DEF Reset, Empty
<1>3. buf' \in [Stage -> [Buffers -> Seq(Nat)]] /\ BufferEntries'
  BY <1>1, <1>2, BufferStep
<1>4. PICK q : q = [k \in Chunks |-> [ready |-> <<>>, tmp |-> <<>>]]
  OBVIOUS
<1>5. q \in [Chunks -> [ready : Seq(Seq(Tensors)), tmp : Seq(Tensors)]]
  BY <1>4
<1>6. \A k \in Chunks : IsSpQueue(q[k])
  BY <1>4 DEF IsSpQueue
<1>7. acts' = [acts EXCEPT ![s] = q]
  BY <1>4 DEF Reset
<1>8. acts' \in [Stage -> [Chunks -> [ready : Seq(Seq(Tensors)), tmp : Seq(Tensors)]]]
  BY <1>5, <1>7 DEF Inv, TypeOK
<1>9. StacksFull'
  <2>1. \A t \in Stage : acts'[t] = acts[t] \/ acts'[t] = q
    BY <1>7 DEF Inv, TypeOK
  <2>2. \A t \in Stage : \A k \in Chunks : IsSpQueue(acts'[t][k])
    BY <1>6, <2>1 DEF Inv, StacksFull
  <2> QED
    BY <2>2 DEF StacksFull
<1>10. PerNode(operand)' /\ PerNode(payload)'
  BY DEF Inv, TypeOK, PerNode, NoneOf, Order
<1>11. /\ it' \in [Stage -> Nat \ {0}] /\ cleared' \in [Stage -> SUBSET Chunks]
       /\ batch' \in [Stage -> SUBSET Nat] /\ wgrads' \in [Stage -> [Chunks \X Seqs -> Seq(Tensors)]]
       /\ conf' \in Conf
  <2>1. it' \in [Stage -> Nat \ {0}] /\ cleared' \in [Stage -> SUBSET Chunks]
    BY DEF Reset, Inv, TypeOK
  <2>2. batch' \in [Stage -> SUBSET Nat]
    BY DEF Reset, Inv, TypeOK
  <2>3. wgrads' \in [Stage -> [Chunks \X Seqs -> Seq(Tensors)]] /\ conf' \in Conf
    BY DEF Inv, TypeOK
  <2> QED
    BY <2>1, <2>2, <2>3
<1>12. TypeOK'
  BY <1>3, <1>8, <1>10, <1>11 DEF TypeOK
<1> QED
  BY <1>3, <1>9, <1>12 DEF Inv

LEMMA BeginInv ==
  ASSUME Inv, NEW s \in Stage, BeginValidation(s)
  PROVE  Inv'
<1>1. /\ Reset(s) /\ conf' = conf /\ payload' = payload /\ wgrads' = wgrads /\ posted' = posted
      /\ operand' = [operand EXCEPT ![s] = NoneOf(s, NoKey)]
      /\ saved' = [saved EXCEPT ![s] = NoneOf(s, NoKey)]
      /\ status' = [status EXCEPT ![s] = "running"] /\ grads' = [grads EXCEPT ![s] = {}]
  BY DEF BeginValidation
<1>2. PerNode(saved)'
  BY <1>1 DEF Inv, TypeOK, PerNode, NoneOf, Order
<1>3. /\ status' \in [Stage -> {"running", "raised", "done"}]
      /\ grads' \in [Stage -> SUBSET Tensors]
      /\ posted' \in [Stage -> Seq([ops : SUBSET Nat, left : SUBSET Nat])]
  BY <1>1 DEF Inv, TypeOK
<1> QED
  BY <1>1, <1>2, <1>3, ResetInv

LEMMA PostedType ==
  ASSUME Inv, NEW s \in Stage, NEW ext \in Seq(FusedGroups),
         posted' = [posted EXCEPT ![s] = posted[s] \o ext]
  PROVE  posted' \in [Stage -> Seq([ops : SUBSET Nat, left : SUBSET Nat])]
<1>1. posted \in [Stage -> Seq(FusedGroups)]
  BY DEF Inv, TypeOK, FusedGroups
<1>2. posted[s] \o ext \in Seq(FusedGroups)
  BY <1>1
<1>3. posted' \in [Stage -> Seq(FusedGroups)]
  BY <1>1, <1>2
<1> QED
  BY <1>3 DEF FusedGroups

LEMMA AcceptInv ==
  ASSUME Inv, NEW s \in Stage, Accept(s)
  PROVE  Inv'
<1>1. /\ posted' = [posted EXCEPT ![s] = posted[s] \o FlushedBatch(s)]
      /\ batch' = [batch EXCEPT ![s] = {}]
      /\ UNCHANGED <<conf, buf, acts, operand, saved, payload, wgrads, grads, it, status, cleared>>
  BY DEF Accept, weights
<1>2. posted' \in [Stage -> Seq([ops : SUBSET Nat, left : SUBSET Nat])]
  BY <1>1, FlushedGroups, PostedType
<1>3. batch' \in [Stage -> SUBSET Nat]
  BY <1>1 DEF Inv, TypeOK
<1> QED
  BY <1>1, <1>2, <1>3, QuietStep DEF Inv, TypeOK

LEMMA RollBackInv ==
  ASSUME Inv, Batches, NEW s \in Stage, RollBack(s)
  PROVE  Inv'
<1>1. /\ Reset(s) /\ conf' = conf /\ payload' = payload /\ wgrads' = wgrads /\ saved' = saved
      /\ operand' = [operand EXCEPT ![s] = NoneOf(s, NoKey)]
      /\ status' = status /\ grads' = grads
      /\ posted' = [posted EXCEPT ![s] = posted[s] \o FlushedBatch(s) \o Dummies(s)]
  BY DEF RollBack
<1>2. FlushedBatch(s) \in Seq(FusedGroups) /\ Dummies(s) \in Seq(FusedGroups)
  BY FlushedGroups, RollBackPosts, DummyGroups
<1>3. PICK ext : ext = FlushedBatch(s) \o Dummies(s)
  OBVIOUS
<1>4. ext \in Seq(FusedGroups)
  BY <1>2, <1>3
<1>5. posted[s] \in Seq(FusedGroups)
  BY DEF Inv, TypeOK, FusedGroups
<1>6. posted' = [posted EXCEPT ![s] = posted[s] \o ext]
  <2>1. (posted[s] \o FlushedBatch(s)) \o Dummies(s) = posted[s] \o ext
    <3>1. PICK r, a, b, S : /\ r = posted[s] /\ S = FusedGroups
                            /\ a = FlushedBatch(s) /\ b = Dummies(s)
      OBVIOUS
    <3>2. r \in Seq(S) /\ a \in Seq(S) /\ b \in Seq(S)
      BY <1>2, <1>5, <3>1
    <3>3. (r \o a) \o b = r \o (a \o b)
      BY <3>2, Joined
    <3> QED
      BY <1>3, <3>1, <3>3
  <2> QED
    BY <1>1, <2>1
<1>7. posted' \in [Stage -> Seq([ops : SUBSET Nat, left : SUBSET Nat])]
  BY <1>4, <1>6, PostedType
<1>8. PerNode(saved)'
  BY <1>1 DEF Inv, TypeOK, PerNode, Order
<1>9. /\ status' \in [Stage -> {"running", "raised", "done"}]
      /\ grads' \in [Stage -> SUBSET Tensors]
  BY <1>1 DEF Inv, TypeOK
<1> QED
  BY <1>1, <1>7, <1>8, <1>9, ResetInv

LEMMA InvStep == Inv /\ Batches /\ [ValidationNext]_allVars => Inv'
<1> SUFFICES ASSUME Inv, Batches, [ValidationNext]_allVars PROVE Inv'
  OBVIOUS
<1>1. UNCHANGED vars => Inv'
  BY NextStep
<1>2. CASE Stop \/ UNCHANGED allVars
  BY <1>1, <1>2 DEF Stop, allVars
<1>3. CASE Network
  BY <1>3, TransferStep DEF Network
<1>4. ASSUME NEW s \in Stage, \/ BeginValidation(s) \/ WarmUp(s) \/ ReceiveVerdict(s)
                              \/ SendVerdict(s) \/ Accept(s) \/ RollBack(s)
                              \/ BeginRun(s) \/ Execute(s) \/ EndRun(s)
      PROVE  Inv'
  <2>1. WarmUp(s) => Raise(s) \/ Skip(s) \/ ForwardF(s) \/ AddCommunication(s)
    BY DEF WarmUp, ForwardAndRead
  <2>2. ReceiveVerdict(s) \/ SendVerdict(s) => Skip(s)
    BY DEF ReceiveVerdict, SendVerdict
  <2>3. BeginRun(s) => UNCHANGED vars
    BY DEF BeginRun
  <2>4. Execute(s) => ForwardF(s) \/ BackwardB(s) \/ WeightW(s) \/ AddCommunication(s) \/ Skip(s)
    BY DEF Execute, ForwardAndRead, IgnorePostValidation
  <2>5. EndRun(s) => Finish(s)
    BY DEF EndRun
  <2>6. \/ BeginValidation(s) \/ Accept(s) \/ RollBack(s) \/ UNCHANGED vars \/ Raise(s) \/ Skip(s)
        \/ ForwardF(s) \/ BackwardB(s) \/ WeightW(s) \/ AddCommunication(s) \/ Finish(s)
    BY <1>4, <2>1, <2>2, <2>3, <2>4, <2>5
  <2> QED
    BY <1>1, <2>6, BeginInv, AcceptInv, RollBackInv, RaiseStep, SkipStep, ForwardFStep,
       BackwardBStep, WeightWStep, AddCommunicationStep, FinishStep
<1> QED
  BY <1>2, <1>3, <1>4 DEF ValidationNext

(* At first nothing has been added.                                         *)
LEMMA SoundStart == ValidationInit => Inv /\ Batches /\ Sound
<1> SUFFICES ASSUME ValidationInit PROVE Inv /\ Batches /\ Sound
  OBVIOUS
<1>1. Inv /\ conf \in Conf
  BY InitInv DEF ValidationInit, Init
<1>2. Batches
  BY BatchesStart
<1>3. \A s \in Stage : /\ it[s] = 1 /\ batch[s] = {} /\ posted[s] = <<>>
                       /\ phase[s] = "finished" /\ iteration[s] = 0
                       /\ \A b \in Buffers : buf[s][b] = <<>>
  BY DEF ValidationInit, Init
<1>4. \A s \in Stage : Attempt(s) = 0
  BY <1>3 DEF Attempt
<1>5. \A s \in Stage : Live(conf, s) \subseteq Nat /\ \A i \in Live(conf, s) : ~ i < 1
  BY <1>1, PositionsAreNumbers
<1>6. \A s \in Stage : \A e \in Nat : Added(s, e) = {}
  <2> SUFFICES ASSUME NEW s \in Stage, NEW e \in Nat, NEW i \in Added(s, e) PROVE FALSE
    OBVIOUS
  <2>1. i \in Live(conf, s) /\ (e < 0 \/ i < 1)
    BY <1>3, <1>4 DEF Added, Posts
  <2> QED
    BY <1>5, <2>1
<1>7. PICK labs : labs = [s \in Stage |-> <<>>]
  OBVIOUS
<1>8. \A s \in Stage : Labelled(s, labs[s])
  <2> SUFFICES ASSUME NEW s \in Stage PROVE Labelled(s, <<>>)
    BY <1>7
  <2>1. <<>> \in Seq(Nat) /\ Len(<<>>) = 0 /\ Len(posted[s]) = 0
    BY <1>3
  <2> QED
    BY <1>3, <2>1 DEF Labelled
<1>9. EndsTogether(labs)
  BY <1>6 DEF EndsTogether, Over
<1>10. Carried(labs)
  BY <1>6 DEF Carried, Over
<1>11. Communicated
  BY <1>8, <1>9, <1>10 DEF Communicated, Links
<1>12. ASSUME NEW s \in Stage PROVE Tidy(s)
  <2>1. \A b \in Buffers : Holds(s, b, <<>>, 1, 1)
    BY <1>5 DEF Holds, Givers, Takers
  <2>2. \A y \in 1 .. 1 - 1 : FALSE
    OBVIOUS
  <2>3. TidyAt(s, "finished", 0, 1, {}, buf[s], operand[s])
    BY <1>3, <1>5, <2>1, <2>2 DEF TidyAt
  <2> QED
    BY <1>3, <2>3 DEF Tidy
<1> QED
  BY <1>1, <1>2, <1>11, <1>12 DEF Sound

LEMMA SoundSuffices == Inv /\ Sound => RightOperandAgain
<1> SUFFICES ASSUME Inv, Sound, NEW s \in Stage, TookPart(s),
                    NEW i \in Executed(s, {"F", "B", "BW"})
             PROVE  operand[s][i] = IF Source(s, Node(s, i)) = NoBuffer THEN NoKey
                                    ELSE PrevKey(Node(s, i), LastGroup + 1)
  BY DEF RightOperandAgain, RightOperandOf
<1>1. /\ conf \in Conf /\ i \in DOMAIN Order(s) /\ i < it[s]
      /\ Node(s, i).type \in {"F", "B", "BW"}
  BY StageFacts DEF Executed
<1>2. i \in Live(conf, s)
  BY LiveExecuted
<1>3. phase[s] # "validating" \/ Participates(s, iteration[s])
  BY DEF TookPart, DoThisStep, Outcome, Participates
<1>4. RightOperandFor(s, i, operand[s][i])
  BY <1>1, <1>2, <1>3 DEF Sound, Tidy, TidyAt
<1>5. CASE Source(s, Node(s, i)) = NoBuffer
  BY <1>4, <1>5 DEF RightOperandFor
<1>6. CASE Source(s, Node(s, i)) # NoBuffer
  <2>1. Called(operand[s][i], T(s, i))
    BY <1>4, <1>6 DEF RightOperandFor
  <2>2. PICK u \in Stage : \E j \in DOMAIN Order(u) :
          Node(u, j).type \in {"F", "B", "BW"} /\ operand[s][i] = Key(Node(u, j))
    BY <2>1 DEF Called
  <2>3. PICK j \in DOMAIN Order(u) :
          Node(u, j).type \in {"F", "B", "BW"} /\ operand[s][i] = Key(Node(u, j))
    BY <2>2
  <2>4. Name(Key(Node(u, j))) = T(s, i)
    BY <2>1, <2>3 DEF Called
  <2> QED
    BY <1>1, <1>6, <2>3, <2>4, NamedOperand
<1> QED
  BY <1>5, <1>6

(* Through any sequence of verdicts and whatever the interleaving of stages   *)
(* and network, every computation of a stage that takes part in its iteration *)
(* has the operand of its dependency: an abandoned warm-up leaves nothing on  *)
(* the links that a later attempt could take for its own.  It holds for all   *)
(* compiled orders that match at both ends and whose rollback tags cover what *)
(* the warm-up sends (ValidatedOrders).                                       *)
THEOREM OperandsRightAgain == ValidationSpec => []RightOperandAgain
<1>1. ValidationInit => Inv /\ Batches /\ Sound
  BY SoundStart
<1>2. Inv /\ Batches /\ Sound /\ [ValidationNext]_allVars => Inv' /\ Batches' /\ Sound'
  BY InvStep, BatchesStep, SoundStep
<1>3. Inv /\ Sound => RightOperandAgain
  BY SoundSuffices
<1> QED
  BY <1>1, <1>2, <1>3, PTL DEF ValidationSpec
=============================================================================
