------------------------- MODULE TeacherClient_proofs -------------------------
(****************************************************************************)
(* For every set of samples and of endpoints, every environment, every      *)
(* number of rounds and every limit: the requests in flight stay within the *)
(* limit.  The invariant is about more than the requests: a task holds the  *)
(* semaphore from the start of its first round to its end, and the tasks    *)
(* that hold it are at most Limit.                                          *)
(*                                                                          *)
(* And a sample is given up only when each of its endpoints has failed it   *)
(* in each round.  This rests on CandidateUrls, which lists each endpoint   *)
(* of the sample and nothing else, and on an invariant that says at each    *)
(* place of the two loops what has failed so far.                           *)
(****************************************************************************)
EXTENDS TeacherClient, FiniteSetTheorems, SequenceTheorems,
        WellFoundedInduction, TLAPS

PcType == pc \in [Samples -> Finished \cup {"start", "round", "post", "backoff"}]

\* The tasks that hold the semaphore are within the limit.
HoldersLimited == Limit > 0 => Cardinality(Holding) <= Limit

Inv == PcType /\ HoldersLimited

-----------------------------------------------------------------------------

\* The holders are among the samples, of which there are finitely many.
LEMMA HoldersFinite == IsFiniteSet(Holding) /\ Cardinality(Holding) \in Nat
<1>1. Holding \subseteq Samples
  BY DEF Holding
<1>2. IsFiniteSet(Holding)
  BY <1>1, FS_Subset, TeacherAssumption
<1> QED BY <1>2, FS_CardinalityType

\* Nobody holds the semaphore at first.
LEMMA InitInv == Init => Inv
<1> SUFFICES ASSUME Init PROVE Inv
  OBVIOUS
<1>1. PcType
  BY DEF Init, PcType
<1>2. Holding = {}
  BY DEF Init, Holding
<1> QED BY <1>1, <1>2, FS_EmptySet, TeacherAssumption DEF Inv, HoldersLimited

\* A step by which no task takes the semaphore.
LEMMA NoNewHolder ==
  ASSUME Inv, Holding' \subseteq Holding
  PROVE  HoldersLimited'
<1>1. Cardinality(Holding') <= Cardinality(Holding) /\ Cardinality(Holding') \in Nat
  BY HoldersFinite, FS_Subset, FS_CardinalityType
<1> QED BY <1>1, HoldersFinite, TeacherAssumption DEF Inv, HoldersLimited

\* A task that enters takes one of the permits that are left.
LEMMA EnterStep == ASSUME Inv, NEW s \in Samples, Enter(s) PROVE Inv'
<1>1. PcType'
  BY DEF Inv, PcType, Enter, Goto
<1>2. Holding' = Holding \cup {s} /\ s \notin Holding
  BY DEF Inv, PcType, Enter, Goto, Holding
<1>3. Cardinality(Holding') = Cardinality(Holding) + 1
  BY <1>2, HoldersFinite, FS_AddElement
<1>4. ASSUME Limit > 0 PROVE Cardinality(Holding') <= Limit
  BY <1>3, <1>4, HoldersFinite, TeacherAssumption DEF Enter
<1> QED BY <1>1, <1>4 DEF Inv, HoldersLimited

\* A task keeps the semaphore through its rounds and gives it up once.
LEMMA OtherTaskStep ==
  ASSUME Inv, NEW s \in Samples,
         \/ GradeEval(s) \/ BeginRound(s) \/ PostAnswered(s)
         \/ PostFailed(s) \/ Backoff(s)
  PROVE  Inv'
<1>1. PcType' /\ Holding' \subseteq Holding
  BY DEF Inv, PcType, GradeEval, BeginRound, PostAnswered, PostFailed, Backoff,
         Goto, Holding, Finished
<1> QED BY <1>1, NoNewHolder DEF Inv

\* Every step keeps the invariant.
LEMMA NextInv == Inv /\ [Next]_vars => Inv'
<1> SUFFICES ASSUME Inv, [Next]_vars PROVE Inv'
  OBVIOUS
<1>1. CASE UNCHANGED pc
  BY <1>1, NoNewHolder DEF Inv, PcType, Holding
<1>2. ASSUME NEW s \in Samples, Task(s) PROVE Inv'
  BY <1>2, EnterStep, OtherTaskStep DEF Task
<1> QED BY <1>1, <1>2 DEF Next, vars, EndpointChanges, Terminating

-----------------------------------------------------------------------------

\* OPD_TEACHER_MAX_CONCURRENCY bounds the requests in flight, whatever fails
\* and however often the tasks back off.
THEOREM LimitKept == Spec => []InFlightLimited
<1>1. Inv => InFlightLimited
  <2> SUFFICES ASSUME Inv, Limit > 0
               PROVE  Cardinality({s \in Samples : pc[s] = "post"}) <= Limit
    BY DEF InFlightLimited
  <2>1. {s \in Samples : pc[s] = "post"} \subseteq Holding
    BY DEF Holding
  <2>2. /\ Cardinality({s \in Samples : pc[s] = "post"}) <= Cardinality(Holding)
        /\ Cardinality({s \in Samples : pc[s] = "post"}) \in Nat
    BY <2>1, HoldersFinite, FS_Subset, FS_CardinalityType
  <2> QED BY <2>2, HoldersFinite, TeacherAssumption DEF Inv, HoldersLimited
<1> QED BY <1>1, InitInv, NextInv, PTL DEF Spec

-----------------------------------------------------------------------------
(* The endpoints of a sample.                                               *)

\* A set of numbers has a least one.
LEMMA Least ==
  ASSUME NEW T \in SUBSET Nat, T # {}
  PROVE  \E n \in T : \A m \in T : n <= m
<1>1. PICK R : IsWellFoundedOn(R, Nat) /\ \A x, y \in Nat : x < y => <<x, y>> \in R
  <2>1. IsWellFoundedOn(OpToRel(<, Nat), Nat)
    BY NatLessThanWellFounded
  <2>2. \A x, y \in Nat : x < y => <<x, y>> \in OpToRel(<, Nat)
    BY DEF OpToRel
  <2> QED BY <2>1, <2>2
<1>2. PICK n \in T : \A m \in T : ~ (<<m, n>> \in R)
  <2>1. T \subseteq Nat
    OBVIOUS
  <2>2. IsWellFoundedOn(R, Nat)
    BY <1>1
  <2> QED BY <2>1, <2>2, WFMin
<1>3. ASSUME NEW m \in T PROVE n <= m
  <2>1. m \in Nat /\ n \in Nat
    OBVIOUS
  <2>2. ~ (m < n)
    BY <1>1, <1>2, <2>1
  <2> QED BY <2>1, <2>2
<1> QED BY <1>3

\* Two members of a finite set of numbers are not exceeded by equally many.
LEMMA RankOnce ==
  ASSUME NEW S \in SUBSET Nat, IsFiniteSet(S), NEW i \in S, NEW j \in S,
         Cardinality({x \in S : x <= i}) = Cardinality({x \in S : x <= j})
  PROVE  i = j
<1> DEFINE Below(y) == {x \in S : x <= y}
<1>1. ASSUME NEW a \in S, NEW b \in S, a < b
      PROVE  Cardinality(Below(a)) # Cardinality(Below(b))
  <2>0. a \in Nat /\ b \in Nat
    OBVIOUS
  <2>1. Below(a) \in SUBSET Below(b) /\ b \in Below(b) /\ b \notin Below(a)
    <3>1. ASSUME NEW x \in S, x <= a PROVE x <= b
      <4>1. x \in Nat
        OBVIOUS
      <4> QED BY <1>1, <2>0, <3>1, <4>1
    <3>2. Below(a) \subseteq Below(b)
      BY <3>1
    <3>3. b \in Below(b) /\ b \notin Below(a)
      BY <1>1, <2>0
    <3> HIDE DEF Below
    <3> QED BY <3>2, <3>3
  <2>2. IsFiniteSet(Below(b)) /\ Below(a) # Below(b)
    BY <2>1, FS_Subset
  <2> HIDE DEF Below
  <2> QED BY <2>1, <2>2, FS_Subset
<1>2. ~ (i < j) /\ ~ (j < i)
  BY <1>1
<1> QED BY <1>2

\* In a finite set of numbers, for each k up to its size there is a member
\* that k members do not exceed: its members have different ranks, and there
\* are as many ranks as members.
LEMMA Ranks ==
  ASSUME NEW S \in SUBSET Nat, IsFiniteSet(S), NEW k \in 1..Cardinality(S)
  PROVE  \E i \in S : Cardinality({j \in S : j <= i}) = k
<1> DEFINE Below(i) == {j \in S : j <= i}
           rank == [i \in S |-> Cardinality(Below(i))]
<1>1. Cardinality(S) \in Nat
  BY FS_CardinalityType
<1>2. ASSUME NEW i \in S
      PROVE  /\ IsFiniteSet(Below(i)) /\ Cardinality(Below(i)) \in 1..Cardinality(S)
  <2>1. Below(i) \in SUBSET S /\ i \in Below(i)
    OBVIOUS
  <2>2. IsFiniteSet(Below(i)) /\ Cardinality(Below(i)) <= Cardinality(S)
    BY <2>1, FS_Subset
  <2>3. Cardinality(Below(i)) \in Nat /\ Cardinality(Below(i)) # 0
    BY <2>1, <2>2, FS_CardinalityType, FS_EmptySet
  <2> QED BY <1>1, <2>2, <2>3
<1>4. rank \in Injection(S, 1..Cardinality(S))
  <2>1. rank \in [S -> 1..Cardinality(S)]
    BY <1>2
  <2>2. ASSUME NEW i \in S, NEW j \in S, rank[i] = rank[j] PROVE i = j
    BY <2>2, RankOnce
  <2> QED BY <2>1, <2>2 DEF Injection, IsInjective
<1>5. IsFiniteSet(1..Cardinality(S)) /\ Cardinality(1..Cardinality(S)) = Cardinality(S)
  BY <1>1, FS_Interval
<1>6. rank \in Surjection(S, 1..Cardinality(S))
  BY <1>4, <1>5, FS_Injection
<1> QED BY <1>6 DEF Surjection

\* What is listed is a sequence of endpoints and of variables that are unset.
LEMMA ListedType ==
  ASSUME env \in Environments, NEW s \in Samples
  PROVE  Listed(s) \in Seq(Endpoints \cup {NoUrl})
<1>1. env \in Environment /\ Route(s) \in Routes
  BY EnvironmentsAssumption DEF Route, Routes
<1>2. Primary(Route(s)) \in Endpoints \cup {NoUrl}
  BY <1>1 DEF Environment, Primary
<1>3. env.backups[Route(s)] \in Seq(Endpoints \cup {NoUrl})
  BY <1>1, SeqMonotonic DEF Environment
<1> QED BY <1>2, <1>3 DEF Listed

Candidates(s) == ToSet(Listed(s)) \ {NoUrl}

\* CandidateUrls gives each endpoint of the sample and no other.
LEMMA RoutesRight ==
  ASSUME env \in Environments, NEW s \in Samples
  PROVE  /\ CandidateUrls(s) \in Seq(Endpoints)
         /\ ToSet(CandidateUrls(s)) = Candidates(s)
<1> DEFINE L == Listed(s)
           F == FirstPlaces(s)
           at(k) == CHOOSE i \in F : Cardinality({j \in F : j <= i}) = k
           C == CandidateUrls(s)
<1>1. L \in Seq(Endpoints \cup {NoUrl}) /\ Len(L) \in Nat /\ DOMAIN L = 1..Len(L)
  BY ListedType
<1>2. F \in SUBSET Nat /\ F \subseteq 1..Len(L)
  BY <1>1 DEF FirstPlaces
<1>3. IsFiniteSet(F) /\ Cardinality(F) \in Nat
  <2>1. IsFiniteSet(1..Len(L))
    BY <1>1, FS_Interval
  <2>2. IsFiniteSet(F)
    BY <1>2, <2>1, FS_Subset
  <2> QED BY <2>2, FS_CardinalityType
<1>4. \A i \in F : L[i] \in Candidates(s) /\ L[i] \in Endpoints
  BY <1>1 DEF FirstPlaces, Candidates, ToSet
<1>5. ASSUME NEW k \in 1..Cardinality(F) PROVE at(k) \in F
  BY <1>2, <1>3, Ranks
<1>6. C = [k \in 1..Cardinality(F) |-> L[at(k)]]
  BY DEF CandidateUrls
<1>7. C \in Seq(Endpoints) /\ DOMAIN C = 1..Cardinality(F)
  <2> HIDE DEF C, at, L, F
  <2>1. C \in [1..Cardinality(F) -> Endpoints]
    BY <1>4, <1>5, <1>6
  <2> QED BY <1>3, <2>1, SeqDef
<1>8. ToSet(C) \subseteq Candidates(s)
  <2> SUFFICES ASSUME NEW k \in DOMAIN C PROVE C[k] \in Candidates(s)
    BY DEF ToSet
  <2> HIDE DEF C, at, L, F
  <2> QED BY <1>4, <1>5, <1>6, <1>7
<1>9. ASSUME NEW u \in Candidates(s) PROVE u \in ToSet(C)
  <2> DEFINE T == {i \in DOMAIN L : L[i] = u}
  <2>1. T \in SUBSET Nat /\ T # {} /\ u # NoUrl
    BY <1>1 DEF Candidates, ToSet
  <2>2. PICK i \in T : \A j \in T : i <= j
    BY <2>1, Least
  <2>3. i \in F
    <3>1. i \in 1..Len(L) /\ L[i] = u
      BY <1>1, <2>2
    <3>2. ASSUME NEW j \in 1..(i - 1) PROVE L[j] # L[i]
      BY <1>1, <2>2, <3>1
    <3> QED BY <1>1, <2>1, <3>1, <3>2 DEF FirstPlaces
  <2> DEFINE r(x) == Cardinality({j \in F : j <= x})
  <2>4. r(i) \in 1..Cardinality(F)
    <3>1. {j \in F : j <= i} \in SUBSET F /\ i \in {j \in F : j <= i}
      BY <1>2, <2>3
    <3>2. /\ IsFiniteSet({j \in F : j <= i})
          /\ Cardinality({j \in F : j <= i}) <= Cardinality(F)
      BY <1>3, <3>1, FS_Subset
    <3>3. Cardinality({j \in F : j <= i}) \in Nat /\ Cardinality({j \in F : j <= i}) # 0
      BY <3>1, <3>2, FS_CardinalityType, FS_EmptySet
    <3> QED BY <1>3, <3>2, <3>3
  <2>5. at(r(i)) \in F /\ r(at(r(i))) = r(i)
    BY <1>2, <1>3, <2>4, Ranks
  <2>6. at(r(i)) = i
    BY <1>2, <1>3, <2>3, <2>5, RankOnce
  <2>7. r(i) \in DOMAIN C /\ C[r(i)] = u
    <3> HIDE DEF C, at, F, r
    <3> QED BY <1>6, <1>7, <2>2, <2>4, <2>6
  <2> HIDE DEF C, r
  <2> QED BY <2>7 DEF ToSet
<1> QED BY <1>7, <1>8, <1>9

-----------------------------------------------------------------------------
(* What has failed so far.                                                  *)

Rounds(s, n) == (0..(n - 1)) \X Candidates(s)

\* The endpoints that have failed s in its round, and all of the rounds before.
SoFar(s) ==
  Rounds(s, round[s]) \cup {<<round[s], urls[s][j]>> : j \in 1..(next[s] - 1)}

LoopTypes ==
  /\ env \in Environments
  /\ PcType
  /\ urls \in [Samples -> Seq(Endpoints)]
  /\ round \in [Samples -> 0..Attempts]
  /\ next \in [Samples -> Nat \ {0}]
  /\ health \in [Endpoints -> BOOLEAN]
  /\ failed \in [Samples -> SUBSET (Nat \X Endpoints)]

\* A round is over when all the endpoints have failed in it.
Progress(s) ==
  /\ pc[s] = "start" => round[s] = 0 /\ failed[s] = {}
  /\ pc[s] \in {"round", "post", "backoff"} => ToSet(urls[s]) = Candidates(s)
  /\ pc[s] = "round" => failed[s] = Rounds(s, round[s])
  /\ pc[s] = "post" => /\ round[s] < Attempts
                       /\ next[s] \in 1..Len(urls[s])
                       /\ failed[s] = SoFar(s)
  /\ pc[s] = "backoff" => /\ round[s] < Attempts
                          /\ failed[s] = Rounds(s, round[s] + 1)
  /\ pc[s] = "raised" => failed[s] = Rounds(s, Attempts)

LoopInv == LoopTypes /\ \A s \in Samples : Progress(s)

\* The environment does not change, and so neither does what is configured.
LEMMA SameCandidates ==
  ASSUME env' = env, NEW s \in Samples
  PROVE  Candidates(s)' = Candidates(s) /\ CandidateUrls(s)' = CandidateUrls(s)
  BY DEF Candidates, CandidateUrls, FirstPlaces, Listed, Primary, Route

\* The samples that a step does not touch are where they were.
LEMMA Untouched ==
  ASSUME env' = env, NEW s \in Samples, Progress(s), pc'[s] = pc[s],
         urls'[s] = urls[s], round'[s] = round[s], next'[s] = next[s],
         failed'[s] = failed[s]
  PROVE  Progress(s)'
  BY SameCandidates DEF Progress, Rounds, SoFar

\* The rounds up to one, and that one.
LEMMA OneMoreRound ==
  ASSUME NEW s, NEW n \in Nat
  PROVE  Rounds(s, n + 1) = Rounds(s, n) \cup {<<n, u>> : u \in Candidates(s)}
<1>1. 0..(n + 1 - 1) = 0..(n - 1) \cup {n}
  OBVIOUS
<1> QED BY <1>1 DEF Rounds

\* The rounds before the first.
LEMMA NoRound == ASSUME NEW s PROVE Rounds(s, 0) = {}
<1>1. 0..(0 - 1) = {}
  OBVIOUS
<1> QED BY <1>1 DEF Rounds

\* What a failure adds: one more endpoint of the round, or the last one.
LEMMA OneMoreFailure ==
  ASSUME LoopInv, NEW s \in Samples, pc[s] = "post"
  PROVE  /\ urls[s][next[s]] \in Endpoints
         /\ SoFar(s) \cup {<<round[s], urls[s][next[s]]>>} =
              Rounds(s, round[s]) \cup {<<round[s], urls[s][j]>> : j \in 1..next[s]}
         /\ next[s] = Len(urls[s]) =>
              SoFar(s) \cup {<<round[s], urls[s][next[s]]>>} = Rounds(s, round[s] + 1)
<1>1. /\ urls[s] \in Seq(Endpoints) /\ next[s] \in 1..Len(urls[s])
      /\ round[s] \in Nat /\ ToSet(urls[s]) = Candidates(s)
  BY TeacherAssumption DEF LoopInv, LoopTypes, Progress
<1>2. 1..next[s] = 1..(next[s] - 1) \cup {next[s]}
  BY <1>1
<1>3. SoFar(s) \cup {<<round[s], urls[s][next[s]]>>} =
        Rounds(s, round[s]) \cup {<<round[s], urls[s][j]>> : j \in 1..next[s]}
  BY <1>2 DEF SoFar
<1>4. ASSUME next[s] = Len(urls[s])
      PROVE  {<<round[s], urls[s][j]>> : j \in 1..next[s]}
               = {<<round[s], u>> : u \in Candidates(s)}
  <2>1. DOMAIN urls[s] = 1..next[s]
    BY <1>1, <1>4
  <2> QED BY <1>1, <2>1 DEF ToSet
<1> QED BY <1>1, <1>3, <1>4, OneMoreRound

\* The task of s moves on: its own place is right and no other is touched.
LEMMA TaskStep ==
  ASSUME LoopInv, env' = env, NEW s \in Samples, Task(s)
  PROVE  LoopInv'
<1> DEFINE Same(r) == /\ pc'[r] = pc[r] /\ urls'[r] = urls[r]
                      /\ round'[r] = round[r] /\ next'[r] = next[r]
                      /\ failed'[r] = failed[r]
<1> USE DEF Goto
<1>1. \A r \in Samples : Candidates(r)' = Candidates(r)
  BY SameCandidates
<1>2. SUFFICES /\ LoopTypes' /\ Progress(s)'
               /\ \A r \in Samples : r # s => Same(r)
  BY Untouched DEF LoopInv
<1>3. /\ LoopTypes /\ Progress(s) /\ round[s] \in Nat /\ Attempts \in Nat
      /\ pc \in [Samples -> Finished \cup {"start", "round", "post", "backoff"}]
  BY TeacherAssumption DEF LoopInv, LoopTypes, PcType
<1>4. CASE GradeEval(s)
  <2>1. LoopTypes' /\ \A r \in Samples : r # s => Same(r)
    BY <1>3, <1>4 DEF GradeEval, LoopTypes, PcType, Finished
  <2>2. Progress(s)'
    BY <1>3, <1>4 DEF GradeEval, Progress
  <2> QED BY <2>1, <2>2
<1>5. CASE Enter(s)
  <2>1. CandidateUrls(s) \in Seq(Endpoints) /\ ToSet(CandidateUrls(s)) = Candidates(s)
    BY <1>3, RoutesRight DEF LoopTypes
  <2>2. LoopTypes' /\ \A r \in Samples : r # s => Same(r)
    BY <1>3, <1>5, <2>1 DEF Enter, LoopTypes, PcType
  <2>3. /\ pc'[s] = "round" /\ urls'[s] = CandidateUrls(s)
        /\ round'[s] = 0 /\ failed'[s] = {}
    BY <1>3, <1>5 DEF Enter, LoopTypes, Progress
  <2>4. Rounds(s, round[s])' = {}
    BY <1>1, <2>3, NoRound DEF Rounds
  <2>5. Progress(s)'
    BY <1>1, <2>1, <2>3, <2>4 DEF Progress
  <2> QED BY <2>2, <2>5
<1>6. CASE BeginRound(s)
  <2>0. /\ \E to \in {"post", "backoff", "raised"} : pc' = [pc EXCEPT ![s] = to]
        /\ next' = [next EXCEPT ![s] = 1]
        /\ UNCHANGED <<urls, round, health, failed>>
    BY <1>6 DEF BeginRound
  <2>1. LoopTypes' /\ \A r \in Samples : r # s => Same(r)
    <3>1. PcType'
      BY <1>3, <2>0 DEF PcType, Finished
    <3>2. next' \in [Samples -> Nat \ {0}]
      BY <1>3, <2>0 DEF LoopTypes
    <3>3. \A r \in Samples : r # s => Same(r)
      BY <1>3, <2>0 DEF LoopTypes
    <3> QED BY <1>3, <2>0, <3>1, <3>2, <3>3 DEF LoopTypes
  <2>2. /\ pc[s] = "round" /\ next'[s] = 1 /\ round'[s] = round[s]
        /\ urls'[s] = urls[s] /\ failed'[s] = Rounds(s, round[s])
        /\ ToSet(urls[s]) = Candidates(s)
    BY <1>3, <1>6 DEF BeginRound, LoopTypes, Progress
  <2>3. Rounds(s, round[s])' = Rounds(s, round[s])
    BY <1>1, <2>2 DEF Rounds
  <2>4. CASE pc'[s] = "post" /\ round[s] < Attempts /\ urls[s] # <<>>
    <3>1. next'[s] \in 1..Len(urls'[s])
      BY <2>2, <2>4, <1>3 DEF LoopTypes
    <3>2. 1..(next'[s] - 1) = {}
      BY <2>2
    <3>3. SoFar(s)' = failed'[s]
      BY <2>2, <2>3, <3>2 DEF SoFar
    <3> QED BY <1>1, <2>1, <2>2, <2>4, <3>1, <3>3 DEF Progress
  <2>5. CASE pc'[s] = "backoff" /\ round[s] < Attempts /\ urls[s] = <<>>
    <3>1. Candidates(s) = {}
      BY <2>2, <2>5 DEF ToSet
    <3>2. Rounds(s, round[s] + 1)' = Rounds(s, round[s])
      BY <1>1, <3>1 DEF Rounds
    <3> QED BY <1>1, <2>1, <2>2, <2>5, <3>2 DEF Progress
  <2>6. CASE pc'[s] = "raised" /\ round[s] >= Attempts
    <3>1. round[s] = Attempts
      BY <1>3, <2>6 DEF LoopTypes
    <3> QED BY <1>1, <2>1, <2>2, <2>3, <2>6, <3>1 DEF Progress, Rounds
  <2> QED BY <1>3, <1>6, <2>4, <2>5, <2>6 DEF BeginRound
<1>7. CASE PostAnswered(s)
  <2>1. LoopTypes' /\ \A r \in Samples : r # s => Same(r)
    BY <1>3, <1>7 DEF PostAnswered, LoopTypes, PcType, Finished
  <2>2. Progress(s)'
    BY <1>3, <1>7 DEF PostAnswered, Progress
  <2> QED BY <2>1, <2>2
<1>8. CASE PostFailed(s)
  <2>1. /\ pc[s] = "post" /\ round' = round /\ urls' = urls
        /\ failed[s] = SoFar(s) /\ ToSet(urls[s]) = Candidates(s)
        /\ failed' = [failed EXCEPT ![s] = SoFar(s) \cup {<<round[s], urls[s][next[s]]>>}]
        /\ next[s] \in 1..Len(urls[s]) /\ round[s] < Attempts
    BY <1>3, <1>8 DEF PostFailed, Progress, LoopTypes
  <2>2. urls[s][next[s]] \in Endpoints
    BY <2>1, OneMoreFailure
  <2>3. failed'[s] = SoFar(s) \cup {<<round[s], urls[s][next[s]]>>}
    BY <1>3, <2>1 DEF LoopTypes
  <2>4. failed' \in [Samples -> SUBSET (Nat \X Endpoints)]
    <3>1. SoFar(s) \in SUBSET (Nat \X Endpoints)
      BY <1>3, <2>1 DEF LoopTypes
    <3> QED BY <1>3, <2>1, <2>2, <3>1 DEF LoopTypes
  <2>5. /\ pc' \in [Samples -> Finished \cup {"start", "round", "post", "backoff"}]
        /\ next' \in [Samples -> Nat \ {0}]
    <3>1. \/ pc' = pc /\ next' = [next EXCEPT ![s] = @ + 1]
          \/ pc' = [pc EXCEPT ![s] = "backoff"] /\ next' = next
      BY <1>8 DEF PostFailed
    <3>2. next \in [Samples -> Nat \ {0}]
      BY <1>3 DEF LoopTypes
    <3>3. next[s] + 1 \in Nat \ {0}
      BY <3>2
    <3> QED BY <1>3, <3>1, <3>2, <3>3
  <2>6. LoopTypes' /\ \A r \in Samples : r # s => Same(r)
    BY <1>3, <1>8, <2>1, <2>4, <2>5 DEF PostFailed, LoopTypes, PcType
  <2>7. CASE next[s] < Len(urls[s]) /\ next' = [next EXCEPT ![s] = @ + 1] /\ pc' = pc
    <3>1. next'[s] = next[s] + 1 /\ next'[s] - 1 = next[s] /\ next'[s] \in 1..Len(urls'[s])
      BY <1>3, <2>1, <2>7 DEF LoopTypes
    <3>2. Rounds(s, round[s])' = Rounds(s, round[s])
      BY <1>1, <2>1 DEF Rounds
    <3>3. SoFar(s)' = failed'[s]
      BY <2>1, <2>3, <3>1, <3>2, OneMoreFailure DEF SoFar
    <3> QED BY <1>1, <2>1, <2>6, <2>7, <3>1, <3>3 DEF Progress
  <2>8. CASE next[s] = Len(urls[s]) /\ pc' = [pc EXCEPT ![s] = "backoff"]
    <3>1. failed'[s] = Rounds(s, round[s] + 1)
      BY <2>1, <2>3, <2>8, OneMoreFailure
    <3>2. Rounds(s, round[s] + 1)' = Rounds(s, round[s] + 1)
      BY <1>1, <2>1 DEF Rounds
    <3> QED BY <1>1, <1>3, <2>1, <2>6, <2>8, <3>1, <3>2 DEF Progress
  <2> QED BY <1>8, <2>7, <2>8 DEF PostFailed
<1>9. CASE Backoff(s)
  <2>1. /\ pc[s] = "backoff" /\ pc'[s] = "round" /\ round'[s] = round[s] + 1
        /\ round[s] < Attempts /\ urls'[s] = urls[s]
        /\ failed'[s] = Rounds(s, round[s] + 1) /\ ToSet(urls[s]) = Candidates(s)
    BY <1>3, <1>9 DEF Backoff, LoopTypes, Progress
  <2>2. LoopTypes' /\ \A r \in Samples : r # s => Same(r)
    BY <1>3, <1>9, <2>1 DEF Backoff, LoopTypes, PcType
  <2>3. Rounds(s, round[s])' = Rounds(s, round[s] + 1)
    BY <1>1, <2>1 DEF Rounds
  <2> QED BY <1>1, <2>1, <2>2, <2>3 DEF Progress
<1> QED BY <1>4, <1>5, <1>6, <1>7, <1>8, <1>9 DEF Task

LEMMA NextLoop == LoopInv /\ [Next]_vars => LoopInv'
<1> SUFFICES ASSUME LoopInv, [Next]_vars PROVE LoopInv'
  OBVIOUS
<1>1. env' = env
  BY DEF Next, vars
<1>2. ASSUME UNCHANGED <<pc, urls, round, next, failed>>, health' \in [Endpoints -> BOOLEAN]
      PROVE  LoopInv'
  <2>1. LoopTypes'
    BY <1>1, <1>2 DEF LoopInv, LoopTypes, PcType
  <2>2. \A s \in Samples : Progress(s)'
    BY <1>1, <1>2, Untouched DEF LoopInv
  <2> QED BY <2>1, <2>2 DEF LoopInv
<1>3. CASE EndpointChanges
  <2>1. health' \in [Endpoints -> BOOLEAN]
    BY <1>3 DEF EndpointChanges, LoopInv, LoopTypes
  <2> QED BY <1>2, <1>3, <2>1 DEF EndpointChanges
<1>4. CASE Terminating \/ UNCHANGED vars
  BY <1>2, <1>4 DEF Terminating, vars, LoopInv, LoopTypes
<1>5. ASSUME NEW s \in Samples, Task(s) PROVE LoopInv'
  BY <1>1, <1>5, TaskStep
<1> QED BY <1>3, <1>4, <1>5 DEF Next

LEMMA LoopInvariance == Spec => []LoopInv
<1>1. Init => LoopInv
  BY TeacherAssumption DEF Init, LoopInv, LoopTypes, Progress, PcType
<1> QED BY <1>1, NextLoop, PTL DEF Spec

\* reward_func raises only when every endpoint that is configured for the
\* domain of the sample has failed it in every round.
THEOREM RaisesLast == Spec => []RaisesOnlyIfUnreachable
<1>1. LoopInv => RaisesOnlyIfUnreachable
  BY DEF LoopInv, Progress, Rounds, Candidates, RaisesOnlyIfUnreachable
<1> QED BY <1>1, LoopInvariance, PTL

\* All variables keep their types; in particular no task begins a round more
\* than there are.
THEOREM TypeCorrect == Spec => []TypeOK
<1>1. LoopInv => TypeOK
  BY DEF LoopInv, LoopTypes, PcType, TypeOK
<1> QED BY <1>1, LoopInvariance, PTL
=============================================================================
