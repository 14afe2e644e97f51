------------------------- MODULE RewardClient_proofs --------------------------
(****************************************************************************)
(* For every size of the batch, every concurrency, every number of retries, *)
(* every threshold and every cooldown: no update of the failure counter is  *)
(* lost, the success path that leaves the breaker alone without its lock    *)
(* was right to, and the threads share one session.                         *)
(*                                                                          *)
(* The invariant says who may be inside the lock and what a thread inside   *)
(* knows; a thread between its two unlocked reads either saw a clean        *)
(* breaker or will not read Closed.  A second one does the same for the     *)
(* session, and a third bounds the attempts of a call.                      *)
(****************************************************************************)
EXTENDS RewardClient, TLAPS

Inside == {"okReset", "okRelease", "failRead", "failWrite", "failTrip"}

PcType == pc \in [Samples -> Locations]
CountersType == /\ failures \in 0..Threshold
                /\ streak \in 0..Threshold
                /\ readFailures \in [Samples -> 0..Threshold]
                /\ openUntil \in Closed..Cooldown

\* The breaker's lock keeps all but its owner out.
LockHeld == \A s \in Samples : pc[s] \in Inside => breakerLock = s

\* What the owner of the lock knows of the globals.
OwnerKnows ==
  \A s \in Samples :
    /\ pc[s] = "failWrite" => readFailures[s] = failures
    /\ pc[s] = "okRelease" => failures = 0

\* Between its two reads, a thread saw a clean breaker or has yet to see it.
ReadsCover ==
  \A s \in Samples :
    pc[s] = "okOpen" => clean[s] = TRUE \/ openUntil # Closed

Inv == /\ PcType
       /\ CountersType
       /\ LockHeld
       /\ OwnerKnows
       /\ FailuresCounted
       /\ ReadsCover

-----------------------------------------------------------------------------

\* The counter stays in its range.
LEMMA CappedType == ASSUME NEW n \in Nat PROVE Capped(n) \in 0..Threshold
  BY ClientAssumption DEF Capped

\* The initial state satisfies the invariant.
LEMMA InitInv == Init => Inv
  BY ClientAssumption
  DEF Init, Inv, PcType, CountersType, LockHeld, OwnerKnows, FailuresCounted,
      ReadsCover, Locations, Inside, Closed, NoThread, Samples

\* Steps that leave the breaker alone and move one thread outside its lock,
\* elsewhere than between its two reads.
LEMMA OutsideStep ==
  ASSUME Inv, NEW s \in Samples, NEW from, NEW to,
         Goto(s, from, to), from \notin Inside,
         to \in Locations \ (Inside \cup {"okOpen"}),
         UNCHANGED breaker, Observe
  PROVE  Inv'
<1>1. PcType'
  BY DEF Inv, PcType, Goto
<1>2. \A r \in Samples : pc'[r] = IF r = s THEN to ELSE pc[r]
  BY DEF Inv, PcType, Goto
<1>3. CountersType' /\ FailuresCounted'
  BY DEF Inv, CountersType, FailuresCounted, breaker
<1>4. LockHeld' /\ OwnerKnows'
  BY <1>2 DEF Inv, LockHeld, OwnerKnows, breaker, Inside
<1>5. ReadsCover'
  <2> SUFFICES ASSUME NEW r \in Samples, pc'[r] = "okOpen"
               PROVE  clean'[r] = TRUE \/ openUntil' # Closed
    BY DEF ReadsCover
  <2>1. r # s /\ pc[r] = "okOpen"
    BY <1>2
  <2>2. clean'[r] = (clean[r] \/ IsClean')
    BY DEF Observe, Recording
  <2> QED BY <2>1, <2>2 DEF Inv, ReadsCover, breaker
<1> QED BY <1>1, <1>3, <1>4, <1>5 DEF Inv

\* A step that moves no thread and leaves the breaker alone.
LEMMA OtherStep ==
  ASSUME Inv, pc' = pc, UNCHANGED breaker, Observe
  PROVE  Inv'
<1>1. PcType' /\ CountersType' /\ LockHeld' /\ OwnerKnows' /\ FailuresCounted'
  BY DEF Inv, PcType, CountersType, LockHeld, OwnerKnows, FailuresCounted,
         breaker
<1>2. ASSUME NEW r \in Samples, pc[r] = "okOpen"
      PROVE  clean'[r] = TRUE \/ openUntil' # Closed
  <2>1. clean'[r] = (clean[r] \/ IsClean')
    BY <1>2 DEF Observe, Recording
  <2> QED BY <1>2, <2>1 DEF Inv, ReadsCover, breaker
<1> QED BY <1>1, <1>2 DEF Inv, ReadsCover

\* What a step that touches the breaker has to show of ReadsCover: it does
\* not close a breaker unless that leaves it clean.
LEMMA CoverStep ==
  ASSUME Inv, NEW s \in Samples, NEW from, NEW to, Goto(s, from, to),
         to # "okOpen", Observe,
         openUntil' = Closed => openUntil = Closed \/ failures' = 0
  PROVE  ReadsCover'
<1> SUFFICES ASSUME NEW r \in Samples, pc'[r] = "okOpen"
             PROVE  clean'[r] = TRUE \/ openUntil' # Closed
  BY DEF ReadsCover
<1>1. pc[r] = "okOpen"
  BY DEF Inv, PcType, Goto
<1>2. clean'[r] = (clean[r] \/ (failures' = 0 /\ openUntil' = Closed))
  BY DEF Observe, Recording, IsClean
<1> QED BY <1>1, <1>2 DEF Inv, ReadsCover

\* The steps of a thread that leave the breaker as it is.
LEMMA CallStep ==
  ASSUME Inv, NEW s \in Samples, Observe,
         \/ Enter(s) \/ Check(s) \/ GetSession(s) \/ LockSession(s)
         \/ LookAgain(s) \/ MakeSession(s) \/ GoodAnswer(s) \/ ClientError(s) \/ Fault(s)
         \/ Backoff(s)
  PROVE  Inv'
<1> DEFINE Moves(from, to) == Goto(s, from, to) /\ UNCHANGED breaker
<1>1. \/ Moves("queued", "check") \/ Moves("check", "done")
      \/ Moves("check", "session") \/ Moves("session", "post")
      \/ Moves("session", "sessionLock") \/ Moves("sessionLock", "sessionLook")
      \/ Moves("sessionLook", "post") \/ Moves("sessionLook", "sessionMake")
      \/ Moves("sessionMake", "post") \/ Moves("post", "okFailures")
      \/ Moves("post", "done") \/ Moves("post", "backoff")
      \/ Moves("post", "failLock") \/ Moves("backoff", "post")
  BY DEF Enter, Check, GetSession, LockSession, LookAgain, MakeSession,
         GoodAnswer, ClientError, Fault, Backoff, Return
<1> QED BY <1>1, OutsideStep DEF Inside, Locations

\* The first read: a breaker it finds at 0 failures is clean or will not be
\* read Closed before it is.
LEMMA OkReadFailuresStep ==
  ASSUME Inv, NEW s \in Samples, OkReadFailures(s), Observe
  PROVE  Inv'
<1>1. CASE Goto(s, "okFailures", "okLock")
  BY <1>1, OutsideStep DEF OkReadFailures, Inside, Locations
<1>2. CASE failures = 0 /\ Goto(s, "okFailures", "okOpen")
  <2>1. PcType' /\ CountersType' /\ LockHeld' /\ OwnerKnows' /\ FailuresCounted'
    BY <1>2 DEF OkReadFailures, Goto, Inv, PcType, CountersType, LockHeld,
                OwnerKnows, FailuresCounted, breaker, Inside, Locations
  <2>2. ASSUME NEW r \in Samples, pc'[r] = "okOpen"
        PROVE  clean'[r] = TRUE \/ openUntil' # Closed
    <3>1. clean'[r] = (clean[r] \/ (failures' = 0 /\ openUntil' = Closed))
      BY <2>2 DEF Observe, Recording, IsClean
    <3> QED BY <1>2, <3>1 DEF OkReadFailures, breaker
  <2> QED BY <2>1, <2>2 DEF Inv, ReadsCover
<1> QED BY <1>1, <1>2 DEF OkReadFailures

\* The second read leaves the breaker alone.
LEMMA OkReadOpenStep ==
  ASSUME Inv, NEW s \in Samples, OkReadOpen(s), Observe
  PROVE  Inv'
<1>1. \/ Goto(s, "okOpen", "done") \/ Goto(s, "okOpen", "okLock")
  BY DEF OkReadOpen, Return
<1> QED BY <1>1, OutsideStep DEF OkReadOpen, Inside, Locations

\* Taking the lock: it was free, so that nobody was inside.
LEMMA LockStep ==
  ASSUME Inv, NEW s \in Samples, OkLock(s) \/ FailLock(s), Observe
  PROVE  Inv'
<1>1. PICK from \in {"okLock", "failLock"}, to \in {"okReset", "failRead"} :
        Goto(s, from, to)
  BY DEF OkLock, FailLock
<1>2. UNCHANGED <<failures, openUntil, readFailures, streak>>
  BY DEF OkLock, FailLock
<1>3. breakerLock = NoThread /\ breakerLock' = s
  BY DEF OkLock, FailLock, AcquireBreaker
<1>4. \A r \in Samples : pc[r] \notin Inside
  BY <1>3 DEF Inv, LockHeld, NoThread, Samples
<1>5. PcType' /\ CountersType' /\ FailuresCounted'
  BY <1>1, <1>2 DEF Inv, PcType, CountersType, FailuresCounted, Goto, Locations
<1>6. LockHeld' /\ OwnerKnows'
  BY <1>1, <1>2, <1>3, <1>4 DEF Inv, PcType, LockHeld, OwnerKnows, Goto, Inside
<1>7. ReadsCover'
  BY <1>1, <1>2, CoverStep
<1> QED BY <1>5, <1>6, <1>7 DEF Inv

\* What the owner of the lock does inside it, and leaving it.
LEMMA InsideStep ==
  ASSUME Inv, NEW s \in Samples, Observe,
         \/ OkResetFailures(s) \/ OkResetOpen(s) \/ FailRead(s)
         \/ FailWrite(s) \/ FailTrip(s)
  PROVE  Inv'
<1> USE DEF Inv, Inside
<1>1. \A r \in Samples : r # s => pc[r] \notin Inside
  BY DEF LockHeld, OkResetFailures, OkResetOpen, FailRead, FailWrite, FailTrip,
         Goto, Return
<1>2. CASE OkResetFailures(s)
  <2>1. PcType' /\ CountersType' /\ FailuresCounted' /\ LockHeld' /\ OwnerKnows'
    BY <1>1, <1>2, ClientAssumption
    DEF OkResetFailures, Goto, PcType, CountersType, FailuresCounted, LockHeld,
        OwnerKnows, Locations
  <2>2. ReadsCover'
    BY <1>2, CoverStep DEF OkResetFailures
  <2> QED BY <2>1, <2>2
<1>3. CASE OkResetOpen(s)
  <2>1. PcType' /\ CountersType' /\ FailuresCounted' /\ LockHeld' /\ OwnerKnows'
    BY <1>1, <1>3, ClientAssumption
    DEF OkResetOpen, Goto, Return, PcType, CountersType, FailuresCounted,
        LockHeld, OwnerKnows, Locations, Closed
  <2>2. failures' = 0 /\ Goto(s, "okRelease", "done")
    BY <1>3 DEF OkResetOpen, Return, Goto, OwnerKnows
  <2>3. ReadsCover'
    BY <1>3, <2>2, CoverStep
  <2> QED BY <2>1, <2>3
<1>4. CASE FailRead(s)
  <2>1. PcType' /\ CountersType' /\ FailuresCounted' /\ LockHeld' /\ OwnerKnows'
    BY <1>1, <1>4
    DEF FailRead, Goto, PcType, CountersType, FailuresCounted, LockHeld,
        OwnerKnows, Locations
  <2>2. ReadsCover'
    BY <1>4, CoverStep DEF FailRead
  <2> QED BY <2>1, <2>2
<1>5. CASE FailWrite(s)
  <2>1. readFailures[s] = failures /\ failures = streak /\ streak \in Nat
    BY <1>5, ClientAssumption
    DEF FailWrite, Goto, OwnerKnows, FailuresCounted, CountersType
  <2>2. failures' = Capped(streak + 1) /\ streak' = Capped(streak + 1)
    BY <1>5, <2>1 DEF FailWrite
  <2>3. Capped(streak + 1) \in 0..Threshold
    BY <2>1, CappedType
  <2>4. CountersType' /\ FailuresCounted'
    BY <1>5, <2>2, <2>3, ClientAssumption
    DEF FailWrite, CountersType, FailuresCounted
  <2>5. PcType' /\ LockHeld' /\ OwnerKnows'
    BY <1>1, <1>5 DEF FailWrite, Goto, PcType, LockHeld, OwnerKnows, Locations
  <2>6. ReadsCover'
    BY <1>5, CoverStep DEF FailWrite
  <2> QED BY <2>4, <2>5, <2>6
<1>6. CASE FailTrip(s)
  <2>1. openUntil' \in Closed..Cooldown /\ (openUntil' = Closed => openUntil = Closed)
    BY <1>6, ClientAssumption DEF FailTrip, CountersType, Closed
  <2>2. PcType' /\ CountersType' /\ FailuresCounted' /\ LockHeld' /\ OwnerKnows'
    BY <1>1, <1>6, <2>1
    DEF FailTrip, Goto, Return, PcType, CountersType, FailuresCounted, LockHeld,
        OwnerKnows, Locations
  <2>3. ReadsCover'
    BY <1>6, <2>1, CoverStep DEF FailTrip, Return
  <2> QED BY <2>2, <2>3
<1> QED BY <1>2, <1>3, <1>4, <1>5, <1>6

\* A new batch: all threads are done.
LEMMA NextBatchStep == ASSUME Inv, NextBatch, Observe PROVE Inv'
  BY DEF NextBatch, Inv, PcType, CountersType, LockHeld, OwnerKnows,
         FailuresCounted, ReadsCover, breaker, Inside, Locations

\* Time never brings the breaker back to its initial value.
LEMMA TickStep == ASSUME Inv, Tick, Observe PROVE Inv'
<1>1. openUntil' \in Closed..Cooldown /\ openUntil' # Closed
  BY ClientAssumption DEF Tick, Inv, CountersType, Closed
<1> QED
  BY <1>1 DEF Tick, Inv, PcType, CountersType, LockHeld, OwnerKnows,
              FailuresCounted, ReadsCover, calls

\* Every step keeps the invariant.
LEMMA NextInv == Inv /\ [Next]_vars => Inv'
<1> SUFFICES ASSUME Inv, [Next]_vars PROVE Inv'
  OBVIOUS
<1>1. CASE UNCHANGED vars
  BY <1>1 DEF vars, calls, breaker, Inv, PcType, CountersType, LockHeld,
              OwnerKnows, FailuresCounted, ReadsCover, IsClean
<1>2. CASE Next
  <2>1. Observe
    BY <1>2 DEF Next
  <2>2. ASSUME NEW s \in Samples, Enter(s) \/ Thread(s) PROVE Inv'
    BY <2>1, <2>2, CallStep, OkReadFailuresStep, OkReadOpenStep, LockStep,
       InsideStep DEF Thread
  <2>3. CASE ServiceChanges
    BY <2>1, <2>3, OtherStep DEF ServiceChanges, calls
  <2> QED BY <1>2, <2>1, <2>2, <2>3, NextBatchStep, TickStep DEF Next
<1> QED BY <1>1, <1>2

LEMMA Invariance == Spec => []Inv
  BY InitInv, NextInv, PTL DEF Spec

-----------------------------------------------------------------------------

\* No update of _cb_failures is lost: it holds the failures recorded since the
\* last success, whatever the threads interleave.
THEOREM CountKept == Spec => []FailuresCounted
<1>1. Inv => FailuresCounted
  BY DEF Inv
<1> QED BY <1>1, Invariance, PTL

\* _cb_record_success may look at the breaker without its lock: when it
\* leaves the breaker alone, there was an instant since the answer at which
\* there was nothing to reset.
THEOREM UnlockedReads == Spec => UnlockedReadSound
<1>1. Inv /\ [Next]_vars =>
        [\A s \in Samples :
           (pc[s] = "okOpen" /\ pc'[s] = "done") => clean[s]]_vars
  <2> SUFFICES ASSUME Inv, Next, NEW s \in Samples, pc[s] = "okOpen",
                      pc'[s] = "done"
               PROVE  clean[s]
    OBVIOUS
  <2>1. openUntil = Closed
    BY DEF Next, Inv, PcType, Enter, Thread, Check, GetSession, LockSession,
           LookAgain, MakeSession, GoodAnswer, ClientError, Fault, Backoff,
           OkReadFailures, OkReadOpen, OkLock, OkResetFailures, OkResetOpen,
           FailLock, FailRead, FailWrite, FailTrip, NextBatch, ServiceChanges,
           Tick, Goto, Return, calls
  <2> QED BY <2>1 DEF Inv, ReadsCover
<1> QED BY <1>1, Invariance, PTL DEF Spec, UnlockedReadSound

-----------------------------------------------------------------------------
(* The session.                                                             *)

InSession == {"sessionLook", "sessionMake"}

\* The session's lock keeps all but its owner out, and the owner that is about
\* to make a session has found none.
SessionInv ==
  /\ session \in 0..1
  /\ \A s \in Samples :
       /\ pc[s] \in InSession => sessionLock = s
       /\ pc[s] = "sessionMake" => session = 0

\* The steps of a thread that have to do with the session.
LEMMA SessionStep ==
  ASSUME Inv, SessionInv, NEW s \in Samples,
         \/ GetSession(s) \/ LockSession(s) \/ LookAgain(s) \/ MakeSession(s)
  PROVE  SessionInv'
<1>1. pc \in [Samples -> Locations] /\ s # NoThread
  BY DEF Inv, PcType, Samples, NoThread
<1>2. CASE GetSession(s)
  BY <1>1, <1>2 DEF GetSession, Goto, SessionInv, InSession, sessions
<1>3. CASE LockSession(s)
  <2>1. \A r \in Samples : pc[r] \notin InSession
    BY <1>3 DEF LockSession, SessionInv, NoThread, Samples
  <2> QED BY <1>1, <1>3, <2>1 DEF LockSession, Goto, SessionInv, InSession
<1>4. CASE LookAgain(s)
  <2>1. \A r \in Samples : r # s => pc[r] \notin InSession
    BY <1>4 DEF LookAgain, Goto, SessionInv, InSession
  <2> QED BY <1>1, <1>4, <2>1 DEF LookAgain, Goto, SessionInv, InSession
<1>5. CASE MakeSession(s)
  <2>1. session = 0 /\ \A r \in Samples : r # s => pc[r] \notin InSession
    BY <1>5 DEF MakeSession, Goto, SessionInv, InSession
  <2> QED BY <1>1, <1>5, <2>1 DEF MakeSession, Goto, SessionInv, InSession
<1> QED BY <1>2, <1>3, <1>4, <1>5

\* Every other step moves at most one thread, and elsewhere, or all of them.
LEMMA NextSession == Inv /\ SessionInv /\ [Next]_vars => SessionInv'
<1> SUFFICES ASSUME Inv, SessionInv, [Next]_vars PROVE SessionInv'
  OBVIOUS
<1>1. pc \in [Samples -> Locations]
  BY DEF Inv, PcType
<1>2. CASE UNCHANGED vars
  BY <1>2 DEF vars, calls, sessions, SessionInv
<1>3. ASSUME NEW s \in Samples, Enter(s) \/ Thread(s) PROVE SessionInv'
  <2>1. CASE GetSession(s) \/ LockSession(s) \/ LookAgain(s) \/ MakeSession(s)
    BY <2>1, SessionStep
  <2>2. CASE \/ Enter(s) \/ Check(s) \/ GoodAnswer(s) \/ ClientError(s)
             \/ Fault(s) \/ Backoff(s) \/ OkReadFailures(s) \/ OkReadOpen(s)
             \/ OkLock(s) \/ OkResetFailures(s) \/ OkResetOpen(s)
             \/ FailLock(s) \/ FailRead(s) \/ FailWrite(s) \/ FailTrip(s)
    <3>1. /\ UNCHANGED sessions
          /\ \E to \in Locations \ InSession : pc' = [pc EXCEPT ![s] = to]
      BY <2>2 DEF Enter, Check, GoodAnswer, ClientError, Fault, Backoff,
                  OkReadFailures, OkReadOpen, OkLock, OkResetFailures,
                  OkResetOpen, FailLock, FailRead, FailWrite, FailTrip, Goto,
                  Return, Locations, InSession
    <3> QED BY <1>1, <3>1 DEF SessionInv, InSession, sessions
  <2> QED BY <1>3, <2>1, <2>2 DEF Thread
<1>4. CASE NextBatch \/ ServiceChanges \/ Tick
  BY <1>4 DEF NextBatch, ServiceChanges, Tick, SessionInv, InSession, sessions,
              calls
<1> QED BY <1>2, <1>3, <1>4 DEF Next

LEMMA SessionInvariance == Spec => []SessionInv
<1>1. Init => SessionInv
  BY DEF Init, SessionInv, InSession
<1> QED BY <1>1, NextSession, Invariance, PTL DEF Spec

\* _get_session makes one session, however many threads find none: the second
\* look is made by the owner of the lock.
THEOREM SessionShared == Spec => []OneSession
<1>1. SessionInv => OneSession
  BY DEF SessionInv, OneSession
<1> QED BY <1>1, SessionInvariance, PTL

-----------------------------------------------------------------------------
(* The attempts of a call, and the types.                                   *)

\* A call that is to be repeated has a retry left.
RetryInv ==
  /\ attempt \in [Samples -> 0..Retries]
  /\ \A s \in Samples : pc[s] = "backoff" => attempt[s] < Retries

\* Only a fault before the last attempt is followed by another one.
LEMMA NextRetry == Inv /\ RetryInv /\ [Next]_vars => RetryInv'
<1> SUFFICES ASSUME Inv, RetryInv, [Next]_vars PROVE RetryInv'
  OBVIOUS
<1>1. pc \in [Samples -> Locations]
  BY DEF Inv, PcType
<1>2. CASE UNCHANGED vars
  BY <1>2 DEF vars, calls, RetryInv
<1>3. ASSUME NEW s \in Samples, Enter(s) \/ Thread(s) PROVE RetryInv'
  <2>1. CASE Backoff(s)
    BY <1>1, <2>1, ClientAssumption DEF Backoff, Goto, RetryInv
  <2>2. CASE Fault(s)
    BY <1>1, <2>2, ClientAssumption DEF Fault, Goto, RetryInv
  <2>3. CASE ~ Backoff(s) /\ ~ Fault(s)
    <3>1. /\ UNCHANGED attempt
          /\ \E to \in Locations \ {"backoff"} : pc' = [pc EXCEPT ![s] = to]
      BY <1>3, <2>3
      DEF Thread, Enter, Check, GetSession, LockSession, LookAgain,
          MakeSession, GoodAnswer, ClientError, OkReadFailures, OkReadOpen,
          OkLock, OkResetFailures, OkResetOpen, FailLock, FailRead, FailWrite,
          FailTrip, Goto, Return, Locations
    <3> QED BY <1>1, <3>1 DEF RetryInv
  <2> QED BY <2>1, <2>2, <2>3
<1>4. CASE NextBatch \/ ServiceChanges \/ Tick
  BY <1>4, ClientAssumption
  DEF NextBatch, ServiceChanges, Tick, RetryInv, calls
<1> QED BY <1>2, <1>3, <1>4 DEF Next

\* What else TypeOK says of the variables.
OtherTypes == /\ score \in [Samples -> {"none", "graded", "zero"}]
              /\ up \in BOOLEAN
              /\ breakerLock \in Samples \cup {NoThread}
              /\ sessionLock \in Samples \cup {NoThread}
              /\ clean \in [Samples -> BOOLEAN]

LEMMA NextTypes == OtherTypes /\ [Next]_vars => OtherTypes'
<1> SUFFICES ASSUME OtherTypes, [Next]_vars PROVE OtherTypes'
  OBVIOUS
<1>1. CASE UNCHANGED vars
  BY <1>1 DEF vars, calls, breaker, sessions, OtherTypes
<1>2. CASE Next
  <2>1. clean' \in [Samples -> BOOLEAN]
    BY <1>2 DEF Next, Observe
  <2>2. CASE NextBatch \/ ServiceChanges \/ Tick
    <3>1. UNCHANGED <<breakerLock, sessionLock>>
      BY <2>2 DEF NextBatch, ServiceChanges, Tick, breaker, sessions
    <3>2. score' \in [Samples -> {"none", "graded", "zero"}]
      BY <2>2 DEF NextBatch, ServiceChanges, Tick, OtherTypes, calls
    <3>3. up' \in BOOLEAN
      <4>1. up' = up \/ up' = ~up
        BY <2>2 DEF NextBatch, ServiceChanges, Tick
      <4> QED BY <4>1 DEF OtherTypes
    <3> QED BY <2>1, <3>1, <3>2, <3>3 DEF OtherTypes
  <2>3. ASSUME NEW s \in Samples, Enter(s) \/ Thread(s)
        PROVE  /\ score' = score \/ \E how \in {"graded", "zero"} :
                                      score' = [score EXCEPT ![s] = how]
               /\ up' = up
               /\ breakerLock' \in {breakerLock, s, NoThread}
               /\ sessionLock' \in {sessionLock, s, NoThread}
    BY <2>3 DEF Thread, Enter, Check, GetSession, LockSession, LookAgain,
                MakeSession, GoodAnswer, ClientError, Fault, Backoff,
                OkReadFailures, OkReadOpen, OkLock, OkResetFailures,
                OkResetOpen, FailLock, FailRead, FailWrite, FailTrip, Return,
                AcquireBreaker, breaker, sessions
  <2>4. ASSUME NEW s \in Samples, Enter(s) \/ Thread(s) PROVE OtherTypes'
    BY <2>1, <2>3, <2>4 DEF OtherTypes
  <2> QED BY <1>2, <2>2, <2>4 DEF Next
<1> QED BY <1>1, <1>2

\* All variables keep their types; in particular no call is tried more often
\* than its retries allow.
THEOREM TypeCorrect == Spec => []TypeOK
<1>1. Init => RetryInv /\ OtherTypes
  BY ClientAssumption DEF Init, RetryInv, OtherTypes
<1>2. Inv /\ SessionInv /\ RetryInv /\ OtherTypes => TypeOK
  BY DEF Inv, PcType, CountersType, SessionInv, RetryInv, OtherTypes, TypeOK
<1> QED BY <1>1, <1>2, NextRetry, NextTypes, Invariance, SessionInvariance, PTL DEF Spec
=============================================================================
