----------------------------- MODULE RewardClient -----------------------------
(****************************************************************************)
(* The client of the code-execution service in                              *)
(* src/rl/examples/if_rl/reward_model.py.  batched_reward scores a batch of *)
(* samples, each in a worker thread of its own, at most Concurrency of them *)
(* at a time; a thread posts its program to the service through             *)
(* _remote_post, which retries faults and goes through a circuit breaker    *)
(* that the threads share.                                                  *)
(*                                                                          *)
(* A step of this module is what one thread does between two accesses of    *)
(* what the threads share: the two globals of the breaker, its lock, the    *)
(* session and its lock.  The success path reads the two globals one after  *)
(* the other and without the lock.                                          *)
(*                                                                          *)
(* _cb_open_until is only compared with 0.0 and with the present time: it   *)
(* is Closed for the initial 0.0 and otherwise the ticks left until it, 0   *)
(* once it is past.  _cb_failures is only compared with 0 and with the      *)
(* threshold: it stops at Threshold.                                        *)
(****************************************************************************)
EXTENDS Integers, FiniteSets

CONSTANTS N,            \* the samples of a batch
          Concurrency,  \* max(1, _BATCHED_REWARD_CONCURRENCY)
          Retries,      \* _REMOTE_RETRIES
          Threshold,    \* _REMOTE_CB_FAIL_THRESHOLD
          Cooldown      \* _REMOTE_CB_COOLDOWN_S, in ticks

ASSUME ClientAssumption == /\ N \in Nat
                           /\ Concurrency \in Nat \ {0}
                           /\ Retries \in Nat
                           /\ Threshold \in Nat \ {0}
                           /\ Cooldown \in Nat \ {0}

VARIABLES
  pc,           \* where the thread of each sample is
  attempt,      \* the attempt each call is at, from 0
  score,        \* what each sample was scored with
  up,           \* whether the service works
  failures,     \* _cb_failures
  openUntil,    \* _cb_open_until
  breakerLock,  \* the owner of _cb_lock
  readFailures, \* what a thread read of _cb_failures
  session,      \* how many sessions were made; _session is None while 0
  sessionLock,  \* the owner of _session_lock
  streak,       \* history: failures recorded since the last reset
  clean         \* history: whether the breaker was clean at some instant
                \* since the good answer a thread is recording

calls == <<pc, attempt, score>>
breaker == <<failures, openUntil, breakerLock, readFailures, streak>>
sessions == <<session, sessionLock>>
vars == <<calls, up, breaker, sessions, clean>>

Samples == 1..N
Closed == -1
NoThread == 0
Locations == {"queued", "check", "session", "sessionLock", "sessionLook",
              "sessionMake", "post", "backoff", "okFailures", "okOpen", "okLock",
              "okReset", "okRelease", "failLock", "failRead", "failWrite",
              "failTrip", "done"}
Running == {s \in Samples : pc[s] \notin {"queued", "done"}}
Capped(n) == IF n < Threshold THEN n ELSE Threshold

Init == /\ pc = [s \in Samples |-> "queued"]
        /\ attempt = [s \in Samples |-> 0]
        /\ score = [s \in Samples |-> "none"]
        /\ up \in BOOLEAN
        /\ failures = 0
        /\ openUntil = Closed
        /\ breakerLock = NoThread
        /\ readFailures = [s \in Samples |-> 0]
        /\ session = 0
        /\ sessionLock = NoThread
        /\ streak = 0
        /\ clean = [s \in Samples |-> FALSE]

Goto(s, from, to) == pc[s] = from /\ pc' = [pc EXCEPT ![s] = to]

\* The thread of s is done: the score of a call without an answer is zero.
Return(s, from, how) == /\ Goto(s, from, "done")
                        /\ score' = [score EXCEPT ![s] = how]

(****************************************************************************)
(* batched_reward                                                           *)
(****************************************************************************)

\* The semaphore lets the samples in in their order.
Enter(s) == /\ Cardinality(Running) < Concurrency
            /\ \A r \in Samples : pc[r] = "queued" => s <= r
            /\ Goto(s, "queued", "check")
            /\ UNCHANGED <<attempt, score, up, breaker, sessions>>

\* gather has every score; the next batch comes.
NextBatch == /\ N > 0
             /\ \A s \in Samples : pc[s] = "done"
             /\ pc' = [s \in Samples |-> "queued"]
             /\ attempt' = [s \in Samples |-> 0]
             /\ score' = [s \in Samples |-> "none"]
             /\ UNCHANGED <<up, breaker, sessions>>

(****************************************************************************)
(* _remote_post                                                             *)
(****************************************************************************)

\* _cb_is_open, read without the lock.
Check(s) == /\ \/ /\ openUntil > 0
                  /\ Return(s, "check", "zero")
               \/ /\ openUntil <= 0
                  /\ Goto(s, "check", "session")
                  /\ UNCHANGED score
            /\ UNCHANGED <<attempt, up, breaker, sessions>>

\* _get_session looks before and after it takes the lock.
GetSession(s) == /\ \/ session > 0 /\ Goto(s, "session", "post")
                    \/ session = 0 /\ Goto(s, "session", "sessionLock")
                 /\ UNCHANGED <<attempt, score, up, breaker, sessions>>

LockSession(s) == /\ sessionLock = NoThread
                  /\ sessionLock' = s
                  /\ Goto(s, "sessionLock", "sessionLook")
                  /\ UNCHANGED <<attempt, score, up, breaker, session>>

\* fault: no second look under the lock
LookNoMore(s) == /\ Goto(s, "sessionLook", "sessionMake")
                 /\ UNCHANGED <<attempt, score, up, breaker, sessions>>

LookAgain(s) == /\ \/ /\ session > 0
                      /\ Goto(s, "sessionLook", "post")
                      /\ sessionLock' = NoThread
                   \/ /\ session = 0
                      /\ Goto(s, "sessionLook", "sessionMake")
                      /\ UNCHANGED sessionLock
                /\ UNCHANGED <<attempt, score, up, breaker, session>>

MakeSession(s) == /\ session' = session + 1
                  /\ sessionLock' = NoThread
                  /\ Goto(s, "sessionMake", "post")
                  /\ UNCHANGED <<attempt, score, up, breaker>>

GoodAnswer(s) == /\ up
                 /\ Goto(s, "post", "okFailures")
                 /\ UNCHANGED <<attempt, score, up, breaker, sessions>>

\* fault: 4xx counts as a failure of the service
ClientErrorCounted(s) == /\ up
                         /\ Goto(s, "post", "failLock")
                         /\ UNCHANGED <<attempt, score, up, breaker, sessions>>

\* 4xx: neither retried nor counted.
ClientError(s) == /\ up
                  /\ Return(s, "post", "zero")
                  /\ UNCHANGED <<attempt, up, breaker, sessions>>

\* fault: one retry too many
FaultOnceMore(s) == /\ ~up
                    /\ \/ attempt[s] <= Retries /\ Goto(s, "post", "backoff")
                       \/ attempt[s] > Retries /\ Goto(s, "post", "failLock")
                    /\ UNCHANGED <<attempt, score, up, breaker, sessions>>

\* An exception, a timeout, a malformed body or a 5xx.
Fault(s) == /\ ~up
            /\ \/ attempt[s] < Retries /\ Goto(s, "post", "backoff")
               \/ attempt[s] = Retries /\ Goto(s, "post", "failLock")
            /\ UNCHANGED <<attempt, score, up, breaker, sessions>>

\* fault: the attempt is not counted
BackoffUncounted(s) == /\ Goto(s, "backoff", "post")
                       /\ UNCHANGED <<attempt, score, up, breaker, sessions>>

Backoff(s) == /\ Goto(s, "backoff", "post")
              /\ attempt' = [attempt EXCEPT ![s] = @ + 1]
              /\ UNCHANGED <<score, up, breaker, sessions>>

(****************************************************************************)
(* _cb_record_success                                                       *)
(****************************************************************************)

OkReadFailures(s) ==
  /\ \/ failures = 0 /\ Goto(s, "okFailures", "okOpen")
     \/ failures # 0 /\ Goto(s, "okFailures", "okLock")
  /\ UNCHANGED <<attempt, score, up, breaker, sessions>>

\* fault: only the counter is looked at
OkReadOpenNot(s) == /\ Return(s, "okOpen", "graded")
                    /\ UNCHANGED <<attempt, up, breaker, sessions>>

OkReadOpen(s) == /\ \/ /\ openUntil = Closed
                       /\ Return(s, "okOpen", "graded")
                    \/ /\ openUntil # Closed
                       /\ Goto(s, "okOpen", "okLock")
                       /\ UNCHANGED score
                 /\ UNCHANGED <<attempt, up, breaker, sessions>>

\* fault: the lock is not waited for
AcquireAnyhow(s) == breakerLock' = s

AcquireBreaker(s) == breakerLock = NoThread /\ breakerLock' = s

OkLock(s) ==
  /\ AcquireBreaker(s)
  /\ Goto(s, "okLock", "okReset")
  /\ UNCHANGED <<attempt, score, up, failures, openUntil, readFailures,
                 sessions, streak>>

OkResetFailures(s) ==
  /\ Goto(s, "okReset", "okRelease")
  /\ failures' = 0
  /\ streak' = 0
  /\ UNCHANGED <<attempt, score, up, openUntil, breakerLock, readFailures,
                 sessions>>

OkResetOpen(s) ==
  /\ Return(s, "okRelease", "graded")
  /\ openUntil' = Closed
  /\ breakerLock' = NoThread
  /\ UNCHANGED <<attempt, up, failures, readFailures, sessions, streak>>

(****************************************************************************)
(* _cb_record_failure                                                       *)
(****************************************************************************)

FailLock(s) ==
  /\ AcquireBreaker(s)
  /\ Goto(s, "failLock", "failRead")
  /\ UNCHANGED <<attempt, score, up, failures, openUntil, readFailures,
                 sessions, streak>>

FailRead(s) ==
  /\ Goto(s, "failRead", "failWrite")
  /\ readFailures' = [readFailures EXCEPT ![s] = failures]
  /\ UNCHANGED <<attempt, score, up, failures, openUntil, breakerLock,
                 sessions, streak>>

FailWrite(s) ==
  /\ Goto(s, "failWrite", "failTrip")
  /\ failures' = Capped(readFailures[s] + 1)
  /\ readFailures' = [readFailures EXCEPT ![s] = 0]
  /\ streak' = Capped(streak + 1)
  /\ UNCHANGED <<attempt, score, up, openUntil, breakerLock, sessions>>

FailTrip(s) ==
  /\ Return(s, "failTrip", "zero")
  /\ openUntil' = IF failures >= Threshold THEN Cooldown ELSE openUntil
  /\ breakerLock' = NoThread
  /\ UNCHANGED <<attempt, up, failures, readFailures, sessions, streak>>

(****************************************************************************)
(* The service and time                                                     *)
(****************************************************************************)

ServiceChanges == /\ up' = ~up
                  /\ UNCHANGED <<calls, breaker, sessions>>

Tick == /\ openUntil > 0
        /\ openUntil' = openUntil - 1
        /\ UNCHANGED <<calls, up, failures, breakerLock, readFailures,
                       sessions, streak>>

Thread(s) ==
  \/ Check(s) \/ GetSession(s) \/ LockSession(s) \/ LookAgain(s)
  \/ MakeSession(s) \/ GoodAnswer(s) \/ ClientError(s) \/ Fault(s) \/ Backoff(s)
  \/ OkReadFailures(s) \/ OkReadOpen(s) \/ OkLock(s)
  \/ OkResetFailures(s) \/ OkResetOpen(s)
  \/ FailLock(s) \/ FailRead(s) \/ FailWrite(s) \/ FailTrip(s)

\* The breaker is clean: no failure is counted and it never opened since.
IsClean == failures = 0 /\ openUntil = Closed
Recording == {"okFailures", "okOpen"}

Observe ==
  clean' = [s \in Samples |-> pc'[s] \in Recording /\ (clean[s] \/ IsClean')]

Next == /\ \/ \E s \in Samples : Enter(s) \/ Thread(s)
           \/ NextBatch
           \/ ServiceChanges
           \/ Tick
        /\ Observe

(****************************************************************************)
(* Every thread of the pool runs, the event loop lets waiting samples in    *)
(* and time passes.  Nothing is assumed of the service.                     *)
(****************************************************************************)
Fairness == /\ \A s \in Samples : WF_vars(Enter(s) /\ Observe)
            /\ \A s \in Samples : WF_vars(Thread(s) /\ Observe)
            /\ WF_vars(NextBatch /\ Observe)
            /\ WF_vars(Tick /\ Observe)

Spec == Init /\ [][Next]_vars /\ Fairness

-----------------------------------------------------------------------------

TypeOK == /\ pc \in [Samples -> Locations]
          /\ attempt \in [Samples -> 0..Retries]
          /\ score \in [Samples -> {"none", "graded", "zero"}]
          /\ up \in BOOLEAN
          /\ failures \in 0..Threshold
          /\ openUntil \in Closed..Cooldown
          /\ breakerLock \in Samples \cup {NoThread}
          /\ readFailures \in [Samples -> 0..Threshold]
          /\ session \in Nat
          /\ sessionLock \in Samples \cup {NoThread}
          /\ streak \in 0..Threshold
          /\ clean \in [Samples -> BOOLEAN]

\* No update of the counter is lost: it holds the failures recorded since
\* the last reset, so that the breaker trips after that many in a row.
FailuresCounted == failures = streak

\* A success that leaves the breaker as it is, without its lock, was right to
\* do so: at some instant since its answer there was nothing to reset.
UnlockedReadSound ==
  [][\A s \in Samples :
       (pc[s] = "okOpen" /\ pc'[s] = "done") => clean[s]]_vars

\* The threads that find no session at the same time make one between them.
OneSession == session <= 1

\* Every sample of a batch is scored in the end, whatever the service does:
\* a call gives up after its retries and the locks are always released.
BatchScored ==
  (\A s \in Samples : pc[s] = "queued") ~> (\A s \in Samples : pc[s] = "done")

\* Once the service is back for good, the breaker closes for good.
BreakerCloses == (<>[]up) => <>[](openUntil <= 0)
=============================================================================
