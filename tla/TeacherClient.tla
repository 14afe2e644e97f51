----------------------------- MODULE TeacherClient ----------------------------
(****************************************************************************)
(* Teacher scoring for on-policy distillation,                              *)
(* src/rl/examples/mopd/two_teacher_reward.py.  reward_func is one asyncio  *)
(* task per sample: it routes the sample to the endpoints of its domain,    *)
(* takes the shared semaphore if requests are limited, and tries the        *)
(* endpoints in order, round after round with a back-off in between, until  *)
(* one answers or the rounds are used up.  A sample without a domain is an  *)
(* evaluation sample: it goes to the grader of the module next door, which  *)
(* scores a single sample without ever giving the event loop up.            *)
(*                                                                          *)
(* A step is what a task does between two awaits.                           *)
(****************************************************************************)
EXTENDS Integers, FiniteSets, Sequences, SequencesExt

CONSTANTS Samples,    \* the samples of a rollout
          Domain,     \* metadata["domain"] of each sample, NoDomain for none
          NoDomain,
          IfDomains,  \* OPD_IF_DOMAINS
          Endpoints,  \* the scoring servers
          NoUrl,      \* a variable of the environment that is not set
          Environments, \* the endpoints configured, see Environment
          Attempts,   \* OPD_TEACHER_RETRIES
          Limit       \* OPD_TEACHER_MAX_CONCURRENCY

Routes == {"if", "general"}

\* *_TEACHER_URL and *_TEACHER_BACKUP_URLS of each route, and args.rm_url.
Environment == [teacher : [Routes -> Endpoints \cup {NoUrl}],
                backups : [Routes -> Seq(Endpoints)],
                rmUrl : Endpoints \cup {NoUrl}]

ASSUME TeacherAssumption == /\ IsFiniteSet(Samples)
                            /\ NoUrl \notin Endpoints
                            /\ Attempts \in Nat
                            /\ Limit \in Int
ASSUME EnvironmentsAssumption == \A e \in Environments : e \in Environment

VARIABLES env,     \* the environment, which nothing changes
          pc,      \* where the task of each sample is
          urls,    \* the endpoints of the sample, once its task has started
          round,   \* the round a task is in, from 0
          next,    \* the position of the endpoint a task is at, from 1
          health,  \* which endpoints answer
          failed   \* history: the rounds and endpoints that failed a task

vars == <<env, pc, urls, round, next, health, failed>>

-----------------------------------------------------------------------------
(* Routing.                                                                 *)

Route(s) == IF Domain[s] \in IfDomains THEN "if" ELSE "general"
IsEval(s) == Domain[s] = NoDomain
Primary(route) ==
  IF env.teacher[route] = NoUrl THEN env.rmUrl ELSE env.teacher[route]

Listed(s) == <<Primary(Route(s))>> \o env.backups[Route(s)]

\* fault: without backups
CandidatePrimary(s) == SelectSeq(<<Primary(Route(s))>>, LAMBDA u : u # NoUrl)

\* The places at which an endpoint is listed for the first time.
FirstPlaces(s) ==
  {i \in DOMAIN Listed(s) :
     Listed(s)[i] # NoUrl /\ \A j \in 1..(i - 1) : Listed(s)[j] # Listed(s)[i]}

\* The teacher, or args.rm_url, then the backups; each endpoint once.
CandidateUrls(s) ==
  LET Rank(i) == Cardinality({j \in FirstPlaces(s) : j <= i})
  IN  [k \in 1..Cardinality(FirstPlaces(s)) |->
         Listed(s)[CHOOSE i \in FirstPlaces(s) : Rank(i) = k]]

-----------------------------------------------------------------------------
(* reward_func.                                                             *)

\* fault: the semaphore is given up for the back-off
HoldingToPost == {s \in Samples : pc[s] \in {"round", "post"}}

\* Who holds the semaphore: a task keeps it for all its rounds.
Holding == {s \in Samples : pc[s] \in {"round", "post", "backoff"}}

Init == /\ env \in Environments
        /\ pc = [s \in Samples |-> "start"]
        /\ urls = [s \in Samples |-> <<>>]
        /\ round = [s \in Samples |-> 0]
        /\ next = [s \in Samples |-> 1]
        /\ health \in [Endpoints -> BOOLEAN]
        /\ failed = [s \in Samples |-> {}]

Goto(s, from, to) == pc[s] = from /\ pc' = [pc EXCEPT ![s] = to]

\* batched_reward of a single sample has no await: it is graded in this step.
GradeEval(s) == /\ IsEval(s)
                /\ Goto(s, "start", "graded")
                /\ UNCHANGED <<urls, round, next, health, failed>>

\* A limit that is not positive is no limit.
Enter(s) == /\ ~IsEval(s)
            /\ Limit > 0 => Cardinality(Holding) < Limit
            /\ Goto(s, "start", "round")
            /\ urls' = [urls EXCEPT ![s] = CandidateUrls(s)]
            /\ UNCHANGED <<round, next, health, failed>>

\* fault: one round too many
BeginRoundOnceMore(s) == /\ \/ /\ round[s] <= Attempts /\ urls[s] # <<>>
                               /\ Goto(s, "round", "post")
                            \/ /\ round[s] > Attempts \/ urls[s] = <<>>
                               /\ Goto(s, "round", "raised")
                         /\ next' = [next EXCEPT ![s] = 1]
                         /\ UNCHANGED <<urls, round, health, failed>>

\* The head of the loop over the rounds.
BeginRound(s) == /\ \/ /\ round[s] < Attempts /\ urls[s] # <<>>
                       /\ Goto(s, "round", "post")
                    \/ /\ round[s] < Attempts /\ urls[s] = <<>>
                       /\ Goto(s, "round", "backoff")
                    \/ /\ round[s] >= Attempts
                       /\ Goto(s, "round", "raised")
                 /\ next' = [next EXCEPT ![s] = 1]
                 /\ UNCHANGED <<urls, round, health, failed>>

PostAnswered(s) == /\ pc[s] = "post"
                   /\ health[urls[s][next[s]]]
                   /\ Goto(s, "post", "scored")
                   /\ UNCHANGED <<urls, round, next, health, failed>>

\* fault: a failure ends the round
PostFailedBackoff(s) ==
  /\ pc[s] = "post"
  /\ ~health[urls[s][next[s]]]
  /\ failed' = [failed EXCEPT ![s] =
                  @ \cup {<<round[s], urls[s][next[s]]>>}]
  /\ Goto(s, "post", "backoff")
  /\ UNCHANGED <<urls, round, next, health>>

\* An exception, a timeout or an error status: the next endpoint.
PostFailed(s) ==
  /\ pc[s] = "post"
  /\ ~health[urls[s][next[s]]]
  /\ failed' = [failed EXCEPT ![s] =
                  @ \cup {<<round[s], urls[s][next[s]]>>}]
  /\ \/ /\ next[s] < Len(urls[s])
        /\ next' = [next EXCEPT ![s] = @ + 1]
        /\ UNCHANGED pc
     \/ /\ next[s] = Len(urls[s])
        /\ Goto(s, "post", "backoff")
        /\ UNCHANGED next
  /\ UNCHANGED <<urls, round, health>>

\* The task sleeps, also after the last round, and holds the semaphore.
Backoff(s) == /\ Goto(s, "backoff", "round")
              /\ round' = [round EXCEPT ![s] = @ + 1]
              /\ UNCHANGED <<urls, next, health, failed>>

EndpointChanges == /\ \E u \in Endpoints :
                        health' = [health EXCEPT ![u] = ~@]
                   /\ UNCHANGED <<pc, urls, round, next, failed>>

Task(s) == \/ GradeEval(s) \/ Enter(s) \/ BeginRound(s)
           \/ PostAnswered(s) \/ PostFailed(s) \/ Backoff(s)

Finished == {"graded", "scored", "raised"}

\* Every call has returned or raised.
Terminating == /\ \A s \in Samples : pc[s] \in Finished
               /\ UNCHANGED <<pc, urls, round, next, health, failed>>

Next == /\ \/ \E s \in Samples : Task(s)
           \/ EndpointChanges
           \/ Terminating
        /\ UNCHANGED env

\* The event loop runs every task that is ready; nothing is assumed of the
\* endpoints.
Spec == /\ Init /\ [][Next]_vars
        /\ \A s \in Samples : WF_vars(Task(s) /\ UNCHANGED env)

-----------------------------------------------------------------------------

TypeOK == /\ env \in Environments
          /\ pc \in [Samples -> Finished \cup
                                 {"start", "round", "post", "backoff"}]
          /\ round \in [Samples -> 0..Attempts]
          /\ next \in [Samples -> Nat \ {0}]
          /\ health \in [Endpoints -> BOOLEAN]
          /\ \A s \in Samples : failed[s] \subseteq (Nat \X Endpoints)

\* A limit on the requests in flight is kept, through failovers and
\* back-offs.
InFlightLimited ==
  Limit > 0 => Cardinality({s \in Samples : pc[s] = "post"}) <= Limit

\* reward_func raises only when every endpoint of the sample failed it in
\* every round.
RaisesOnlyIfUnreachable ==
  \A s \in Samples : pc[s] = "raised" =>
    failed[s] = (0..(Attempts - 1)) \X (ToSet(Listed(s)) \ {NoUrl})

\* A sample one of whose endpoints always answers is scored, and every other
\* call ends as well.
Failover ==
  \A s \in Samples :
    /\ <>(pc[s] \in Finished)
    /\ \A u \in Endpoints :
         [](u \in ToSet(Listed(s)) /\ health[u])
           => <>(pc[s] \in {"graded", "scored"})
=============================================================================
