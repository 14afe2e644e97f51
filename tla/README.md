# Verification of Instella-MoE: the zero-bubble pipeline

This directory holds TLA+ models of the parts of the repository whose
correctness depends on order, interleaving and counting, the TLC runs that check
them on small instances, and TLAPS proofs of what is true of them for every
instance. The repository is a training stack (`training/`, the Primus framework
over Megatron), an RL stack (`rl/`) and an inference overlay (`inference/`).
The core is the pipeline-parallel engine: a scheduler that builds one order of
nodes per pipeline stage, passes that insert communications into these orders,
and a runtime in which every stage executes its order as a process of its own.
`ZB` below is `training/primus/backends/megatron/core/pipeline_parallel/zerobubble`.

## Inventory

| Component | State | Operations | Interacts with | Hard behaviour | What makes it correct |
|---|---|---|---|---|---|
| Schedule graph, `ZB/scheduler/graph.py` | none (frozen nodes, configuration) | keys, `get_prev_key`, costs, layer groups | all of the scheduler, the runtime | forward/backward dependencies over V-shaped chunks and sequence splits | dependencies name existing nodes |
| Builders `basic1f1b.py`, `seq1f1b.py`, `zb.py`, `v1f1b.py`, `zbv.py`, `zbv_greedy.py`, `group_interleaved_1f1b.py` (unused: `vpp.py`, `v_auto_schedule.py`, `token_level_zero_bubble.py`) | local arrays of times, memory and counters | `create_schedule` | feed the passes | greedy search, memory limits | executable orders, memory within the limit |
| Passes `passes.py`, `communication.py` | orders, simulated clocks, communication pairs, `start_indices` | peers, `add_time`, `insert_send_nodes`, `insert_recv_nodes`, `validate_communication`; rollback, post-validation, offload and recompute passes | builders → runtime | insertion by simulated time, ties | no computation lost; sends and receives line up on every link; fused groups never deadlock |
| Runtime `runtime.py` | per stage: position, FIFO buffers per chunk and split, local buffers, SpQueues, `communication_batch`, `w_clear_run` | `run`, `schedule_f/b/bw/w/r`, `add_communication`, `flush`, offload handlers, `run_until_post_validation` | NCCL between stages, weight-gradient store, autograd | asynchrony of stages and network; matching by rank only; blocking groups | right operand, right activation, no exception, termination, nothing left over |
| Weight-gradient store, recompute store `zbpp_utils.py` | queue per chunk and split | `put`, `flush`, `pop`, `clear`, `assert_empty` | linear layers (`tensor_parallel/layers.py`, `extensions/zbpp_gemm.py`), runtime | deferred work, popped or cleared depending on the rest of the order | every gradient accumulated exactly once |
| Activation offload `offload.py`, `scheduler/offloading.py` | states of `ActivationStore`, pool, CUDA streams, `PairedBarrier` events | offload, release, prepare, resume | runtime, neighbour rank | eight-state protocol, pairwise barriers | never resumed before offloaded, barriers pair up |
| Post validation: `run_until_post_validation` in the runtime, `core/optimizer/zbpp_optimizer.py`, `training/training.py` | partial norms, parameter backup, rollback buffer of the data iterator | warm-up before the verdict, rollback, second run, replay of batches | runtime, optimizer, data iterator | speculation and undo, at a different place on every stage | nothing left on a link; a rolled-back iteration sees the same batches once |
| Data loading `modules/trainer/megatron/pre_trainer.py` | `DataLoaderStore.cache`, current microbatch | push, pop, slicing by split | runtime | shared global between splits | batches in order |
| RL reward client `rl/examples/if_rl/reward_model.py` | circuit-breaker counters, session, locks | POST with retries, batched scoring in threads | code-execution service | retries, threads, partly unlocked state | no failure lost, one session, every sample scored, the breaker closes |
| RL teacher client `rl/examples/mopd/two_teacher_reward.py` | semaphore | scoring with failover and back-off | teacher servers, reward client for evaluation samples | timeouts, failover | bounded concurrency; an error only if every endpoint failed in every round |
| Remaining parts | — | launcher and CLI, Megatron and TE patches, MoE layers, FP8, torchtitan adapter, graders, data preparation, checkpoint tools, benchmarks, sglang overlay | — | numerical kernels, configuration, batch I/O | not modelled: no protocol that a model checker adds to |

`PROJECT.json` lists every component with its status, and under `hazards` what
is hard to test, at its line.

## Modules

| Module | Models | Kind |
|---|---|---|
| `ScheduleGraph` | node types, keys, `get_prev_key`, configurations | operators |
| `ScheduleBuilders` | `basic1f1b.py`, `seq1f1b.py` | operators |
| `Loops` | Python's `for` and `while` over an accumulator | operators (folds) |
| `ZeroBubbleOrder` | `zb.py`: `manual_order` and its four variants | operators |
| `VScheduleOrder` | `v1f1b.py`: the pattern and the warm-up optimisation | operators |
| `ZBVOrder` | `zbv.py`: `try_v_schedule` and the choice among its four results | operators |
| `GreedyVOrder` | `zbv_greedy.py`: two stable patterns, reordering within the memory limit, eager times | operators |
| `InterleavedOrder` | `group_interleaved_1f1b.py`: building block, repetition, recomputation, shift, squeeze | operators |
| `OffloadPasses` | `offloading.py`: which forwards are offloaded, where their copies, barriers and buffers go | operators |
| `SchedulePasses` | the other passes, one operator per loop body | operators |
| `ScheduleCompiler` | `run_schedule_passes` as a state machine, one loop iteration per step | state machine |
| `PipelineRuntime` | one iteration on all stages and the network between them | state machine |
| `PipelineDataflow` | what an iteration promises, without stages or communication | abstract specification |
| `ActivationMemory` | the runtime with `offload.py` and the `RecomputeStore`, composed of the actions of `PipelineRuntime` and the copies beside them | state machine |
| `PostValidation` | several iterations under the optimizer's verdicts, composed of the actions of `PipelineRuntime` and the data iterator | state machine |
| `RewardClient` | worker threads, circuit breaker, session and retries of `reward_model.py` | state machine |
| `TeacherClient` | tasks, semaphore, failover and back-off of `two_teacher_reward.py` | state machine |
| `MatchedOrders` | what the runtime needs of the compiled orders to compute the right things | assumptions |
| `ExecutableOrders` | what it needs of them besides to raise nothing and to recompute in time | assumptions |
| `ValidatedOrders` | what post validation needs of them besides to take an abandoned warm-up back | assumptions |
| `ScheduleCompiler_proofs`, `PipelineRuntime_proofs`, `ActivationMemory_proofs`, `PostValidation_proofs`, `RewardClient_proofs`, `TeacherClient_proofs` | theorems about the module each is named after | proofs |
| `OperandMatching_proofs`, `PipelineDataflow_proofs` | theorems about the runtime on matched orders, the second extending the first (as do `ActivationMemory_proofs` and `PostValidation_proofs`) | proofs |
| `MC*` | the instances for TLC (`MCSchedules` holds what the runtime's share) | |

No module declares a RECURSIVE operator. The builders and passes are checked
against the Python code as they were written (same orders on the same
arguments) and are used in two ways: `ScheduleCompiler` runs the passes step by
step, and the `MCRuntime*` modules evaluate them once to obtain the orders that
`PipelineRuntime` executes, so the runtime is checked on real compiled orders.

### State and actions of `ScheduleCompiler`

`localOrder` is the code's `local_order`, `simulation` holds `new_local_order`
and `stage_curr_t` of `add_time`, `cursor` and `ranOne` its loop variable and
`found`, `pairs` the `comm_pairs`, `startIndices` the `start_indices` and
`matched` the pairs `validate_communication` has matched. `FindPeers` is
`add_send_recv_peer_stage`; `VisitStage` and `EndRound` are the body and the end
of a round of `add_time`; `PlaceSend`, `SortPairs` and `PlaceRecv` are the
insertion passes; `MatchPairs` is a round of the validation. `PostValidate` is
`add_post_validation_nodes_before_deadline` with the reordering after it. Every
`assert` and `raise` of these passes that the modelled programs could meet leads to phase
`"failed"`.

The builders run before that. The assertions of the grouped interleaved one
(`group_interleaved_1f1b.py:94-133` on the building block, `226` on the shift) and of
`reorder` (`zbv_greedy.py:249`) are conditions of the value the builder goes on with
(`Asserting`): where one failed, TLC would stop with an error, so every run that uses
these builders also shows that their assertions hold for its programs.

Times are integers. The code's `type_cost[BW] = cost_b + cost_w` concatenates
two lists and so charges `BW` only `cost_b`; `SimulatedCost` does the same
(`GetCost`, used elsewhere, adds them). Costs are positive in a running system
(`update_schedule` averages measured times and takes at least 1).

### State and actions of `PipelineRuntime`

A tensor is the key of the computation that produced it. An entry of a buffer is
the position, in the stage's order, of the node that put it there; what a
received entry stands for is `payload`, known only once the network has moved
it. `ForwardF`, `BackwardB` (both `B` and `BW`), `WeightW` and `AddCommunication`
are the handlers of `run()`; each is the whole handler with its early returns
(`Skip`), its exceptions (`Raise`) and every buffer it touches. `Finish` is the
end of `run()` with `WeightGradStore.assert_empty()`. `operand`, `saved` and
`grads` record what was consumed and accumulated; no action reads them.

- `h.wait()` blocks a CUDA stream, not always the host; as every later kernel of
  the stage is queued behind it, the model blocks the stage.
- `flush` pops the tensors of sends and appends receive entries when the batch is
  posted. The model does it when the communication is added: no computation of
  the stage runs between the two, so nothing can observe the difference.
- The network is NCCL used through `fused_pipeline_ops` (`overlap_p2p_comm` and
  `batch_p2p_comm`). A stage's groups complete in the order they were posted;
  inside the head groups of two stages, the next send to a peer matches the next
  receive from it, in the order `ListedBefore` gives (towards the previous rank
  first). NCCL compares ranks, never tensors. The matching is external to the
  repository and marked so.
- Operators commented `fault:` are one-line bugs used to confirm that a property
  can fail; no specification uses them.

`PipelineDataflow` has neither stages nor messages: a computation whose
dependencies are done is carried out once, on exactly their results, and each
weight gradient is accumulated once. `Dataflow` in `PipelineRuntime` is the
refinement mapping: `done` is what all stages have executed, with the operands
and activations they really used.

### State and actions of `ActivationMemory`

The module extends `PipelineRuntime`; `Forward`, `Backward`, `Recompute` and
`Other` are its handlers together with what they do to the activations.

- `stores` are the `ActivationStore`s of a stage with their `State`, and whose
  activations their device and host buffers hold. `pools` are the
  `ActivationStorePool`s, one per chunk and split: the queues that an offload node
  moves a store through (`Steps`, `MoveStore`), and the stores that a later forward
  takes again (`TakeStore`). `savedIn` is what autograd keeps: the store that the
  hooks of a forward refer to.
- `Release` stands for `offload_release`, `prepare_resume` and `resume_release`.
  `offload` and `resume` are an exchange of events (`SendEvent`, `ReceiveEvent`)
  and a copy. The exchange is the send and the blocking receive of
  `PairedBarrier.wait_peer`; the k-th of a stage meets the k-th of its pair, as
  there is nothing else to match them by. A `FakeActivationStore` only exchanges.
- `copies` is the stream of a stage, which carries out what has been enqueued in
  its order and on its own time (`BeginCopy`, `EndCopy`). An event is the number of
  copies that precede it. `copied` counts those that are over.
- The position of a stage is that of its *computations*. They wait for a copy where
  the code waits for its event: before a store is released, and when a backward
  unpacks its activations. That the Python thread runs ahead of its device is not
  modelled.
- `recompute` is the queue of the `RecomputeStore`, of which `pop` blocks. Its
  closures are put there by checkpoint hooks outside the repository; the model
  queues one for every forward that is marked.
- Fixed options: `paired_barrier` on, `offload_overlap_sr` off (the assertion of
  `FakeActivationStore.barrier`), one rank per stage, so that the pairs of ranks
  (`rank ^ 1`) are the pairs of stages of the pass. Evaluations of an offloading
  schedule are not run: without a backward nothing is saved, the store stays `NEW`,
  and `offload` asserts.

### State and actions of `PostValidation`

The module extends `PipelineRuntime` and uses its handlers unchanged. A stage
leaves an iteration (`phase` `"finished"`), enters the next one with
`BeginValidation` (`post_validate`), runs the nodes up to its verdict with
`WarmUp`, takes and hands on the verdict (`ReceiveVerdict`, `SendVerdict`), and
then either goes on from where it stands (`Accept`) or flushes what it has
batched, posts the tagged receives that are still to come, resets and starts
again from the first node (`RollBack`). `Execute` and `EndRun` are `run()` from
there. `outcome` is chosen once for every iteration: `taken` stages, from the
first, have taken the optimizer's step on their partial norm, and the whole norm
decides whether it `stands`. A stage that has not taken it runs no forward and
only receives from a stage that has. `data` is the `RollbackDataIteratorWrapper`
of a stage, `used` which element a forward has used. The optimizer's `pre_step`,
`post_validation` and `step`, which the runtime calls and the repository does
not define, are external.

### State and actions of `RewardClient` and `TeacherClient`

`RewardClient`: one action per access of what the threads share. `pc` follows a
thread through `_get_session` (double-checked lock), `_remote_post` and
`_cb_record_success` / `_cb_record_failure`; `failures`, `openUntil`, `session`
and the two locks are the module's globals. `failures += 1` is a read and a
write; the success path reads both globals without the lock. `openUntil` is kept
as the ticks left, since the code only compares it with the present time, and
`failures` up to the threshold. `streak` and `clean` are history: they count what
was recorded since the last reset, and say whether the breaker was clean at some
instant since a thread's answer.

`TeacherClient`: one action per stretch between two awaits of a task.
`CandidateUrls` routes a sample to its endpoints; `Enter` takes the semaphore,
`BeginRound`, `PostAnswered`, `PostFailed` and `Backoff` are the loops over
rounds and endpoints, `GradeEval` the evaluation sample that is scored inline.
`failed` is history. Endpoints may change their health at any time.

## Runs

| Run | Instance | Question |
|---|---|---|
| `compiler` | 189 programs: the seven builders on 1–4 stages with 1–5 microbatches, 1–3 chunks, 1–3 splits, several costs, communication times and memory limits, with and without post validation, recomputation and offload | do the passes always end, with orders that are complete, feasible, within memory, and whose communications line up and match in fused groups, including the schedulers that pass `validate=False`; and do the copies of two paired stages never share a slot and a direction? |
| `compilerpost` | one zero-bubble program with late verdicts | violated: see Findings |
| `1f1b` | 3 stages; 1, 2, 4 and 5 microbatches, evaluation with 4 | does the runtime carry out `PipelineDataflow`, without a deadlock? |
| `seq` | 3 stages, 2 splits; 1–3 microbatches | right operands and activations when a microbatch is several units? |
| `zb` | 3 stages; five orders with tight, equal and loose memory, and evaluation; one order with post-validation nodes | weight gradients exactly once; no exception; refinement; termination |
| `v` | 3 stages × 2 chunks: V-shaped 1F1B, zero-bubble V, greedy V in both setups, interleaved in groups of 1 and 2; an evaluation of two of them | local hand-over, both directions on each link, the last stage feeding the first |
| `v2` | the same on 2 stages | one peer in both directions |
| `offload` | 2 stages × 2 chunks: six interleaved orders with offload (2–4 microbatches, groups of 1 and 2, one or both chunks offloaded, two copy times) and four with recomputation (13 437 states) | does every backward find its own activations, at every pace of the copies; is the path to the host shared without collision; does the iteration end? |
| `unsplit` | zero bubble with an unsupported split | violated: see Findings |
| `rollback` | 3 stages, 2 microbatches, 2 iterations, every verdict, some stages without the step (127 260 states) | right operands and batches after any rollback; all iterations end |
| `reward` | 4 samples, 2 threads, 1 retry, threshold 2, cool-down of 2 ticks (75 442 states) | breaker and session under every interleaving; every sample scored |
| `teacher` | 4 samples of 4 kinds, 2 endpoints in 3 environments, 2 rounds, at most 2 requests (41 248 states) | the limit, the reason of an exception, failover |

**Properties.** In `compiler`: `TimesOK`, `ComputationsKept`, `WellPlaced`,
`LinksAgree`, `AllCommunicated`, `FusedCommunicationMatches`, `MemoryBound`,
`TransfersPaired`, `Compiles`. In the runtime: `RightOperand`, `RightActivation`,
`NoRaise`, `GradAccounting`, `CleanFinish`, `Completes`, `ImplementsDataflow`. A
run states those that its orders can tell: splits for the operands and what is
left at the end, deferred weight gradients for the accounting. In `offload`:
`OwnActivations`, `PathShared`, `NoRaise`, `MemoryCompletes`. In `rollback`:
`RightOperandAgain`, `RightBatch`, `BufferInOrder`, `AllIterationsRun`. In
`reward`: `FailuresCounted`, `OneSession`, `UnlockedReadSound`, `BatchScored`,
`BreakerCloses`. In `teacher`: `InFlightLimited`, `RaisesOnlyIfUnreachable`,
`Failover`. Each has a comment in its module; each is broken by at least one
mutation of the model that is a plausible bug of the code (`mutants`).

**Bounds.** Three stages are the least with a first, an inner and a last stage;
the compiler also takes four. Microbatch counts below, at and above the number
of stages give orders without, with exactly and with more than one steady-state
round: a longer order repeats the steady state. Two stages make a ring whose
links coincide; two chunks and two splits are the least at which buffers of
different chunks and entries of different splits can be confused. Two iterations
are the least in which a rerun is itself followed by a warm-up that may be rolled
back. Two stages are a pair; the orders of `offload` are long enough for several
copies to be queued on a stage, for both stages to copy at once in opposite
directions, for a backward to wait for its copy, and for a store to be released
and taken again by a later microbatch. In `reward`, two threads are the least that race, four samples let a
thread that ends meet one that starts, and one retry and a threshold of two let
the breaker trip both within and across requests. In `teacher`, two endpoints and
two rounds are the least with a failover, a second round and an end. An iteration
is finite, so nothing else is bounded by a state constraint. Symmetry is not used,
as stages are ordered and samples enter in their order.

**Fairness.** In the pipeline, `WF_vars(Next)`: the system takes a step as long
as it can. The code has no scheduler to be unfair to a stage: each is its own
process, and a posted group whose peers are posted completes. Since each action
only enables others or is final for its stage, and an iteration is finite, weak
fairness of the whole next-state relation is enough; fairness of single stages is
not needed; a process that waits for ever, or raises while its neighbours wait,
would also be a deadlock. `MemoryFair` is the same for `ActivationMemory`: a stream
carries out what is enqueued. In `RewardClient`, weak fairness of every thread (the operating
system runs each), of entering (the event loop), of the next batch and of time;
in `TeacherClient`, of every task (the event loop). Nothing is assumed of the
service and of the endpoints, which may be down, come back and fail again at any
step. Deadlock is checked in every passing run; a normal end is the explicit
stuttering step `Terminating` or `Stop`.

## Findings

`unsplit`. `WeightGradStore.is_supported` documents "If not supported, fallback
to original schedule." (`zbpp_utils.py:245`). Only `split_bw` falls back: the
order keeps its `W` nodes, nothing is queued for them, and the first that pops
raises "Pop empty queue". `validate_arguments` admits such configurations
(`transformer_impl: transformer_engine` without `enable_primus_turbo`, or
`overlap_grad_reduce`).

`compilerpost`. `add_post_validation_nodes_before_deadline` asserts that a
verdict can be placed before the next stage's deadline is over
(`communication.py:163-168`). With three stages, four microbatches, forwards of 5
units against backwards of 1 (and weight gradients of 8) the placement chosen just
above does not satisfy it, and compiling the schedule raises: the verdict of the first
stage, behind its long forwards, comes at 20, when the second stage's deadline ends.

Not findings, but worth a second look:

- `type_cost[BW]` above, and the commented assertion `m[_j] + _mem <= max_mem` in
  `zb.py:137`, which holds in every order checked (`MemoryBound`).
- The post-validation methods that `runtime.py` calls on the optimizer and that
  `zbpp_optimizer.py` does not define, and `RollbackDataIteratorWrapper`, which
  nothing in the repository instantiates.
- A zero-bubble V order of four or more stages compiled with post validation can
  fail with "Cannot find recv consumer node after recv" (`communication.py:420`):
  four stages, one microbatch, all costs 1, no communication time. The compiled
  programs with post validation are those of the zero-bubble and greedy builders.
- In every order compiled here the receives tagged for a rollback come before the
  verdict, so that the drain after it has nothing left to post.
- An evaluation queues an entry in `RecomputeStore` for every forward and returns
  early from every `R`: the entries stay, and the recomputations of the next
  training iteration take them instead of their own.

- `add_offload` was run on 1 728 settings (2 and 4 stages, 1–12 microbatches, 2–4
  chunks of which some or all are offloaded, groups of 1 and 2, four copy times).
  1 184 compile, to orders that keep the protocol of the stores; the others fail in
  the pass or behind it:
  the assertions at `offloading.py:186` and `communication.py:396`, an index out of
  range at `offloading.py:255` and `offloading.py:272`, or "Cannot find recv
  consumer node" at `communication.py:420`. None compiles to an illegal order.
  `add_offload` pairs stages and needs an even number of them.
- `FakeActivationStore.barrier` asserts `not offload_overlap_sr`, and
  `zero_bubble.yaml:41` sets it to true. `paired_barrier` and
  `offload_continuous_buffers`, which `offload.py` reads, are set nowhere in `src/`.
- `PairedBarrier` pairs global ranks, the pass pairs pipeline stages. These are the
  same only if consecutive ranks are consecutive stages.

## Proofs

`ScheduleCompiler_proofs` proves six invariants of the compiler for every set of
programs without offload, each as `Spec => [](prog.offload = None => ...)`: on any
number of stages, with any costs and whatever order the builder has made.

- `CompilerTypes` (`TypeOK`): the variables keep their types through all passes.
- `TimesHappen` (`TimesOK`): the times of `add_time` can happen.
- `ComputationsStay` (`ComputationsKept`): no pass loses, repeats or reorders a
  computation.
- `AllWellPlaced` (`WellPlaced`): a send stands behind its producer, a receive before
  its consumer, also while the insertions go on.
- `LinksOfCompiled` (`LinksAgree`): in a compiled order the two ends of every link
  list the same transfers in the same order.
- `CompiledCommunicates` (`AllCommunicated`): there, every dependency across stages has
  one send and one receive.

What they assume of a program is evaluated by TLC on all programs of the runs:

- `ProgramsOK`: orders of computations with unique keys (`node_map` is a dictionary),
  each node on its own stage and in an existing layer group, positive costs.
- `OrdersOK`: `LayerGroupsOnOneStage`, as a layer group is a chunk of one rank (every
  builder computes `layer_group_idx` from the chunk and the stage, and no two pairs of
  these give the same); `SplitOrFused`, as a builder makes `BW`
  nodes or `B` and `W` nodes of a microbatch, not both.
- `TimedOK`: a builder that sets the times itself (then `add_time` is not run) sets
  times that can happen. This is what `TimesOK` says of the other programs, for which
  it is proved.
- `DeadlinesOK`: with post validation a stage has a node before which its verdict must
  be placed; the code takes it with `next` without a default (`communication.py:132`).

None of the six is inductive: what a pass leaves to the next is more than what is asked
of the result. `IInv` (a TLC run on programs of every builder found no violation of it
before it was proved) has two parts, both about programs without offload. `Typed` holds
in every phase: the types, and that the order is `Whole`, which is that the computations
of the program are in it, where a rising map puts them, and that what carries a tensor is
on the right side of its computation. `Passed` says, phase by phase, what has been done:

- `PeersKnown`: once `add_send_recv_peer_stage` has passed, a node has the peers that
  `get_prev_key` gives it, on either side.
- `Simulating`, `TimesSet`: what `add_time` has run so far is a prefix of each order, at
  times that can happen, no later than the clock of the stage; when it has run everything,
  the times are those of the order.
- `SendsPlaced`: the pairs are `Complete` (one for each dependency across stages, and no
  other; no two alike), and the sends of the order are those of the first `next - 1`
  (`Sending`).
- `AllSent`, `RecvsPlaced`: all sends are placed, and the receives of the first
  `next - 1` pairs (`Receiving`). Those of a link stand in the order of their sends because
  `start_indices` only moves on: what is inserted for a pair is at or behind the start
  index of either stage, and everything inserted before is in front of it.
- `AllPlaced`: at the end, sends and receives of all pairs, with equal order on each link.

The argument for the links deserves a word, as it is not the obvious one. `cmp_pair`, by
which the pairs are sorted before their receives are inserted, is not a transitive
comparison, so that no lemma says that the pairs are sorted. It is not needed: the pass
*raises* when the send of a pair is in front of the start index of its stage (the
`next` at `communication.py:363` finds nothing), so that the pairs which are accepted are in the order of their
sends on each stage, whatever the sort has done. The sort decides only whether a program
compiles; that it is a permutation (`Permutes`, for the insertion sort of `SortPair` and
its halving) is all that is used of it. Where the receives go relative to other
communications is left to `start_indices` in the same way.

Two lemmas for each pass carry the proof: what its operator does to any order that is
whole (`Inserted`, `SendInserted`, `RecvInserted`, `VerdictInserted`, `StageVerified`,
`NodeRun`, `PeersFound`), and that the action preserves
`IInv`. All insertions are one operator, `Insert(o, s, p, x)`; `Grows` says what an
insertion keeps, by a rising map of the old positions to the new ones, and composes.
The loops of the passes are folds (`ForEach`, `Loops`). The theorems of the library about
folds take an operator as a parameter, which no prover here instantiates, so each loop is
proved by hand from the recursive function that the fold is: by well-founded
minimality, the first step at which the loop's invariant fails does not exist (`Least`).

`PipelineRuntime_proofs` proves, for every number of stages, chunks and splits,
every set of orders, and every interleaving:

- `TypeCorrect == Spec => []TypeOK`. `TypeOK` alone is not inductive: that a
  popped entry names a tensor needs that buffers hold positions of nodes that
  produce one, and that taking the top of an `SpQueue` is defined needs that no
  ready stack is empty. The inductive invariant is
  `Inv == TypeOK /\ BufferEntries /\ StacksFull`; one lemma per action shows it
  preserved (`NextStep`).
- `GradsAccounted == Spec => []GradAccounting`: whatever the order, the gradient
  of an executed backward is queued once or accumulated, never both, never twice,
  never lost. `GradAccounting` speaks only of the gradients of executed
  backwards; to add one, or to move one from a queue to the accumulated set, one
  has to know that nothing else is in the queues. `Accounting` (with `Account`
  over the queues, the accumulated set and the executed positions) says so: every
  queued or accumulated gradient belongs to an executed backward, no queue holds
  one twice, no two queues share one. It is inductive relative to `Inv`
  (`NextAccount`) and implies the property (`AccountingSuffices`).

Assumptions, all evaluated by TLC in the runs: `ConstantsOK` (at least one stage,
chunk and split), `ConfOK` (orders are sequences of nodes), `BackwardsOnce` (an
order holds a backward at most once: the passes index nodes by key). The second
theorem does not assume that the order is a good one: an order that pops too
early raises, but never loses a gradient.

`OperandMatching_proofs` and `PipelineDataflow_proofs`, which extends it, prove what
the runtime computes. It compares no tensors: a computation takes the oldest entry of a FIFO
buffer, NCCL matches the next send of a rank with the next receive of its peer, and
a backward pops a stack. So the results are right only for orders that line up, and
`MatchedOrders` says what that is, of the orders alone:

- `BuffersMatched`: a stage takes from each buffer what it puts there, in the same
  order. `LinksMatched`: what one stage sends to another is what the other receives,
  in the same order, where the order within a fused group is that of
  `fused_pipeline_ops` (previous rank first). Tensors are the same if they agree in
  kind, layer group, microbatch and split.
- `SplitsTogether`, `StacksMatched`: a chunk runs the splits of a microbatch
  together, and its backwards in the order of the forwards' microbatches with the
  splits reversed.
- `BackwardsAlike`, `ComputedOnce`: an order has backwards of one kind, and no
  computation twice.

No order has this of itself: it is what the builders and passes are for, and
`validate_communication` checks part of it (the links, without the microbatches).
Each run of the runtime evaluates all of it on the orders that it executes, which are
those the modelled builders and passes make. It does not say that an order can be
executed: an order that lines up may still take a tensor before anything has put it,
and then a stage raises. `ExecutableOrders` excludes this, again of the orders alone:

- `GivenInTime`: the tensor of a buffer is given earlier in the order than it is taken.
  `ForwardsInTime`: a backward comes after the forwards of all splits of its microbatch
  (it pops the first stack, which is ready only when it is complete). `LocalsAllowed`: a
  chunk hands tensors to another chunk of its stage only where `run()` allows it.
- `WeightsInTime`: a `W` that pops one gradient finds one, counting the backwards and
  the pops of its queue before it; the `W` that clears a queue is behind them all, and a
  queue which none clears has as many pops as gradients.
- `RecomputedInTime`: before a backward whose forward is to be recomputed, its chunk has
  had as many `R` as forwards to be recomputed up to that one. The `RecomputeStore`
  names no microbatch, so that the number is all that relates the two.

They put no computation of one stage in relation to another's: a stage meets the others
only through its receives, which wait and do not raise. The runs of the executable
orders evaluate these as well (`MCRuntimeUnsplit`, whose order does raise, leaves them
out: `WeightsInTime` is false of it). Neither module excludes a deadlock, which depends
on all stages at once: that stays with the runs.

- `OperandsRight == Spec => []RightOperand` (`OperandMatching_proofs`), with
  `Matched` beside `Inv`. `BuffersOK`: a buffer holds the entries that are given and
  not taken, oldest first, so that its head is what the next taker wants
  (`TakeHead`). `Groups`: a posted group is a run of communications between two
  flushes, and the batch comes after all of them, so that the operation which the
  network takes next is the first of its link that is not over (`NextIsFirst`).
  `LinksOK`: the two ends of a transfer are both over, or neither. If NCCL joined a
  send to a receive that is not its own, the own partner of either would not be over,
  hence later on the one side and on the other, against the common order of the link
  (`TransferMatches`). `PayloadOK` and `OperandOK` carry the tensors along.
- `ActivationsRight == Spec => []RightActivation` (same module), with
  `ActivationsOK`: the `SpQueue` of a chunk holds the forwards that are done and
  whose backwards are not, in their order, a stack for each microbatch, of which the
  incomplete one is that of the microbatch still open. A stack is complete exactly
  when its microbatch is (`StackComplete`), and the top of the first stack is the
  forward of the next backward (`TopIsMate`).
- `DataflowImplemented == Spec => ImplementsDataflow` (`PipelineDataflow_proofs`), the
  refinement. `Sound` joins the invariants above with `Accounting` and with
  `NothingSaved` (a forward takes no activation). A forward and a backward map to
  `Compute` (`ComputeRefines`: it is new, what it depends on is done, and its result
  is that of `get_prev_key`), a `W` that takes gradients to `Accumulate`
  (`AccumulateRefines`), everything else to a stutter (`StepRefines`).
- `FinishesClean == Spec => []CleanFinish` (same module): what a stage that is done
  leaves. `run()` asserts this of the weight queues only; that no received tensor, no
  activation and no posted communication is left over follows from `Ending`, which is
  `Sound`, that a stage which is done has passed its last node (`AtEnd`), and that an
  evaluation has no activation to leave (`NoActivations`): at the end of the order a
  buffer holds what is given and not taken, which `BuffersMatched` makes nothing
  (`BuffersEmpty`), the forwards without their backwards are none (`ActivationsUsed`),
  and the last group has been flushed (`BatchFlushed`).
- `RaisesNever == Spec => []NoRaise` (same module, with `ExecutableOrders`): no pop of
  an empty buffer, stack or queue, no failed assertion, no gradient left over. `Running`
  adds `WeightsOK` to the invariants above: the length of a weight queue is the number
  of backwards less the number of pops that are behind the stage, until it is cleared
  (`QueueKept`; the node of each handler falls on one of its cases, `HandlerWeights`).
  Then every cause of an exception meets a reason why it is absent (`FindsOperand`,
  `FindsActivation`, `LocalAllowed`, `PopFinds`, `QueueEmptyAtEnd`).

`ActivationMemory_proofs` proves `PathKeptApart == MemorySpec => []PathShared` for
every even number of stages (`StagesPaired`), all orders whose copies are paired
(`CopiesPaired`, which is what the compiler's `TransfersPaired` promises of an
order) and every pace of stages and copies. Take two stages of a pair that copy at
once. If their copies follow the same exchange, they go in different directions by
the assumption. If not, the one that follows the later exchange has waited for the
event that the other stage sent there, and this event is behind everything that
stage had enqueued before, so the copy that it is running is over. The property
says nothing of the second case, so `PathInv` has to: both events of the exchange of a
queued copy have been sent, the copy is that of a node at that exchange, every
event sent at a later exchange is behind it (`CopyOK`), and the event that a
running copy waited for is over (`StartOK`). `LastEvent` is what keeps it: the
lemmas `SendEventStep`, `ReceiveEventStep`, `BeginCopyStep` and `EndCopyStep`
treat the actions that move these, `NoTransfer` the others.

`OwnActivationsFound == MemorySpec => []OwnActivations`, in the same module, extends
`OperandMatching_proofs`: the steps with offload and recomputation are steps of the
runtime and of the copies beside it (`RuntimeBelow`), so that `Inv` and `ActivationsOK`
hold of them, and the activation that a backward pops names its own forward. What is
left is that the store of this forward is still its own: stores are used again, the
pools move the head of a queue whoever it belongs to, and a buffer of the host is
written by a copy that ends at its own pace. `MemoryOK` says of every stage:

- `PoolsOK`: a store is in one place of one pool only, a queue or the free stores, and
  in a state of that place (`Shifted` for the operations that move one). A store
  that is free is thus nobody's, and one that is not has the state its queue asks for.
- `Stored`: the forwards to be offloaded that are done and whose backwards are not have
  each a store, no two the same, which carries their activations in the buffer that
  counts in its state: on the device until it is released, on the host or in a copy
  that is still queued after that, on the device again when the copy back is over
  (`StoreHas`, and `CopiesFit` for what is queued).
- `EventsReady`: the events that a stage has sent are one for each exchange behind it,
  and one more if it is in the middle of one; the store that it found when it began the
  exchange is still there when it goes on. `PathInv` has the types of copies and events.
- `RedoneOf`: what is queued in a `RecomputeStore` is the forwards to be recomputed
  that the stage has passed, without as many of the first ones as it has passed `R`.
- `Kept`: what the backwards so far have found is their own.

There is one lemma for each action, and `MovesStore` and `TakesStore` for the
operations of the pools. The activations need only be right in a training iteration:
without backwards nothing is saved. A stage that has raised keeps what it has found.

`PostValidation_proofs` proves `BatchesReplayed == ValidationSpec => []BufferInOrder`
for every number of stages and iterations, all orders and all verdicts
(`IterationsOK` says that there is an iteration and that the schedule has one
chunk and one split, as `tag_rollback_communication` asserts of what it tags).
The invariant is `DataGood`, the property with the type of the wrappers: one lemma
per operation of a wrapper, one for the pair of reads of `get_batch_func`, and
every action applies a sequence of them to one stage's wrapper.

`BatchesRight == ValidationSpec => []RightBatch`, in the same module, is about the
forwards: each computes on the batch of its own iteration and microbatch, also when it
is run again after a rollback. That the buffer is in order is not enough, one has to
know where in it a stage stands. `Batches` therefore says of every stage that reads
data, by its phase (`AtPhase`): where the next batch comes from (`Position`, the read
head less what is buffered when it replays), how many forwards are behind it, and
whether the reads are being kept. A stage that validates keeps what it reads for its
warm-up, or has read nothing if the iteration does not reach it; after the verdict
what is buffered is exactly what it has to read again. The assumption is
`MicrobatchesInOrder`: a stage has a forward for each microbatch, in the order 0, 1,
..., which every builder sees to and the data iterator takes for granted; the run
evaluates it.

`OperandsRightAgain == ValidationSpec => []RightOperandAgain`, the third theorem of the
module, is `OperandsRight` over several iterations and every sequence of verdicts. A
stage now goes twice through the beginning of an order, at another time than its
neighbours, and what it sends in an abandoned warm-up travels over the same links as
what it sends when it runs the iteration after all: NCCL tells the two apart by nothing
but their order. `MatchedOrders` does not say that both ends abandon the same transfers.
`ValidatedOrders` adds this, of the orders alone:

- `WarmUpMatched`: what a stage sends before the verdict goes to the next stage, which
  receives all of it before its own verdict or at a node that
  `tag_rollback_communication` has tagged, and receives nothing else there. It is why
  the tags exist: without them a tensor of the warm-up stays on the link, and every
  later receive is one behind.
- `OneDirection`: with one chunk, a stage's communications with a neighbour all have
  the same direction, by which the fused groups are ordered.

The run `rollback` evaluates both on the orders it executes. The invariant counts the
*attempts* of a stage (`Attempt`): 2k is the one at iteration k that counts, 2k - 1 the
warm-up of it that is taken back. `Posts(s, e)` is what stage s communicates in attempt
e, with the dummy receives of the rollback, and by the assumptions the two ends of a link
post the same tensors in every attempt (`AttemptPairs`), also where the step was
taken only by the first stages (`taken`). `Labelled` gives every posted group the attempt
that posted it, in the order of attempts and then of positions; the labels are history
that the runtime has no variable for, so that `Communicated` says only that some exist.
`EndsTogether`: in every attempt the two ends of a transfer are both over, or neither. The
network takes the first operation that is left at either end (`NextComesFirst`). If these
two did not belong together, the partner of each would not be over, hence be later at
the other end: of a later attempt, or further on in the order of the link, which is the
same at both ends (`AttemptsMatch`, `OnlyPair`). `Carried` is the tensors' part.
`Tidy` is what a stage knows of itself by its phase: it has finished with an empty batch
and at the end of its order, validates only nodes of the warm-up (`WarmUpTypes`), and if
it takes part in the iteration its buffers hold what is given and not taken since the
attempt began, and its computations have their operands. There is one lemma
for each action (`BeginSound`, `RollBackSound`, ...). A stage that has not taken the step
computes nothing in its warm-up, so that nothing is said of its operands (`TookPart`).

`RewardClient_proofs` proves `CountKept` (`FailuresCounted`) and `UnlockedReads`
(`UnlockedReadSound`) for every batch, concurrency, retry count, threshold and
cool-down (`ClientAssumption`). `FailuresCounted` holds because only the owner of
`_cb_lock` writes; `Inv` therefore says who can be inside the lock (`LockHeld`)
and that what a thread has read under it is still true (`OwnerKnows`). For the
success path, `ReadsCover` says that a thread which read no failures either
already saw a clean breaker or will find `_cb_open_until` set: `FailWrite` makes
`failures` positive before `FailTrip` opens the breaker, in one critical section.
`SessionShared` (`OneSession`) rests on `SessionInv`: the lock keeps the other
threads out between the second look (`LookAgain`) and `MakeSession`, and the thread
about to make a session has found none under it. `TypeCorrect` rests on
`RetryInv`, which keeps the attempt of a thread within the retries.

`TeacherClient_proofs` proves `LimitKept` (`InFlightLimited`) for all samples,
endpoints and attempts (`TeacherAssumption`): the invariant bounds the holders of
the semaphore, of which the requests in flight are some.
`RaisesLast` (`RaisesOnlyIfUnreachable`) needs two things. `RoutesRight`:
`CandidateUrls` lists each endpoint of the sample exactly once and nothing else;
an endpoint's first place has a rank among the first places (a finite set), and the
first place itself is a least element, which well-founded induction on the numbers
gives (`Least`). And that the two loops leave nothing out: at each place of them, the
invariant counts for every endpoint the rounds that have failed there
(`LoopInvariance`, one lemma per way the loops go on). `TypeCorrect` comes from the
same invariant.

Only model-checked: termination and the other liveness properties, as liveness
under fairness is out of the prover's reach; the absence of deadlock. What the builders
compute (`MemoryBound`, and that their orders compile, `Compiles`): they are searches over
nested loops, of which nothing simpler than the result is invariant. Programs with
offload (`TransfersPaired`, and the six invariants above for them): `add_offload` sorts
by times that may be equal, and the sort of the community modules chooses among the
results, of which the prover knows nothing. `FusedCommunicationMatches`: that the kernels
of all stages match is not kept by an insertion, and no invariant of the passes is known
that implies it; the code itself checks it at the end.

## Not modelled

- Of `offload.py`: `PartialRecompute`, the packing of tensors into buffers and
  their aliases, the sizes of transfers, separate streams for the two directions
  (`offload_overlap_sr`), and the Python thread running ahead of its device. Offload
  together with post validation, which no builder asks for at once.
- The checkpoint hooks that fill the `RecomputeStore`, outside the repository.
- `pre_load_batch`, which fetches batches ahead of the forwards of an offloading
  schedule.
- The unfused `p2p_pipeline_ops` mode and `pre_communication_optimization`; the
  start-up exchange of schedules; grad-sync hooks of data parallelism (external to
  the pipeline).
- Tensor contents and shapes, timers, profiling ranges and logging;
  `DataLoaderStore`'s slicing of a batch into splits.
- The remaining parts of the inventory: numerical kernels and configuration, most
  of the repository's lines, hold no state that interleaves or fails in steps.

## Running

`tlc -config MCRuntimeZB.cfg MCRuntimeZB.tla` and likewise for each run of
`PROJECT.json`; `tlapm PipelineRuntime_proofs.tla` and likewise for the other
`*_proofs` modules. The longest runs (`compiler`, `v`, `rollback`, `offload`)
take one to three minutes, the proofs of `ActivationMemory_proofs` about five and those
of `ScheduleCompiler_proofs` about seven.
