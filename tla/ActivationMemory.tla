--------------------------- MODULE ActivationMemory ---------------------------
(* The runtime with offload and recomputation of activations (offload.py and  *)
(* the RecomputeStore of zbpp_utils.py), around the actions of                *)
(* PipelineRuntime.  A forward marked offload saves its activations in a      *)
(* store, which the offload nodes of its stage move through the queues of its *)
(* pool: copied to the host, freed, allocated again, copied back and, after   *)
(* the backward, released.                                                    *)
(*                                                                            *)
(* The copies of a stage run in order on a stream of their own, beside its    *)
(* computations (offload_overlap_sr is off, as FakeActivationStore asserts);  *)
(* the position of a stage is that of its computations, which wait for a copy *)
(* where the code waits for its event.  Two stages share the path to the      *)
(* host: they exchange events before each copy (paired_barrier).              *)
EXTENDS PipelineRuntime, SequencesExt

VARIABLES
  stores,      \* stores[s]: the ActivationStores of a stage: their state, and
               \* whose activations their gpu and cpu buffers hold
  pools,       \* pools[s][<<chunk, seq>>]: an ActivationStorePool, the stores in
               \* its _stage_queues and those of its _pool, free
  savedIn,     \* savedIn[s]: the store that the graph of a forward refers to
  copies,      \* copies[s]: the copies enqueued and not over, oldest first, with
               \* the number of the exchange that precedes them
  running,     \* running[s]: the first of them has started
  copied,      \* copied[s]: how many are over
  handles,     \* handles[s]: the events sent to the other stage of the pair, an
               \* event by the number of copies it comes after
  restored,    \* restored[s][i]: whose activations backward i found in its store
  recompute,   \* recompute[s][chunk]: the RecomputeStore's queue
  recomputed   \* recomputed[s]: the forwards recomputed

transfer == <<copies, running, copied, handles>>
kept     == <<stores, pools, savedIn, restored>>
redone   == <<recompute, recomputed>>
memory   == <<kept, transfer, redone>>

ASSUME StagesPaired == N % 2 = 0

Pools == Chunks \X Seqs
Blank == <<"BLANK">>                  \* what a buffer holds when it is allocated

(* rank ^ 1, the rank that a stage shares the path to the host with.          *)
PairedRank(s) == IF s % 2 = 0 THEN s + 1 ELSE s - 1

(* What the pass guarantees (TransfersPaired of ScheduleCompiler): at the same *)
(* exchange the stages of a pair do not both copy in the same direction.      *)
BarriersBefore(f, s, i) == Cardinality({j \in 1 .. i - 1 : f.order[s][j].type \in BarrierTypes})

ASSUME CopiesPaired ==
  \A f \in Conf : \A s \in Stage :
    \A i \in DOMAIN f.order[s], j \in DOMAIN f.order[PairedRank(s)] :
      LET mine == f.order[s][i].type
          peer == f.order[PairedRank(s)][j].type
      IN  /\ mine \in CopyStarts /\ peer \in CopyStarts
          /\ BarriersBefore(f, s, i) = BarriersBefore(f, PairedRank(s), j)
          => mine # peer

(* What a node does to the store at the head of a queue of its pool.          *)
Steps ==
  [OFFLOAD_SEND_START |-> [queue |-> 1, from |-> "SAVING", to |-> "OFFLOADED"],
   OFFLOAD_SEND_END   |-> [queue |-> 2, from |-> "OFFLOADED", to |-> "OFFLOAD_RELEASED"],
   OFFLOAD_RECV_PREP  |-> [queue |-> 3, from |-> "OFFLOAD_RELEASED", to |-> "RESUME_PREPARED"],
   OFFLOAD_RECV_START |-> [queue |-> 4, from |-> "RESUME_PREPARED", to |-> "RESUMED"],
   OFFLOAD_RECV_END   |-> [queue |-> 5, from |-> "RESUME_USED", to |-> "RESUME_RELEASED"]]

MemoryInit ==
  /\ Init
  /\ stores = [s \in Stage |-> <<>>]
  /\ pools = [s \in Stage |-> [q \in Pools |->
                [queues |-> [k \in 1 .. 5 |-> <<>>], free |-> <<>>]]]
  /\ savedIn = [s \in Stage |-> <<>>]
  /\ copies = [s \in Stage |-> <<>>]
  /\ running = [s \in Stage |-> FALSE]
  /\ copied = [s \in Stage |-> 0]
  /\ handles = [s \in Stage |-> <<>>]
  /\ restored = [s \in Stage |-> [i \in DOMAIN Order(s) |-> NoKey]]
  /\ recompute = [s \in Stage |-> [k \in Chunks |-> <<>>]]
  /\ recomputed = [s \in Stage |-> {}]

-------------------------------------------------------------------------------
(* The forwards, backwards and recomputations.                                *)

PoolOf(n) == <<n.chunk, n.seq>>

(* A store goes last in queue k of its pool or, at 6, among its free stores.  *)
Entered(pool, k, id) ==
  IF k = 6 THEN [pool EXCEPT !.free = Append(@, id)]
  ELSE [pool EXCEPT !.queues[k] = Append(@, id)]

TakenFree(pool) == [pool EXCEPT !.free = IF @ = <<>> THEN <<>> ELSE Front(@)]

(* The graph of one more forward refers to a store.                           *)
SavedAlso(f, key, id) == [k \in DOMAIN f \cup {key} |-> IF k = key THEN id ELSE f[k]]

(* get_for_offload: the store last released, or a new one, goes to the first  *)
(* queue.  What its forward saves for the backward makes it SAVING; without   *)
(* backwards nothing is saved.                                                *)
TakeStore(s, n) ==
  LET pool  == pools[s][PoolOf(n)]
      id    == IF pool.free = <<>> THEN Len(stores[s]) + 1 ELSE Last(pool.free)
      all   == IF pool.free = <<>>
               THEN Append(stores[s], [state |-> "NEW", gpu |-> NoKey, cpu |-> NoKey])
               ELSE stores[s]
      state == IF conf.forwardOnly THEN "NEW" ELSE "SAVING"
      held  == IF conf.forwardOnly THEN NoKey ELSE Key(n)
  IN  /\ stores' = [stores EXCEPT ![s] = [all EXCEPT ![id].state = state, ![id].gpu = held]]
      /\ pools' = [pools EXCEPT ![s][PoolOf(n)] = Entered(TakenFree(@), 1, id)]
      /\ savedIn' = [savedIn EXCEPT ![s] = SavedAlso(@, Key(n), id)]

(* schedule_f.  The forwards to be recomputed are not to be offloaded; their  *)
(* recomputations are queued.                                                 *)
Forward(s) ==
  /\ AtNode(s, {"F"})
  /\ LET n == Node(s, it[s])
     IN  IF n.offload /\ n.recompute THEN Raise(s) /\ UNCHANGED memory
         ELSE /\ ForwardF(s)
              /\ IF n.offload THEN TakeStore(s, n) ELSE UNCHANGED <<stores, pools, savedIn>>
              /\ recompute' = IF n.recompute
                              THEN [recompute EXCEPT ![s][n.chunk] = Append(@, Key(n))]
                              ELSE recompute
              /\ UNCHANGED <<transfer, restored, recomputed>>

CopyingNever(s, id) == FALSE          \* fault: no event is waited for

(* The copy of a store is enqueued and not over yet.                          *)
Copying(s, id) == \E k \in DOMAIN copies[s] : copies[s][k].store = id

(* The store of the activations that a backward pops, 0 when it has none.     *)
StoreFor(s, n) ==
  IF acts[s][n.chunk].ready = <<>> \/ SpTop(acts[s][n.chunk]) \notin DOMAIN savedIn[s]
  THEN 0 ELSE savedIn[s][SpTop(acts[s][n.chunk])]

(* A backward whose activations are in a store waits until they are back, and *)
(* uses them up (_resume_tensor).                                             *)
Backward(s) ==
  /\ AtNode(s, {"B", "BW"})
  /\ LET i  == it[s]
         n  == Node(s, i)
         id == StoreFor(s, n)
     IN  IF id = 0 \/ Missing(s, Source(s, n)) THEN BackwardB(s) /\ UNCHANGED memory
         ELSE IF stores[s][id].state \notin {"RESUMED", "RESUME_USED"}
         THEN Raise(s) /\ UNCHANGED memory
         ELSE /\ ~ Copying(s, id)
              /\ BackwardB(s)
              /\ stores' = [stores EXCEPT ![s][id].state = "RESUME_USED", ![s][id].gpu = NoKey]
              /\ restored' = [restored EXCEPT ![s][i] = stores[s][id].gpu]
              /\ UNCHANGED <<pools, savedIn, transfer, redone>>

(* schedule_r: RecomputeStore.pop, which waits as long as the queue is empty. *)
Recompute(s) ==
  /\ AtNode(s, {"R"})
  /\ LET chunk == Node(s, it[s]).chunk
     IN  IF conf.forwardOnly THEN UNCHANGED redone
         ELSE /\ recompute[s][chunk] # <<>>
              /\ recompute' = [recompute EXCEPT ![s][chunk] = Tail(@)]
              /\ recomputed' = [recomputed EXCEPT ![s] = @ \cup {Head(recompute[s][chunk])}]
  /\ Skip(s)
  /\ UNCHANGED <<kept, transfer>>

-------------------------------------------------------------------------------
(* The stores on their way.                                                   *)

(* What is taken from a queue, and what stays.                                *)
PoppedLast(q)  == [store |-> Last(q), rest |-> Front(q)]   \* fault: a stack
PoppedFirst(q) == [store |-> Head(q), rest |-> Tail(q)]

QueueOf(s, n) == pools[s][PoolOf(n)].queues[Steps[n.type].queue]
StoreAt(s, n) == PoppedFirst(QueueOf(s, n)).store

Left(pool, k) == [pool EXCEPT !.queues[k] = PoppedFirst(@).rest]

(* The assertions of pop_call_push and _change_state.                         *)
StoreReady(s, n) ==
  QueueOf(s, n) # <<>> /\ stores[s][StoreAt(s, n)].state = Steps[n.type].from

(* The store changes its state and its gpu buffer, and goes to the next queue *)
(* or, after the last one, back to the pool.                                  *)
MoveStore(s, n, gpu) ==
  LET id   == StoreAt(s, n)
      step == Steps[n.type]
  IN  /\ stores' = [stores EXCEPT ![s][id].state = step.to, ![s][id].gpu = gpu]
      /\ pools' = [pools EXCEPT ![s][PoolOf(n)] =
                     Entered(Left(@, step.queue), step.queue + 1, id)]
      /\ UNCHANGED <<savedIn, restored>>

(* offload_release, prepare_resume and resume_release: the gpu buffers are    *)
(* freed once they are copied, allocated again, and freed once they are used. *)
(* A store can be released only if its backward has used all of it up.        *)
Release(s) ==
  /\ AtNode(s, {"OFFLOAD_SEND_END", "OFFLOAD_RECV_PREP", "OFFLOAD_RECV_END"})
  /\ LET n == Node(s, it[s])
     IN  IF ~ StoreReady(s, n) THEN Raise(s) /\ UNCHANGED memory
         ELSE /\ n.type # "OFFLOAD_RECV_PREP" => ~ Copying(s, StoreAt(s, n))
              /\ Skip(s)
              /\ MoveStore(s, n, IF n.type = "OFFLOAD_RECV_PREP" THEN Blank ELSE NoKey)
              /\ UNCHANGED <<transfer, redone>>

-------------------------------------------------------------------------------
(* The copies.  PairedBarrier.wait_peer: the k-th exchange of a stage is the  *)
(* k-th of its pair; each sends the event recorded after its last copy.       *)

MissedBarriers == CopyStarts          \* fault: a barrier node does not exchange
ExchangeTypes  == BarrierTypes

Exchanges(s) == Cardinality({i \in 1 .. it[s] - 1 : Node(s, i).type \in ExchangeTypes})

EventBefore(s) == 0                   \* fault: the event is not recorded again
LastEvent(s)   == copied[s] + Len(copies[s])

SendEvent(s) ==
  /\ AtNode(s, ExchangeTypes)
  /\ Len(handles[s]) = Exchanges(s)
  /\ LET n == Node(s, it[s])
     IN  IF n.type \in CopyStarts /\ ~ StoreReady(s, n)
         THEN Raise(s) /\ UNCHANGED memory
         ELSE /\ handles' = [handles EXCEPT ![s] = Append(@, LastEvent(s))]
              /\ UNCHANGED <<vars, kept, copies, running, copied, redone>>

(* The event of the other stage has arrived: offload and resume enqueue their *)
(* copy behind it, a barrier (FakeActivationStore) only what comes next.      *)
ReceiveEvent(s) ==
  /\ AtNode(s, BarrierTypes)
  /\ LET n == Node(s, it[s])
         k == Exchanges(s) + 1
     IN  /\ n.type \in ExchangeTypes =>
              Len(handles[s]) = k /\ k \in DOMAIN handles[PairedRank(s)]
         /\ Skip(s)
         /\ IF n.type \in CopyStarts
            THEN /\ MoveStore(s, n, stores[s][StoreAt(s, n)].gpu)
                 /\ copies' = [copies EXCEPT ![s] = Append(@,
                      [store |-> StoreAt(s, n), type |-> n.type, exchange |-> k])]
            ELSE UNCHANGED <<kept, copies>>
         /\ UNCHANGED <<running, copied, handles, redone>>

(* The stream of a stage: the first copy starts when the event it waits for   *)
(* is over, and ends with the activations in the other buffer.                *)
BeginCopy(s) ==
  /\ copies[s] # <<>> /\ ~ running[s]
  /\ copied[PairedRank(s)] >= handles[PairedRank(s)][Head(copies[s]).exchange]
  /\ running' = [running EXCEPT ![s] = TRUE]
  /\ UNCHANGED <<vars, kept, copies, copied, handles, redone>>

EndCopy(s) ==
  /\ running[s]
  /\ LET id == Head(copies[s]).store
     IN  stores' = IF Head(copies[s]).type = "OFFLOAD_SEND_START"
                   THEN [stores EXCEPT ![s][id].cpu = stores[s][id].gpu]
                   ELSE [stores EXCEPT ![s][id].gpu = stores[s][id].cpu]
  /\ copies' = [copies EXCEPT ![s] = Tail(@)]
  /\ running' = [running EXCEPT ![s] = FALSE]
  /\ copied' = [copied EXCEPT ![s] = @ + 1]
  /\ UNCHANGED <<vars, pools, savedIn, restored, handles, redone>>

-------------------------------------------------------------------------------
(* ActivationPoolCache.assert_empty, at the end of run().                     *)
PoolsEmpty(s) == \A q \in Pools : \A k \in 1 .. 5 : pools[s][q].queues[k] = <<>>

FinishEmpty(s) ==
  /\ IF it[s] = Len(Order(s)) + 1 /\ status[s] = "running" /\ ~ PoolsEmpty(s)
     THEN Raise(s) ELSE Finish(s)
  /\ UNCHANGED memory

(* The rest of the runtime does not touch the activations.                    *)
Other(s) == (WeightW(s) \/ AddCommunication(s)) /\ UNCHANGED memory

MemoryOver ==
  \A s \in Stage : status[s] = "done" /\ posted[s] = <<>> /\ copies[s] = <<>>

MemoryNext ==
  \/ \E s \in Stage : \/ Forward(s) \/ Backward(s) \/ Recompute(s) \/ Release(s)
                      \/ SendEvent(s) \/ ReceiveEvent(s) \/ BeginCopy(s) \/ EndCopy(s)
                      \/ Other(s) \/ FinishEmpty(s)
  \/ \E s, t \in Stage : Transfer(s, t) /\ UNCHANGED memory
  \/ MemoryOver /\ UNCHANGED <<vars, memory>>

MemorySpec == MemoryInit /\ [][MemoryNext]_<<vars, memory>>

(* As in FairSpec: the processes, the network and the copies keep going.     *)
MemoryFair == MemorySpec /\ WF_<<vars, memory>>(MemoryNext)

-------------------------------------------------------------------------------
(* Properties.                                                                *)

(* The backward of a forward that was offloaded has found in its store the    *)
(* activations of that forward, copied to the host and back, and neither an   *)
(* empty buffer nor those of another microbatch; that of a forward to be      *)
(* recomputed comes after its own recomputation.  The nodes of the passes     *)
(* name a microbatch, the queues of the pools and of the RecomputeStore do    *)
(* not: the order of the nodes has to agree with theirs.                      *)
OwnActivations ==
  \A s \in Stage : \A i \in Executed(s, {"B", "BW"}), j \in Executed(s, {"F"}) :
    LET b == Node(s, i)
        f == Node(s, j)
    IN  Key(f) = MakeKey("F", b.lg, b.mb, b.seq) =>
          /\ f.offload => restored[s][i] = Key(f)
          /\ f.recompute => Key(f) \in recomputed[s]

(* Two stages that share the path to the host never copy in the same          *)
(* direction at once: the exchanges of events keep the copies of both to the  *)
(* slots that the pass gave them.                                             *)
PathShared ==
  \A s \in Stage :
    running[s] /\ running[PairedRank(s)]
      => Head(copies[s]).type # Head(copies[PairedRank(s)]).type

(* The iteration ends, with every copy over: no stage waits for ever for an   *)
(* event of its pair, a copy, a recomputation or an operand.                  *)
MemoryCompletes == <>(MemoryOver /\ Dataflow!Over)
=============================================================================
