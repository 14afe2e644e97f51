---------------------------- MODULE ScheduleGraph ----------------------------
(* The data of the zero-bubble scheduler (scheduler/graph.py): the nodes of a *)
(* pipeline schedule, the keys that identify them, the dependency of one      *)
(* computation on another and the cost of a computation.                      *)
EXTENDS Integers, Sequences, FiniteSets

(* Python's None in the integer-valued fields of a node.                      *)
None == -1

ComputeTypes == {"F", "B", "W", "R", "BW"}
SendTypes    == {"SEND_FORWARD", "SEND_BACKWARD"}
RecvTypes    == {"RECV_FORWARD", "RECV_BACKWARD"}
CommTypes    == SendTypes \cup RecvTypes
BackwardComm == {"SEND_BACKWARD", "RECV_BACKWARD"}
(* The nodes of the optimizer's post validation; graph.py counts the last two *)
(* among the sends and the receives, the runtime's batches do not.            *)
PostValidationTypes ==
  {"POST_VALIDATION", "SEND_POST_VALIDATION", "RECV_POST_VALIDATION"}

(* Copies of activations to the host (SEND) and back (RECV).  Those that a    *)
(* stage starts together with the other stage of its pair have a barrier.     *)
CopyStarts   == {"OFFLOAD_SEND_START", "OFFLOAD_RECV_START"}
BarrierTypes == {"OFFLOAD_BARRIER"} \cup CopyStarts
OffloadTypes == BarrierTypes \cup {"OFFLOAD_SEND_END", "OFFLOAD_RECV_PREP", "OFFLOAD_RECV_END"}

NodeTypes == ComputeTypes \cup CommTypes \cup PostValidationTypes \cup OffloadTypes

IsComputation(n)  == n.type \in ComputeTypes
IsSend(n)         == n.type \in SendTypes \cup {"SEND_POST_VALIDATION"}
IsRecv(n)         == n.type \in RecvTypes \cup {"RECV_POST_VALIDATION"}
IsBackwardComm(n) == n.type \in BackwardComm
IsOffload(n)      == n.type \in OffloadTypes
HasOffloadBarrier(n) == n.type \in BarrierTypes

(* NodeKey: what identifies a node in the maps of the passes.  NoKey is the   *)
(* None that get_prev_key returns for the forward of the first layer group.   *)
MakeKey(type, lg, mb, seq) == [type |-> type, lg |-> lg, mb |-> mb, seq |-> seq]
NoKey  == MakeKey("none", None, None, None)
Key(n) == MakeKey(n.type, n.lg, n.mb, n.seq)

(* A ScheduledNode as the builders create it: peers, times and communication  *)
(* fields are None until a pass fills them in.  dir is "NONE", "NEXT" or      *)
(* "PREV"; start and end are the times add_time assigns.                      *)
ComputeNode(type, stage, mb, chunk, seq, lg) ==
  [type |-> type, stage |-> stage, mb |-> mb, chunk |-> chunk, seq |-> seq,
   lg |-> lg, start |-> None, end |-> None, recvPeer |-> None,
   sendPeer |-> None, dir |-> "NONE", peer |-> None, pair |-> None,
   rollback |-> FALSE, recompute |-> FALSE, offload |-> FALSE]

(* GraphConfig, with the two numbers that the runtime's arguments add to it   *)
(* (seqs is num_seq_splits): n stages, m microbatches, chunks per stage, the  *)
(* costs of F, B and W on each stage and the cost of a communication.         *)
Stages(cfg)         == 0 .. cfg.n - 1
NumLayerGroups(cfg) == cfg.n * cfg.chunks

BasicConfig(n, m, chunks, seqs, f, b, w) ==
  [n |-> n, m |-> m, chunks |-> chunks, seqs |-> seqs,
   f |-> [s \in 0 .. n - 1 |-> f], b |-> [s \in 0 .. n - 1 |-> b],
   w |-> [s \in 0 .. n - 1 |-> w], comm |-> 0]

(* get_prev_key: the one computation a node waits for, in a pipeline of L     *)
(* layer groups.  A forward waits for the layer group below, a backward for   *)
(* the one above or, on the last layer group, for its own forward; a          *)
(* recomputation waits for its forward and a weight gradient for its B.       *)
PrevKey(n, L) ==
  CASE n.type = "F" /\ n.lg = 0 -> NoKey
    [] n.type = "F" /\ n.lg # 0 -> MakeKey("F", n.lg - 1, n.mb, n.seq)
    [] n.type \in {"B", "BW"}   ->
         IF n.lg + 1 = L THEN MakeKey("F", n.lg, n.mb, n.seq)
                         ELSE MakeKey(n.type, n.lg + 1, n.mb, n.seq)
    [] n.type = "R"             -> MakeKey("F", n.lg, n.mb, n.seq)
    [] OTHER                    -> MakeKey("B", n.lg, n.mb, n.seq)

(* get_cost: a fused backward costs its input- and its weight-gradient.       *)
GetCost(cfg, s, type) ==
  CASE type = "BW" -> cfg.b[s] + cfg.w[s]
    [] type = "F"  -> cfg.f[s]
    [] type = "B"  -> cfg.b[s]
    [] OTHER       -> cfg.w[s]

(* The nodes of an order, an order being a function from stages to sequences. *)
AllNodes(order) == UNION {{order[s][i] : i \in DOMAIN order[s]} : s \in DOMAIN order}
=============================================================================
