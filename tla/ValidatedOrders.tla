---------------------------- MODULE ValidatedOrders ----------------------------
(* What post validation needs of the compiled orders beyond MatchedOrders:    *)
(* what an abandoned warm-up sends is received by it or by its rollback.  The *)
(* tags of the compiler have to provide it (tag_rollback_communication); the  *)
(* run of the post validation evaluates it on the orders it executes.         *)
EXTENDS MatchedOrders, PostValidation

(* The positions up to the verdict.                                           *)
BeforeVerdict(f, s) ==
  {i \in DOMAIN f.order[s] : \A x \in 1 .. i : f.order[s][x].type # "POST_VALIDATION"}

(* What stage s sends in its warm-up; what it receives in its warm-up or, by  *)
(* a tag, when it takes it back.                                              *)
WarmUpSends(f, s) == {i \in BeforeVerdict(f, s) : f.order[s][i].type = "SEND_FORWARD"}

WarmUpRecvs(f, s) ==
  {i \in DOMAIN f.order[s] :
     /\ f.order[s][i].type = "RECV_FORWARD"
     /\ i \in BeforeVerdict(f, s) \/ f.order[s][i].rollback}

(* It goes to the next stage, which receives it if s has taken the step.      *)
ASSUME WarmUpMatched ==
  \A f \in Conf : \A s, t \in Stage :
    LET sends == WarmUpSends(f, s) \cap Sends(f, s, t)
        recvs == WarmUpRecvs(f, t) \cap Recvs(f, t, s)
        Same(i, j) == TensorTaken(f.order[s][i]) = TensorGiven(f.order[t][j])
    IN  s # t =>
          /\ sends \cup recvs # {} => t = s + 1
          /\ \A i \in sends : \E j \in recvs : Same(i, j)
          /\ \A j \in recvs : \E i \in sends : Same(i, j)

(* All that a stage communicates with another goes the same way round.        *)
ASSUME OneDirection ==
  \A f \in Conf : \A s \in Stage : \A i, j \in Live(f, s) :
    LET n(x) == f.order[s][x]
    IN  n(i).type \in CommTypes /\ n(j).type \in CommTypes /\ n(i).peer = n(j).peer =>
          n(i).dir = n(j).dir
=============================================================================
