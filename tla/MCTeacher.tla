------------------------------- MODULE MCTeacher ------------------------------
(****************************************************************************)
(* Three samples to distil, two of which may be scored at a time, and one   *)
(* to evaluate.  Two endpoints are configured in three ways: each backs up  *)
(* the other; the first one is listed again as its own backup and           *)
(* args.rm_url stands in for the other teacher; only the IF teacher exists. *)
(****************************************************************************)
EXTENDS TeacherClient

MCSamples == 1..4
MCDomain == <<"ifeval", "ifbench", "math", NoDomain>>
MCIfDomains == {"ifeval", "ifbench"}
MCEnvironments ==
  {[teacher |-> [if |-> "a", general |-> "b"],
    backups |-> [if |-> <<"b">>, general |-> <<"a">>], rmUrl |-> NoUrl],
   [teacher |-> [if |-> "a", general |-> NoUrl],
    backups |-> [if |-> <<"a", "b">>, general |-> <<>>], rmUrl |-> "b"],
   [teacher |-> [if |-> "a", general |-> NoUrl],
    backups |-> [if |-> <<>>, general |-> <<>>], rmUrl |-> NoUrl]}
=============================================================================
