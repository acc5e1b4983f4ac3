------------------------------- MODULE MCFork -------------------------------
(***************************************************************************)
(* Instance of CallRcu for TLC: two threads use call_rcu() for the first   *)
(* time, and one of them forks.                                            *)
(***************************************************************************)
EXTENDS CallRcu

CONSTANTS t1, t2, b1, b2

ForkPlan == [calls |-> {<<t1, "call_rcu">>, <<t2, "call_rcu">>, <<t2, "fork">>},
             cbs |-> {b1, b2}, readers |-> {}, rt |-> FALSE, once |-> 1]

ForkPlans == {ForkPlan}
=============================================================================
