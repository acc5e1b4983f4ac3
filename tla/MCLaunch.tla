------------------------------ MODULE MCLaunch ------------------------------
(***************************************************************************)
(* Instance of LfHashResize for TLC: two threads whose insertions find     *)
(* long chains.                                                            *)
(***************************************************************************)
EXTENDS LfHashResize

CONSTANTS t1, t2

ChainPlans == {{<<t1, "chain">>, <<t2, "chain">>}}
=============================================================================
