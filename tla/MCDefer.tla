------------------------------ MODULE MCDefer -------------------------------
(***************************************************************************)
(* Instances of Defer for TLC.  Words are 3-bit: the marker is 6.  plan    *)
(* says what a behaviour is about: the words of one thread's ring, the     *)
(* grace periods before its callbacks, or two threads that come and go.    *)
(***************************************************************************)
EXTENDS Defer

CONSTANTS t1, t2, r1

VARIABLE plan

OneThread == {t1}
TwoThreads == {t1, t2}
OneReader == {r1}
NoThreads == {}
NoReaders == {}

(* An aligned function with aligned data (one word once the function is    *)
(* known) and with the marker as data (three words), and an unaligned      *)
(* function with unaligned data.                                           *)
MixedCallbacks == {<<2, 4>>, <<2, 6>>, <<3, 5>>}

OneCallback == {<<2, 4>>}

Simple == \A t \in Threads : arg'[t] \in {<<>>, <<2, 4>>}

PlanInit == Init /\ plan \in {"ring", "grace", "threads"}

PlanNext ==
  /\ Next
  /\ UNCHANGED plan
  /\ plan = "ring" => /\ pc'[t2] = "out" /\ cs' = {}
                      /\ pc'[t1] \notin {"un_lock", "b_empty"}
  /\ plan = "grace" => pc'[t2] = "out" /\ Simple
  /\ plan = "threads" =>
       /\ cs' = {} /\ Simple
       /\ \A t \in Threads : arg'[t] # <<>> => head[t] <= 1

PlanSpec == PlanInit /\ [][PlanNext]_<<vars, plan>>
=============================================================================
