-------------------------------- MODULE Ref --------------------------------
(***************************************************************************)
(* Reference counting, include/urcu/ref.h.  A thread takes a reference     *)
(* from one it holds with urcu_ref_get_safe() or urcu_ref_get(), or, when  *)
(* only the memory is known to exist, with urcu_ref_get_unless_zero(); it  *)
(* drops one with urcu_ref_put().                                          *)
(***************************************************************************)
EXTENDS Integers, Functions

CONSTANTS Threads, LongMax

VARIABLES refcount,
          holds,      \* references each thread has been given
          released,   \* how many times release() has been called
          pc, old     \* control point and the value last read
vars == <<refcount, holds, released, pc, old>>

(* urcu_ref_init() by a thread that then holds the only reference *)
Init == /\ refcount = 1
        /\ \E t \in Threads : holds = [u \in Threads |-> IF u = t THEN 1 ELSE 0]
        /\ released = 0
        /\ pc = [t \in Threads |-> "idle"]
        /\ old = [t \in Threads |-> 0]

(* The loops first load the count. *)
Get(t) ==
  /\ pc[t] = "idle"
  /\ \E l \in {"safe", "unless_zero"} :
       /\ l = "safe" => holds[t] > 0
       /\ pc' = [pc EXCEPT ![t] = l]
  /\ old' = [old EXCEPT ![t] = refcount]
  /\ UNCHANGED <<refcount, holds, released>>

(* Variant: a count of zero is not looked for. *)
GetUnlessZeroBlind(t) ==
  /\ pc[t] = "unless_zero"
  /\ IF old[t] # LongMax /\ refcount = old[t]
     THEN /\ refcount' = refcount + 1
          /\ holds' = [holds EXCEPT ![t] = @ + 1]
     ELSE UNCHANGED <<refcount, holds>>
  /\ pc' = [pc EXCEPT ![t] = "idle"]
  /\ old' = [old EXCEPT ![t] = 0]
  /\ UNCHANGED released

(* One turn of a loop: fail, or exchange if the count is still the same.   *)
Try(t, l, fails) ==
  /\ pc[t] = l
  /\ \/ /\ old[t] \in fails
        /\ pc' = [pc EXCEPT ![t] = "idle"]
        /\ old' = [old EXCEPT ![t] = 0]
        /\ UNCHANGED <<refcount, holds>>
     \/ /\ old[t] \notin fails /\ refcount = old[t]
        /\ refcount' = old[t] + 1
        /\ holds' = [holds EXCEPT ![t] = @ + 1]
        /\ pc' = [pc EXCEPT ![t] = "idle"]
        /\ old' = [old EXCEPT ![t] = 0]
     \/ /\ old[t] \notin fails /\ refcount # old[t]
        /\ old' = [old EXCEPT ![t] = refcount]
        /\ UNCHANGED <<refcount, holds, pc>>
  /\ UNCHANGED released

GetSafe(t) == Try(t, "safe", {LongMax})
GetUnlessZero(t) == Try(t, "unless_zero", {0, LongMax})

(* urcu_ref_put(): the subtraction returns the count that decides. *)
Put(t) ==
  /\ pc[t] = "idle" /\ holds[t] > 0
  /\ refcount' = refcount - 1
  /\ holds' = [holds EXCEPT ![t] = @ - 1]
  /\ released' = IF refcount - 1 = 0 THEN released + 1 ELSE released
  /\ UNCHANGED <<pc, old>>

Next == \E t \in Threads : Get(t) \/ GetSafe(t) \/ GetUnlessZero(t) \/ Put(t)
Spec == Init /\ [][Next]_vars

-----------------------------------------------------------------------------
(* The count is the number of references that have been given out, and     *)
(* within the range of a long.                                             *)
CountIsHolders == refcount = SumFunction(holds) /\ refcount \in 0..LongMax

(* release() is called once, when nobody holds a reference, and nobody     *)
(* gets one afterwards.                                                    *)
ReleasedForGood == released <= 1 /\ (released = 1 => SumFunction(holds) = 0)
=============================================================================
