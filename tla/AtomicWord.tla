----------------------------- MODULE AtomicWord -----------------------------
(***************************************************************************)
(* What uatomic operations promise: each takes effect, and determines the  *)
(* value it returns, at one instant between its call and its return.       *)
(***************************************************************************)
EXTENDS Integers

CONSTANTS Threads, Requests, NoReq, NoRes,
          After(_, _),    \* the memory after a request
          Result(_, _)    \* the value it returns

VARIABLES mem, pend, out

vars == <<mem, pend, out>>

Init == \A t \in Threads : pend[t] = NoReq /\ out[t] = NoRes

Invoke(t, r) == /\ pend[t] = NoReq /\ out[t] = NoRes
                /\ pend' = [pend EXCEPT ![t] = r]
                /\ UNCHANGED <<mem, out>>

Apply(t) == /\ pend[t] # NoReq
            /\ mem' = After(mem, pend[t])
            /\ out' = [out EXCEPT ![t] = Result(mem, pend[t])]
            /\ pend' = [pend EXCEPT ![t] = NoReq]

Return(t) == /\ out[t] # NoRes
             /\ out' = [out EXCEPT ![t] = NoRes]
             /\ UNCHANGED <<mem, pend>>

Next == \E t \in Threads : Apply(t) \/ Return(t) \/ \E r \in Requests : Invoke(t, r)
Spec == Init /\ [][Next]_vars
=============================================================================
