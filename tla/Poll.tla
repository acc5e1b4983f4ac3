-------------------------------- MODULE Poll --------------------------------
(***************************************************************************)
(* Grace-period polling: src/urcu-poll-impl.h.                             *)
(*                                                                         *)
(* The bodies of the three functions are critical sections of one mutex,   *)
(* so each is one action.  call_rcu() is known by its promise only: the    *)
(* callback runs once the read-side critical sections that were open when  *)
(* it was queued have ended.                                               *)
(***************************************************************************)
EXTENDS Integers

CONSTANTS Readers,   \* threads with read-side critical sections
          Users,     \* holders of a polling handle
          Half       \* 2^(w-1), for a grace_period_id of w bits

ASSUME PollAssumption == Half \in Nat /\ Half > 1

VARIABLES current_state,   \* current_state.grace_period_id
          latest_target,   \* latest_target.grace_period_id
          active,          \* the worker callback is queued, or running
          cbpre,           \* sections the queued callback has to outlast
          cs,              \* readers inside a critical section
          handle,          \* "none", "held", or "reached" once polled true
          target,          \* the grace_period_id in each user's handle
          age,             \* grace periods since the handle was obtained
          pre              \* history: sections the handle has to outlast

vars == <<current_state, latest_target, active, cbpre, cs, handle, target,
          age, pre>>

Id == 0..(2 * Half - 1)

(* Variant: the identifier is not advanced. *)
SuccStuck(x) == x

(* unsigned long arithmetic, and the cast of a difference to long. *)
Succ(x) == IF x = 2 * Half - 1 THEN 0 ELSE x + 1
Minus(x, y) == IF x >= y THEN x - y ELSE x - y + 2 * Half
Signed(d) == IF d >= Half THEN d - 2 * Half ELSE d

(* Bound: a handle is polled before half of the identifiers have gone by. *)
Window == Half

Init ==
  /\ current_state = 0
  /\ latest_target = 0
  /\ active = FALSE
  /\ cbpre = {}
  /\ cs = {}
  /\ handle = [u \in Users |-> "none"]
  /\ target = [u \in Users |-> 0]
  /\ age = [u \in Users |-> 0]
  /\ pre = [u \in Users |-> {}]

ReadLock(r) ==
  /\ r \notin cs
  /\ cs' = cs \cup {r}
  /\ UNCHANGED <<current_state, latest_target, active, cbpre, handle, target,
                 age, pre>>

ReadUnlock(r) ==
  /\ r \in cs
  /\ cs' = cs \ {r}
  /\ cbpre' = cbpre \ {r}
  /\ pre' = [u \in Users |-> pre[u] \ {r}]
  /\ UNCHANGED <<current_state, latest_target, active, handle, target, age>>

(* Variant: the handle names the grace period that is already under way. *)
NewTargetCurrent == current_state

(* The grace period in progress may be too old: wait for the next one. *)
NewTarget == IF active THEN Succ(current_state) ELSE current_state

start_poll_synchronize_rcu(u) ==
  /\ handle[u] # "held"
  /\ handle' = [handle EXCEPT ![u] = "held"]
  /\ target' = [target EXCEPT ![u] = NewTarget]
  /\ latest_target' = NewTarget
  /\ active' = TRUE
  /\ cbpre' = IF active THEN cbpre ELSE cs
  /\ age' = [age EXCEPT ![u] = 0]
  /\ pre' = [pre EXCEPT ![u] = cs]
  /\ UNCHANGED <<current_state, cs>>

Reached(x) == Signed(Minus(x, current_state)) < 0

poll_state_synchronize_rcu(u) ==
  /\ handle[u] = "held"
  /\ handle' = [handle EXCEPT ![u] = IF Reached(target[u]) THEN "reached"
                                                           ELSE "held"]
  /\ UNCHANGED <<current_state, latest_target, active, cbpre, cs, target, age,
                 pre>>

(* Variant: a target equal to the new identifier counts as served. *)
RequeueStrict(current) == Signed(Minus(latest_target, current)) > 0

Requeue(current) == Signed(Minus(latest_target, current)) >= 0

(* The callback: one more grace period has passed. *)
urcu_poll_worker_cb ==
  /\ active
  /\ cbpre = {}
  /\ \A u \in Users : handle[u] = "held" => age[u] < Window
  /\ current_state' = Succ(current_state)
  /\ active' = Requeue(current_state')
  /\ cbpre' = IF active' THEN cs ELSE {}
  /\ age' = [u \in Users |-> IF handle[u] = "held" THEN age[u] + 1 ELSE 0]
  /\ UNCHANGED <<latest_target, cs, handle, target, pre>>

Next == \/ \E r \in Readers : ReadLock(r) \/ ReadUnlock(r)
        \/ \E u \in Users : \/ start_poll_synchronize_rcu(u)
                            \/ poll_state_synchronize_rcu(u)
        \/ urcu_poll_worker_cb

Spec == Init /\ [][Next]_vars

(***************************************************************************)
(* Fairness: sections end, call_rcu() invokes its callbacks, and the       *)
(* holder of a handle keeps polling it.                                    *)
(***************************************************************************)
Fairness ==
  /\ \A r \in Readers : WF_vars(ReadUnlock(r))
  /\ \A u \in Users : WF_vars(poll_state_synchronize_rcu(u))
  /\ WF_vars(urcu_poll_worker_cb)

FairSpec == Spec /\ Fairness

-----------------------------------------------------------------------------
(* Properties *)

(* Types, of the identifiers modulo their width among them. *)
TypeOK ==
  /\ current_state \in Id
  /\ latest_target \in Id
  /\ active \in BOOLEAN
  /\ cbpre \in SUBSET Readers
  /\ cs \in SUBSET Readers
  /\ handle \in [Users -> {"none", "held", "reached"}]
  /\ target \in [Users -> Id]
  /\ age \in [Users -> 0..Window]
  /\ pre \in [Users -> SUBSET Readers]

(* "Return true if quiescence was reached since the snapshot was taken":   *)
(* when poll_state_synchronize_rcu() has returned true, every section that *)
(* was open at start_poll_synchronize_rcu() has ended, also when the       *)
(* identifiers have wrapped around in between.                             *)
PollSound == \A u \in Users : handle[u] = "reached" => pre[u] = {}

(* The worker only goes idle when nobody needs it: as long as some handle  *)
(* is not reached, its callback is queued.                                 *)
NoHandleStranded ==
  \A u \in Users : handle[u] = "held" /\ ~Reached(target[u]) => active

(* A handle that is polled again and again is reached in the end, however  *)
(* often other users ask for further grace periods meanwhile.              *)
PollReturnsTrue == \A u \in Users : handle[u] = "held" ~> handle[u] = "reached"
=============================================================================
