-------------------------------- MODULE Rcu --------------------------------
(***************************************************************************)
(* What an RCU flavour promises its callers: synchronize_rcu() returns     *)
(* only when every read-side critical section that was in progress when    *)
(* it was called has ended.  Critical sections that start later are not    *)
(* waited for.                                                             *)
(***************************************************************************)
CONSTANTS Readers,   \* threads with read-side critical sections
          Updaters   \* threads that call synchronize_rcu()

VARIABLES cs,        \* readers inside a read-side critical section
          syncing,   \* updaters inside synchronize_rcu()
          pre        \* pre[u]: the sections u has yet to see the end of

vars == <<cs, syncing, pre>>

Init == /\ cs = {}
        /\ syncing = {}
        /\ pre = [u \in Updaters |-> {}]

ReadLock(r) == /\ r \notin cs
               /\ cs' = cs \cup {r}
               /\ UNCHANGED <<syncing, pre>>

ReadUnlock(r) == /\ r \in cs
                 /\ cs' = cs \ {r}
                 /\ pre' = [u \in Updaters |-> pre[u] \ {r}]
                 /\ UNCHANGED syncing

SyncStart(u) == /\ u \notin syncing
                /\ syncing' = syncing \cup {u}
                /\ pre' = [pre EXCEPT ![u] = cs]
                /\ UNCHANGED cs

SyncReturn(u) == /\ u \in syncing
                 /\ pre[u] = {}
                 /\ syncing' = syncing \ {u}
                 /\ UNCHANGED <<cs, pre>>

Next == \/ \E r \in Readers : ReadLock(r) \/ ReadUnlock(r)
        \/ \E u \in Updaters : SyncStart(u) \/ SyncReturn(u)

Spec == Init /\ [][Next]_vars
=============================================================================
