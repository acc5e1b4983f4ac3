---------------------------- MODULE PollInvariant ----------------------------
(* The inductive invariant behind the theorems of PollProofs. *)
EXTENDS Poll

(* How many grace periods identifier x lies ahead of the current one. *)
Ahead(x) == Minus(x, current_state)

(* A queued callback serves a target at most one grace period ahead. *)
WorkerInv == /\ active => Ahead(latest_target) \in {0, 1}
             /\ ~active => cbpre = {}
             /\ cbpre \subseteq cs

(* A section that a handle still has to outlast is waited for: by the      *)
(* queued callback when the handle names the current identifier, by the    *)
(* one queued after it when it names the next.                             *)
HandleInv ==
  \A u \in Users :
    /\ pre[u] \subseteq cs
    /\ handle[u] = "none" => pre[u] = {}
    /\ pre[u] # {} => /\ handle[u] = "held"
                      /\ active
                      /\ Ahead(target[u]) \in {0, 1}
                      /\ Ahead(target[u]) <= Ahead(latest_target)
                      /\ Ahead(target[u]) = 0 => pre[u] \subseteq cbpre

(* The age of a held handle says how far its target is behind the current  *)
(* identifier; a handle whose target is not behind has an active worker.   *)
AgeInv ==
  \A u \in Users :
    handle[u] = "held" =>
      \/ /\ age[u] = 0
         /\ active
         /\ Ahead(target[u]) \in {0, 1}
         /\ Ahead(target[u]) <= Ahead(latest_target)
      \/ /\ age[u] > 0
         /\ Minus(current_state, target[u]) \in {age[u], age[u] - 1}
         /\ target[u] = current_state =>
              active /\ latest_target \in {current_state, Succ(current_state)}

IInv == TypeOK /\ WorkerInv /\ HandleInv /\ AgeInv
=============================================================================
