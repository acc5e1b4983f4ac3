-------------------------------- MODULE Lifo --------------------------------
(***************************************************************************)
(* What the stacks promise.  A stack holds its nodes newest first; a       *)
(* thread holds the node it pushes, or what is left to visit of a stack it *)
(* has popped as a whole.                                                  *)
(***************************************************************************)
EXTENDS Naturals, Sequences

CONSTANTS Stacks, Threads, Nodes

VARIABLE abs     \* the nodes of each stack, and those in each thread's hands

Holders == Stacks \cup Threads

Held == {n \in Nodes : \E h \in Holders : \E i \in 1..Len(abs[h]) : abs[h][i] = n}

(* Where a history sequence goes when n is taken: taking what is not its   *)
(* newest node is a step no action below allows.                           *)
Take(s, n) == IF s # <<>> /\ Head(s) = n THEN Tail(s) ELSE <<n, n>> \o s

Init == abs = [h \in Holders |-> <<>>]

(* The caller hands a node that is in no stack to push. *)
Offer(t) == \E n \in Nodes \ Held : abs[t] = <<>>
                                    /\ abs' = [abs EXCEPT ![t] = <<n>>]

Push(t, s) == /\ Len(abs[t]) = 1
              /\ abs' = [abs EXCEPT ![s] = abs[t] \o @, ![t] = <<>>]

(* The newest node leaves the stack. *)
Pop(s) == /\ abs[s] # <<>>
          /\ abs' = [abs EXCEPT ![s] = Tail(@)]

(* The whole content leaves the stack at once ... *)
PopAll(t, s) == /\ abs[s] # <<>>
                /\ abs[t] = <<>>
                /\ abs' = [abs EXCEPT ![s] = <<>>, ![t] = abs[s]]

(* ... and is visited from the newest node to the oldest. *)
Visit(t) == /\ abs[t] # <<>>
            /\ abs' = [abs EXCEPT ![t] = Tail(@)]

Next == \/ \E s \in Stacks : Pop(s)
        \/ \E t \in Threads : Offer(t) \/ Visit(t)
        \/ \E t \in Threads, s \in Stacks : Push(t, s) \/ PopAll(t, s)

Spec == Init /\ [][Next]_abs
=============================================================================
