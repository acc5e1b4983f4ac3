-------------------------------- MODULE Fifo --------------------------------
(***************************************************************************)
(* What the queues promise.  A queue holds its nodes oldest first; a       *)
(* thread holds the nodes it is about to append: the one it enqueues, or   *)
(* the content of a queue it has emptied by splicing.                      *)
(***************************************************************************)
EXTENDS Naturals, Sequences

CONSTANTS Queues, Threads, Nodes

VARIABLE abs     \* the nodes of each queue, and those in each thread's hands

Holders == Queues \cup Threads

Held == {n \in Nodes : \E h \in Holders : \E i \in 1..Len(abs[h]) : abs[h][i] = n}

(* Where a history sequence goes when n is taken: taking what is not there *)
(* is a step no action below allows.                                       *)
Take(s, n) == IF \E i \in 1..Len(s) : s[i] = n THEN SelectSeq(s, LAMBDA m : m # n)
              ELSE Append(s, n)

Init == abs = [h \in Holders |-> <<>>]

(* The caller hands a node that is in no queue to enqueue. *)
Offer(t) == \E n \in Nodes \ Held : abs[t] = <<>>
                                    /\ abs' = [abs EXCEPT ![t] = <<n>>]

(* What a thread holds becomes the newest part of a queue. *)
Enqueue(t, q) == /\ abs[t] # <<>>
                 /\ abs' = [abs EXCEPT ![q] = @ \o abs[t], ![t] = <<>>]

(* The oldest node leaves the queue. *)
Dequeue(q) == /\ abs[q] # <<>>
              /\ abs' = [abs EXCEPT ![q] = Tail(@)]

(* The whole content of a queue leaves it at once. *)
Splice(t, q) == /\ abs[q] # <<>>
                /\ abs[t] = <<>>
                /\ abs' = [abs EXCEPT ![q] = <<>>, ![t] = abs[q]]

Next == \/ \E q \in Queues : Dequeue(q)
        \/ \E t \in Threads : Offer(t)
        \/ \E t \in Threads, q \in Queues : Enqueue(t, q) \/ Splice(t, q)

Spec == Init /\ [][Next]_abs
=============================================================================
