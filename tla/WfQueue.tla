------------------------------- MODULE WfQueue ------------------------------
(***************************************************************************)
(* The first queue with wait-free enqueue: static/wfqueue.h.  q->tail is   *)
(* the address of a next pointer, named here by the node it belongs to; a  *)
(* queue's name is also the address of its dummy node.                     *)
(***************************************************************************)
EXTENDS Integers, SequencesExt

CONSTANTS Queues, Threads, Nodes, NULL

VARIABLES
  head,     \* q->head
  tail,     \* the node whose next q->tail points to
  next,     \* node->next
  pc,       \* control point of each thread
  loc,      \* its local variables: queue, node, old tail
  lock,     \* q->lock: the thread inside dequeue
  abs       \* history: the nodes of each queue, and those in threads' hands

vars == <<head, tail, next, pc, loc, lock, abs>>

F == INSTANCE Fifo

Idle == [q |-> CHOOSE q \in Queues : TRUE, node |-> NULL, old |-> NULL]

Init ==
  /\ head = [q \in Queues |-> q]
  /\ tail = [q \in Queues |-> q]
  /\ next = [a \in Queues \cup Nodes |-> NULL]
  /\ pc = [t \in Threads |-> "idle"]
  /\ loc = [t \in Threads |-> Idle]
  /\ lock = [q \in Queues |-> NULL]
  /\ abs = [h \in F!Holders |-> <<>>]

Goto(t, l) == pc' = [pc EXCEPT ![t] = l]
Return(t) == Goto(t, "idle") /\ loc' = [loc EXCEPT ![t] = Idle]
Unlock(t) == lock' = [q \in Queues |-> IF lock[q] = t THEN NULL ELSE lock[q]]

-----------------------------------------------------------------------------
Enqueue(t) ==
  /\ pc[t] = "idle"
  /\ \E q \in Queues, n \in Nodes \ F!Held :
       /\ next' = [next EXCEPT ![n] = NULL]
       /\ loc' = [loc EXCEPT ![t] = [Idle EXCEPT !.q = q, !.node = n]]
       /\ abs' = [abs EXCEPT ![t] = <<n>>]
  /\ Goto(t, "xchg")
  /\ UNCHANGED <<head, tail, lock>>

(* _cds_wfq_enqueue(), of a node or, from dequeue, of the dummy. *)
Xchg(t) ==
  /\ pc[t] = "xchg"
  /\ LET q == loc[t].q IN
       /\ loc' = [loc EXCEPT ![t].old = tail[q]]
       /\ tail' = [tail EXCEPT ![q] = loc[t].node]
       /\ abs' = [abs EXCEPT ![q] = @ \o abs[t], ![t] = <<>>]
  /\ Goto(t, "link")
  /\ UNCHANGED <<head, next, lock>>

Link(t) ==
  /\ pc[t] = "link"
  /\ next' = [next EXCEPT ![loc[t].old] = loc[t].node]
  /\ \/ loc[t].node \in Queues /\ Goto(t, "deq") /\ UNCHANGED loc
     \/ loc[t].node \in Nodes /\ Return(t)
  /\ UNCHANGED <<head, tail, lock, abs>>

-----------------------------------------------------------------------------
(* _cds_wfq_dequeue_blocking() *)

Dequeue(t) ==
  /\ pc[t] = "idle"
  /\ \E q \in Queues :
       /\ lock[q] = NULL
       /\ lock' = [lock EXCEPT ![q] = t]
       /\ loc' = [loc EXCEPT ![t] = [Idle EXCEPT !.q = q]]
  /\ Goto(t, "deq")
  /\ UNCHANGED <<head, tail, next, abs>>

(* Only the dummy: empty. *)
DeqTest(t) ==
  /\ pc[t] = "deq"
  /\ LET q == loc[t].q IN
       \/ /\ head[q] = q /\ tail[q] = q
          /\ Return(t)
          /\ Unlock(t)
       \/ /\ head[q] # q \/ tail[q] # q
          /\ loc' = [loc EXCEPT ![t].node = head[q]]
          /\ Goto(t, "deq_sync")
          /\ UNCHANGED lock
  /\ UNCHANGED <<head, tail, next, abs>>

(* Spin until the successor is linked, then move the head; a dummy goes    *)
(* back to the end of the queue, and the dequeue starts again.             *)
DeqMove(t) ==
  /\ pc[t] = "deq_sync"
  /\ LET q == loc[t].q
         n == loc[t].node IN
       /\ next[n] # NULL
       /\ head' = [head EXCEPT ![q] = next[n]]
       /\ \/ /\ n = q
             /\ next' = [next EXCEPT ![q] = NULL]
             /\ Goto(t, "xchg")
             /\ UNCHANGED <<loc, lock, abs>>
          \/ /\ n # q
             /\ abs' = [abs EXCEPT ![q] = F!Take(@, n)]
             /\ Return(t)
             /\ Unlock(t)
             /\ UNCHANGED next
  /\ UNCHANGED tail

-----------------------------------------------------------------------------
Continue(t) == Xchg(t) \/ Link(t) \/ DeqTest(t) \/ DeqMove(t)

Next == \E t \in Threads : Enqueue(t) \/ Dequeue(t) \/ Continue(t)

Spec == Init /\ [][Next]_vars

(* Nodes leave in the order they came in, the dummy's trips to the end of  *)
(* the queue notwithstanding.                                              *)
ImplementsFifo == F!Spec

(* "It is valid to reuse and free a dequeued node immediately": no enqueue *)
(* still has a store pending to a node that dequeue returned.              *)
NoStoreAfterDequeue ==
  \A t \in Threads : pc[t] = "link" =>
    loc[t].old \in Queues
    \/ \E h \in F!Holders : loc[t].old \in Range(abs[h])
=============================================================================
