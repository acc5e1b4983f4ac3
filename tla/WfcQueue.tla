------------------------------ MODULE WfcQueue ------------------------------
(***************************************************************************)
(* The concurrent queue with wait-free enqueue: static/wfcqueue.h.         *)
(*                                                                         *)
(* A queue's name is also the address of the node in its head.  Each load, *)
(* store, exchange and compare-exchange of a shared pointer is a step.     *)
(***************************************************************************)
EXTENDS Integers, SequencesExt

CONSTANTS Queues, Threads, Nodes, NULL

VARIABLES
  next,     \* next pointer of every node, the heads included
  tail,     \* tail->p of every queue
  pc,       \* control point of each thread
  loc,      \* its locals.  op: the call; blocking: its mode; q: the queue read;
            \*   to: the queue appended to; node, last: node and next, or the
            \*   ends of what is appended
  abs       \* history: the nodes of each queue, and those a thread appends

vars == <<next, tail, pc, loc, abs>>

Addr == Queues \cup Nodes
F == INSTANCE Fifo

Nothing(q) == [op |-> "none", blocking |-> TRUE, q |-> q, to |-> q,
               node |-> NULL, last |-> NULL]

Idle == Nothing(CHOOSE q \in Queues : TRUE)

Init ==
  /\ next = [a \in Addr |-> NULL]
  /\ tail = [q \in Queues |-> q]
  /\ pc = [t \in Threads |-> "idle"]
  /\ loc = [t \in Threads |-> Idle]
  /\ abs = [h \in F!Holders |-> <<>>]

Goto(t, l) == pc' = [pc EXCEPT ![t] = l]
Return(t) == Goto(t, "idle") /\ loc' = [loc EXCEPT ![t] = Idle]

(* Which of dequeue, splice and iteration exclude each other on a queue:   *)
(* dequeue_lock, or the caller, keeps them apart.                          *)
Excludes(a, b) == /\ {a, b} \subseteq {"dequeue", "splice", "iterate"}
                  /\ a = "dequeue" \/ a # b

Exclusive(o, q) == \A t \in Threads : loc[t].q = q => ~Excludes(loc[t].op, o)
                                                      /\ ~Excludes(o, loc[t].op)

-----------------------------------------------------------------------------
(* Appending *)

(* node_init() of a node of the caller's, then enqueue(). *)
Enqueue(t) ==
  /\ pc[t] = "idle"
  /\ \E q \in Queues, n \in Nodes \ F!Held :
       /\ next' = [next EXCEPT ![n] = NULL]
       /\ loc' = [loc EXCEPT ![t] = [Nothing(q) EXCEPT
                    !.op = "enqueue", !.node = n, !.last = n]]
       /\ abs' = [abs EXCEPT ![t] = <<n>>]
  /\ Goto(t, "append")
  /\ UNCHANGED tail

(* Variant: the new node is linked from the tail read, then published. *)
AppendLoaded(t) ==
  /\ pc[t] = "append"
  /\ LET q == loc[t].to IN
       /\ next' = [next EXCEPT ![tail[q]] = loc[t].node]
       /\ loc' = [loc EXCEPT ![t].node = loc[t].last, ![t].last = q]
       /\ tail' = [tail EXCEPT ![q] = loc[t].last]
       /\ abs' = [abs EXCEPT ![q] = @ \o abs[t], ![t] = <<>>]
  /\ Goto(t, "link")

(* ___cds_wfcq_append(): exchange the tail ... *)
Append_(t) ==
  /\ pc[t] = "append"
  /\ LET q == loc[t].to IN
       /\ tail' = [tail EXCEPT ![q] = loc[t].last]
       /\ loc' = [loc EXCEPT ![t].last = tail[q]]
       /\ abs' = [abs EXCEPT ![q] = @ \o abs[t], ![t] = <<>>]
  /\ Goto(t, "link")
  /\ UNCHANGED next

(* ... and link the old tail to the new node. *)
Link(t) ==
  /\ pc[t] = "link"
  /\ next' = [next EXCEPT ![loc[t].last] = loc[t].node]
  /\ Return(t)
  /\ UNCHANGED <<tail, abs>>

-----------------------------------------------------------------------------
(* The emptiness test every consumer starts with *)

Begin(t) ==
  /\ pc[t] = "idle"
  /\ \E q \in Queues, d \in Queues, b \in BOOLEAN,
        o \in {"dequeue", "splice", "iterate"} :
       /\ (o = "splice") <=> (d # q)
       /\ Exclusive(o, q)
       /\ loc' = [loc EXCEPT ![t] = [Nothing(q) EXCEPT
                    !.op = o, !.blocking = b, !.to = d]]
  /\ Goto(t, "empty_head")
  /\ UNCHANGED <<next, tail, abs>>

Start(t) == IF loc[t].op = "splice" THEN "xchg_head" ELSE "sync_head"

(* _cds_wfcq_empty(): no node linked to the head ... *)
EmptyHead(t) ==
  /\ pc[t] = "empty_head"
  /\ Goto(t, IF next[loc[t].q] = NULL THEN "empty_tail" ELSE Start(t))
  /\ UNCHANGED <<next, tail, loc, abs>>

(* ... and the tail is the head. *)
EmptyTail(t) ==
  /\ pc[t] = "empty_tail"
  /\ \/ /\ tail[loc[t].q] = loc[t].q
        /\ Return(t)
     \/ /\ tail[loc[t].q] # loc[t].q
        /\ Goto(t, Start(t))
        /\ UNCHANGED loc
  /\ UNCHANGED <<next, tail, abs>>

(* ___cds_wfcq_node_sync_next(head): in blocking mode, spin until the      *)
(* first node is linked; otherwise CDS_WFCQ_WOULDBLOCK.                    *)
SyncHead(t) ==
  /\ pc[t] = "sync_head"
  /\ LET first == next[loc[t].q] IN
       \/ /\ first # NULL
          /\ loc' = [loc EXCEPT ![t].node = first]
          /\ Goto(t, IF loc[t].op = "iterate" THEN "next" ELSE "deq_load")
       \/ /\ first = NULL
          /\ ~loc[t].blocking
          /\ Return(t)
  /\ UNCHANGED <<next, tail, abs>>

-----------------------------------------------------------------------------
(* ___cds_wfcq_dequeue_with_state() *)

Taken(t) == abs' = [abs EXCEPT ![loc[t].q] = F!Take(@, loc[t].node)]

DeqLoad(t) ==
  /\ pc[t] = "deq_load"
  /\ loc' = [loc EXCEPT ![t].last = next[loc[t].node]]
  /\ Goto(t, IF next[loc[t].node] = NULL THEN "deq_init" ELSE "deq_move")
  /\ UNCHANGED <<next, tail, abs>>

DeqInit(t) ==
  /\ pc[t] = "deq_init"
  /\ next' = [next EXCEPT ![loc[t].q] = NULL]
  /\ Goto(t, "deq_cas")
  /\ UNCHANGED <<tail, loc, abs>>

(* Variant: an enqueue that came in between is not waited for. *)
DeqCasNoSync(t) ==
  /\ pc[t] = "deq_cas"
  /\ LET q == loc[t].q IN
       tail' = [tail EXCEPT ![q] = IF @ = loc[t].node THEN q ELSE @]
  /\ Taken(t)
  /\ Return(t)
  /\ UNCHANGED next

(* The only node, unless an enqueue came in between. *)
DeqCas(t) ==
  /\ pc[t] = "deq_cas"
  /\ LET q == loc[t].q IN
       \/ /\ tail[q] = loc[t].node
          /\ tail' = [tail EXCEPT ![q] = q]
          /\ Taken(t)
          /\ Return(t)
       \/ /\ tail[q] # loc[t].node
          /\ Goto(t, "deq_sync")
          /\ UNCHANGED <<tail, loc, abs>>
  /\ UNCHANGED next

DeqSync(t) ==
  /\ pc[t] = "deq_sync"
  /\ LET succ == next[loc[t].node] IN
       \/ /\ succ # NULL
          /\ loc' = [loc EXCEPT ![t].last = succ]
          /\ Goto(t, "deq_move")
       \/ /\ succ = NULL
          /\ ~loc[t].blocking
          /\ Goto(t, "deq_restore")
          /\ UNCHANGED loc
  /\ UNCHANGED <<next, tail, abs>>

DeqRestore(t) ==
  /\ pc[t] = "deq_restore"
  /\ next' = [next EXCEPT ![loc[t].q] = loc[t].node]
  /\ Return(t)
  /\ UNCHANGED <<tail, abs>>

DeqMove(t) ==
  /\ pc[t] = "deq_move"
  /\ next' = [next EXCEPT ![loc[t].q] = loc[t].last]
  /\ Taken(t)
  /\ Return(t)
  /\ UNCHANGED tail

-----------------------------------------------------------------------------
(* ___cds_wfcq_splice() *)

XchgHead(t) ==
  /\ pc[t] = "xchg_head"
  /\ LET q == loc[t].q IN
       /\ next' = [next EXCEPT ![q] = NULL]
       /\ loc' = [loc EXCEPT ![t].node = next[q]]
       /\ Goto(t, IF next[q] = NULL THEN "splice_tail" ELSE "xchg_tail")
  /\ UNCHANGED <<tail, abs>>

SpliceTail(t) ==
  /\ pc[t] = "splice_tail"
  /\ \/ /\ tail[loc[t].q] # loc[t].q
        /\ loc[t].blocking
        /\ Goto(t, "xchg_head")
        /\ UNCHANGED loc
     \/ /\ tail[loc[t].q] = loc[t].q \/ ~loc[t].blocking
        /\ Return(t)
  /\ UNCHANGED <<next, tail, abs>>

XchgTail(t) ==
  /\ pc[t] = "xchg_tail"
  /\ LET q == loc[t].q IN
       /\ loc' = [loc EXCEPT ![t].last = tail[q]]
       /\ tail' = [tail EXCEPT ![q] = q]
       /\ abs' = [abs EXCEPT ![q] = <<>>, ![t] = abs[q]]
  /\ Goto(t, "append")
  /\ UNCHANGED next

-----------------------------------------------------------------------------
(* ___cds_wfcq_next(), as the for_each macros call it *)

Advance(t, n) == loc' = [loc EXCEPT ![t].node = n] /\ Goto(t, "next")

NextLoad(t) ==
  /\ pc[t] = "next"
  /\ LET succ == next[loc[t].node] IN
       \/ succ # NULL /\ Advance(t, succ)
       \/ succ = NULL /\ Goto(t, "next_tail") /\ UNCHANGED loc
  /\ UNCHANGED <<next, tail, abs>>

NextTail(t) ==
  /\ pc[t] = "next_tail"
  /\ \/ tail[loc[t].q] = loc[t].node /\ Return(t)
     \/ tail[loc[t].q] # loc[t].node /\ Goto(t, "next_sync") /\ UNCHANGED loc
  /\ UNCHANGED <<next, tail, abs>>

NextSync(t) ==
  /\ pc[t] = "next_sync"
  /\ LET succ == next[loc[t].node] IN
       \/ succ # NULL /\ Advance(t, succ)
       \/ succ = NULL /\ ~loc[t].blocking /\ Return(t)
  /\ UNCHANGED <<next, tail, abs>>

-----------------------------------------------------------------------------
Continue(t) ==
  \/ Append_(t) \/ Link(t)
  \/ EmptyHead(t) \/ EmptyTail(t) \/ SyncHead(t)
  \/ DeqLoad(t) \/ DeqInit(t) \/ DeqCas(t) \/ DeqSync(t) \/ DeqRestore(t)
  \/ DeqMove(t)
  \/ XchgHead(t) \/ SpliceTail(t) \/ XchgTail(t)
  \/ NextLoad(t) \/ NextTail(t) \/ NextSync(t)

Next == \E t \in Threads : Enqueue(t) \/ Begin(t) \/ Continue(t)

Spec == Init /\ [][Next]_vars

-----------------------------------------------------------------------------
(* Nodes leave in the order they came in, however enqueues, dequeues and   *)
(* splices of the same queues overlap.                                     *)
ImplementsFifo == F!Spec

(* A queue reported empty was: a consumer leaves at its emptiness test     *)
(* only when the queue holds nothing.                                      *)
EmptyIsEmptyStep ==
  \A t \in Threads : pc[t] = "empty_tail" /\ pc'[t] = "idle"
                     => abs[loc[t].q] = <<>>

(* "It is valid to reuse and free a dequeued node immediately": the store  *)
(* an appending thread has pending never goes to a node that a dequeue has *)
(* already returned.                                                       *)
NoStoreAfterDequeue ==
  \A t \in Threads : pc[t] = "link" =>
    loc[t].last \in Queues
    \/ \E h \in F!Holders : loc[t].last \in Range(abs[h])

(* __cds_wfcq_for_each_blocking() visits the nodes of the queue in order:  *)
(* each move goes to the successor.                                        *)
IterationInOrderStep ==
  \A t \in Threads :
    LET q == loc[t].q IN
    pc[t] \in {"next", "next_sync"} /\ loc'[t].node \notin {loc[t].node, NULL}
    => \E i \in 1..(Len(abs[q]) - 1) :
         abs[q][i] = loc[t].node /\ abs[q][i + 1] = loc'[t].node
=============================================================================
