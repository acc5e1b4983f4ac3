------------------------------ MODULE RcuLfQueue ----------------------------
(***************************************************************************)
(* The lock-free RCU queue: static/rculfqueue.h.  Every call runs in a     *)
(* read-side section.  With Reuse, a node that left the queue, dummy or    *)
(* not, is used again after a grace period, which is what the header asks  *)
(* of the caller and rcu_free_dummy() does; without, memory is not reused. *)
(***************************************************************************)
EXTENDS Integers, SequencesExt

CONSTANTS
  Queues, Threads, Nodes,
  Dummies,  \* the memory malloc() makes dummy nodes from
  Reuse,    \* whether memory is used again after a grace period
  NULL

VARIABLES
  head,     \* q->head
  tail,     \* q->tail
  next,     \* node->next
  pc,       \* control point of each thread
  loc,      \* its local variables
  pre,      \* threads whose sections a grace period started when the node
            \*   left the queue still waits for
  free,     \* nodes and dummies that may be used
  abs       \* history: the nodes of each queue, and those in threads' hands

vars == <<head, tail, next, pc, loc, pre, free, abs>>

F == INSTANCE Fifo

Idle == [q |-> CHOOSE q \in Queues : TRUE, op |-> "none", node |-> NULL,
         tail |-> NULL, head |-> NULL, next |-> NULL]

(* _cds_lfq_init_rcu(): every queue starts with a dummy of its own. *)
Init ==
  LET d == CHOOSE f \in Injection(Queues, Dummies) : TRUE IN
    /\ head = d
    /\ tail = d
    /\ next = [n \in Nodes \cup Dummies |-> NULL]
    /\ pc = [t \in Threads |-> "idle"]
    /\ loc = [t \in Threads |-> Idle]
    /\ pre = [n \in Nodes \cup Dummies |-> {}]
    /\ free = (Nodes \cup Dummies) \ Range(d)
    /\ abs = [h \in F!Holders |-> <<>>]

Goto(t, l) == pc' = [pc EXCEPT ![t] = l]

(* The call returns and its section ends; or n leaves the queue, and the   *)
(* grace period after which it is reused starts.                           *)
Return(t) == Goto(t, "idle") /\ loc' = [loc EXCEPT ![t] = Idle]
EndSection(t) == pre' = [n \in DOMAIN pre |-> pre[n] \ {t}]
Sections == {t \in Threads : Reuse /\ pc[t] # "idle"}

-----------------------------------------------------------------------------
(* _cds_lfq_enqueue_rcu(), on behalf of the caller or of a dequeue that    *)
(* needs a dummy                                                           *)

Enqueue(t) ==
  /\ pc[t] = "idle"
  /\ \E q \in Queues, n \in free \cap Nodes :
       /\ pre[n] = {}
       /\ free' = free \ {n}
       /\ next' = [next EXCEPT ![n] = NULL]
       /\ loc' = [loc EXCEPT ![t] = [Idle EXCEPT !.q = q, !.op = "enqueue",
                                                 !.node = n]]
       /\ abs' = [abs EXCEPT ![t] = <<n>>]
  /\ Goto(t, "enq_tail")
  /\ UNCHANGED <<head, tail, pre>>

EnqTail(t) ==
  /\ pc[t] = "enq_tail"
  /\ loc' = [loc EXCEPT ![t].tail = tail[loc[t].q]]
  /\ Goto(t, "enq_link")
  /\ UNCHANGED <<head, tail, next, pre, free, abs>>

(* Compare-exchange of tail->next; loc.next is the node the tail is then   *)
(* to be moved to: ours, or the one found there.                           *)
EnqLink(t) ==
  /\ pc[t] = "enq_link"
  /\ LET a == loc[t].tail
         n == loc[t].node IN
       \/ /\ next[a] = NULL
          /\ next' = [next EXCEPT ![a] = n]
          /\ loc' = [loc EXCEPT ![t].next = n]
          /\ abs' = [abs EXCEPT ![loc[t].q] = @ \o abs[t], ![t] = <<>>]
       \/ /\ next[a] # NULL
          /\ loc' = [loc EXCEPT ![t].next = next[a]]
          /\ UNCHANGED <<next, abs>>
  /\ Goto(t, "enq_move")
  /\ UNCHANGED <<head, tail, pre, free>>

(* Move the tail, unless someone else has; retry if the link was not ours. *)
EnqMove(t) ==
  /\ pc[t] = "enq_move"
  /\ LET q == loc[t].q IN
       tail' = [tail EXCEPT ![q] = IF @ = loc[t].tail THEN loc[t].next ELSE @]
  /\ \/ /\ loc[t].next # loc[t].node
        /\ Goto(t, "enq_tail")
        /\ UNCHANGED <<loc, pre>>
     \/ /\ loc[t].next = loc[t].node
        /\ \/ loc[t].op = "enqueue" /\ Return(t) /\ EndSection(t)
           \/ loc[t].op = "dequeue" /\ Goto(t, "deq_reload") /\ UNCHANGED <<loc, pre>>
  /\ UNCHANGED <<head, next, free, abs>>

-----------------------------------------------------------------------------
(* _cds_lfq_dequeue_rcu() *)

Dequeue(t) ==
  /\ pc[t] = "idle"
  /\ \E q \in Queues :
       loc' = [loc EXCEPT ![t] = [Idle EXCEPT !.q = q, !.op = "dequeue"]]
  /\ Goto(t, "deq_head")
  /\ UNCHANGED <<head, tail, next, pre, free, abs>>

DeqHead(t) ==
  /\ pc[t] = "deq_head"
  /\ loc' = [loc EXCEPT ![t].head = head[loc[t].q]]
  /\ Goto(t, "deq_next")
  /\ UNCHANGED <<head, tail, next, pre, free, abs>>

(* enqueue_dummy(): a new dummy, never one a reader may still hold. *)
MakeDummy(t) ==
  \E d \in free \cap Dummies :
    /\ pre[d] = {}
    /\ free' = free \ {d}
    /\ next' = [next EXCEPT ![d] = NULL]
    /\ loc' = [loc EXCEPT ![t].node = d]

(* rcu_free_dummy(): free_dummy_cb() runs once today's sections are over. *)
FreeDummy(d) == pre' = [pre EXCEPT ![d] = Sections]

(* A dummy without successor: empty.  A node without successor: make_dummy *)
(* and enqueue it first.                                                   *)
DeqNext(t) ==
  /\ pc[t] = "deq_next"
  /\ LET h == loc[t].head IN
       \/ /\ next[h] # NULL
          /\ loc' = [loc EXCEPT ![t].next = next[h]]
          /\ Goto(t, "deq_cas")
          /\ UNCHANGED <<next, pre, free>>
       \/ /\ next[h] = NULL
          /\ h \in Dummies
          /\ Return(t)
          /\ EndSection(t)
          /\ UNCHANGED <<next, free>>
       \/ /\ next[h] = NULL
          /\ h \notin Dummies
          /\ MakeDummy(t)
          /\ Goto(t, "enq_tail")
          /\ UNCHANGED pre
  /\ UNCHANGED <<head, tail, abs>>

DeqReload(t) ==
  /\ pc[t] = "deq_reload"
  /\ loc' = [loc EXCEPT ![t].next = next[loc[t].head]]
  /\ Goto(t, "deq_cas")
  /\ UNCHANGED <<head, tail, next, pre, free, abs>>

(* Compare-exchange of the head.  A dummy is freed by call_rcu and the     *)
(* loop goes on; a node is the caller's.                                   *)
DeqCas(t) ==
  /\ pc[t] = "deq_cas"
  /\ LET q == loc[t].q
         h == loc[t].head IN
       \/ /\ head[q] # h
          /\ Goto(t, "deq_head")
          /\ UNCHANGED <<head, loc, pre, free, abs>>
       \/ /\ head[q] = h
          /\ head' = [head EXCEPT ![q] = loc[t].next]
          /\ free' = IF Reuse THEN free \cup {h} ELSE free
          /\ \/ /\ h \in Dummies
                /\ FreeDummy(h)
                /\ Goto(t, "deq_head")
                /\ UNCHANGED <<loc, abs>>
             \/ /\ h \notin Dummies
                /\ abs' = [abs EXCEPT ![q] = F!Take(@, h)]
                /\ pre' = [n \in DOMAIN pre |->
                             IF n = h THEN Sections \ {t} ELSE pre[n] \ {t}]
                /\ Return(t)
  /\ UNCHANGED <<tail, next>>

-----------------------------------------------------------------------------
Continue(t) == \/ EnqTail(t) \/ EnqLink(t) \/ EnqMove(t)
               \/ DeqHead(t) \/ DeqNext(t) \/ DeqReload(t) \/ DeqCas(t)

Next == \E t \in Threads : Enqueue(t) \/ Dequeue(t) \/ Continue(t)

Spec == Init /\ [][Next]_vars

(* Nodes leave in the order they came in, each exactly once; helping to    *)
(* move the tail and passing dummies never lose or reorder one.            *)
ImplementsFifo == F!Spec

(* "We never, ever allow dequeue to get to a state where the queue is      *)
(* empty (we need at least one node in the queue)": the head is never NULL.*)
NeverEmpty == \A q \in Queues : head[q] # NULL

(* "Returns NULL if queue is empty": a dequeue that gives up found no node *)
(* in the queue at that moment.                                            *)
EmptyIsEmptyStep ==
  \A t \in Threads : pc[t] = "deq_next" /\ pc'[t] = "idle"
                     => abs[loc[t].q] = <<>>
=============================================================================
