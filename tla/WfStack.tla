------------------------------- MODULE WfStack ------------------------------
(***************************************************************************)
(* The stack with wait-free push and pop_all: static/wfstack.h.  discipline*)
(* is one of the ways the header gives of synchronising pop:               *)
(*   "rcu"    pop runs in a read-side section, and a node taken off is     *)
(*            reused only after a grace period;                            *)
(*   "mutex"  pop excludes pop and pop_all; nodes are reused at once.      *)
(***************************************************************************)
EXTENDS Integers, SequencesExt

CONSTANTS Stacks, Threads, Nodes, NULL, END,
          Disciplines  \* a subset of these

VARIABLES
  discipline,
  head,     \* s->head
  next,     \* node->next
  pc,       \* control point of each thread
  loc,      \* its local variables
  pre,      \* threads whose sections a grace period started when the node
            \*   was taken off still waits for
  abs       \* history: the nodes of each stack, and those in threads' hands

vars == <<discipline, head, next, pc, loc, pre, abs>>

L == INSTANCE Lifo

Idle == [op |-> "none", blocking |-> TRUE, s |-> CHOOSE s \in Stacks : TRUE,
         node |-> NULL, new |-> NULL]

Init ==
  /\ discipline \in Disciplines
  /\ head = [s \in Stacks |-> END]
  /\ next = [n \in Nodes |-> NULL]
  /\ pc = [t \in Threads |-> "idle"]
  /\ loc = [t \in Threads |-> Idle]
  /\ pre = [n \in Nodes |-> {}]
  /\ abs = [h \in L!Holders |-> <<>>]

Goto(t, l) == pc' = [pc EXCEPT ![t] = l]

(* Threads inside a read-side section: the ones calling pop. *)
Sections == {t \in Threads : discipline = "rcu" /\ loc[t].op = "pop"}

(* The caller gets the nodes ns: a grace period starts. *)
Retire(t, ns) == pre' = [n \in Nodes |->
                           IF n \in ns THEN Sections \ {t} ELSE pre[n] \ {t}]

Return(t) == Goto(t, "idle") /\ loc' = [loc EXCEPT ![t] = Idle]

(* The call returns and its read-side section, if it has one, ends. *)
Leave(t) == Return(t) /\ pre' = [n \in Nodes |-> pre[n] \ {t}]

(* The synchronisation table. *)
Exclusive(o, s) ==
  discipline = "mutex" =>
    \A u \in Threads : loc[u].op \in {"pop", "pop_all"} /\ loc[u].s = s
                       => o = "pop_all" /\ loc[u].op = "pop_all"

Begin(t, s, o, b) ==
  loc' = [loc EXCEPT ![t] = [Idle EXCEPT !.op = o, !.s = s, !.blocking = b]]

-----------------------------------------------------------------------------
(* _cds_wfs_node_init() of a node no one can reach any more. *)
Push(t) ==
  /\ pc[t] = "idle"
  /\ \E s \in Stacks, n \in Nodes \ L!Held :
       /\ pre[n] = {}
       /\ next' = [next EXCEPT ![n] = NULL]
       /\ loc' = [loc EXCEPT ![t] = [Idle EXCEPT !.op = "push", !.s = s, !.node = n]]
       /\ abs' = [abs EXCEPT ![t] = <<n>>]
  /\ Goto(t, "push")
  /\ UNCHANGED <<discipline, head, pre>>

(* _cds_wfs_push(): exchange the head ... *)
PushXchg(t) ==
  /\ pc[t] = "push"
  /\ LET s == loc[t].s IN
       /\ loc' = [loc EXCEPT ![t].new = head[s]]
       /\ head' = [head EXCEPT ![s] = loc[t].node]
       /\ abs' = [abs EXCEPT ![s] = abs[t] \o @, ![t] = <<>>]
  /\ Goto(t, "push_link")
  /\ UNCHANGED <<discipline, next, pre>>

(* ... and link the new head to the old one, END included. *)
PushLink(t) ==
  /\ pc[t] = "push_link"
  /\ next' = [next EXCEPT ![loc[t].node] = loc[t].new]
  /\ Return(t)
  /\ UNCHANGED <<discipline, head, pre, abs>>

-----------------------------------------------------------------------------
(* ___cds_wfs_pop() *)

Pop(t) ==
  /\ pc[t] = "idle"
  /\ \E s \in Stacks, b \in BOOLEAN :
       Exclusive("pop", s) /\ Begin(t, s, "pop", b)
  /\ Goto(t, "pop")
  /\ UNCHANGED <<discipline, head, next, pre, abs>>

PopHead(t) ==
  /\ pc[t] = "pop"
  /\ LET h == head[loc[t].s] IN
       \/ h = END /\ Leave(t)
       \/ /\ h # END
          /\ loc' = [loc EXCEPT ![t].node = h]
          /\ Goto(t, "pop_sync")
          /\ UNCHANGED pre
  /\ UNCHANGED <<discipline, head, next, abs>>

(* ___cds_wfs_node_sync_next(): spin, or WOULDBLOCK. *)
PopSync(t) ==
  /\ pc[t] = "pop_sync"
  /\ LET succ == next[loc[t].node] IN
       \/ /\ succ # NULL
          /\ loc' = [loc EXCEPT ![t].new = succ]
          /\ Goto(t, "pop_cas")
          /\ UNCHANGED pre
       \/ succ = NULL /\ ~loc[t].blocking /\ Leave(t)
  /\ UNCHANGED <<discipline, head, next, abs>>

(* Variant: the head is stored, not compared and exchanged. *)
PopCasStore(t) ==
  /\ pc[t] = "pop_cas"
  /\ head' = [head EXCEPT ![loc[t].s] = loc[t].new]
  /\ abs' = [abs EXCEPT ![loc[t].s] = L!Take(@, loc[t].node)]
  /\ Retire(t, {loc[t].node})
  /\ Return(t)
  /\ UNCHANGED <<discipline, next>>

PopCas(t) ==
  /\ pc[t] = "pop_cas"
  /\ LET s == loc[t].s
         n == loc[t].node IN
       \/ /\ head[s] = n
          /\ head' = [head EXCEPT ![s] = loc[t].new]
          /\ abs' = [abs EXCEPT ![s] = L!Take(@, n)]
          /\ Retire(t, {n})
          /\ Return(t)
       \/ /\ head[s] # n
          /\ \/ loc[t].blocking /\ Goto(t, "pop") /\ UNCHANGED <<loc, pre>>
             \/ ~loc[t].blocking /\ Leave(t)
          /\ UNCHANGED <<head, abs>>
  /\ UNCHANGED <<discipline, next>>

-----------------------------------------------------------------------------
(* ___cds_wfs_pop_all(), then cds_wfs_for_each_blocking_safe() over what   *)
(* it returned; no section is needed for it.                               *)
PopAll(t) ==
  /\ pc[t] = "idle"
  /\ \E s \in Stacks :
       /\ Exclusive("pop_all", s)
       /\ head[s] # END     \* END: returns NULL, nothing changes
       /\ loc' = [loc EXCEPT ![t] = [Idle EXCEPT !.op = "pop_all", !.s = s,
                                                 !.node = head[s]]]
       /\ head' = [head EXCEPT ![s] = END]
       /\ abs' = [abs EXCEPT ![s] = <<>>, ![t] = abs[s]]
       /\ Retire(t, Range(abs[s]))
  /\ Goto(t, "visit")
  /\ UNCHANGED <<discipline, next>>

(* ___cds_wfs_next() in blocking mode: the body gets the node once its     *)
(* successor is known.                                                     *)
Visit(t) ==
  /\ pc[t] = "visit"
  /\ LET n == loc[t].node IN
       /\ next[n] # NULL
       /\ abs' = [abs EXCEPT ![t] = L!Take(@, n)]
       /\ \/ next[n] = END /\ Return(t)
          \/ /\ next[n] # END
             /\ loc' = [loc EXCEPT ![t].node = next[n]]
             /\ Goto(t, "visit")
  /\ UNCHANGED <<discipline, head, next, pre>>

-----------------------------------------------------------------------------
Continue(t) == \/ PushXchg(t) \/ PushLink(t)
               \/ PopHead(t) \/ PopSync(t) \/ PopCas(t) \/ Visit(t)

Next == \E t \in Threads : Push(t) \/ Pop(t) \/ PopAll(t) \/ Continue(t)

Spec == Init /\ [][Next]_vars

(* Nodes leave newest first, each exactly once, under either discipline.   *)
ImplementsLifo == L!Spec

(* A push never stores into a node that a pop or a visit has handed back:  *)
(* the consumer waits for the store first.                                 *)
NoStoreAfterPop ==
  \A t \in Threads : pc[t] = "push_link" =>
    \E h \in L!Holders : loc[t].node \in Range(abs[h])
=============================================================================
