------------------------------- MODULE LfStack ------------------------------
(***************************************************************************)
(* The lock-free stacks: static/lfstack.h, and static/rculfstack.h, whose  *)
(* push and pop take the same steps.  discipline is the technique that     *)
(* keeps pop safe from a head that was popped and pushed back:             *)
(*   "rcu"    pop runs in a read-side section, and a node taken off is     *)
(*            pushed back only after a grace period; its content may be    *)
(*            overwritten at once;                                         *)
(*   "mutex"  pop excludes pop and pop_all; nodes are pushed back at once. *)
(***************************************************************************)
EXTENDS Integers, Sequences, Functions

CONSTANTS Stacks, Threads, Nodes, NULL,
          Disciplines  \* a subset of these

VARIABLES
  discipline,
  head,     \* s->head
  next,     \* node->next
  pc,       \* control point of each thread
  loc,      \* its local variables
  pre,      \* threads whose sections a grace period started when the node
            \*   was taken off still waits for
  abs       \* history: the nodes of each stack, and those in threads' hands

vars == <<discipline, head, next, pc, loc, pre, abs>>

L == INSTANCE Lifo

Idle == [op |-> "none", s |-> CHOOSE s \in Stacks : TRUE,
         node |-> NULL, old |-> NULL]

Init ==
  /\ discipline \in Disciplines
  /\ head = [s \in Stacks |-> NULL]
  /\ next = [n \in Nodes |-> NULL]
  /\ pc = [t \in Threads |-> "idle"]
  /\ loc = [t \in Threads |-> Idle]
  /\ pre = [n \in Nodes |-> {}]
  /\ abs = [h \in L!Holders |-> <<>>]

Goto(t, l) == pc' = [pc EXCEPT ![t] = l]

Sections == {t \in Threads : discipline = "rcu" /\ loc[t].op = "pop"}

Retire(t, ns) == pre' = [n \in Nodes |->
                           IF n \in ns THEN Sections \ {t} ELSE pre[n] \ {t}]

Return(t) == Goto(t, "idle") /\ loc' = [loc EXCEPT ![t] = Idle]

Exclusive(o, s) ==
  discipline = "mutex" =>
    \A u \in Threads : loc[u].op \in {"pop", "pop_all"} /\ loc[u].s = s
                       => o = "pop_all" /\ loc[u].op = "pop_all"

-----------------------------------------------------------------------------
Begin(t, o, s, n) ==
  loc' = [loc EXCEPT ![t] = [op |-> o, s |-> s, node |-> n, old |-> NULL]]

(* The caller pushes a node no pop can still compare the head with. *)
Push(t) ==
  /\ pc[t] = "idle"
  /\ \E s \in Stacks, n \in Nodes \ L!Held :
       /\ pre[n] = {}
       /\ Begin(t, "push", s, n)
       /\ abs' = [abs EXCEPT ![t] = <<n>>]
       /\ next' = [next EXCEPT ![n] = NULL]
  /\ Goto(t, "push")
  /\ UNCHANGED <<discipline, head, pre>>

(* _cds_lfs_push(): one turn of the loop.  The first compares with NULL,   *)
(* the others with what the last compare-exchange returned.                *)
PushCas(t) ==
  /\ pc[t] = "push"
  /\ LET s == loc[t].s
         n == loc[t].node IN
       \/ /\ head[s] = loc[t].old
          /\ head' = [head EXCEPT ![s] = n]
          /\ abs' = [abs EXCEPT ![s] = <<n>> \o @, ![t] = <<>>]
          /\ Return(t)
          /\ UNCHANGED next
       \/ /\ head[s] # loc[t].old
          /\ loc' = [loc EXCEPT ![t].old = head[s]]
          /\ next' = [next EXCEPT ![n] = head[s]]
          /\ UNCHANGED <<head, pc, abs>>
  /\ UNCHANGED <<discipline, pre>>

-----------------------------------------------------------------------------
(* ___cds_lfs_pop(), _cds_lfs_pop_rcu() *)

Pop(t) ==
  /\ pc[t] = "idle"
  /\ \E s \in Stacks : Exclusive("pop", s) /\ Begin(t, "pop", s, NULL)
  /\ Goto(t, "pop")
  /\ UNCHANGED <<discipline, head, next, pre, abs>>

PopHead(t) ==
  /\ pc[t] = "pop"
  /\ LET h == head[loc[t].s] IN
       \/ h = NULL /\ Return(t) /\ Retire(t, {})
       \/ /\ h # NULL
          /\ loc' = [loc EXCEPT ![t].node = h]
          /\ Goto(t, "pop_next")
          /\ UNCHANGED pre
  /\ UNCHANGED <<discipline, head, next, abs>>

PopNext(t) ==
  /\ pc[t] = "pop_next"
  /\ loc' = [loc EXCEPT ![t].old = next[loc[t].node]]
  /\ Goto(t, "pop_cas")
  /\ UNCHANGED <<discipline, head, next, pre, abs>>

PopCas(t) ==
  /\ pc[t] = "pop_cas"
  /\ LET s == loc[t].s
         n == loc[t].node IN
       \/ /\ head[s] = n
          /\ head' = [head EXCEPT ![s] = loc[t].old]
          /\ abs' = [abs EXCEPT ![s] = L!Take(@, n)]
          /\ Return(t)
          /\ Retire(t, {n})
       \/ /\ head[s] # n
          /\ Goto(t, "pop")
          /\ UNCHANGED <<head, loc, pre, abs>>
  /\ UNCHANGED <<discipline, next>>

(* ___cds_lfs_pop_all(), and the walk over what it returned. *)
PopAll(t) ==
  /\ pc[t] = "idle"
  /\ \E s \in Stacks :
       /\ Exclusive("pop_all", s)
       /\ head[s] # NULL
       /\ Begin(t, "pop_all", s, head[s])
       /\ head' = [head EXCEPT ![s] = NULL]
       /\ abs' = [abs EXCEPT ![s] = <<>>, ![t] = abs[s]]
       /\ Retire(t, Range(abs[s]))
  /\ Goto(t, "visit")
  /\ UNCHANGED <<discipline, next>>

Visit(t) ==
  /\ pc[t] = "visit"
  /\ LET n == loc[t].node IN
       /\ abs' = [abs EXCEPT ![t] = L!Take(@, n)]
       /\ \/ next[n] = NULL /\ Return(t)
          \/ /\ next[n] # NULL
             /\ loc' = [loc EXCEPT ![t].node = next[n]]
             /\ Goto(t, "visit")
  /\ UNCHANGED <<discipline, head, next, pre>>

(* "It is valid to overwrite the content of cds_lfs_node immediately": the *)
(* caller's union may hold anything, another node's address included.      *)
Overwrite ==
  /\ \E n \in Nodes \ L!Held, a \in Nodes \cup {NULL} :
       pre[n] # {} /\ next' = [next EXCEPT ![n] = a]
  /\ UNCHANGED <<discipline, head, pc, loc, pre, abs>>

-----------------------------------------------------------------------------
Continue(t) == \/ PushCas(t) \/ PopHead(t) \/ PopNext(t) \/ PopCas(t)
               \/ Visit(t)

Next == \/ \E t \in Threads : Push(t) \/ Pop(t) \/ PopAll(t) \/ Continue(t)
        \/ Overwrite

Spec == Init /\ [][Next]_vars

(* Nodes leave newest first, each exactly once: the compare-exchange of    *)
(* pop never succeeds with a successor that is not the head's any more.    *)
ImplementsLifo == L!Spec

(* The chain from the head through next is the stack: nothing a push or a  *)
(* pop published is lost, whatever callers do with nodes they got.         *)
ChainIsStack ==
  \A s \in Stacks :
    /\ head[s] = IF abs[s] = <<>> THEN NULL ELSE Head(abs[s])
    /\ \A i \in 1..Len(abs[s]) :
         next[abs[s][i]] = IF i = Len(abs[s]) THEN NULL ELSE abs[s][i + 1]
=============================================================================
