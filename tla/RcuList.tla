------------------------------- MODULE RcuList -------------------------------
(***************************************************************************)
(* The doubly linked lists of include/urcu/list.h and hlist.h, and their   *)
(* variants for readers that traverse while an updater works, rculist.h    *)
(* and rcuhlist.h.  Updaters exclude each other; an update for readers is  *)
(* executed store by store, the others at once and with no reader about.   *)
(* A removed element is used again after a grace period.                   *)
(***************************************************************************)
EXTENDS Integers, SequencesExt

CONSTANTS Nodes, Heads, Readers, NULL,
          Kinds      \* of "list", "hlist"

VARIABLES kind,      \* which of the two this is
          l,         \* next (n) and prev (p) of every head and element
          todo,      \* the stores the current update has yet to make
          abs,       \* the elements of each list, in order
          cur,       \* where each reader is, NULL outside a traversal
          seen, must,\* what it has met; sets of elements it has to meet one of
          gone       \* removed elements, and the readers they wait for

vars == <<kind, l, todo, abs, cur, seen, must, gone>>

n == l.n
p == l.p
Elems == Nodes \cup Heads
Circular == kind = "list"
End(h) == IF Circular THEN h ELSE NULL
Linked(x) == \E h \in Heads : x \in Range(abs[h])
Free(x) == ~Linked(x) /\ x \notin DOMAIN gone

Init ==
  /\ kind \in Kinds
  /\ LET empty == [x \in Elems |-> IF x \in Heads THEN End(x) ELSE NULL]
     IN l = [n |-> empty, p |-> empty]
  /\ todo = <<>>
  /\ abs = [h \in Heads |-> <<>>]
  /\ cur = [r \in Readers |-> NULL]
  /\ seen = [r \in Readers |-> {}]
  /\ must = [r \in Readers |-> {}]
  /\ gone = [x \in {} |-> {}]

-----------------------------------------------------------------------------
(* The stores of each operation, in order.  A store to NULL is one the     *)
(* code skips: the hlist versions test for it.                             *)

N(x, v) == <<"n", x, v>>
P(x, v) == <<"p", x, v>>
Apply(k, stores) ==
  FoldLeft(LAMBDA m, s : IF s[2] = NULL THEN m ELSE [m EXCEPT ![s[1]][s[2]] = s[3]], k, stores)

(* cds_list_add_rcu(), cds_hlist_add_head_rcu() *)
AddRcu(new, h) == <<N(new, n[h]), P(new, h), P(n[h], new), N(h, new)>>

AddTailRcu(new, h) == <<N(new, h), P(new, p[h]), N(p[h], new), P(h, new)>>

(* Variant: the old element is unlinked before the new one is linked. *)
ReplaceRcuGap(old, new) ==
  <<N(new, n[old]), P(new, p[old]), N(p[old], n[old]), N(p[old], new), P(n[old], new)>>

ReplaceRcu(old, new) == <<N(new, n[old]), P(new, p[old]), N(p[old], new), P(n[old], new)>>

(* cds_list_del_rcu(), cds_hlist_del_rcu() *)
DelRcu(x) == <<P(n[x], p[x]), N(p[x], n[x])>>

(* list.h and hlist.h, on links k *)
Add(k, new, h) == Apply(k, <<P(k.n[h], new), N(new, k.n[h]), P(new, h), N(h, new)>>)
AddTail(k, new, h) == Apply(k, <<N(k.p[h], new), N(new, h), P(new, k.p[h]), P(h, new)>>)
Del(k, x) == Apply(k, <<P(k.n[x], k.p[x]), N(k.p[x], k.n[x])>>)
InitHead(k, x) == Apply(k, <<P(x, x), N(x, x)>>)
Move(k, x, h) == Add(Del(k, x), x, h)
Replace(k, old, new) ==
  Apply(k, <<N(new, k.n[old]), P(new, k.p[old]), N(k.p[old], new), P(k.n[old], new)>>)
ReplaceInit(k, old, new) == InitHead(AddTail(Del(k, old), new, k.n[old]), old)

Splice(k, add, h) ==
  IF k.n[add] = add THEN k
  ELSE Apply(k, <<P(k.n[add], h), N(k.p[add], k.n[h]), P(k.n[h], k.p[add]), N(h, k.n[add])>>)

-----------------------------------------------------------------------------
Idle == todo = <<>>
NoReader == \A r \in Readers : cur[r] = NULL
Inside == {r \in Readers : cur[r] # NULL}
Without(s, x) == SelectSeq(s, LAMBDA y : y # x)
Forget(x) == must' = [r \in Readers |-> {s \in must[r] : x \notin s}]
OrInstead(x, new) == must' = [r \in Readers |-> {IF x \in s THEN s \cup {new} ELSE s : s \in must[r]}]

(* An update beside readers begins: what the list is to be is decided.     *)
BeginAdd ==
  /\ Idle
  /\ \E x \in Nodes, h \in Heads :
       /\ Free(x)
       /\ \/ todo' = AddRcu(x, h) /\ abs' = [abs EXCEPT ![h] = <<x>> \o @]
          \/ /\ Circular
             /\ todo' = AddTailRcu(x, h) /\ abs' = [abs EXCEPT ![h] = Append(@, x)]
  /\ UNCHANGED <<kind, l, cur, seen, must, gone>>

Unlinking(x) == gone' = [y \in DOMAIN gone \cup {x} |-> IF y = x THEN {"unlinking"} ELSE gone[y]]

BeginDel ==
  /\ Idle
  /\ \E h \in Heads : \E x \in Range(abs[h]) :
       /\ todo' = DelRcu(x)
       /\ abs' = [abs EXCEPT ![h] = Without(@, x)]
       /\ Unlinking(x) /\ Forget(x)
  /\ UNCHANGED <<kind, l, cur, seen>>

BeginReplace ==
  /\ Idle /\ Circular
  /\ \E h \in Heads, new \in Nodes : \E x \in Range(abs[h]) :
       /\ Free(new)
       /\ todo' = ReplaceRcu(x, new)
       /\ abs' = [abs EXCEPT ![h] = [i \in DOMAIN @ |-> IF @[i] = x THEN new ELSE @[i]]]
       /\ Unlinking(x) /\ OrInstead(x, new)
  /\ UNCHANGED <<kind, l, cur, seen>>

(* One store; the last one ends the update, and a removed element begins   *)
(* to wait for the readers of that moment.                                 *)
StoreStep ==
  /\ ~Idle
  /\ l' = Apply(l, <<Head(todo)>>)
  /\ todo' = Tail(todo)
  /\ gone' = IF Tail(todo) # <<>> THEN gone
             ELSE [x \in DOMAIN gone |-> IF gone[x] = {"unlinking"} THEN Inside ELSE gone[x]]
  /\ UNCHANGED <<kind, abs, cur, seen, must>>

(* After a grace period a removed element may be used again. *)
Reclaim ==
  /\ \E x \in DOMAIN gone : gone[x] = {} /\ gone' = [y \in DOMAIN gone \ {x} |-> gone[y]]
  /\ UNCHANGED <<kind, l, todo, abs, cur, seen, must>>

(* The operations of list.h and hlist.h *)
Plain ==
  /\ Idle /\ NoReader
  /\ \E h \in Heads :
       \/ \E x \in Nodes :
            /\ Free(x)
            /\ \/ /\ l' = Add(l, x, h)
                  /\ abs' = [abs EXCEPT ![h] = <<x>> \o @]
               \/ /\ Circular
                  /\ l' = AddTail(l, x, h)
                  /\ abs' = [abs EXCEPT ![h] = Append(@, x)]
               \/ \E y \in Range(abs[h]) :
                    /\ Circular
                    /\ \/ l' = Replace(l, y, x)
                       \/ l' = ReplaceInit(l, y, x)
                    /\ abs' = [abs EXCEPT ![h] = [i \in DOMAIN @ |-> IF @[i] = y THEN x ELSE @[i]]]
       \/ \E x \in Range(abs[h]) :
            /\ \/ l' = Del(l, x)
               \/ Circular /\ l' = InitHead(Del(l, x), x)
            /\ abs' = [abs EXCEPT ![h] = Without(@, x)]
       \/ \E g \in Heads : \E x \in Range(abs[h]) :
            /\ Circular
            /\ l' = Move(l, x, g)
            /\ abs' = [[abs EXCEPT ![h] = Without(@, x)] EXCEPT ![g] = <<x>> \o @]
       \/ \E g \in Heads \ {h} :
            /\ Circular
            /\ l' = InitHead(Splice(l, g, h), g)
            /\ abs' = [abs EXCEPT ![h] = abs[g] \o @, ![g] = <<>>]
  /\ UNCHANGED <<kind, todo, cur, seen, must, gone>>

(* cds_list_for_each_rcu(), cds_hlist_for_each_rcu() in a read-side        *)
(* critical section, on the first head.                                    *)
First == CHOOSE h \in Heads : TRUE

Reach == LET f[k \in 0..Cardinality(Nodes)] ==
               IF k = 0 THEN {n[First]} ELSE f[k - 1] \cup {n[x] : x \in f[k - 1] \cap Nodes}
         IN f[Cardinality(Nodes)]

Begin(r) ==
  /\ cur[r] = NULL
  /\ cur' = [cur EXCEPT ![r] = First]
  /\ must' = [must EXCEPT ![r] = {{x} : x \in Range(abs[First]) \cap Reach}]
  /\ seen' = [seen EXCEPT ![r] = {}]
  /\ UNCHANGED <<kind, l, todo, abs, gone>>

Advance(r) ==
  /\ cur[r] # NULL
  /\ LET x == n[cur[r]]
         over == x = End(First)
     IN /\ cur' = [cur EXCEPT ![r] = IF over THEN NULL ELSE x]
        /\ seen' = [seen EXCEPT ![r] = IF over THEN {} ELSE @ \cup {x}]
        /\ must' = [must EXCEPT ![r] = IF over THEN {} ELSE @]
        /\ gone' = IF over THEN [y \in DOMAIN gone |-> gone[y] \ {r}] ELSE gone
  /\ UNCHANGED <<kind, l, todo, abs>>

Next == \/ BeginAdd \/ BeginDel \/ BeginReplace \/ StoreStep \/ Reclaim \/ Plain
        \/ \E r \in Readers : Begin(r) \/ Advance(r)
Spec == Init /\ [][Next]_vars

-----------------------------------------------------------------------------
(* Between updates every list is linked both ways in the order the         *)
(* operations promise.                                                     *)
ListsLinked ==
  Idle => \A h \in Heads :
    LET s == <<h>> \o abs[h] \o <<End(h)>> IN
    \A i \in 1..(Len(s) - 1) : n[s[i]] = s[i + 1] /\ (s[i + 1] # NULL => p[s[i + 1]] = s[i])

(* A reader is only ever at an element that was in the list at some time   *)
(* since it began, and never at one that has been handed back for reuse.   *)
ReaderOnElement == \A r \in Readers : cur[r] \in Nodes => ~Free(cur[r])

(* A traversal does not miss an element that was in the list all along,    *)
(* and of one that was replaced it meets the old one or the new one.       *)
TraversalStep ==
  \A r \in Readers : cur[r] # NULL /\ cur'[r] = NULL =>
    \A s \in must[r] : s \cap seen[r] # {}
=============================================================================
