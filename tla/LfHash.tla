-------------------------------- MODULE LfHash ------------------------------
(***************************************************************************)
(* The lock-free resizable hash table of src/rculfhash.c: one list sorted  *)
(* by bit-reversed hash, with bucket nodes as entry points.  Updaters,     *)
(* lookups and traversals run inside RCU sections beside one thread that   *)
(* resizes the table; removed nodes and bucket tables are reused after a   *)
(* grace period.                                                           *)
(***************************************************************************)
EXTENDS Naturals, FiniteSets

CONSTANTS Threads,        \* callers of the table's functions
          Resizer,        \* the thread that resizes
          Nodes,          \* the user's nodes
          HashOf(_), KeyOf(_),  \* hash and key of each node
          Bits,           \* width of a hash
          MaxOrder,       \* largest table: 2^MaxOrder buckets
          END, NULL,
          Plans           \* the programs to look at, see plan

VARIABLES
  plan,     \* the calls each thread makes, the nodes it adds, and the order
            \*   up to which the table is resized
  next,     \* next pointer of buckets and nodes: node and flags, or NIL
  size,     \* ht->size
  target,   \* ht->resize_target
  pc, loc,  \* control point and locals of each thread
  pre,      \* sections the resizer's synchronize_rcu() waits for
  free,     \* of a removed node: sections its reclaim waits for
  must      \* history: the key a lookup is after was there all the time

vars == <<plan, next, size, target, pc, loc, pre, free, must>>

Buckets == 0..(2^MaxOrder - 1)
All == Threads \cup {Resizer}
NIL == [n |-> NULL, f |-> {}]
Ptr(n, flags) == [n |-> n, f |-> flags]

(* bit_reverse_ulong() on Bits bits *)
Reverse(h) == LET bit(i) == (h \div 2^i) % 2
                  rev[i \in 0..Bits] == IF i = 0 THEN 0
                                        ELSE rev[i - 1] + bit(i - 1) * 2^(Bits - i)
              IN rev[Bits]

Reversed == [x \in Buckets \cup Nodes |-> Reverse(IF x \in Nodes THEN HashOf(x) ELSE x)]
RevHash(x) == Reversed[x]
LookupBucket(h, s) == h % s                                  \* lookup_bucket()
Order(s) == CHOOSE o \in 0..MaxOrder : 2^o = s

NoLoc == [op |-> "", node |-> NULL, bucket |-> 0, prev |-> NULL, iter |-> NIL,
          nx |-> NIL, d |-> NIL, seen |-> {}, ret |-> "", todo |-> {}, last |-> 0]

Init ==
  /\ plan \in Plans
  /\ next = [x \in Buckets \cup Nodes |-> IF x = 0 THEN Ptr(END, {"B"}) ELSE NIL]
  /\ size = 1
  /\ target = 1
  /\ pc = [t \in All |-> "idle"]
  /\ loc = [t \in All |-> NoLoc]
  /\ pre = {}
  /\ free = [n \in Nodes |-> {}]
  /\ must = [t \in Threads |-> FALSE]

Live(nx) == {n \in Nodes : nx[n] # NIL /\ "R" \notin nx[n].f}
Busy == {t \in Threads : pc[t] # "idle"}
Sections == Busy \cup {t \in {Resizer} : pc[t] \notin {"idle", "sync", "last_sync"}}
Past(p, rh) == p.n # END => RevHash(p.n) > rh

Goto(t, l) == pc' = [pc EXCEPT ![t] = l]
Set(t, l, r) == pc' = [pc EXCEPT ![t] = l] /\ loc' = [loc EXCEPT ![t] = r]

(* uatomic_cmpxchg(&x->next, old, new) *)
Cas(x, old, new) == IF next[x] = old THEN [next EXCEPT ![x] = new] ELSE next

(* Leave the section at the end of a call: reclaims no longer wait for it. *)
Unlocked(t) == free' = [n \in Nodes |-> free[n] \ {t}]
Leave(t) == /\ Set(t, "idle", NoLoc)
            /\ pre' = pre \ {t}
            /\ Unlocked(t)

(* The caller owns node n, and will reuse it after a grace period. *)
LeaveOwning(t, n) == /\ Set(t, "idle", NoLoc)
                     /\ pre' = pre \ {t}
                     /\ free' = [m \in Nodes |-> IF m = n THEN (Sections \ {t}) \cup {NULL}
                                                 ELSE free[m] \ {t}]

-----------------------------------------------------------------------------
(* _cds_lfht_gc_bucket(bucket, node), called with loc.ret *)

CallGc(r, bucket, node, ret) == [r EXCEPT !.bucket = bucket, !.d = Ptr(node, {}), !.ret = ret]

GcStart(t) ==
  /\ pc[t] = "gc_start"
  /\ LET r == loc[t] IN
       Set(t, "gc_walk", [r EXCEPT !.prev = r.bucket, !.iter = next[r.bucket], !.nx = NIL])
  /\ UNCHANGED <<next, size, target, pre, free>>

(* Walk up to the node's hash; unlink the first removed node met. *)
GcWalk(t) ==
  /\ pc[t] = "gc_walk"
  /\ LET r == loc[t] IN
       \/ /\ Past(r.iter, RevHash(r.d.n))
          /\ Set(t, r.ret, [r EXCEPT !.prev = NULL, !.iter = NIL, !.d = NIL])
       \/ /\ ~Past(r.iter, RevHash(r.d.n))
          /\ LET nx == next[r.iter.n] IN
               IF "R" \in nx.f
               THEN Set(t, "gc_cas", [r EXCEPT !.nx = nx])
               ELSE Set(t, "gc_walk", [r EXCEPT !.prev = r.iter.n, !.iter = nx])
  /\ UNCHANGED <<next, size, target, pre, free>>

Unlink(r) == Cas(r.prev, r.iter, Ptr(r.nx.n, r.iter.f \cap {"B"}))

GcCas(t) ==
  /\ pc[t] = "gc_cas"
  /\ next' = Unlink(loc[t])
  /\ Goto(t, "gc_start")
  /\ UNCHANGED <<size, target, loc, pre, free>>

-----------------------------------------------------------------------------
(* _cds_lfht_add(): loc.op is add, unique, replace or bucket *)

AddStart(t) ==
  /\ pc[t] = "add_start"
  /\ LET r == loc[t] IN
       Set(t, "add_walk", [r EXCEPT !.prev = r.bucket, !.iter = next[r.bucket],
                                    !.nx = NIL, !.d = NIL])
  /\ UNCHANGED <<next, size, target, pre, free>>

InsertHere(r) == ~Past(r.iter, RevHash(r.node))
                 => r.op = "bucket" /\ RevHash(r.iter.n) = RevHash(r.node)

AddWalk(t) ==
  /\ pc[t] = "add_walk"
  /\ LET r == loc[t] IN
       \/ InsertHere(r) /\ Goto(t, "add_cas") /\ UNCHANGED loc
       \/ /\ ~InsertHere(r)
          /\ LET nx == next[r.iter.n] IN
               \/ "R" \in nx.f /\ Set(t, "add_gc", [r EXCEPT !.nx = nx])
               \/ /\ "R" \notin nx.f
                  /\ r.op \in {"unique", "replace"} /\ "B" \notin nx.f
                  /\ RevHash(r.iter.n) = RevHash(r.node)
                  /\ Set(t, "add_dup", [r EXCEPT !.d = Ptr(r.iter.n, {})])
               \/ /\ "R" \notin nx.f
                  /\ ~(/\ r.op \in {"unique", "replace"} /\ "B" \notin nx.f
                       /\ RevHash(r.iter.n) = RevHash(r.node))
                  /\ Set(t, "add_walk", [r EXCEPT !.prev = r.iter.n, !.iter = nx])
  /\ UNCHANGED <<next, size, target, pre, free>>

(* cds_lfht_next_duplicate() over the chain of equal hashes. *)
AddDup(t) ==
  /\ pc[t] = "add_dup"
  /\ LET r == loc[t] IN
       \/ Past(r.d, RevHash(r.node)) /\ Set(t, "add_cas", [r EXCEPT !.d = NIL])
       \/ /\ ~Past(r.d, RevHash(r.node))
          /\ LET nx == next[r.d.n] IN
               IF {"R", "B"} \cap nx.f = {} /\ KeyOf(r.d.n) = KeyOf(r.node)
               THEN Set(t, "add_found", [r EXCEPT !.nx = nx, !.prev = NULL, !.iter = NIL,
                                                  !.d = Ptr(r.d.n, {})])
               ELSE Set(t, "add_dup", [r EXCEPT !.d = Ptr(nx.n, {})])
  /\ UNCHANGED <<next, size, target, pre, free>>

AddCas(t) ==
  /\ pc[t] = "add_cas"
  /\ LET r == loc[t]
         won == next[r.prev] = r.iter IN
       \/ /\ ~won
          /\ Goto(t, "add_start")
          /\ UNCHANGED <<next, loc, pre, free>>
       \/ /\ won
          /\ next' = [next EXCEPT ![r.node] = Ptr(r.iter.n, IF r.op = "bucket" THEN {"B"} ELSE {}),
                                  ![r.prev] = Ptr(r.node, r.iter.f \cap {"B"})]
          /\ IF r.op = "bucket" THEN Goto(t, "populate") /\ UNCHANGED <<loc, pre, free>>
             ELSE Leave(t)
  /\ UNCHANGED <<size, target>>

AddGc(t) ==
  /\ pc[t] = "add_gc"
  /\ next' = Unlink(loc[t])
  /\ Goto(t, "add_start")
  /\ UNCHANGED <<size, target, loc, pre, free>>

(* The key is there: add_unique returns, add_replace replaces it. *)
AddFound(t) ==
  /\ pc[t] = "add_found"
  /\ \/ loc[t].op = "unique" /\ Leave(t)
     \/ loc[t].op = "replace" /\ Goto(t, "rep") /\ UNCHANGED <<loc, pre, free>>
  /\ UNCHANGED <<next, size, target>>

-----------------------------------------------------------------------------
(* _cds_lfht_replace() of node loc.d, whose next was loc.nx *)

(* Variant: the new node is linked first and the old one marked later. *)
RepTwoSteps(t) ==
  /\ pc[t] = "rep"
  /\ LET r == loc[t]
         won == "R" \notin r.nx.f /\ next[r.d.n] = r.nx IN
       \/ /\ won
          /\ next' = [next EXCEPT ![r.node] = r.nx, ![r.d.n] = Ptr(r.node, {})]
          /\ Set(t, "del_or", [r EXCEPT !.op = "del", !.node = r.d.n])
          /\ UNCHANGED <<pre, free>>
       \/ /\ ~won /\ "R" \notin r.nx.f
          /\ Set(t, "rep", [r EXCEPT !.nx = next[r.d.n]])
          /\ UNCHANGED <<next, pre, free>>
       \/ /\ "R" \in r.nx.f
          /\ UNCHANGED next
          /\ IF r.op = "replace" THEN Goto(t, "add_start") /\ UNCHANGED <<loc, pre, free>>
             ELSE Leave(t)
  /\ UNCHANGED <<size, target>>

Rep(t) ==
  /\ pc[t] = "rep"
  /\ LET r == loc[t]
         won == "R" \notin r.nx.f /\ next[r.d.n] = r.nx IN
       \/ /\ won
          /\ next' = [next EXCEPT ![r.node] = r.nx, ![r.d.n] = Ptr(r.node, {"R", "O"})]
          /\ Set(t, "gc_start", [CallGc(r, r.bucket, r.node, "owned") EXCEPT !.node = r.d.n])
          /\ UNCHANGED <<pre, free>>
       \/ /\ ~won /\ "R" \notin r.nx.f
          /\ Set(t, "rep", [r EXCEPT !.nx = next[r.d.n]])
          /\ UNCHANGED <<next, pre, free>>
       \/ /\ "R" \in r.nx.f                                  \* -ENOENT
          /\ UNCHANGED next
          /\ IF r.op = "replace" THEN Goto(t, "add_start") /\ UNCHANGED <<loc, pre, free>>
             ELSE Leave(t)
  /\ UNCHANGED <<size, target>>

(* The call returns the old node to its caller: it is the one that may     *)
(* free it.                                                                *)
Owned(t) ==
  /\ pc[t] = "owned"
  /\ LeaveOwning(t, loc[t].node)
  /\ UNCHANGED <<next, size, target>>

-----------------------------------------------------------------------------
(* _cds_lfht_del() *)

DelLoad(t) ==
  /\ pc[t] = "del_load"
  /\ IF "R" \in next[loc[t].node].f THEN Leave(t)            \* -ENOENT
     ELSE Goto(t, "del_or") /\ UNCHANGED <<loc, pre, free>>
  /\ UNCHANGED <<next, size, target>>

DelOr(t) ==
  /\ pc[t] = "del_or"
  /\ LET r == loc[t] IN
       /\ next' = [next EXCEPT ![r.node].f = @ \cup {"R"}]
       /\ Set(t, "gc_start", CallGc(r, r.bucket, r.node, "own_load"))
  /\ UNCHANGED <<size, target, pre, free>>

OwnLoad(t) ==
  /\ pc[t] = "own_load"
  /\ LET r == loc[t] IN Set(t, "own", [r EXCEPT !.nx = next[r.node]])
  /\ UNCHANGED <<next, size, target, pre, free>>

(* Variant: the flag found by the exchange is not looked at. *)
OwnUnseen(t) ==
  /\ pc[t] = "own"
  /\ LET r == loc[t] IN
       next' = [next EXCEPT ![r.node] = Ptr(r.nx.n, r.nx.f \cup {"O"})]
  /\ Goto(t, "owned")
  /\ UNCHANGED <<size, target, loc, pre, free>>

(* The exchange: whoever sets the flag first owns the node. *)
Own(t) ==
  /\ pc[t] = "own"
  /\ LET r == loc[t] IN
       /\ next' = [next EXCEPT ![r.node] = Ptr(r.nx.n, r.nx.f \cup {"O"})]
       /\ IF "O" \in next[r.node].f THEN Leave(t)             \* -ENOENT
          ELSE Goto(t, "owned") /\ UNCHANGED <<loc, pre, free>>
  /\ UNCHANGED <<size, target>>

-----------------------------------------------------------------------------
(* Calls.  Each loads ht->size inside its section. *)

Start(t, op, l, r) ==
  /\ pc[t] = "idle" /\ op \in plan.calls[t]
  /\ Set(t, l, [r EXCEPT !.op = op])
  /\ UNCHANGED <<next, size, target, pre, free>>

Fresh(n) == n \in plan.nodes /\ next[n] = NIL /\ \A t \in All : pc[t] # "idle" => loc[t].node # n

(* cds_lfht_add(), cds_lfht_add_unique(), cds_lfht_add_replace() *)
Add(t) ==
  \E op \in {"add", "unique", "replace"}, n \in Nodes :
    /\ Fresh(n)
    /\ Start(t, op, "add_start", [NoLoc EXCEPT !.node = n,
                                  !.bucket = LookupBucket(HashOf(n), size)])

(* cds_lfht_del() of a node that a lookup in this section has found, and   *)
(* cds_lfht_replace() of it by one with the same key.                      *)
Del(t) ==
  \E n \in Live(next) :
    Start(t, "del", "del_load", [NoLoc EXCEPT !.node = n,
                                 !.bucket = LookupBucket(HashOf(n), size)])

Replace(t) ==
  \E o \in Live(next), n \in Nodes :
    /\ Fresh(n) /\ HashOf(o) = HashOf(n) /\ KeyOf(o) = KeyOf(n)
    /\ Start(t, "rep", "rep", [NoLoc EXCEPT !.node = n, !.d = Ptr(o, {}), !.nx = next[o],
                               !.bucket = LookupBucket(HashOf(n), size)])

(* cds_lfht_lookup() of the key and hash of node n: skip the bucket node. *)
Lookup(t) ==
  \E n \in plan.nodes :
    Start(t, "lookup", "lk_walk",
          [NoLoc EXCEPT !.node = n, !.d = next[LookupBucket(HashOf(n), size)]])

LookupWalk(t) ==
  /\ pc[t] = "lk_walk"
  /\ LET r == loc[t] IN
       \/ Past(r.d, RevHash(r.node)) /\ Set(t, "lk_none", r)
       \/ /\ ~Past(r.d, RevHash(r.node))
          /\ LET nx == next[r.d.n] IN
               IF /\ {"R", "B"} \cap nx.f = {}
                  /\ HashOf(r.d.n) = HashOf(r.node) /\ KeyOf(r.d.n) = KeyOf(r.node)
               THEN Set(t, "lk_found", r)
               ELSE Set(t, "lk_walk", [r EXCEPT !.d = Ptr(nx.n, {})])
  /\ UNCHANGED <<next, size, target, pre, free>>

(* cds_lfht_first(), cds_lfht_next() *)
First(t) == Start(t, "walk", "walk", [NoLoc EXCEPT !.d = next[0]])

(* Variant: removed nodes are reported too. *)
WalkRemoved(t) ==
  /\ pc[t] = "walk"
  /\ LET r == loc[t] IN
       \/ r.d.n = END /\ Set(t, "walked", r)
       \/ /\ r.d.n # END
          /\ LET nx == next[r.d.n] IN
               Set(t, "walk", [r EXCEPT !.d = Ptr(nx.n, {}),
                                        !.seen = IF "B" \in nx.f THEN @ ELSE @ \cup {r.d.n}])
  /\ UNCHANGED <<next, size, target, pre, free>>

Walk(t) ==
  /\ pc[t] = "walk"
  /\ LET r == loc[t] IN
       \/ r.d.n = END /\ Set(t, "walked", r)
       \/ /\ r.d.n # END
          /\ LET nx == next[r.d.n] IN
               Set(t, "walk", [r EXCEPT !.d = Ptr(nx.n, {}),
                                        !.seen = IF {"R", "B"} \cap nx.f = {}
                                                 THEN @ \cup {r.d.n} ELSE @])
  /\ UNCHANGED <<next, size, target, pre, free>>

Return(t) ==
  /\ pc[t] \in {"lk_none", "lk_found", "walked"}
  /\ Leave(t)
  /\ UNCHANGED <<next, size, target>>

(* The grace period after a removal ends, and the node can be used again.  *)
Reclaim(n) ==
  /\ free[n] = {NULL}
  /\ next' = [next EXCEPT ![n] = NIL]
  /\ free' = [free EXCEPT ![n] = {}]
  /\ UNCHANGED <<size, target, pc, loc, pre>>

-----------------------------------------------------------------------------
(* _do_cds_lfht_resize(), by one thread at a time (ht->resize_mutex) *)

Request(s) ==
  /\ target # s
  /\ target' = s
  /\ UNCHANGED <<next, size, pc, loc, pre, free>>

Top(o) == 2^(o - 1) .. (2^o - 1)          \* the buckets of table order o

(* init_table(): the next order, unless the target has changed *)
Grow ==
  /\ pc[Resizer] = "idle" /\ target > size
  /\ Set(Resizer, "populate", [NoLoc EXCEPT !.op = "bucket", !.todo = Top(Order(size) + 1)])
  /\ UNCHANGED <<next, size, target, pre, free>>

(* init_table_populate_partition(), then the store of the new size *)
Populate ==
  /\ pc[Resizer] = "populate"
  /\ LET r == loc[Resizer] IN
       \/ \E j \in r.todo :
            /\ \A i \in r.todo : j <= i
            /\ Set(Resizer, "add_start", [r EXCEPT !.node = j, !.todo = @ \ {j},
                                          !.bucket = LookupBucket(j, size)])
            /\ UNCHANGED <<size, free>>
       \/ /\ r.todo = {}
          /\ size' = 2 * size
          /\ Set(Resizer, "idle", NoLoc)
          /\ Unlocked(Resizer)
  /\ UNCHANGED <<next, target, pre>>

(* fini_table(): the new size, and a grace period, for the calls that have *)
(* loaded the old one *)
Shrink ==
  /\ pc[Resizer] = "idle" /\ target < size
  /\ size' = size \div 2
  /\ pre' = Busy
  /\ Set(Resizer, "sync", [loc[Resizer] EXCEPT !.todo = Top(Order(size))])
  /\ UNCHANGED <<next, target, free>>

FreeTable(o) == [x \in DOMAIN next |-> IF o > 0 /\ x \in Top(o) THEN NIL ELSE next[x]]

(* Free the order removed before, now that a grace period has passed. *)
Sync ==
  /\ pc[Resizer] = "sync"
  /\ pre = {}
  /\ next' = FreeTable(loc[Resizer].last)
  /\ Set(Resizer, "remove", [loc[Resizer] EXCEPT !.last = 0])
  /\ UNCHANGED <<size, target, pre, free>>

(* remove_table_partition() *)
Remove ==
  /\ pc[Resizer] = "remove"
  /\ LET r == loc[Resizer] IN
       \E j \in r.todo :
         /\ \A i \in r.todo : j <= i
         /\ next' = [next EXCEPT ![j].f = @ \cup {"R"}]
         /\ Set(Resizer, "gc_start", [CallGc(r, j - size, j, "removed") EXCEPT !.todo = @ \ {j}])
  /\ UNCHANGED <<size, target, pre, free>>

(* After the last bucket of the order: the next lower order if the target  *)
(* still asks for it, or a last grace period and free.                     *)
Removed ==
  /\ pc[Resizer] = "removed"
  /\ LET r == loc[Resizer]
         o == Order(size) + 1 IN
       \/ r.todo # {} /\ Goto(Resizer, "remove") /\ UNCHANGED <<loc, size, pre, free>>
       \/ /\ r.todo = {} /\ target < size
          /\ Unlocked(Resizer)
          /\ size' = size \div 2
          /\ pre' = Busy
          /\ Set(Resizer, "sync", [r EXCEPT !.last = o, !.todo = Top(o - 1)])
       \/ /\ r.todo = {} /\ target >= size
          /\ Unlocked(Resizer)
          /\ pre' = Busy
          /\ Set(Resizer, "last_sync", [r EXCEPT !.last = o])
          /\ UNCHANGED size
  /\ UNCHANGED <<next, target>>

LastSync ==
  /\ pc[Resizer] = "last_sync"
  /\ pre = {}
  /\ next' = FreeTable(loc[Resizer].last)
  /\ Set(Resizer, "idle", NoLoc)
  /\ UNCHANGED <<size, target, pre, free>>

-----------------------------------------------------------------------------
Shared(t) == \/ GcStart(t) \/ GcWalk(t) \/ GcCas(t)
             \/ AddStart(t) \/ AddWalk(t) \/ AddCas(t) \/ AddGc(t)
Continue(t) == \/ Shared(t) \/ AddDup(t) \/ AddFound(t) \/ Rep(t) \/ Owned(t)
               \/ DelLoad(t) \/ DelOr(t) \/ OwnLoad(t) \/ Own(t)
               \/ LookupWalk(t) \/ Walk(t) \/ Return(t)
Begin(t) == Add(t) \/ Del(t) \/ Replace(t) \/ Lookup(t) \/ First(t)
Resize == \/ Grow \/ Populate \/ Shrink \/ Sync \/ Remove \/ Removed \/ LastSync
          \/ Shared(Resizer)

Step == \/ \E t \in Threads : Begin(t) \/ Continue(t)
        \/ \E n \in Nodes : Reclaim(n)
        \/ Resize
        \/ \E o \in 0..plan.order : Request(2^o)

(* A lookup's history is kept along. *)
Next == /\ Step
        /\ UNCHANGED plan
        /\ must' = [t \in Threads |->
                     /\ pc'[t] \in {"lk_walk", "lk_none"}
                     /\ \E n \in Live(next') : KeyOf(n) = KeyOf(loc'[t].node)
                     /\ pc[t] = "idle" => \E n \in Live(next) : KeyOf(n) = KeyOf(loc'[t].node)
                     /\ pc[t] # "idle" => must[t]]

Spec == Init /\ [][Next]_vars

-----------------------------------------------------------------------------
UniqueOnly == \A t \in Threads : "add" \notin plan.calls[t]
D == INSTANCE Dictionary WITH Key <- KeyOf, unique <- UniqueOnly, content <- Live(next)

(* The table implements a dictionary; additions that are all unique never  *)
(* let two nodes with the same key in, whatever resize does meanwhile.     *)
DictionaryStep == [D!Next]_D!vars

(* A lookup does not miss a key that was in the table all the time, be it  *)
(* that its node was replaced, its neighbours removed or the table resized.*)
LookupFinds == \A t \in Threads : pc[t] = "lk_none" => ~must[t]

(* "no duplicated keys should ever be observable in the table (including   *)
(* traversing the table node by node by forward iterations)"               *)
TraversalUnique ==
  UniqueOnly =>
    \A t \in Threads : \A m, n \in loc[t].seen : m # n => KeyOf(m) # KeyOf(n)

(* The chain from bucket 0. *)
Chain == LET to[i \in 0..Cardinality(DOMAIN next)] ==
               IF i = 0 THEN {0} ELSE {next[x].n : x \in to[i - 1] \ {END, NULL}}
         IN UNION {to[i] : i \in DOMAIN to}

(* A node whose removal has been won can be reached from no bucket, so     *)
(* that it may be freed after a grace period, and whoever still walks over *)
(* it is in a section that the grace period waits for.                     *)
RemovedUnreachable ==
  /\ \A n \in Nodes : free[n] # {} => n \notin Chain
  /\ \A t \in All : pc[t] \in {"gc_walk", "gc_cas", "add_walk", "add_cas", "add_gc"}
                    => /\ next[loc[t].prev] # NIL
                       /\ loc[t].iter.n # END => next[loc[t].iter.n] # NIL
  /\ \A t \in Threads : pc[t] \in {"lk_walk", "walk", "add_dup"} /\ loc[t].d.n # END
                        => next[loc[t].d.n] # NIL

(* The call t has marked node n as removed and has not returned. *)
Removing(t, n) ==
  /\ loc[t].node = n
  /\ \/ pc[t] \in {"own_load", "own", "owned"}
     \/ pc[t] \in {"gc_start", "gc_walk", "gc_cas"} /\ loc[t].ret \in {"own_load", "owned"}

(* Exactly one of the calls of cds_lfht_del(), cds_lfht_replace() and      *)
(* cds_lfht_add_replace() that race for a node wins it, so that it is      *)
(* freed once: no two succeed, none does after another has, and a node     *)
(* that is removed has been won or is about to be.                         *)
OneOwner ==
  /\ \A t \in Threads : pc[t] = "owned" =>
       /\ free[loc[t].node] = {}
       /\ \A u \in Threads \ {t} : pc[u] = "owned" => loc[u].node # loc[t].node
  /\ \A n \in Nodes : "R" \in next[n].f =>
       free[n] # {} \/ \E t \in Threads : Removing(t, n)

(* The assertions of the source, and the order the algorithm rests on: a   *)
(* bucket that a call starts from is not removed, and the list is sorted   *)
(* by bit-reversed hash with every bucket below the size in it.            *)
ListSorted ==
  /\ \A x \in Chain \ {END} : next[x].n # END => RevHash(x) <= RevHash(next[x].n)
  /\ \A b \in 0..(size - 1) : b \in Chain /\ "R" \notin next[b].f
  /\ \A t \in All : pc[t] \in {"gc_start", "add_start"}
                    => "R" \notin next[loc[t].bucket].f /\ loc[t].bucket \in Chain
=============================================================================
