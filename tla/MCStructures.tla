---------------------------- MODULE MCStructures ----------------------------
(***************************************************************************)
(* Instances for TLC of the containers and of the primitives below them.   *)
(* subject says which one a behaviour is about; they share the variables,  *)
(* and a variable its module does not have stays NULL.                     *)
(***************************************************************************)
EXTENDS Integers, TLC

CONSTANTS t1, t2, t3, n1, n2, n3, d1, d2, d3, NULL, END

VARIABLES subject, head, tail, next, pc, loc, pre, free, abs
vars == <<subject, head, tail, next, pc, loc, pre, free, abs>>

TwoThreads == {t1, t2}
ThreeThreads == {t1, t2, t3}
TwoNodes == {n1, n2}
ThreeNodes == {n1, n2, n3}
Both == {"rcu", "mutex"}

Wfcq == INSTANCE WfcQueue WITH Queues <- {"q", "q2"}, Threads <- ThreeThreads, Nodes <- TwoNodes
Wfs == INSTANCE WfStack WITH Stacks <- {"s"}, Threads <- ThreeThreads, Nodes <- TwoNodes,
         Disciplines <- Both, discipline <- tail
Lfs == INSTANCE LfStack WITH Stacks <- {"s"}, Threads <- TwoThreads, Nodes <- ThreeNodes,
         Disciplines <- Both, discipline <- tail
Lfq == INSTANCE RcuLfQueue WITH Queues <- {"q"}, Threads <- TwoThreads, Nodes <- TwoNodes,
         Dummies <- {d1, d2, d3}, Reuse <- FALSE
Wfq == INSTANCE WfQueue WITH Queues <- {"q"}, Threads <- ThreeThreads, Nodes <- TwoNodes,
         lock <- pre
Lst == INSTANCE RcuList WITH Nodes <- ThreeNodes, Heads <- {"h", "g"}, Readers <- {t1},
         Kinds <- {"list", "hlist"}, kind <- head, l <- next, todo <- loc,
         cur <- pc, seen <- tail, must <- pre, gone <- free
Uat == INSTANCE Uatomic WITH Threads <- {1, 2}, Bits <- 1, Values <- {-1, 1},
         Archs <- {"x86", "builtin", "sparc64", "ppc", "s390"}, NoReq <- NULL, NoRes <- NULL,
         arch <- head, mem <- next, reserved <- pre
Ref == INSTANCE Ref WITH Threads <- {1, 2, 3}, LongMax <- 4,
         refcount <- head, holds <- next, released <- tail, old <- loc
Mo == INSTANCE MemOrder WITH Archs <- {"x86", "weak"},
         arch <- head, test <- tail, mem <- next, done <- pc, reg <- loc
Ftx == INSTANCE Futex WITH Waiters <- {"w1", "w2"}, Wakers <- {"k1", "k2"},
         Platforms <- {"linux", "noasync", "async"},
         platform <- head, armed <- next, lock <- pre, asleep <- free, target <- loc

Init ==
  \/ subject = "wfcqueue" /\ Wfcq!Init /\ head = NULL /\ pre = NULL /\ free = NULL
  \/ subject = "wfstack" /\ Wfs!Init /\ free = NULL
  \/ subject = "lfstack" /\ Lfs!Init /\ free = NULL
  \/ subject = "rculfqueue" /\ Lfq!Init
  \/ subject = "wfqueue" /\ Wfq!Init /\ free = NULL
  \/ subject = "list" /\ Lst!Init
  \/ subject = "uatomic" /\ Uat!Init /\ tail = NULL /\ free = NULL /\ abs = NULL
  \/ subject = "ref" /\ Ref!Init /\ pre = NULL /\ free = NULL /\ abs = NULL
  \/ subject = "memorder" /\ Mo!Init /\ pre = NULL /\ free = NULL /\ abs = NULL
  \/ subject = "futex" /\ Ftx!Init /\ tail = NULL /\ abs = NULL

Next ==
  /\ UNCHANGED subject
  /\ \/ subject = "wfcqueue" /\ Wfcq!Next /\ UNCHANGED <<head, pre, free>>
     \/ subject = "wfstack" /\ Wfs!Next /\ UNCHANGED free
     \/ subject = "lfstack" /\ Lfs!Next /\ UNCHANGED free
     \/ subject = "rculfqueue" /\ Lfq!Next
     \/ subject = "wfqueue" /\ Wfq!Next /\ UNCHANGED free
     \/ subject = "list" /\ Lst!Next
     \/ subject = "uatomic" /\ Uat!Next /\ UNCHANGED <<tail, free, abs>>
     \/ subject = "ref" /\ Ref!Next /\ UNCHANGED <<pre, free, abs>>
     \/ subject = "memorder" /\ Mo!Next /\ UNCHANGED <<pre, free, abs>>
     \/ subject = "futex" /\ Ftx!Next /\ UNCHANGED <<tail, abs>>

Spec == Init /\ [][Next]_vars

Symmetry == Permutations(ThreeThreads) \cup Permutations(ThreeNodes)

-----------------------------------------------------------------------------
(* The queues are FIFO: nodes leave in the order in which enqueues and     *)
(* splices took effect, each once; helping to move the tail and the trips  *)
(* of dummies to the end change nothing of it.  _cds_wfcq_empty() and a    *)
(* dequeue that returns NULL met a moment at which the queue held nothing, *)
(* half-done enqueues included; iteration visits nodes in queue order; and *)
(* the lock-free queue always keeps a node, if nodes are not used again.   *)
QueuesImplementFifo ==
  /\ subject = "wfcqueue" => Wfcq!F!Init
  /\ subject = "rculfqueue" => Lfq!F!Init
  /\ subject = "wfqueue" => Wfq!F!Init
  /\ [][ /\ subject = "wfcqueue" => /\ [Wfcq!F!Next]_abs
                                   /\ Wfcq!EmptyIsEmptyStep
                                   /\ Wfcq!IterationInOrderStep
         /\ subject = "rculfqueue" => /\ [Lfq!F!Next]_abs
                                     /\ Lfq!EmptyIsEmptyStep
                                     /\ Lfq!NeverEmpty'
         /\ subject = "wfqueue" => [Wfq!F!Next]_abs ]_vars

(* The stacks are LIFO under either way of protecting pop: nodes leave     *)
(* newest first, each once; no compare-exchange installs a successor that  *)
(* is not the head's any more (ABA); and what the head of the lock-free    *)
(* stack leads to is what was pushed and not popped, whatever callers      *)
(* write into nodes they got.                                              *)
StacksImplementLifo ==
  /\ subject = "wfstack" => Wfs!L!Init
  /\ subject = "lfstack" => Lfs!L!Init
  /\ [][ /\ subject = "wfstack" => [Wfs!L!Next]_abs
         /\ subject = "lfstack" => [Lfs!L!Next]_abs /\ Lfs!ChainIsStack' ]_vars

(* A node that a dequeue, a pop or a visit has handed back may be freed at *)
(* once: no enqueue or push that is still half done stores into it.        *)
HandedBackForGood ==
  /\ subject = "wfcqueue" => Wfcq!NoStoreAfterDequeue
  /\ subject = "wfqueue" => Wfq!NoStoreAfterDequeue
  /\ subject = "wfstack" => Wfs!NoStoreAfterPop

(* A reader in cds_list_for_each_rcu() is never at an element that has     *)
(* been handed back for reuse; it meets every element that stays in the    *)
(* list, and the old or the new one of every replacement; between updates  *)
(* both directions agree with what the operations promise.                 *)
TraversalComplete ==
  [][subject = "list" => /\ Lst!TraversalStep
                         /\ Lst!ReaderOnElement'
                         /\ Lst!ListsLinked']_vars

(* uatomic operations take effect at once, on exactly their operand, on    *)
(* every architecture and for every width.                                 *)
ImplementsAtomicWord ==
  /\ subject = "uatomic" => Uat!Atomic!Init
  /\ [][subject = "uatomic" => [Uat!Atomic!Next]_(Uat!Atomic!vars)]_vars

(* urcu_ref: the count is the number of references given out, release()    *)
(* runs once, and no reference is obtained after it.                       *)
ReleasedForGood == subject = "ref" => Ref!CountIsHolders /\ Ref!ReleasedForGood

(* Who sees a pointer given to rcu_assign_pointer() sees what was written  *)
(* before it; sequentially consistent accesses and full barriers order a   *)
(* store with the loads after it.                                          *)
OrdersHold == subject = "memorder" => Mo!PublishedBeforeSeen /\ Mo!StoreLoadOrdered

(* FUTEX_WAIT loses no wakeup, on any platform.                            *)
SleepersGetWoken == subject = "futex" => Ftx!SleepersGetWoken
=============================================================================
