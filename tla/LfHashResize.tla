---------------------------- MODULE LfHashResize ----------------------------
(***************************************************************************)
(* When and how far the hash table of src/rculfhash.c is resized: the      *)
(* split counters, the lazy requests of updaters, cds_lfht_resize(), the   *)
(* worker that serves them and cds_lfht_destroy().  What resizing does to  *)
(* the buckets is in module LfHash.                                        *)
(***************************************************************************)
EXTENDS Integers, SequencesExt

CONSTANTS Threads,      \* callers
          Worker,       \* the work queue's thread
          Cpus,         \* split counters
          NULL,
          Plans,        \* which thread makes which calls
          MaxSize,      \* max_nr_buckets
          CommitOrder,  \* COUNT_COMMIT_ORDER
          Threshold,    \* CHAIN_LEN_RESIZE_THRESHOLD, scaled down with the sizes
          MaxOps,       \* bound on each split counter
          MaxQueue      \* bound on the queued work

VARIABLES
  calls,    \* the plan of this behaviour
  ht,       \* size, target, initiated, destroy, live, count
  split,    \* additions and removals counted on each CPU
  queue,    \* work queued for the worker
  mutex,    \* owner of resize_mutex
  pc, loc   \* control point and locals (size s, count c) of each thread

vars == <<calls, ht, split, queue, mutex, pc, loc>>

Commit == 2^CommitOrder
Sizes == {2^o : o \in {i \in 0..MaxSize : 2^i <= MaxSize}}
PowerOf2(n) == n = 0 \/ \E i \in 0..16 : 2^i = n          \* !(n & (n - 1))
AllThreads == Threads \cup {Worker}
NoLoc == [s |-> 0, c |-> 0]

Init ==
  /\ calls \in Plans
  /\ ht = [size |-> 1, target |-> 1, initiated |-> FALSE, destroy |-> FALSE,
           live |-> TRUE, count |-> 0]
  /\ split = [c \in Cpus |-> [add |-> 0, del |-> 0]]
  /\ queue = <<>>
  /\ mutex = NULL
  /\ pc = [t \in AllThreads |-> "idle"]
  /\ loc = [t \in AllThreads |-> NoLoc]

Goto(t, l) == pc' = [pc EXCEPT ![t] = l]
Set(t, l, r) == pc' = [pc EXCEPT ![t] = l] /\ loc' = [loc EXCEPT ![t] = r]
Idle(t, call) == pc[t] = "idle" /\ <<t, call>> \in calls /\ ht.live /\ ~ht.destroy
Clamp(n) == Min({Max({n, 1}), MaxSize})

-----------------------------------------------------------------------------
(* ht_count_add() and ht_count_del(), of a table with CDS_LFHT_ACCOUNTING.  *)
(* A node may be removed before its insertion has been counted.            *)

Accounting == \E t \in Threads : <<t, "add">> \in calls
Total(f) == FoldSet(LAMBDA c, n : n + split[c][f], 0, Cpus)

CountSplit(t) ==
  \E cpu \in Cpus, f \in {"add", "del"} :
    /\ Idle(t, f) /\ split[cpu][f] < MaxOps
    /\ f = "del" => Total("del") <= Total("add")
    /\ split' = [split EXCEPT ![cpu][f] = @ + 1]
    /\ IF (split[cpu][f] + 1) % Commit # 0 THEN UNCHANGED <<pc, loc>>
       ELSE Set(t, f, [s |-> ht.size, c |-> 0])
    /\ UNCHANGED <<calls, ht, queue, mutex>>

(* The commit to the global count, which may ask for another size: only a  *)
(* power of two does.                                                      *)
CountGlobal(t) ==
  /\ pc[t] \in {"add", "del"}
  /\ LET c == ht.count + (IF pc[t] = "add" THEN Commit ELSE -Commit)
         small == c \div 2^Threshold < loc[t].s
         few == c < Commit * Cardinality(Cpus)
     IN /\ ht' = [ht EXCEPT !.count = c]
        /\ IF \/ c < 0 \/ ~PowerOf2(c)
              \/ IF pc[t] = "add" THEN small ELSE ~small \/ few
           THEN Set(t, "idle", NoLoc)
           ELSE Set(t, "lazy_count", [loc[t] EXCEPT !.c = Clamp(c)])
  /\ UNCHANGED <<calls, split, queue, mutex>>

(* cds_lfht_resize_lazy_count(): nothing, a grow or a shrink *)
LazyCount(t) ==
  /\ pc[t] = "lazy_count"
  /\ LET r == loc[t] IN
       \/ r.c = r.s /\ Set(t, "idle", NoLoc)
       \/ r.c > r.s /\ Goto(t, "lazy_grow") /\ UNCHANGED loc
       \/ r.c < r.s /\ Goto(t, "lazy_shrink") /\ UNCHANGED loc
  /\ UNCHANGED <<calls, ht, split, queue, mutex>>

(* An insertion that has read the size and found a chain of some length. *)
LongChain(t) ==
  /\ Idle(t, "chain") /\ Len(queue) < MaxQueue
  /\ Set(t, "chain", [s |-> ht.size, c |-> 0])
  /\ UNCHANGED <<calls, ht, split, queue, mutex>>

(* check_resize(): a length of 2 to 4 asks for g = 1 or 2 more orders, of   *)
(* which tables that are counted take those within the small sizes.        *)
CheckResize(t) ==
  /\ pc[t] = "chain"
  /\ LET s == loc[t].s
         small == Commit * Cardinality(Cpus)
     IN \/ /\ ht.count < small
           /\ \E g \in 1..2 :
                LET c == IF Accounting THEN Min({s * 2^g, small}) ELSE s * 2^g
                IN c > s /\ Set(t, "lazy_grow", [s |-> s, c |-> Clamp(c)])
        \/ /\ ht.count >= small \/ (Accounting /\ s >= small)
           /\ Set(t, "idle", NoLoc)
  /\ UNCHANGED <<calls, ht, split, queue, mutex>>

(* resize_target_grow(): _uatomic_xchg_monotonic_increase() *)
LazyGrow(t) ==
  /\ pc[t] = "lazy_grow"
  /\ IF ht.target >= loc[t].c
     THEN Set(t, "idle", NoLoc) /\ UNCHANGED ht
     ELSE /\ ht' = [ht EXCEPT !.target = loc[t].c]
          /\ Goto(t, "launch") /\ UNCHANGED loc
  /\ UNCHANGED <<calls, split, queue, mutex>>

(* The loop on uatomic_cmpxchg(&ht->resize_target, size, count). *)
LazyShrink(t) ==
  /\ pc[t] = "lazy_shrink"
  /\ LET r == loc[t] IN
       \/ /\ ht.target = r.s
          /\ ht' = [ht EXCEPT !.target = r.c]
          /\ Goto(t, "launch") /\ UNCHANGED loc
       \/ /\ ht.target > r.s \/ ht.target <= r.c
          /\ Set(t, "idle", NoLoc) /\ UNCHANGED ht
       \/ /\ ht.target < r.s /\ ht.target > r.c
          /\ Set(t, "lazy_shrink", [r EXCEPT !.s = ht.target]) /\ UNCHANGED ht
  /\ UNCHANGED <<calls, split, queue, mutex>>

(* __cds_lfht_resize_lazy_launch(): the flag is set after the work item    *)
(* has been queued.                                                        *)
Launch(t) ==
  /\ \/ /\ pc[t] = "launch"
        /\ IF ht.initiated \/ ht.destroy THEN Set(t, "idle", NoLoc)
           ELSE Goto(t, "launch_queue") /\ UNCHANGED loc
        /\ UNCHANGED <<ht, queue>>
     \/ /\ pc[t] = "launch_queue"
        /\ queue' = Append(queue, "resize")
        /\ Goto(t, "launch_store")
        /\ UNCHANGED <<ht, loc>>
     \/ /\ pc[t] = "launch_store"
        /\ ht' = [ht EXCEPT !.initiated = TRUE]
        /\ Set(t, "idle", NoLoc)
        /\ UNCHANGED queue
  /\ UNCHANGED <<calls, split, mutex>>

-----------------------------------------------------------------------------
(* cds_lfht_resize() *)
Resize(t) ==
  /\ Idle(t, "resize")
  /\ \E n \in Sizes : ht' = [ht EXCEPT !.target = Clamp(n)]
  /\ Goto(t, "set_initiated")
  /\ UNCHANGED <<calls, loc, split, queue, mutex>>

SetInitiated(t) ==
  /\ pc[t] = "set_initiated"
  /\ ht' = [ht EXCEPT !.initiated = TRUE]
  /\ Goto(t, "lock")
  /\ UNCHANGED <<calls, loc, split, queue, mutex>>

(* The worker takes the next item: do_resize_cb() or the destroy callback, *)
(* which frees the table.                                                  *)
Work ==
  /\ pc[Worker] = "idle" /\ queue # <<>>
  /\ queue' = Tail(queue)
  /\ \/ /\ Head(queue) = "resize"
        /\ Goto(Worker, "lock")
        /\ UNCHANGED ht
     \/ /\ Head(queue) = "destroy"
        /\ ht' = [ht EXCEPT !.live = FALSE]
        /\ UNCHANGED pc
  /\ UNCHANGED <<calls, loc, split, mutex>>

Lock(t) ==
  /\ pc[t] = "lock" /\ mutex = NULL
  /\ mutex' = t
  /\ Goto(t, "loop")
  /\ UNCHANGED <<calls, ht, loc, split, queue>>

(* _do_cds_lfht_resize(): unlock if the table is being destroyed, or else  *)
(* take the target ...                                                     *)
Loop(t) ==
  /\ pc[t] = "loop"
  /\ IF ht.destroy THEN Goto(t, "unlock") /\ UNCHANGED <<ht, loc>>
     ELSE /\ ht' = [ht EXCEPT !.initiated = TRUE]
          /\ Set(t, "order", [s |-> ht.size, c |-> ht.target])
  /\ UNCHANGED <<calls, split, queue, mutex>>

(* ... and go one order up (init_table) or down (fini_table) as long as    *)
(* the target asks for it, it is not reached and nobody destroys the table *)
OneOrder(t) ==
  /\ pc[t] = "order"
  /\ LET r == loc[t]
         up == r.s < r.c /\ ht.target >= 2 * r.s
         down == r.s > r.c /\ ht.target <= r.s \div 2
         s2 == IF up THEN 2 * r.s ELSE r.s \div 2
     IN IF ~up /\ ~down THEN Set(t, "clear", NoLoc) /\ UNCHANGED ht
        ELSE /\ ht' = [ht EXCEPT !.size = s2]
             /\ IF ht.destroy THEN Set(t, "clear", NoLoc)
                ELSE Set(t, "order", [r EXCEPT !.s = s2])
  /\ UNCHANGED <<calls, split, queue, mutex>>

Clear(t) ==
  /\ pc[t] = "clear"
  /\ ht' = [ht EXCEPT !.initiated = FALSE]
  /\ Goto(t, "again")
  /\ UNCHANGED <<calls, loc, split, queue, mutex>>

(* Variant: the target is not read again. *)
AgainOnce(t) ==
  /\ pc[t] = "again"
  /\ Goto(t, "unlock")
  /\ UNCHANGED <<calls, ht, loc, split, queue, mutex>>

(* "re-do if the target size has changed under us" *)
Again(t) ==
  /\ pc[t] = "again"
  /\ Goto(t, IF ht.size # ht.target THEN "loop" ELSE "unlock")
  /\ UNCHANGED <<calls, ht, loc, split, queue, mutex>>

Unlock(t) ==
  /\ pc[t] = "unlock"
  /\ mutex' = NULL
  /\ Goto(t, "idle")
  /\ UNCHANGED <<calls, ht, loc, split, queue>>

(* cds_lfht_destroy() of an empty auto-resize table: "Should only be       *)
(* called when no more concurrent readers nor writers can possibly access  *)
(* the table", which leaves the worker.                                    *)
Destroy(t) ==
  /\ Idle(t, "destroy")
  /\ \A u \in Threads : pc[u] = "idle"
  /\ ht' = [ht EXCEPT !.destroy = TRUE]
  /\ Goto(t, "destroy_queue")
  /\ UNCHANGED <<calls, loc, split, queue, mutex>>

DestroyQueue(t) ==
  /\ pc[t] = "destroy_queue"
  /\ queue' = Append(queue, "destroy")
  /\ Goto(t, "idle")
  /\ UNCHANGED <<calls, ht, loc, split, mutex>>

Resizing(t) == Lock(t) \/ Loop(t) \/ OneOrder(t) \/ Clear(t) \/ Again(t) \/ Unlock(t)
Continue(t) == \/ CheckResize(t) \/ CountGlobal(t) \/ LazyCount(t) \/ LazyGrow(t)
               \/ LazyShrink(t) \/ Launch(t) \/ SetInitiated(t) \/ DestroyQueue(t) \/ Resizing(t)
WorkerStep == Work \/ Resizing(Worker)

Next == \/ \E t \in Threads : \/ CountSplit(t) \/ LongChain(t) \/ Resize(t)
                              \/ Destroy(t) \/ Continue(t)
        \/ WorkerStep

Spec == Init /\ [][Next]_vars

(* Threads inside a call run on, and so does the worker; the mutex is fair *)
FairSpec == Spec /\ WF_vars(WorkerStep) /\ SF_vars(Resizing(Worker))
                 /\ \A t \in Threads : WF_vars(Continue(t)) /\ SF_vars(Resizing(t))

-----------------------------------------------------------------------------
(* "no resize operations can be queued after this destroy work": when the  *)
(* table is freed nothing is queued or in progress that would use it.      *)
NothingAfterDestroy ==
  ~ht.live => queue = <<>> /\ \A t \in AllThreads : pc[t] = "idle"

(* While resize_initiated is clear no request is forgotten: a table whose  *)
(* size is not the target has a resize queued, under way or about to be    *)
(* launched.                                                               *)
RequestPending ==
  ht.size # ht.target /\ ~ht.initiated /\ ~ht.destroy =>
    \/ "resize" \in Range(queue)
    \/ \E t \in AllThreads : pc[t] \in {"launch", "launch_queue", "launch_store", "set_initiated",
                                       "lock", "loop", "order", "clear", "again"}

(* The global count is what has been committed, and differs from the sum   *)
(* of the split counters by less than a commit per CPU and direction.      *)
CountCommitted ==
  LET sum(f) == FoldSet(LAMBDA c, n : n + f[c], 0, Cpus)
      pend == Cardinality({t \in Threads : pc[t] = "add"})
              - Cardinality({t \in Threads : pc[t] = "del"})
      whole(n) == n - (n % Commit)
  IN ht.count + Commit * pend
     = sum([c \in Cpus |-> whole(split[c].add) - whole(split[c].del)])

(* "CDS_LFHT_AUTO_RESIZE: Automatically resize the hash table": a size     *)
(* that has been asked for is reached, or another one is asked for.        *)
ResizeHappens == (ht.size # ht.target) ~> (ht.size = ht.target \/ ht.destroy)
=============================================================================
