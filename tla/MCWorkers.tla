----------------------------- MODULE MCWorkers -----------------------------
(***************************************************************************)
(* Instances for TLC of what runs work in the background and of the hash   *)
(* table that is resized there: call_rcu, the work queue, the requests to  *)
(* resize, the list and the bucket tables a resize changes, and the queue  *)
(* that callbacks and work are put in.  subject says which one a behaviour *)
(* is about; they share the variables of CallRcu, and a variable that a    *)
(* module does not have stays NULL.  Temporal properties are checked on    *)
(* smaller plans (Small).                                                   *)
(***************************************************************************)
EXTENDS Integers, TLC

CONSTANTS Subjects, Small, t1, t2, c1, c2, r1, n1, n2, n3, n4, n5, b1, b2, worker, END, NULL

VARIABLES subject, plan, crd, def, cpu, mutex, comp, pc, loc, rd, pre, need,
          bneed, state, forks
vars == <<subject, plan, crd, def, cpu, mutex, comp, pc, loc, rd, pre, need,
          bneed, state, forks>>

Plan(calls, cbs, readers, rt, once) ==
  [calls |-> calls, cbs |-> cbs, readers |-> readers, rt |-> rt, once |-> once]

(* A barrier beside a per-CPU worker that comes and goes, each kind of     *)
(* worker; a fork, with a call of the other client or with a worker that   *)
(* is being freed; the teardown of the default worker.  Two clients may    *)
(* create the per-CPU worker, one frees it.                                *)
CallRcuPlans ==
  {Plan({<<t1, "call_rcu">>, <<t1, "barrier">>}, IF Small THEN {b1} ELSE {b1, b2}, {}, FALSE, 1),
   Plan({<<t1, "call_rcu">>, <<t2, "fork">>, <<t2, "call_rcu">>}, {b1, b2}, {}, FALSE, 1),
   Plan({<<t1, "create_cpu">>, <<t1, "free_cpu">>, <<t2, "fork">>}, {}, {}, FALSE, 2),
   Plan({<<t1, "call_rcu">>, <<t2, "exit">>, <<t2, "call_rcu">>}, {b1}, {r1}, FALSE, 1)}
  \cup (IF Small
       THEN {Plan({<<t1, "call_rcu">>, <<t2, "create_cpu">>, <<t2, "free_cpu">>}, {b1}, {}, FALSE, 1)}
       ELSE
  {Plan({<<t1, "call_rcu">>, <<t1, "barrier">>, <<t2, "create_cpu">>, <<t2, "free_cpu">>},
        {b1}, {}, TRUE, 2),
   Plan({<<t1, "call_rcu">>, <<t2, "create_cpu">>, <<t2, "free_cpu">>}, {b1}, {r1}, FALSE, 1),
   Plan({<<t1, "call_rcu">>, <<t2, "fork">>}, {b1}, {r1}, FALSE, 1),
   Plan({<<t1, "create_cpu">>, <<t2, "create_cpu">>, <<t2, "free_cpu">>}, {}, {}, FALSE, 2)})

WorkqueuePlans ==
  {{<<t1, "create">>, <<t1, "queue">>, <<t2, "fork">>, <<t2, "flush">>},
   {<<t1, "create">>, <<t1, "queue">>, <<t2, "flush">>, <<t2, "exit">>}}

ResizePlans ==
  {{<<t1, "resize">>, <<t2, "chain">>, <<t1, "destroy">>}}
  \cup (IF Small THEN {} ELSE
  {{<<t1, "add">>, <<t1, "del">>, <<t2, "chain">>, <<t1, "destroy">>},
   {<<t1, "add">>, <<t1, "del">>, <<t2, "resize">>, <<t2, "destroy">>}})

Table(first, second, nodes, order) ==
  [calls |-> t1 :> first @@ t2 :> second, nodes |-> nodes, order |-> order]

(* n1, n2 and n5 have the same key, n3 has the same hash, and n4 another.   *)
TablePlans ==
  {Table({"unique", "del"}, {"replace"}, {n1, n2}, 0),
   Table({"replace"}, {"lookup", "walk"}, {n1, n2}, 1),
   Table({"unique", "rep"}, {"del"}, {n1, n2}, 0),
   Table({"unique", "rep"}, {"rep"}, {n1, n2, n5}, 0),
   Table({"replace"}, {"replace"}, {n1, n2, n5}, 0),
   Table({"unique", "del"}, {"del"}, {n1}, 1),
   Table({"add"}, {"del"}, {n1, n2}, 1),
   Table({"unique"}, {"unique"}, {n1, n2, n3}, 0),
   Table({"unique"}, {"unique"}, {n1, n2}, 1),
   Table({"unique", "del"}, {"lookup"}, {n4}, 2)}
Hash(n) == IF n = n4 THEN 2 ELSE 3
Key(n) == IF n \in {n1, n2, n5} THEN n1 ELSE n

Floor == -3
Words == {a + 256 * b : a \in {0, 1, 2, 3, 7, 8, 100, 127, 128, 200, 255}, b \in {0, 1, 77, 128, 254}}
CpuMasks == {-2, 0, 1, 3}

Cr == INSTANCE CallRcu WITH Clients <- {t1, t2}, Readers <- {r1}, Cbs <- {b1, b2},
        Crdps <- {c1, c2}, Plans <- CallRcuPlans
Wq == INSTANCE Workqueue WITH Clients <- {t1, t2}, Works <- {b1}, Plans <- WorkqueuePlans,
        MaxNesting <- 2, calls <- plan, wq <- crd, worker <- def, nesting <- forks,
        before <- bneed, forked <- cpu
Rs == INSTANCE LfHashResize WITH Threads <- {t1, t2}, Worker <- worker, Cpus <- {1},
        Plans <- ResizePlans, MaxSize <- IF Small THEN 4 ELSE 8, CommitOrder <- 1,
        Threshold <- 0, MaxOps <- 4, MaxQueue <- 1, calls <- plan, ht <- crd,
        split <- comp, queue <- state
Wfcq == INSTANCE WfcQueue WITH Queues <- {"q"}, Threads <- {t1, t2}, Nodes <- {n1, n2},
        next <- crd, tail <- def, abs <- state
Ht == INSTANCE LfHash WITH Threads <- {t1, t2}, Resizer <- worker, Nodes <- {n1, n2, n3, n4, n5},
        HashOf <- Hash, KeyOf <- Key, Bits <- 2, MaxOrder <- 2, Plans <- TablePlans,
        next <- crd, size <- def, target <- cpu, free <- rd, must <- need
Tb == INSTANCE LfHashTable WITH Width <- 16, Inputs <- Words, Args <- {0, 1, 2, 3, 4, 8, 16, 32},
        MaxSize <- 32, PageBuckets <- 4, MaxChunkTable <- 4, MinPartition <- 1, Cpus <- CpuMasks,
        ht <- crd, made <- def

WqUnused == <<loc, rd, pre, need>>
RsUnused == <<def, cpu, rd, pre, need, bneed, forks>>
WfcqUnused == <<plan, cpu, mutex, comp, rd, pre, need, bneed, forks>>
HtUnused == <<mutex, comp, bneed, state, forks>>
TbUnused == <<plan, cpu, mutex, comp, pc, loc, rd, pre, need, bneed, state, forks>>

Init ==
  /\ subject \in Subjects
  /\ \/ subject = "call_rcu" /\ Cr!Init
     \/ /\ subject = "workqueue" /\ Wq!Init
        /\ loc = NULL /\ rd = NULL /\ pre = NULL /\ need = NULL
     \/ /\ subject = "resize" /\ Rs!Init
        /\ def = NULL /\ cpu = NULL /\ rd = NULL /\ pre = NULL /\ need = NULL
        /\ bneed = NULL /\ forks = NULL
     \/ /\ subject = "wfcqueue" /\ Wfcq!Init
        /\ plan = NULL /\ cpu = NULL /\ mutex = NULL /\ comp = NULL /\ rd = NULL
        /\ pre = NULL /\ need = NULL /\ bneed = NULL /\ forks = NULL
     \/ /\ subject = "table" /\ Ht!Init
        /\ mutex = NULL /\ comp = NULL /\ bneed = NULL /\ state = NULL /\ forks = NULL
     \/ /\ subject = "buckets" /\ Tb!Init
        /\ plan = NULL /\ cpu = NULL /\ mutex = NULL /\ comp = NULL /\ pc = NULL
        /\ loc = NULL /\ rd = NULL /\ pre = NULL /\ need = NULL /\ bneed = NULL
        /\ state = NULL /\ forks = NULL

Of(s) == subject = s /\ UNCHANGED subject

Next == \/ Of("call_rcu") /\ Cr!Next
        \/ Of("workqueue") /\ Wq!Next /\ UNCHANGED WqUnused
        \/ Of("resize") /\ Rs!Next /\ UNCHANGED RsUnused
        \/ Of("wfcqueue") /\ Wfcq!Next /\ UNCHANGED WfcqUnused
        \/ Of("table") /\ Ht!Next /\ UNCHANGED HtUnused
        \/ Of("buckets") /\ Tb!Next /\ UNCHANGED TbUnused

Spec == Init /\ [][Next]_vars

(* Threads inside a call and workers keep running, mutexes are obtained by *)
(* whoever goes on asking for them, and read-side sections end.            *)
CallingStrong(t) == \/ Of("call_rcu") /\ Cr!ClientStep(t)
                    \/ Of("resize") /\ Rs!Continue(t) /\ UNCHANGED RsUnused
CallingWeak(t) == \/ Of("workqueue") /\ Wq!ClientStep(t) /\ UNCHANGED WqUnused
                  \/ Of("wfcqueue") /\ Wfcq!Continue(t) /\ UNCHANGED WfcqUnused
Working(c) == \/ Of("call_rcu") /\ Cr!WorkerStep(c)
              \/ c = c1 /\ Of("workqueue") /\ Wq!WorkerStep /\ UNCHANGED WqUnused
ResizeWorking == Of("resize") /\ Rs!WorkerStep /\ UNCHANGED RsUnused
Reading == Of("call_rcu") /\ Cr!ReadUnlock(r1)

FairSpec == /\ Spec
            /\ \A t \in {t1, t2} : SF_vars(CallingStrong(t)) /\ WF_vars(CallingWeak(t))
            /\ \A c \in {c1, c2} : WF_vars(Working(c))
            /\ SF_vars(ResizeWorking) /\ WF_vars(Reading)

-----------------------------------------------------------------------------
(* A callback given to call_rcu() runs once, after the sections that were  *)
(* open when it was queued; moving queues between workers, freeing them    *)
(* and forking loses none and repeats none.                                *)
CallbackOnceAfterGrace ==
  subject = "call_rcu" => Cr!GraceBeforeCallback /\ Cr!NoCallbackLost

(* rcu_barrier() and urcu_workqueue_flush_queued_work() return after what  *)
(* was queued before them, on every worker there was.                      *)
BarriersComplete == /\ subject = "call_rcu" => Cr!BarrierComplete
                    /\ subject = "workqueue" => Wq!FlushIsComplete

(* Nothing is used after it has been freed: a call_rcu_data by callers     *)
(* that read the pointer to it before, a completion by the waiter or the   *)
(* worker that still refers to it, a hash table by a queued resize.        *)
NoUseAfterFree == /\ subject = "call_rcu" => Cr!NoUseAfterFree
                  /\ subject = "workqueue" => Wq!CompletionAlive
                  /\ subject = "resize" => Rs!NothingAfterDestroy

(* Between the first handler before fork() and the last one after it the   *)
(* worker of the work queue stands still with an empty batch.              *)
QuietAcrossFork == subject = "workqueue" => Wq!QuietAcrossFork

(* While resize_initiated is clear, a table that is not of its target size *)
(* has a resize on the way; the count of nodes that requests are computed  *)
(* from is what the split counters have committed.                         *)
RequestPending == subject = "resize" => Rs!RequestPending /\ Rs!CountCommitted

(* The hash table is a dictionary: nodes come and go one at a time, a      *)
(* replacement is one step, and unique additions let no key in twice.      *)
ImplementsDictionary == /\ subject = "table" => Ht!D!Init
                        /\ [][subject = "table" => Ht!DictionaryStep]_vars

(* A lookup does not miss a key that was in the table all the time, and a  *)
(* traversal meets no key twice if all additions are unique ones.          *)
ReadersFind == subject = "table" => Ht!LookupFinds /\ Ht!TraversalUnique

(* One call wins the removal of a node; a node or bucket that is given     *)
(* back after a grace period is out of everybody's reach; the list stays   *)
(* sorted and holds every bucket below the size.                           *)
ListSound == subject = "table" =>
               Ht!OneOwner /\ Ht!RemovedUnreachable /\ Ht!ListSorted

(* Every bucket has a cell of its own in allocated memory, whichever       *)
(* plugin and whichever order of growing and shrinking; cells are freed    *)
(* once and none is left; every bucket of an order is populated whichever  *)
(* of the threads that share the work cannot be created; and the bit       *)
(* arithmetic below all this is what its names say.                        *)
BucketsHaveCells == subject = "buckets" =>
  /\ Tb!BucketsHaveCells /\ Tb!CellsBalanced /\ Tb!PartitionComplete
  /\ Tb!ReverseIsReverse /\ Tb!FlsIsWidth

-----------------------------------------------------------------------------
(* The two ways in which call_rcu_before_fork() waits for ever, which run  *)
(* callrcu_fork is about.                                                  *)
ForkStuck == subject = "call_rcu" /\ Cr!ForkStuck

(* Every callback given to call_rcu() and every work given to a work queue *)
(* is run in the end: no wakeup of a worker is lost, and stopping,         *)
(* draining and forking hand its queue over.  The one exception is a       *)
(* process that is stuck in call_rcu_before_fork().                        *)
WorkGetsDone ==
  \A b \in {b1, b2} :
    (subject \in {"call_rcu", "workqueue"} /\ b \in DOMAIN state /\ state[b] = "queued")
    ~> \/ subject \in {"call_rcu", "workqueue"} /\ b \in DOMAIN state /\ state[b] = "done"
       \/ ForkStuck

(* Every call returns: call_rcu(), rcu_barrier() and the freeing of        *)
(* workers; the flush, the fork handlers and the destructor of a work      *)
(* queue; cds_lfht_resize(); and the blocking calls on a queue, which wait *)
(* only for an enqueue that is between its two steps.  The fork handlers   *)
(* of call_rcu, and the calls that want the mutex they hold, return unless *)
(* a worker cannot pause for one of the two reasons of ForkStuck.  The     *)
(* application may stay between its fork handlers.  A resize comes to rest *)
(* and a table that is destroyed gets freed.                               *)
CallsReturn ==
  /\ \A t \in {t1, t2} : pc[t] \notin {"idle", "before"}
                        ~> pc[t] \in {"idle", "before"} \/ ForkStuck
  /\ (subject = "resize" /\ pc[worker] = "loop")
       ~> (subject = "resize" /\ pc[worker] = "idle")
  /\ (subject = "resize" /\ crd.destroy) ~> (subject = "resize" /\ ~crd.live)
=============================================================================
