------------------------------ MODULE Workqueue -----------------------------
(***************************************************************************)
(* The work queue of src/workqueue.c with its one worker, as the hash      *)
(* table's library uses it: created under cds_lfht_fork_mutex, paused      *)
(* around fork(), flushed and destroyed by the library's destructor.       *)
(***************************************************************************)
EXTENDS Integers, SequencesExt

CONSTANTS Clients,    \* threads that queue work, flush, fork or exit
          Works,      \* work items, each queued once
          NULL,
          Plans,      \* which client makes which calls
          MaxNesting, \* flavours whose fork handlers are called
          Floor       \* below -1 every value of a futex acts alike

VARIABLES
  calls,      \* the plan of this behaviour
  wq,         \* the urcu_workqueue: live, flags, futex, queue q, batch tmp
  worker,     \* control point of workqueue_thread()
  comp,       \* completion of each client's flush: count, ref, futex
  pc,         \* control point of each client
  mutex,      \* owner of cds_lfht_fork_mutex
  nesting,    \* cds_lfht_workqueue_atfork_nesting
  state,      \* of each work item: new, queued, done
  before,     \* history: what a flush has to outlast
  forked      \* bound: one fork

vars == <<calls, wq, worker, comp, pc, mutex, nesting, state, before, forked>>

NoQueue == [live |-> FALSE, flags |-> {}, futex |-> 0, q |-> <<>>, tmp |-> <<>>]
NoCompletion == [count |-> 0, ref |-> 0, futex |-> 0]

Init ==
  /\ calls \in Plans
  /\ wq = NoQueue
  /\ worker = "none"
  /\ comp = [t \in Clients |-> NoCompletion]
  /\ pc = [t \in Clients |-> "idle"]
  /\ mutex = NULL
  /\ nesting = 0
  /\ state = [w \in Works |-> "new"]
  /\ before = [t \in Clients |-> {}]
  /\ forked = FALSE

Dec(f) == IF f = Floor THEN Floor ELSE f - 1
Goto(t, l) == pc' = [pc EXCEPT ![t] = l]
Forking == {"pause", "pause_wait", "before", "parent", "child", "resume_wait"}

(* Thread t makes a call, not once the destructor has started. *)
Idle(t, call) == /\ pc[t] = "idle" /\ <<t, call>> \in calls
                 /\ mutex # NULL => pc[mutex] \in Forking
Step(from, to) == worker = from /\ worker' = to
OnlyWorker == UNCHANGED <<comp, pc, mutex, nesting, state, before, forked, calls>>
OnlyClient == UNCHANGED <<worker, comp, mutex, nesting, state, before, forked, calls>>

-----------------------------------------------------------------------------
(* workqueue_thread() *)

WStart ==
  /\ Step("start", "loop")
  /\ wq' = [wq EXCEPT !.futex = Dec(@)]
  /\ OnlyWorker

(* Become quiescent while a pause is requested. *)
WLoop ==
  /\ Step("loop", IF "PAUSE" \in wq.flags THEN "paused" ELSE "splice")
  /\ wq' = IF "PAUSE" \in wq.flags THEN [wq EXCEPT !.flags = @ \cup {"PAUSED"}] ELSE wq
  /\ OnlyWorker

WPaused ==
  /\ "PAUSE" \notin wq.flags
  /\ Step("paused", "resume")
  /\ UNCHANGED wq
  /\ OnlyWorker

WResume ==
  /\ Step("resume", "splice")
  /\ wq' = [wq EXCEPT !.flags = @ \ {"PAUSED"}]
  /\ OnlyWorker

WSplice ==
  /\ Step("splice", IF wq.q = <<>> THEN "stop" ELSE "run")
  /\ wq' = [wq EXCEPT !.tmp = wq.q, !.q = <<>>]
  /\ OnlyWorker

(* Run the batch; _urcu_workqueue_wait_complete() is the work of a flush.  *)
WRun ==
  \/ /\ wq.tmp = <<>>
     /\ Step("run", "stop")
     /\ UNCHANGED wq
     /\ OnlyWorker
  \/ \E w \in Works :
       /\ Step("run", "run") /\ wq.tmp # <<>> /\ Head(wq.tmp) = w
       /\ wq' = [wq EXCEPT !.tmp = Tail(@)]
       /\ state' = [state EXCEPT ![w] = "done"]
       /\ UNCHANGED <<comp, pc, mutex, nesting, before, forked, calls>>
  \/ \E t \in Clients :
       /\ Step("run", "complete") /\ wq.tmp # <<>> /\ Head(wq.tmp) = t
       /\ comp' = [comp EXCEPT ![t].count = @ - 1]
       /\ UNCHANGED <<wq, pc, mutex, nesting, state, before, forked, calls>>

(* futex_wake_up() if the count is zero, then the put of the reference. *)
WComplete ==
  \E t \in Clients :
    /\ wq.tmp # <<>> /\ Head(wq.tmp) = t
    /\ \/ /\ Step("complete", IF comp[t].count = 0 /\ comp[t].futex = -1
                              THEN "complete_store" ELSE "put")
          /\ UNCHANGED <<wq, comp, pc>>
       \/ /\ Step("complete_store", "complete_wake")
          /\ comp' = [comp EXCEPT ![t].futex = 0]
          /\ UNCHANGED <<wq, pc>>
       \/ /\ Step("complete_wake", "put")
          /\ pc' = [pc EXCEPT ![t] = IF @ = "flush_asleep" THEN "flush_wait" ELSE @]
          /\ UNCHANGED <<wq, comp>>
       \/ /\ Step("put", "run")
          /\ comp' = [comp EXCEPT ![t].ref = @ - 1]
          /\ wq' = [wq EXCEPT !.tmp = Tail(@)]
          /\ UNCHANGED pc
    /\ UNCHANGED <<mutex, nesting, state, before, forked, calls>>

WStop ==
  /\ \/ Step("stop", IF "STOP" \in wq.flags THEN "exit" ELSE "check")
     \/ Step("check", IF wq.q = <<>> THEN "wait" ELSE "loop")
  /\ UNCHANGED wq
  /\ OnlyWorker

(* futex_wait() *)
WWait ==
  /\ Step("wait", IF wq.futex = -1 THEN "asleep" ELSE "dec")
  /\ UNCHANGED wq
  /\ OnlyWorker

WSpurious ==
  /\ Step("asleep", "wait")
  /\ UNCHANGED wq
  /\ OnlyWorker

WDec ==
  /\ Step("dec", "loop")
  /\ wq' = [wq EXCEPT !.futex = Dec(@)]
  /\ OnlyWorker

WExit ==
  /\ Step("exit", "none")
  /\ wq' = [wq EXCEPT !.futex = 0]
  /\ OnlyWorker

WorkerStep == \/ WStart \/ WLoop \/ WPaused \/ WResume \/ WSplice \/ WRun
              \/ WComplete \/ WStop \/ WWait \/ WDec \/ WExit

-----------------------------------------------------------------------------
(* The calls.  wake(X) is wake_worker_thread() on the way to X. *)

Waking == [queued |-> "idle", flush |-> "flush_dec", pause |-> "pause_wait",
           stop |-> "join"]

(* futex_wake_up(): the store and the FUTEX_WAKE are one step, since the   *)
(* worker rereads the futex whenever it is woken.                          *)
Wake(t) ==
  /\ pc[t] \in DOMAIN Waking
  /\ wq' = [wq EXCEPT !.futex = IF @ = -1 THEN 0 ELSE @]
  /\ worker' = IF worker = "asleep" /\ wq.futex = -1 THEN "wait" ELSE worker
  /\ Goto(t, Waking[pc[t]])
  /\ UNCHANGED <<comp, mutex, nesting, state, before, forked, calls>>

(* cds_lfht_init_worker(): urcu_workqueue_create() *)
Create(t) ==
  /\ Idle(t, "create") /\ mutex = NULL /\ ~wq.live
  /\ wq' = [NoQueue EXCEPT !.live = TRUE]
  /\ worker' = "start"
  /\ UNCHANGED <<comp, pc, mutex, nesting, state, before, forked, calls>>

(* urcu_workqueue_queue_work() *)
QueueWork(t) ==
  /\ Idle(t, "queue") /\ wq.live
  /\ \E w \in Works :
       /\ state[w] = "new"
       /\ state' = [state EXCEPT ![w] = "queued"]
       /\ wq' = [wq EXCEPT !.q = Append(@, w)]
  /\ Goto(t, "queued")
  /\ UNCHANGED <<worker, comp, mutex, nesting, before, forked, calls>>

(* urcu_workqueue_flush_queued_work() up to the wait: a completion with    *)
(* one reference for the caller and one for the work item.                 *)
StartFlush(t) ==
  /\ comp[t].ref = 0
  /\ comp' = [comp EXCEPT ![t] = [count |-> 1, ref |-> 2, futex |-> 0]]
  /\ before' = [before EXCEPT ![t] = {w \in Works : state[w] = "queued"}]
  /\ wq' = [wq EXCEPT !.q = Append(@, t)]
  /\ Goto(t, "flush")

Flush(t) ==
  /\ Idle(t, "flush") /\ wq.live
  /\ StartFlush(t)
  /\ UNCHANGED <<worker, mutex, nesting, state, forked, calls>>

(* urcu_workqueue_wait_completion() *)
FlushDec(t) ==
  /\ pc[t] = "flush_dec"
  /\ comp' = [comp EXCEPT ![t].futex = Dec(@)]
  /\ Goto(t, "flush_check")
  /\ UNCHANGED <<wq, worker, mutex, nesting, state, before, forked, calls>>

FlushWait(t) ==
  /\ \/ pc[t] = "flush_check" /\ Goto(t, IF comp[t].count = 0 THEN "flush_put" ELSE "flush_wait")
     \/ pc[t] = "flush_wait" /\ Goto(t, IF comp[t].futex = -1 THEN "flush_asleep" ELSE "flush_dec")
  /\ UNCHANGED wq /\ OnlyClient

(* A wakeup for another reason: the futex is looked at again. *)
FlushSpurious(t) ==
  /\ pc[t] = "flush_asleep"
  /\ Goto(t, "flush_wait")
  /\ UNCHANGED wq /\ OnlyClient

FlushPut(t) ==
  /\ pc[t] = "flush_put"
  /\ comp' = [comp EXCEPT ![t].ref = @ - 1]
  /\ before' = [before EXCEPT ![t] = {}]
  /\ Goto(t, IF mutex = t THEN "destroy" ELSE "idle")
  /\ UNCHANGED <<wq, worker, mutex, nesting, state, forked, calls>>

(* cds_lfht_exit(): flush, then urcu_workqueue_destroy().  It is the       *)
(* destructor of the library: no other call is in progress.                *)
Exit(t) ==
  /\ Idle(t, "exit") /\ wq.live /\ mutex = NULL
  /\ \A u \in Clients : pc[u] = "idle"
  /\ mutex' = t
  /\ StartFlush(t)
  /\ UNCHANGED <<worker, nesting, state, forked, calls>>

Destroy(t) ==
  /\ pc[t] = "destroy"
  /\ wq' = [wq EXCEPT !.flags = @ \cup {"STOP"}]
  /\ Goto(t, "stop")
  /\ OnlyClient

Join(t) ==
  /\ pc[t] = "join"
  /\ worker = "none"
  /\ wq' = NoQueue
  /\ mutex' = NULL
  /\ Goto(t, "idle")
  /\ UNCHANGED <<worker, comp, nesting, state, before, forked, calls>>

(* cds_lfht_before_fork(), once per flavour; the first one pauses.         *)
BeforeFork(t) ==
  /\ \/ /\ Idle(t, "fork") /\ ~forked /\ nesting = 0 /\ mutex = NULL
        /\ mutex' = t
        /\ wq' = IF wq.live THEN [wq EXCEPT !.flags = @ \cup {"PAUSE"}] ELSE wq
        /\ Goto(t, IF wq.live THEN "pause" ELSE "before")
     \/ /\ pc[t] = "before" /\ nesting < MaxNesting
        /\ UNCHANGED <<mutex, wq, pc>>
  /\ nesting' = nesting + 1
  /\ UNCHANGED <<worker, comp, state, before, forked, calls>>

PauseWait(t) ==
  /\ pc[t] = "pause_wait"
  /\ "PAUSED" \in wq.flags
  /\ Goto(t, "before")
  /\ UNCHANGED wq /\ OnlyClient

(* fork(): the child keeps the calling thread only. *)
Fork(t) ==
  /\ pc[t] = "before"
  /\ forked' = TRUE
  /\ \/ /\ Goto(t, "parent")
        /\ UNCHANGED <<worker, before>>
     \/ /\ pc' = [u \in Clients |-> IF u = t THEN "child" ELSE "idle"]
        /\ worker' = "none"
        /\ before' = [u \in Clients |-> {}]
  /\ UNCHANGED <<wq, comp, mutex, nesting, state, calls>>

(* Variant: the worker is resumed by the first handler. *)
AfterForkParentEarly(t) ==
  /\ pc[t] = "parent"
  /\ nesting' = nesting - 1
  /\ wq' = [wq EXCEPT !.flags = @ \ {"PAUSE"}]
  /\ Goto(t, IF nesting = 1 THEN "resume_wait" ELSE "parent")
  /\ UNCHANGED <<worker, comp, mutex, state, before, forked, calls>>

AfterForkParent(t) ==
  /\ pc[t] = "parent"
  /\ nesting' = nesting - 1
  /\ \/ /\ nesting > 1
        /\ UNCHANGED <<wq, pc>>
     \/ /\ nesting = 1
        /\ wq' = [wq EXCEPT !.flags = @ \ {"PAUSE"}]
        /\ Goto(t, "resume_wait")
  /\ UNCHANGED <<worker, comp, mutex, state, before, forked, calls>>

ResumeWait(t) ==
  /\ pc[t] = "resume_wait"
  /\ "PAUSED" \notin wq.flags
  /\ mutex' = NULL
  /\ Goto(t, "idle")
  /\ UNCHANGED <<wq, worker, comp, nesting, state, before, forked, calls>>

(* urcu_workqueue_create_worker() clears the flags, and not the futex. *)
AfterForkChild(t) ==
  /\ pc[t] = "child"
  /\ nesting' = nesting - 1
  /\ \/ /\ nesting > 1
        /\ UNCHANGED <<wq, worker, pc, mutex>>
     \/ /\ nesting = 1
        /\ wq' = [wq EXCEPT !.flags = @ \ {"PAUSE", "PAUSED"}]
        /\ worker' = IF wq.live THEN "start" ELSE "none"
        /\ mutex' = NULL
        /\ Goto(t, "idle")
  /\ UNCHANGED <<comp, state, before, forked, calls>>

ClientStep(t) == \/ Wake(t) \/ FlushDec(t) \/ FlushWait(t) \/ FlushPut(t)
                 \/ Destroy(t) \/ Join(t) \/ PauseWait(t) \/ Fork(t)
                 \/ AfterForkParent(t) \/ ResumeWait(t) \/ AfterForkChild(t)

Next == \/ WorkerStep \/ WSpurious
        \/ \E t \in Clients : \/ Create(t) \/ QueueWork(t) \/ Flush(t) \/ Exit(t)
                              \/ BeforeFork(t) \/ FlushSpurious(t) \/ ClientStep(t)

Spec == Init /\ [][Next]_vars

-----------------------------------------------------------------------------
(* "Wait for all in-flight work to complete execution": when a flush sees  *)
(* the count at zero, all work queued before it has been done; and the     *)
(* assertion of urcu_workqueue_destroy() holds, the queue is empty.        *)
FlushIsComplete ==
  /\ \A t \in Clients : pc[t] = "flush_put" => \A w \in before[t] : state[w] = "done"
  /\ \A t \in Clients : pc[t] = "join" /\ worker = "none" => wq.q = <<>>

(* A completion that its waiter or the worker still uses has a reference. *)
CompletionAlive ==
  /\ \A t \in Clients : pc[t] \in {"flush_dec", "flush_check", "flush_wait", "flush_put"}
                        => comp[t].ref > 0
  /\ \A t \in Clients : /\ worker \in {"complete", "complete_store", "complete_wake", "put"}
                        /\ Head(wq.tmp) = t
                        => comp[t].ref > 0

(* While fork() may be called the worker stands still and its batch is     *)
(* empty, so the child inherits all work in the queue, however many        *)
(* flavours' handlers run before and after.                                *)
QuietAcrossFork ==
  \A t \in Clients : pc[t] \in {"before", "parent"} /\ wq.live
                     => worker = "paused" /\ wq.tmp = <<>>
=============================================================================
