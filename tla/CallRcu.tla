------------------------------- MODULE CallRcu ------------------------------
(***************************************************************************)
(* call_rcu(): src/urcu-call-rcu-impl.h, over the promises of the queue    *)
(* (module Fifo) and of the flavour (module Rcu).  A call_rcu_data and its *)
(* worker thread have the same name.  There is one CPU.                    *)
(***************************************************************************)
EXTENDS Integers, SequencesExt

CONSTANTS Clients,    \* threads that call the API
          Readers,    \* threads with read-side sections
          Cbs,        \* the rcu_head's, each queued once
          Crdps,      \* the memory of call_rcu_data structures
          NULL,
          Plans       \* the programs to look at, see plan

VARIABLES
  plan,       \* calls: which client makes which calls; cbs, readers: how many
              \*   callbacks and which readers there are; rt: whether per-CPU
              \*   workers are URCU_CALL_RCU_RT; once: bound on the
              \*   barriers, forks, teardowns and creations of per-CPU workers
  crd,        \* call_rcu_data: live, listed, rt, flags, futex, the queue q
              \*   and the batch tmp its worker has spliced
  def,        \* default_call_rcu_data
  cpu,        \* per_cpu_call_rcu_data[0]
  mutex,      \* owner of call_rcu_mutex
  comp,       \* call_rcu_completion of each client's rcu_barrier()
  pc,         \* control point of each client and each worker
  loc,        \* locals of each client: crdp c, callback cb, todo, ret; sec is
              \*   the read-side section of call_rcu()
  rd,         \* readers inside a section
  pre,        \* sections a synchronize_rcu() still waits for
  need,       \* history: sections each callback has to outlast
  bneed,      \* history: callbacks each rcu_barrier() has to outlast
  state,      \* of each callback: new, queued or done
  forks       \* how many of those there have been

vars == <<plan, crd, def, cpu, mutex, comp, pc, loc, rd, pre, need, bneed, state, forks>>
histVars == <<plan, need, bneed, state, forks>>
apiVars == <<def, cpu, mutex>>

NewCrd == [live |-> FALSE, listed |-> FALSE, rt |-> FALSE, flags |-> {},
           futex |-> 0, q |-> <<>>, tmp |-> <<>>]
NewLoc == [c |-> NULL, cb |-> NULL, todo |-> {}, ret |-> "idle", sec |-> FALSE]

Init ==
  /\ plan \in Plans
  /\ crd = [c \in Crdps |-> NewCrd]
  /\ def = NULL
  /\ cpu = NULL
  /\ mutex = NULL
  /\ comp = [t \in Clients |-> [count |-> 0, ref |-> 0, futex |-> 0]]
  /\ pc = [t \in Clients \cup Crdps |-> IF t \in Clients THEN "idle" ELSE "gone"]
  /\ loc = [t \in Clients |-> NewLoc]
  /\ rd = {}
  /\ pre = [t \in Clients \cup Crdps |-> {}]
  /\ need = [cb \in Cbs |-> {}]
  /\ bneed = [t \in Clients |-> {}]
  /\ state = [cb \in Cbs |-> "new"]
  /\ forks = 0

Goto(t, l) == pc' = [pc EXCEPT ![t] = l]
Sections == rd \cup {t \in Clients : loc[t].sec}
Listed == {c \in Crdps : crd[c].listed}
Queued == {cb \in Cbs : state[cb] = "queued"}

(* call_rcu_data_init() and the worker it starts. *)
Create(c, rt) == /\ c \in Crdps /\ ~crd[c].live /\ pc[c] = "gone"
                 /\ crd' = [crd EXCEPT ![c] = [NewCrd EXCEPT
                              !.live = TRUE, !.listed = TRUE, !.rt = rt]]

-----------------------------------------------------------------------------
(* call_rcu_thread() *)

Worker(c, from, to) == pc[c] = from /\ Goto(c, to)
OnlyCrd == UNCHANGED <<apiVars, comp, loc, rd, pre, histVars>>

WStart(c) ==
  /\ Worker(c, "start", "loop")
  /\ crd' = [crd EXCEPT ![c].futex = IF crd[c].rt THEN @ ELSE @ - 1]
  /\ OnlyCrd

WLoop(c) ==
  /\ Worker(c, "loop", IF "PAUSE" \in crd[c].flags THEN "pause" ELSE "splice")
  /\ OnlyCrd /\ UNCHANGED crd

WPause(c) ==
  /\ Worker(c, "pause", "paused")
  /\ crd' = [crd EXCEPT ![c].flags = @ \cup {"PAUSED"}]
  /\ OnlyCrd

WPaused(c) ==
  /\ "PAUSE" \notin crd[c].flags
  /\ Worker(c, "paused", "resume")
  /\ OnlyCrd /\ UNCHANGED crd

WResume(c) ==
  /\ Worker(c, "resume", "splice")
  /\ crd' = [crd EXCEPT ![c].flags = @ \ {"PAUSED"}]
  /\ OnlyCrd

(* Take the whole queue, and start a grace period if it held anything. *)
WSplice(c) ==
  /\ Worker(c, "splice", IF crd[c].q = <<>> THEN "stop" ELSE "sync")
  /\ crd' = [crd EXCEPT ![c].tmp = crd[c].q, ![c].q = <<>>]
  /\ pre' = IF crd[c].q = <<>> THEN pre ELSE [pre EXCEPT ![c] = Sections]
  /\ UNCHANGED <<apiVars, comp, loc, rd, histVars>>

WSync(c) ==
  /\ pre[c] = {}
  /\ Worker(c, "sync", "run")
  /\ OnlyCrd /\ UNCHANGED crd

(* Run one callback: the application's, or _rcu_barrier_complete(), of     *)
(* which the last one of a barrier goes on to wake it.                     *)
WRun(c) ==
  /\ pc[c] = "run"
  /\ \/ /\ crd[c].tmp = <<>>
        /\ Goto(c, "stop")
        /\ UNCHANGED <<crd, comp, state>>
     \/ \E b \in Cbs :
          /\ crd[c].tmp # <<>> /\ Head(crd[c].tmp) = b
          /\ crd' = [crd EXCEPT ![c].tmp = Tail(@)]
          /\ state' = [state EXCEPT ![b] = "done"]
          /\ UNCHANGED <<comp, pc>>
     \/ \E b \in Clients :
          /\ crd[c].tmp # <<>> /\ Head(crd[c].tmp) = b
          /\ comp' = [comp EXCEPT ![b].count = @ - 1]
          /\ Goto(c, IF comp[b].count = 1 THEN "bc_wake" ELSE "bc_put")
          /\ UNCHANGED <<crd, state>>
  /\ UNCHANGED <<plan, apiVars, loc, rd, pre, need, bneed, forks>>

(* call_rcu_completion_wake_up(), and the reference that keeps the         *)
(* completion alive until after it.                                        *)
WComplete(c) ==
  \E b \in Clients :
    /\ crd[c].tmp # <<>> /\ Head(crd[c].tmp) = b
    /\ \/ /\ pc[c] = "bc_wake"
          /\ Goto(c, IF comp[b].futex = -1 THEN "bc_store" ELSE "bc_put")
          /\ UNCHANGED <<comp, crd>>
       \/ /\ pc[c] = "bc_store"
          /\ comp' = [comp EXCEPT ![b].futex = 0]
          /\ Goto(c, "bc_call")
          /\ UNCHANGED crd
       \/ /\ pc[c] = "bc_call"
          /\ pc' = [pc EXCEPT ![c] = "bc_put",
                              ![b] = IF @ = "b_asleep" THEN "b_wait" ELSE @]
          /\ UNCHANGED <<comp, crd>>
       \/ /\ pc[c] = "bc_put"
          /\ comp' = [comp EXCEPT ![b].ref = @ - 1]
          /\ crd' = [crd EXCEPT ![c].tmp = Tail(@)]
          /\ Goto(c, "run")
    /\ UNCHANGED <<apiVars, loc, rd, pre, histVars>>

WStop(c) ==
  /\ Worker(c, "stop", IF "STOP" \in crd[c].flags THEN "exit"
                       ELSE IF crd[c].rt THEN "loop" ELSE "check")
  /\ OnlyCrd /\ UNCHANGED crd

WCheck(c) ==
  /\ Worker(c, "check", IF crd[c].q = <<>> THEN "wait" ELSE "loop")
  /\ OnlyCrd /\ UNCHANGED crd

(* call_rcu_wait() *)
WWait(c) ==
  /\ Worker(c, "wait", IF crd[c].futex = -1 THEN "asleep" ELSE "dec")
  /\ OnlyCrd /\ UNCHANGED crd

WSpurious(c) ==
  /\ Worker(c, "asleep", "wait")
  /\ OnlyCrd /\ UNCHANGED crd

WDec(c) ==
  /\ Worker(c, "dec", "loop")
  /\ crd' = [crd EXCEPT ![c].futex = @ - 1]
  /\ OnlyCrd

WExit(c) ==
  /\ Worker(c, "exit", "exited")
  /\ crd' = [crd EXCEPT ![c].futex = IF crd[c].rt THEN @ ELSE 0]
  /\ OnlyCrd

WStopped(c) ==
  /\ Worker(c, "exited", "gone")
  /\ crd' = [crd EXCEPT ![c].flags = @ \cup {"STOPPED"}]
  /\ OnlyCrd

WorkerStep(c) == \/ WStart(c) \/ WLoop(c) \/ WPause(c) \/ WPaused(c)
                 \/ WResume(c) \/ WSplice(c) \/ WSync(c) \/ WRun(c)
                 \/ WComplete(c) \/ WStop(c) \/ WCheck(c) \/ WWait(c)
                 \/ WDec(c) \/ WExit(c) \/ WStopped(c)

-----------------------------------------------------------------------------
(* wake_call_rcu_thread(), a procedure of every client call *)

CallWake(t, c, ret) == loc' = [loc EXCEPT ![t].c = c, ![t].ret = ret]

(* Variant: a worker that is not seen asleep yet is not woken. *)
WakeSleeping(t) ==
  /\ pc[t] = "wake"
  /\ Goto(t, IF crd[loc[t].c].futex = -1 /\ pc[loc[t].c] = "asleep"
             THEN "wake_store" ELSE loc[t].ret)
  /\ OnlyCrd /\ UNCHANGED crd

Wake(t) ==
  /\ pc[t] = "wake"
  /\ Goto(t, IF ~crd[loc[t].c].rt /\ crd[loc[t].c].futex = -1
             THEN "wake_store" ELSE loc[t].ret)
  /\ OnlyCrd /\ UNCHANGED crd

WakeStore(t) ==
  /\ pc[t] = "wake_store"
  /\ crd' = [crd EXCEPT ![loc[t].c].futex = 0]
  /\ Goto(t, "wake_call")
  /\ OnlyCrd

WakeCall(t) ==
  /\ pc[t] = "wake_call"
  /\ pc' = [pc EXCEPT ![t] = loc[t].ret,
                      ![loc[t].c] = IF @ = "asleep" THEN "wait" ELSE @]
  /\ OnlyCrd /\ UNCHANGED crd

(* get_default_call_rcu_data(): under the mutex, create it if there is     *)
(* none; ret says who asked.                                               *)
GetDefault(t) ==
  /\ pc[t] = "get_default"
  /\ mutex = NULL
  /\ \/ /\ def # NULL
        /\ pc' = [pc EXCEPT ![t] = loc[t].ret]
        /\ loc' = [loc EXCEPT ![t].c = IF loc[t].ret = "enqueue" THEN def ELSE @]
        /\ UNCHANGED <<crd, def>>
     \/ /\ def = NULL
        /\ \E c \in Crdps :
             /\ Create(c, FALSE)
             /\ def' = c
             /\ pc' = [pc EXCEPT ![t] = loc[t].ret, ![c] = "start"]
             /\ loc' = [loc EXCEPT ![t].c = IF loc[t].ret = "enqueue" THEN c ELSE @]
  /\ UNCHANGED <<cpu, mutex, comp, rd, pre, histVars>>

-----------------------------------------------------------------------------
(* call_rcu() *)

CallCallRcu(t) ==
  /\ pc[t] = "idle" /\ <<t, "call_rcu">> \in plan.calls
  /\ \E cb \in plan.cbs :
       /\ state[cb] = "new"
       /\ state' = [state EXCEPT ![cb] = "calling"]
       /\ need' = [need EXCEPT ![cb] = rd]
       /\ loc' = [loc EXCEPT ![t].cb = cb, ![t].sec = TRUE]
  /\ Goto(t, "pick_cpu")
  /\ UNCHANGED <<plan, crd, apiVars, comp, rd, pre, bneed, forks>>

(* get_call_rcu_data(): the CPU's, or else the default one. *)
PickCpu(t) ==
  /\ pc[t] = "pick_cpu"
  /\ loc' = [loc EXCEPT ![t].c = cpu]
  /\ Goto(t, IF cpu = NULL THEN "pick_def" ELSE "enqueue")
  /\ UNCHANGED <<crd, apiVars, comp, rd, pre, histVars>>

PickDef(t) ==
  /\ pc[t] = "pick_def"
  /\ loc' = [loc EXCEPT ![t].c = def, ![t].ret = "enqueue"]
  /\ Goto(t, IF def = NULL THEN "get_default" ELSE "enqueue")
  /\ UNCHANGED <<crd, apiVars, comp, rd, pre, histVars>>

Enqueue(t) ==
  /\ pc[t] = "enqueue"
  /\ crd' = [crd EXCEPT ![loc[t].c].q = Append(@, loc[t].cb)]
  /\ state' = [state EXCEPT ![loc[t].cb] = "queued"]
  /\ CallWake(t, loc[t].c, "unlock")
  /\ Goto(t, "wake")
  /\ UNCHANGED <<plan, apiVars, comp, rd, pre, need, bneed, forks>>

Unlock(t) ==
  /\ pc[t] = "unlock"
  /\ loc' = [loc EXCEPT ![t] = NewLoc]
  /\ pre' = [x \in DOMAIN pre |-> pre[x] \ {t}]
  /\ Goto(t, "idle")
  /\ UNCHANGED <<crd, apiVars, comp, rd, histVars>>

CallRcuStep(t) == PickCpu(t) \/ PickDef(t) \/ Enqueue(t) \/ Unlock(t)

-----------------------------------------------------------------------------
(* create_all_cpu_call_rcu_data(), free_all_cpu_call_rcu_data() *)

CreateCpu(t) ==
  /\ pc[t] = "idle" /\ <<t, "create_cpu">> \in plan.calls /\ cpu = NULL
  /\ forks < plan.once /\ mutex = NULL
  /\ forks' = forks + 1
  /\ \E c \in Crdps :
       /\ Create(c, plan.rt)
       /\ pc' = [pc EXCEPT ![t] = "cpu_set", ![c] = "start"]
       /\ loc' = [loc EXCEPT ![t].c = c]
  /\ UNCHANGED <<apiVars, plan, comp, rd, pre, need, bneed, state>>

(* set_cpu_call_rcu_data(): EEXIST if another thread was faster, and then  *)
(* the new structure is freed again.                                       *)
SetCpu(t) ==
  /\ pc[t] = "cpu_set"
  /\ mutex = NULL
  /\ \/ /\ cpu = NULL
        /\ cpu' = loc[t].c
        /\ loc' = [loc EXCEPT ![t] = NewLoc]
        /\ Goto(t, "idle")
     \/ /\ cpu # NULL
        /\ Goto(t, "free")
        /\ UNCHANGED <<cpu, loc>>
  /\ UNCHANGED <<crd, def, mutex, comp, rd, pre, histVars>>

(* The pointer is read without the mutex ...                               *)
FreeCpu(t) ==
  /\ pc[t] = "idle" /\ <<t, "free_cpu">> \in plan.calls /\ cpu # NULL
  /\ loc' = [loc EXCEPT ![t].c = cpu]
  /\ Goto(t, "cpu_clear")
  /\ UNCHANGED <<crd, apiVars, comp, rd, pre, histVars>>

(* Variant: no grace period between the removal and the free. *)
ClearCpuNoSync(t) ==
  /\ pc[t] = "cpu_clear"
  /\ mutex = NULL
  /\ cpu' = NULL
  /\ Goto(t, "free")
  /\ UNCHANGED <<crd, def, mutex, comp, loc, rd, pre, histVars>>

(* ... and cleared under it, whatever it is by then; a grace period        *)
(* follows.                                                                *)
ClearCpu(t) ==
  /\ pc[t] = "cpu_clear"
  /\ mutex = NULL
  /\ cpu' = NULL
  /\ pre' = [pre EXCEPT ![t] = Sections]
  /\ Goto(t, "free_sync")
  /\ UNCHANGED <<crd, def, mutex, comp, loc, rd, histVars>>

FreeSync(t) ==
  /\ pc[t] = "free_sync"
  /\ pre[t] = {}
  /\ Goto(t, "free")
  /\ UNCHANGED <<crd, apiVars, comp, loc, rd, pre, histVars>>

(* _call_rcu_data_free(): stop the worker unless it has stopped ... *)
Free(t) ==
  /\ pc[t] = "free"
  /\ LET c == loc[t].c IN
       \/ /\ "STOPPED" \in crd[c].flags
          /\ Goto(t, "free_lock")
          /\ UNCHANGED <<crd, loc>>
       \/ /\ "STOPPED" \notin crd[c].flags
          /\ crd' = [crd EXCEPT ![c].flags = @ \cup {"STOP"}]
          /\ CallWake(t, c, "free_wait")
          /\ Goto(t, "wake")
  /\ UNCHANGED <<apiVars, comp, rd, pre, histVars>>

FreeWait(t) ==
  /\ pc[t] = "free_wait"
  /\ "STOPPED" \in crd[loc[t].c].flags
  /\ Goto(t, "free_lock")
  /\ UNCHANGED <<crd, apiVars, comp, loc, rd, pre, histVars>>

(* Variant: what is left in the queue is dropped. *)
FreeLockDrop(t) ==
  /\ pc[t] = "free_lock"
  /\ mutex = NULL
  /\ crd' = [crd EXCEPT ![loc[t].c].listed = FALSE]
  /\ Goto(t, "join")
  /\ UNCHANGED <<apiVars, comp, loc, rd, pre, histVars>>

(* ... hand what is left in the queue to the default worker, which may     *)
(* have to be created with the mutex released, ...                         *)
FreeLock(t) ==
  /\ pc[t] = "free_lock"
  /\ mutex = NULL
  /\ LET c == loc[t].c IN
       \/ /\ crd[c].q = <<>>
          /\ crd' = [crd EXCEPT ![c].listed = FALSE]
          /\ Goto(t, "join")
          /\ UNCHANGED loc
       \/ /\ crd[c].q # <<>>
          /\ loc' = [loc EXCEPT ![t].ret = "free_splice", ![t].cb = c]
          /\ Goto(t, IF def = NULL THEN "get_default" ELSE "free_splice")
          /\ UNCHANGED crd
  /\ UNCHANGED <<apiVars, comp, rd, pre, histVars>>

FreeSplice(t) ==
  /\ pc[t] = "free_splice"
  /\ mutex = NULL
  /\ mutex' = t
  /\ crd' = [crd EXCEPT ![def].q = @ \o crd[loc[t].cb].q, ![loc[t].cb].q = <<>>]
  /\ CallWake(t, def, "free_del")
  /\ Goto(t, "wake")
  /\ UNCHANGED <<def, cpu, comp, rd, pre, histVars>>

FreeDel(t) ==
  /\ pc[t] = "free_del"
  /\ mutex' = NULL
  /\ crd' = [crd EXCEPT ![loc[t].cb].listed = FALSE]
  /\ loc' = [loc EXCEPT ![t].c = loc[t].cb]
  /\ Goto(t, "join")
  /\ UNCHANGED <<def, cpu, comp, rd, pre, histVars>>

(* ... and join it, except in the child of a fork, where it is gone. *)
Join(t) ==
  /\ pc[t] = "join"
  /\ pc[loc[t].c] = "gone"
  /\ crd' = [crd EXCEPT ![loc[t].c] = NewCrd]
  /\ LET rest == loc[t].todo \ {loc[t].c} IN
       /\ loc' = [loc EXCEPT ![t] = [NewLoc EXCEPT !.todo = rest]]
       /\ Goto(t, IF rest = {} THEN "idle" ELSE "child_free")
  /\ UNCHANGED <<apiVars, comp, rd, pre, histVars>>

FreeStep(t) == \/ SetCpu(t) \/ ClearCpu(t) \/ FreeSync(t) \/ Free(t) \/ FreeWait(t)
               \/ FreeLock(t) \/ FreeSplice(t) \/ FreeDel(t) \/ Join(t)

-----------------------------------------------------------------------------
(* rcu_barrier() *)

(* Variant: the default worker is left out. *)
BarrierNoDefault(t) ==
  /\ pc[t] = "idle" /\ <<t, "barrier">> \in plan.calls /\ forks < plan.once
  /\ comp[t].ref = 0
  /\ mutex = NULL
  /\ mutex' = t
  /\ loc' = [loc EXCEPT ![t].todo = Listed \ {def}]
  /\ LET n == Cardinality(Listed \ {def}) IN
       comp' = [comp EXCEPT ![t] = [count |-> n, ref |-> n + 1, futex |-> 0]]
  /\ bneed' = [bneed EXCEPT ![t] = Queued]
  /\ forks' = forks + 1
  /\ Goto(t, "b_queue")
  /\ UNCHANGED <<plan, crd, def, cpu, rd, pre, need, state>>

Barrier(t) ==
  /\ pc[t] = "idle" /\ <<t, "barrier">> \in plan.calls /\ forks < plan.once
  /\ comp[t].ref = 0
  /\ mutex = NULL
  /\ mutex' = t
  /\ loc' = [loc EXCEPT ![t].todo = Listed]
  /\ LET n == Cardinality(Listed) IN
       comp' = [comp EXCEPT ![t] = [count |-> n, ref |-> n + 1, futex |-> 0]]
  /\ bneed' = [bneed EXCEPT ![t] = Queued]
  /\ forks' = forks + 1
  /\ Goto(t, "b_queue")
  /\ UNCHANGED <<plan, crd, def, cpu, rd, pre, need, state>>

(* One work item to every call_rcu_data, under the mutex. *)
BQueue(t) ==
  /\ pc[t] = "b_queue"
  /\ \/ \E c \in loc[t].todo :
          /\ crd' = [crd EXCEPT ![c].q = Append(@, t)]
          /\ loc' = [loc EXCEPT ![t].todo = @ \ {c}, ![t].c = c, ![t].ret = "b_queue"]
          /\ Goto(t, "wake")
          /\ UNCHANGED mutex
     \/ /\ loc[t].todo = {}
        /\ mutex' = NULL
        /\ Goto(t, "b_dec")
        /\ UNCHANGED <<crd, loc>>
  /\ UNCHANGED <<def, cpu, comp, rd, pre, histVars>>

(* Variant: the count is read before the futex is armed. *)
BDecLate(t) ==
  /\ pc[t] = "b_dec"
  /\ comp[t].count # 0
  /\ comp' = [comp EXCEPT ![t].futex = -1]
  /\ Goto(t, "b_wait")
  /\ UNCHANGED <<crd, apiVars, loc, rd, pre, histVars>>

BDec(t) ==
  /\ pc[t] = "b_dec"
  /\ comp' = [comp EXCEPT ![t].futex = @ - 1]
  /\ Goto(t, "b_check")
  /\ UNCHANGED <<crd, apiVars, loc, rd, pre, histVars>>

BWait(t) ==
  /\ \/ pc[t] = "b_check" /\ Goto(t, IF comp[t].count = 0 THEN "b_put" ELSE "b_wait")
     \/ pc[t] = "b_wait" /\ Goto(t, IF comp[t].futex = -1 THEN "b_asleep" ELSE "b_dec")
  /\ UNCHANGED <<crd, apiVars, comp, loc, rd, pre, histVars>>

BPut(t) ==
  /\ pc[t] = "b_put"
  /\ comp' = [comp EXCEPT ![t].ref = @ - 1]
  /\ loc' = [loc EXCEPT ![t] = NewLoc]
  /\ bneed' = [bneed EXCEPT ![t] = {}]
  /\ Goto(t, "idle")
  /\ UNCHANGED <<plan, crd, apiVars, rd, pre, need, state, forks>>

BarrierStep(t) == BQueue(t) \/ BDec(t) \/ BWait(t) \/ BPut(t)

-----------------------------------------------------------------------------
(* fork() *)

BeforeFork(t) ==
  /\ pc[t] = "idle" /\ <<t, "fork">> \in plan.calls /\ forks < plan.once
  /\ mutex = NULL
  /\ mutex' = t
  /\ forks' = forks + 1
  /\ loc' = [loc EXCEPT ![t].todo = Listed]
  /\ Goto(t, "fork_pause")
  /\ UNCHANGED <<plan, crd, def, cpu, comp, rd, pre, need, bneed, state>>

ForkPause(t) ==
  /\ pc[t] = "fork_pause"
  /\ \/ \E c \in loc[t].todo :
          /\ crd' = [crd EXCEPT ![c].flags = @ \cup {"PAUSE"}]
          /\ loc' = [loc EXCEPT ![t].todo = @ \ {c}, ![t].c = c,
                                ![t].ret = "fork_pause"]
          /\ Goto(t, "wake")
     \/ /\ loc[t].todo = {}
        /\ loc' = [loc EXCEPT ![t].todo = Listed]
        /\ Goto(t, "fork_wait")
        /\ UNCHANGED crd
  /\ UNCHANGED <<apiVars, comp, rd, pre, histVars>>

(* Wait for each worker in turn to be PAUSED, or not PAUSED any more. *)
ForkWait(t) ==
  /\ pc[t] \in {"fork_wait", "fork_unwait"}
  /\ \/ \E c \in loc[t].todo :
          /\ ("PAUSED" \in crd[c].flags) <=> (pc[t] = "fork_wait")
          /\ loc' = [loc EXCEPT ![t].todo = @ \ {c}]
          /\ UNCHANGED <<mutex, pc>>
     \/ /\ loc[t].todo = {}
        /\ Goto(t, IF pc[t] = "fork_wait" THEN "forked" ELSE "idle")
        /\ mutex' = IF pc[t] = "fork_wait" THEN mutex ELSE NULL
        /\ loc' = [loc EXCEPT ![t] = NewLoc]
  /\ UNCHANGED <<crd, def, cpu, comp, rd, pre, histVars>>

AfterForkParent(t) ==
  /\ pc[t] = "forked"
  /\ crd' = [c \in Crdps |-> IF c \in Listed
                             THEN [crd[c] EXCEPT !.flags = @ \ {"PAUSE"}] ELSE crd[c]]
  /\ loc' = [loc EXCEPT ![t].todo = Listed]
  /\ Goto(t, "fork_unwait")
  /\ UNCHANGED <<apiVars, comp, rd, pre, histVars>>

(* The child: no other thread exists.  A new default worker is created,    *)
(* and every other structure is freed as one that has stopped.             *)
AfterForkChild(t) ==
  /\ pc[t] = "forked"
  /\ pc' = [x \in DOMAIN pc |-> IF x \in Crdps THEN "gone"
                                ELSE IF x = t /\ Listed # {} THEN "get_default"
                                ELSE "idle"]
  /\ loc' = [x \in Clients |-> IF x = t THEN [NewLoc EXCEPT !.todo = Listed,
                                                            !.ret = "child_free"]
                               ELSE NewLoc]
  /\ crd' = [c \in Crdps |-> IF c \in Listed
                             THEN [crd[c] EXCEPT !.flags = {"STOPPED"}] ELSE crd[c]]
  /\ rd' = {}
  /\ pre' = [x \in DOMAIN pre |-> {}]
  /\ need' = [cb \in Cbs |-> {}]
  /\ bneed' = [x \in Clients |-> {}]
  /\ mutex' = NULL
  /\ def' = NULL
  /\ cpu' = NULL
  /\ UNCHANGED <<plan, comp, state, forks>>

ChildFree(t) ==
  /\ pc[t] = "child_free"
  /\ \E c \in loc[t].todo : loc' = [loc EXCEPT ![t].c = c]
  /\ Goto(t, "free")
  /\ UNCHANGED <<crd, apiVars, comp, rd, pre, histVars>>

ForkStep(t) == \/ ForkPause(t) \/ ForkWait(t) \/ AfterForkParent(t)
               \/ AfterForkChild(t) \/ ChildFree(t)

-----------------------------------------------------------------------------
(* urcu_call_rcu_exit(): tear the default worker down if it has nothing    *)
(* to do.                                                                  *)
Teardown(t) ==
  /\ pc[t] = "idle" /\ <<t, "exit">> \in plan.calls /\ def # NULL /\ forks < plan.once
  /\ mutex = NULL
  /\ crd[def].q = <<>>
  /\ forks' = forks + 1
  /\ def' = NULL
  /\ loc' = [loc EXCEPT ![t].c = def]
  /\ pre' = [pre EXCEPT ![t] = Sections]
  /\ Goto(t, "free_sync")
  /\ UNCHANGED <<plan, crd, cpu, mutex, comp, rd, need, bneed, state>>

-----------------------------------------------------------------------------
ReadLock(r) ==
  /\ r \in plan.readers \ rd
  /\ rd' = rd \cup {r}
  /\ UNCHANGED <<crd, apiVars, comp, pc, loc, pre, histVars>>

ReadUnlock(r) ==
  /\ r \in rd
  /\ rd' = rd \ {r}
  /\ pre' = [x \in DOMAIN pre |-> pre[x] \ {r}]
  /\ need' = [cb \in Cbs |-> need[cb] \ {r}]
  /\ UNCHANGED <<plan, crd, apiVars, comp, pc, loc, bneed, state, forks>>

ClientStep(t) == \/ Wake(t) \/ WakeStore(t) \/ WakeCall(t) \/ GetDefault(t)
                 \/ CallRcuStep(t) \/ FreeStep(t) \/ BarrierStep(t) \/ ForkStep(t)

Next == \/ \E t \in Clients : \/ CallCallRcu(t) \/ CreateCpu(t) \/ FreeCpu(t)
                              \/ Barrier(t) \/ BeforeFork(t) \/ Teardown(t)
                              \/ ClientStep(t)
        \/ \E c \in Crdps : WorkerStep(c) \/ WSpurious(c)
        \/ \E r \in Readers : ReadLock(r) \/ ReadUnlock(r)

Spec == Init /\ [][Next]_vars

(* Threads inside a call and workers keep running, mutexes are obtained,   *)
(* and sections end.                                                       *)
Fairness == /\ \A t \in Clients : SF_vars(ClientStep(t))
            /\ \A c \in Crdps : WF_vars(WorkerStep(c))
            /\ \A r \in Readers : WF_vars(ReadUnlock(r))

FairSpec == Spec /\ Fairness

-----------------------------------------------------------------------------
Times(cb, s) == Cardinality({i \in DOMAIN s : s[i] = cb})

(* "Schedule a function to be invoked after a following grace period": no  *)
(* section that was in progress at call_rcu() is still when it runs.       *)
GraceBeforeCallback == \A cb \in Cbs : state[cb] = "done" => need[cb] = {}

(* A callback that was queued and has not run is in exactly one queue or   *)
(* batch of a structure that still exists; one that has run is in none.    *)
(* Freeing workers, splicing to the default one and forking lose nothing.  *)
NoCallbackLost ==
  \A cb \in Cbs :
    LET n == FoldSet(LAMBDA c, sum : sum + Times(cb, crd[c].q) + Times(cb, crd[c].tmp),
                     0, {c \in Crdps : crd[c].live})
    IN n = IF state[cb] = "queued" THEN 1 ELSE 0

(* "Wait for all in-flight call_rcu callbacks to complete execution": all  *)
(* that were queued when rcu_barrier() took its snapshot have run when it  *)
(* sees its count at zero, wherever they were moved meanwhile.             *)
BarrierComplete ==
  \A t \in Clients : pc[t] = "b_put" => \A cb \in bneed[t] : state[cb] = "done"

(* Nobody works on a call_rcu_data that has been freed, and a completion   *)
(* is alive as long as its rcu_barrier() or a worker uses it.  That holds  *)
(* for plans in which one client calls free_all_cpu_call_rcu_data(): two   *)
(* may read the same pointer before either clears it.                      *)
NoUseAfterFree ==
  /\ \A t \in Clients : pc[t] \in {"enqueue", "wake", "wake_store", "wake_call",
                                   "free", "free_wait", "free_lock"}
                        => crd[loc[t].c].live
  /\ \A c \in Crdps : pc[c] # "gone" => crd[c].live
  /\ \A t \in Clients : pc[t] \in {"b_dec", "b_check", "b_wait", "b_put"}
                        => comp[t].ref > 0
  /\ \A c \in Crdps, t \in Clients :
       /\ pc[c] \in {"bc_wake", "bc_store", "bc_call", "bc_put"}
       /\ Head(crd[c].tmp) = t
       => comp[t].ref > 0

(* call_rcu_before_fork() holds the mutex and waits for a worker that can  *)
(* never pause: it waits for the section of a call_rcu() that wants the    *)
(* mutex, or it has stopped and whoever frees it wants the mutex to take   *)
(* it off the list.                                                        *)
ForkStuck ==
  \E t \in Clients : /\ pc[t] = "fork_wait"
                    /\ \E c \in loc[t].todo :
                         \/ pc[c] = "sync" /\ \E u \in pre[c] \cap Clients : pc[u] = "get_default"
                         \/ pc[c] = "gone" /\ "PAUSED" \notin crd[c].flags

(* call_rcu_before_fork(): "Ensure that all call_rcu threads are in a      *)
(* quiescent state across fork", so it gets there.                         *)
ForkProceeds == \A t \in Clients : pc[t] = "fork_wait" ~> pc[t] # "fork_wait"
=============================================================================
