-------------------------------- MODULE Urcu --------------------------------
(***************************************************************************)
(* The memb and mb flavours: src/urcu.c, static/urcu-memb.h,               *)
(* static/urcu-mb.h, static/urcu-common.h and src/urcu-wait.h.             *)
(*                                                                         *)
(* Every load and store of a shared word is a step of its own.  A reader's *)
(* store to its counter goes through a FIFO store buffer, as on x86: with  *)
(* sys_membarrier the reader issues no fence, and only the updater's       *)
(* master barrier forces the store out.                                    *)
(***************************************************************************)
EXTENDS Integers, Sequences

CONSTANTS Readers,         \* threads that may register and read
          Updaters,        \* threads that may call synchronize_rcu()
          NoThread,        \* "no owner" of a mutex
          HasMembarrier,   \* urcu_memb_has_sys_membarrier; FALSE is also mb
          Attempts,        \* RCU_QS_ACTIVE_ATTEMPTS
          MaxNest,         \* bound: nesting depth of critical sections
          MaxBuf           \* bound: pending stores in a reader's buffer

ASSUME UrcuAssumption ==
  /\ HasMembarrier \in BOOLEAN
  /\ Attempts \in Nat \ {0}
  /\ MaxNest \in Nat \ {0}
  /\ MaxBuf \in Nat \ {0}
  /\ NoThread \notin Readers \cup Updaters

VARIABLES
  gp_ctr,         \* the URCU_GP_CTR_PHASE bit of rcu_gp.ctr
  futex,          \* rcu_gp.futex
  ctr,            \* rcu_reader.ctr as its own thread sees it
  mem,            \* rcu_reader.ctr as the other threads see it
  sb,             \* stores to rcu_reader.ctr that are not visible yet
  gctr,           \* the value of rcu_gp.ctr _rcu_read_lock() has loaded
  list,           \* the list rcu_reader.node is on
  gp_lock,        \* owner of rcu_gp_lock
  registry_lock,  \* owner of rcu_registry_lock
  gp_waiters,     \* the wait-free stack of waiting updaters, top first
  state,          \* flags of each updater's urcu_wait_node
  waiters,        \* batch each leader has moved out of gp_waiters
  pass,           \* which wait_for_readers() call of synchronize_rcu()
  wait_loops,     \* its loop counter
  todo,           \* readers the scan in progress has yet to look at
  ipi,            \* readers the master barrier has yet to reach
  pc,             \* control point of each thread
  pre             \* history: sections each synchronize_rcu() must outlast

readerVars == <<ctr, mem, sb, gctr>>
lockVars == <<gp_lock, registry_lock>>
waitVars == <<gp_waiters, state, waiters>>
gpVars == <<pass, wait_loops, todo>>
vars == <<gp_ctr, futex, readerVars, list, lockVars, waitVars, gpVars, ipi,
          pc, pre>>

Threads == Readers \cup Updaters

ReaderPc == {"lock_store", "lock_mb", "wake_load", "wake_store", "wake_call"}
WaitPc == {"wait_link", "wait", "wait_sleep", "wait_running", "wait_teardown"}
GpPc == {"mb_start", "loop", "mb_futex", "scan", "mb_clear", "mb_wait",
         "gp_futex", "gp_sleep", "relock", "passed", "mb_end", "out"}
WakePc == {"wk_next", "wk_store", "wk_check", "wk_futex", "wk_teardown"}
SyncPc == {"lead_link", "gp_lock", "move", "reg_lock"}
            \cup WaitPc \cup GpPc \cup WakePc

Ctr == [phase : {0, 1}, nest : 0..MaxNest]

(* The reader is between the return of its outermost _rcu_read_lock() and  *)
(* the store that ends the section.                                        *)
InCS(r) == ctr[r].nest > 0 /\ pc[r] # "lock_mb"

Goto(t, l) == pc' = [pc EXCEPT ![t] = l]

(* A full barrier of thread t: its own buffer has drained. *)
Drained(t) == t \in Readers => sb[t] = <<>>

(* smp_mb_slave(): a compiler barrier when membarrier does the work. *)
SlaveBarrier(r) == HasMembarrier \/ sb[r] = <<>>

(* Variant: the updater fences only itself. *)
LocalBarrierOnly == ipi' = {}

(* smp_mb_master(): with membarrier, every thread is made to pass a full   *)
(* barrier before the call returns, one after the other.                   *)
StartMasterBarrier == ipi' = IF HasMembarrier THEN Readers ELSE {}

(* The same parity with nesting count n: tmp + or - URCU_GP_COUNT. *)
WithNest(r, n) == [phase |-> ctr[r].phase, nest |-> n]

StoreCtr(r, v) == /\ Len(sb[r]) < MaxBuf
                  /\ ctr' = [ctr EXCEPT ![r] = v]
                  /\ sb' = [sb EXCEPT ![r] = Append(@, v)]

-----------------------------------------------------------------------------
Init ==
  /\ gp_ctr = 0
  /\ futex = 0
  /\ ctr = [r \in Readers |-> [phase |-> 0, nest |-> 0]]
  /\ mem = [r \in Readers |-> [phase |-> 0, nest |-> 0]]
  /\ sb = [r \in Readers |-> <<>>]
  /\ gctr = [r \in Readers |-> 0]
  /\ list = [r \in Readers |-> "none"]
  /\ gp_lock = NoThread
  /\ registry_lock = NoThread
  /\ gp_waiters = <<>>
  /\ state = [u \in Updaters |-> {}]
  /\ waiters = [u \in Updaters |-> <<>>]
  /\ pass = 1
  /\ wait_loops = 0
  /\ todo = {}
  /\ ipi = {}
  /\ pc = [t \in Threads |-> "idle"]
  /\ pre = [u \in Updaters |-> {}]

-----------------------------------------------------------------------------
(* Readers *)

Register(r) ==
  /\ pc[r] = "idle"
  /\ list[r] = "none"
  /\ registry_lock = NoThread
  /\ list' = [list EXCEPT ![r] = "registry"]
  /\ UNCHANGED <<gp_ctr, futex, readerVars, lockVars, waitVars, gpVars, ipi,
                 pc, pre>>

(* cds_list_del() takes the node off whichever list it is on. *)
Unregister(r) ==
  /\ pc[r] = "idle"
  /\ list[r] # "none"
  /\ ctr[r].nest = 0
  /\ registry_lock = NoThread
  /\ Drained(r)
  /\ list' = [list EXCEPT ![r] = "none"]
  /\ UNCHANGED <<gp_ctr, futex, readerVars, lockVars, waitVars, gpVars, ipi,
                 pc, pre>>

(* Outermost _rcu_read_lock(): load rcu_gp.ctr ... *)
ReadLock(r) ==
  /\ pc[r] = "idle"
  /\ list[r] # "none"
  /\ ctr[r].nest = 0
  /\ gctr' = [gctr EXCEPT ![r] = gp_ctr]
  /\ Goto(r, "lock_store")
  /\ UNCHANGED <<gp_ctr, futex, ctr, mem, sb, list, lockVars, waitVars, gpVars,
                 ipi, pre>>

(* ... and store it, at any later time, in the thread's own counter. *)
ReadLockStore(r) ==
  /\ pc[r] = "lock_store"
  /\ StoreCtr(r, [phase |-> gctr[r], nest |-> 1])
  /\ Goto(r, IF HasMembarrier THEN "idle" ELSE "lock_mb")
  /\ UNCHANGED <<gp_ctr, futex, mem, gctr, list, lockVars, waitVars, gpVars,
                 ipi, pre>>

ReadLockBarrier(r) ==
  /\ pc[r] = "lock_mb"
  /\ SlaveBarrier(r)
  /\ Goto(r, "idle")
  /\ UNCHANGED <<gp_ctr, futex, readerVars, list, lockVars, waitVars, gpVars,
                 ipi, pre>>

ReadLockNested(r) ==
  /\ pc[r] = "idle"
  /\ ctr[r].nest \in 1..(MaxNest - 1)
  /\ StoreCtr(r, WithNest(r, ctr[r].nest + 1))
  /\ UNCHANGED <<gp_ctr, futex, mem, gctr, list, lockVars, waitVars, gpVars,
                 ipi, pc, pre>>

ReadUnlockNested(r) ==
  /\ pc[r] = "idle"
  /\ ctr[r].nest > 1
  /\ StoreCtr(r, WithNest(r, ctr[r].nest - 1))
  /\ UNCHANGED <<gp_ctr, futex, mem, gctr, list, lockVars, waitVars, gpVars,
                 ipi, pc, pre>>

ReadUnlock(r) ==
  /\ pc[r] = "idle"
  /\ ctr[r].nest = 1
  /\ SlaveBarrier(r)
  /\ StoreCtr(r, WithNest(r, 0))
  /\ pre' = [u \in Updaters |-> pre[u] \ {r}]
  /\ Goto(r, "wake_load")
  /\ UNCHANGED <<gp_ctr, futex, mem, gctr, list, lockVars, waitVars, gpVars,
                 ipi>>

(* Variant: the reader leaves without testing the futex. *)
WakeLoadSkipped(r) ==
  /\ pc[r] = "wake_load"
  /\ Goto(r, "idle")
  /\ UNCHANGED <<gp_ctr, futex, readerVars, list, lockVars, waitVars, gpVars,
                 ipi, pre>>

(* urcu_common_wake_up_gp(): load the futex, store 0, wake one waiter. *)
WakeLoad(r) ==
  /\ pc[r] = "wake_load"
  /\ SlaveBarrier(r)
  /\ Goto(r, IF futex = -1 THEN "wake_store" ELSE "idle")
  /\ UNCHANGED <<gp_ctr, futex, readerVars, list, lockVars, waitVars, gpVars,
                 ipi, pre>>

(* The store becomes visible after the stores issued before it. *)
WakeStore(r) ==
  /\ pc[r] = "wake_store"
  /\ Drained(r)
  /\ futex' = 0
  /\ Goto(r, "wake_call")
  /\ UNCHANGED <<gp_ctr, readerVars, list, lockVars, waitVars, gpVars, ipi,
                 pre>>

WakeCall(r) ==
  /\ pc[r] = "wake_call"
  /\ pc' = [t \in Threads |->
              IF t = r THEN "idle"
              ELSE IF pc[t] = "gp_sleep" THEN "gp_futex" ELSE pc[t]]
  /\ UNCHANGED <<gp_ctr, futex, readerVars, list, lockVars, waitVars, gpVars,
                 ipi, pre>>

(* The hardware makes the oldest pending store visible. *)
Flush(r) ==
  /\ sb[r] # <<>>
  /\ mem' = [mem EXCEPT ![r] = Head(sb[r])]
  /\ sb' = [sb EXCEPT ![r] = Tail(@)]
  /\ UNCHANGED <<gp_ctr, futex, ctr, gctr, list, lockVars, waitVars, gpVars,
                 ipi, pc, pre>>

(* The master barrier reaches reader r: everything pending is visible. *)
MasterBarrierReach(r) ==
  /\ r \in ipi
  /\ ipi' = ipi \ {r}
  /\ mem' = [mem EXCEPT ![r] = ctr[r]]
  /\ sb' = [sb EXCEPT ![r] = <<>>]
  /\ UNCHANGED <<gp_ctr, futex, ctr, gctr, list, lockVars, waitVars, gpVars,
                 pc, pre>>

-----------------------------------------------------------------------------
(* synchronize_rcu(): joining gp_waiters *)

(* cds_wfs_push(): the exchange of the stack head, then the store of next. *)
SyncPush(u) ==
  /\ pc[u] = "idle"
  /\ u \in Readers => ctr[u].nest = 0
  /\ Drained(u)
  /\ pre' = [pre EXCEPT ![u] = {r \in Readers : InCS(r)}]
  /\ gp_waiters' = <<u>> \o gp_waiters
  /\ state' = [state EXCEPT ![u] = {}]
  /\ Goto(u, IF gp_waiters = <<>> THEN "lead_link" ELSE "wait_link")
  /\ UNCHANGED <<gp_ctr, futex, readerVars, list, lockVars, waiters, gpVars,
                 ipi>>

Linked(u) == pc[u] \notin {"lead_link", "wait_link"}

(* First in the stack: this thread runs the grace period. *)
LeadLink(u) ==
  /\ pc[u] = "lead_link"
  /\ state' = [state EXCEPT ![u] = {"RUNNING"}]
  /\ Goto(u, "gp_lock")
  /\ UNCHANGED <<gp_ctr, futex, readerVars, list, lockVars, gp_waiters,
                 waiters, gpVars, ipi, pre>>

WaitLink(u) ==
  /\ pc[u] = "wait_link"
  /\ Goto(u, "wait")
  /\ UNCHANGED <<gp_ctr, futex, readerVars, list, lockVars, waitVars, gpVars,
                 ipi, pre>>

(* urcu_adaptative_busy_wait() *)
WaitLoad(u) ==
  /\ pc[u] = "wait"
  /\ Goto(u, IF state[u] = {} THEN "wait_sleep" ELSE "wait_running")
  /\ UNCHANGED <<gp_ctr, futex, readerVars, list, lockVars, waitVars, gpVars,
                 ipi, pre>>

(* EINTR, or a wakeup meant for other code on the same address. *)
WaitSpurious(u) ==
  /\ pc[u] = "wait_sleep"
  /\ Goto(u, "wait")
  /\ UNCHANGED <<gp_ctr, futex, readerVars, list, lockVars, waitVars, gpVars,
                 ipi, pre>>

WaitRunning(u) ==
  /\ pc[u] = "wait_running"
  /\ state' = [state EXCEPT ![u] = @ \cup {"RUNNING"}]
  /\ Goto(u, "wait_teardown")
  /\ UNCHANGED <<gp_ctr, futex, readerVars, list, lockVars, gp_waiters,
                 waiters, gpVars, ipi, pre>>

(* Variant: the waiter returns without waiting for URCU_WAIT_TEARDOWN. *)
WaitReturnEarly(u) ==
  /\ pc[u] = "wait_teardown"
  /\ Goto(u, "idle")
  /\ UNCHANGED <<gp_ctr, futex, readerVars, list, lockVars, waitVars, gpVars,
                 ipi, pre>>

(* The node is on the caller's stack: it is gone once the call returns. *)
WaitReturn(u) ==
  /\ pc[u] = "wait_teardown"
  /\ "TEARDOWN" \in state[u]
  /\ Goto(u, "idle")
  /\ UNCHANGED <<gp_ctr, futex, readerVars, list, lockVars, waitVars, gpVars,
                 ipi, pre>>

-----------------------------------------------------------------------------
(* synchronize_rcu(): the grace period, run by the leader *)

GpLock(u) ==
  /\ pc[u] = "gp_lock"
  /\ gp_lock = NoThread
  /\ gp_lock' = u
  /\ Goto(u, "move")
  /\ UNCHANGED <<gp_ctr, futex, readerVars, list, registry_lock, waitVars,
                 gpVars, ipi, pre>>

(* urcu_move_waiters() *)
MoveWaiters(u) ==
  /\ pc[u] = "move"
  /\ waiters' = [waiters EXCEPT ![u] = gp_waiters]
  /\ gp_waiters' = <<>>
  /\ Goto(u, "reg_lock")
  /\ UNCHANGED <<gp_ctr, futex, readerVars, list, lockVars, state, gpVars, ipi,
                 pre>>

OnList(l) == {r \in Readers : list[r] = l}

RegLock(u) ==
  /\ pc[u] = "reg_lock"
  /\ registry_lock = NoThread
  /\ registry_lock' = u
  /\ \/ /\ OnList("registry") = {}
        /\ Goto(u, "out")
        /\ UNCHANGED <<gpVars, ipi>>
     \/ /\ OnList("registry") # {}
        /\ StartMasterBarrier
        /\ pass' = 1
        /\ wait_loops' = 0
        /\ Goto(u, "mb_start")
        /\ UNCHANGED todo
  /\ UNCHANGED <<gp_ctr, futex, readerVars, list, gp_lock, waitVars, pre>>

(* The master barrier is over. *)
AfterBarrier(u, from, to) ==
  /\ pc[u] = from
  /\ ipi = {}
  /\ Goto(u, to)
  /\ UNCHANGED <<gp_ctr, readerVars, list, gp_lock, waitVars, pass,
                 wait_loops, ipi, pre>>

BarrierStart(u) ==
  /\ AfterBarrier(u, "mb_start", "loop")
  /\ UNCHANGED <<futex, registry_lock, todo>>

-----------------------------------------------------------------------------
(* wait_for_readers() *)

(* Variant: both calls of wait_for_readers() are given the registry. *)
InputRegistry == OnList("registry")

Input == OnList(IF pass = 1 THEN "registry" ELSE "cur_snap")

Sleepy(n) == n >= Attempts

Loop(u) ==
  /\ pc[u] = "loop"
  /\ wait_loops' = IF wait_loops < Attempts THEN wait_loops + 1
                                             ELSE wait_loops
  /\ \/ /\ Sleepy(wait_loops')
        /\ futex' = futex - 1
        /\ StartMasterBarrier
        /\ Goto(u, "mb_futex")
        /\ UNCHANGED todo
     \/ /\ ~Sleepy(wait_loops')
        /\ todo' = Input
        /\ Goto(u, "scan")
        /\ UNCHANGED <<futex, ipi>>
  /\ UNCHANGED <<gp_ctr, readerVars, list, lockVars, waitVars, pass, pre>>

BarrierFutex(u) ==
  /\ AfterBarrier(u, "mb_futex", "scan")
  /\ todo' = Input
  /\ UNCHANGED <<futex, registry_lock>>

(* urcu_common_reader_state(), from the visible value of the counter. *)
reader_state(r) ==
  IF mem[r].nest = 0 THEN "INACTIVE"
  ELSE IF mem[r].phase = gp_ctr THEN "ACTIVE_CURRENT" ELSE "ACTIVE_OLD"

(* Where the scan puts reader r: the second call has no cur_snap_readers. *)
ScanTo(r) ==
  CASE reader_state(r) = "ACTIVE_CURRENT" ->
         IF pass = 1 THEN "cur_snap" ELSE "qs"
    [] reader_state(r) = "INACTIVE" -> "qs"
    [] reader_state(r) = "ACTIVE_OLD" -> list[r]

Scan(u) ==
  /\ pc[u] = "scan"
  /\ \E r \in todo : /\ list' = [list EXCEPT ![r] = ScanTo(r)]
                     /\ todo' = todo \ {r}
  /\ UNCHANGED <<gp_ctr, futex, readerVars, lockVars, waitVars, pass,
                 wait_loops, ipi, pc, pre>>

ScanDone(u) ==
  /\ pc[u] = "scan"
  /\ todo = {}
  /\ \/ /\ Sleepy(wait_loops)
        /\ StartMasterBarrier
        /\ Goto(u, IF Input = {} THEN "mb_clear" ELSE "mb_wait")
        /\ UNCHANGED registry_lock
     \/ /\ ~Sleepy(wait_loops)
        /\ Input = {}
        /\ Goto(u, "passed")
        /\ UNCHANGED <<registry_lock, ipi>>
     \/ /\ ~Sleepy(wait_loops)
        /\ Input # {}
        /\ registry_lock' = NoThread
        /\ Goto(u, "relock")
        /\ UNCHANGED ipi
  /\ UNCHANGED <<gp_ctr, futex, readerVars, list, gp_lock, waitVars, gpVars,
                 pre>>

BarrierClear(u) ==
  /\ AfterBarrier(u, "mb_clear", "passed")
  /\ futex' = 0
  /\ UNCHANGED <<registry_lock, todo>>

(* wait_gp() *)
BarrierWait(u) ==
  /\ AfterBarrier(u, "mb_wait", "gp_futex")
  /\ registry_lock' = NoThread
  /\ UNCHANGED <<futex, todo>>

(* FUTEX_WAIT sleeps only if the futex still is -1 (EAGAIN otherwise). *)
GpFutexWait(u) ==
  /\ pc[u] = "gp_futex"
  /\ Goto(u, IF futex = -1 THEN "gp_sleep" ELSE "relock")
  /\ UNCHANGED <<gp_ctr, futex, readerVars, list, lockVars, waitVars, gpVars,
                 ipi, pre>>

(* Variant: any wakeup ends wait_gp(), the futex is not read again. *)
GpSpuriousReturns(u) ==
  /\ pc[u] = "gp_sleep"
  /\ Goto(u, "relock")
  /\ UNCHANGED <<gp_ctr, futex, readerVars, list, lockVars, waitVars, gpVars,
                 ipi, pre>>

GpSpurious(u) ==
  /\ pc[u] = "gp_sleep"
  /\ Goto(u, "gp_futex")
  /\ UNCHANGED <<gp_ctr, futex, readerVars, list, lockVars, waitVars, gpVars,
                 ipi, pre>>

Relock(u) ==
  /\ pc[u] = "relock"
  /\ registry_lock = NoThread
  /\ registry_lock' = u
  /\ Goto(u, "loop")
  /\ UNCHANGED <<gp_ctr, futex, readerVars, list, gp_lock, waitVars, gpVars,
                 ipi, pre>>

(* First call done: switch parity and wait for the snapshotted readers. *)
FlipPhase(u) ==
  /\ pc[u] = "passed"
  /\ pass = 1
  /\ gp_ctr' = 1 - gp_ctr
  /\ pass' = 2
  /\ wait_loops' = 0
  /\ Goto(u, "loop")
  /\ UNCHANGED <<futex, readerVars, list, lockVars, waitVars, todo, ipi, pre>>

(* Variant: the quiescent readers are not spliced back. *)
SpliceForgotten(u) ==
  /\ pc[u] = "passed"
  /\ pass = 2
  /\ StartMasterBarrier
  /\ Goto(u, "mb_end")
  /\ UNCHANGED <<gp_ctr, futex, readerVars, list, lockVars, waitVars, gpVars,
                 pre>>

(* Second call done: put the quiescent readers back into the registry. *)
SpliceBack(u) ==
  /\ pc[u] = "passed"
  /\ pass = 2
  /\ list' = [r \in Readers |-> IF list[r] = "qs" THEN "registry"
                                                  ELSE list[r]]
  /\ StartMasterBarrier
  /\ Goto(u, "mb_end")
  /\ UNCHANGED <<gp_ctr, futex, readerVars, lockVars, waitVars, gpVars, pre>>

BarrierEnd(u) ==
  /\ AfterBarrier(u, "mb_end", "out")
  /\ UNCHANGED <<futex, registry_lock, todo>>

Out(u) ==
  /\ pc[u] = "out"
  /\ registry_lock' = NoThread
  /\ gp_lock' = NoThread
  /\ Goto(u, "wk_next")
  /\ UNCHANGED <<gp_ctr, futex, readerVars, list, waitVars, gpVars, ipi, pre>>

-----------------------------------------------------------------------------
(* urcu_wake_all_waiters(), urcu_adaptative_wake_up() *)

Target(u) == Head(waiters[u])

(* Variant: nodes of running threads, the leader's included, are woken. *)
WakeNextRunning(u) ==
  /\ pc[u] = "wk_next"
  /\ waiters[u] # <<>>
  /\ Linked(Target(u))
  /\ Goto(u, "wk_store")
  /\ UNCHANGED <<gp_ctr, futex, readerVars, list, lockVars, waitVars, gpVars,
                 ipi, pre>>

(* The iteration reads the next node before it wakes the current one, and  *)
(* spins until the pusher has linked it.                                   *)
WakeNext(u) ==
  /\ pc[u] = "wk_next"
  /\ waiters[u] # <<>>
  /\ Linked(Target(u))
  /\ "RUNNING" \notin state[Target(u)]
  /\ Goto(u, "wk_store")
  /\ UNCHANGED <<gp_ctr, futex, readerVars, list, lockVars, waitVars, gpVars,
                 ipi, pre>>

(* "Don't wake already running threads" *)
WakeSkip(u) ==
  /\ pc[u] = "wk_next"
  /\ waiters[u] # <<>>
  /\ Linked(Target(u))
  /\ "RUNNING" \in state[Target(u)]
  /\ waiters' = [waiters EXCEPT ![u] = Tail(@)]
  /\ UNCHANGED <<gp_ctr, futex, readerVars, list, lockVars, gp_waiters, state,
                 gpVars, ipi, pc, pre>>

WakeState(u) ==
  /\ pc[u] = "wk_store"
  /\ state' = [state EXCEPT ![Target(u)] = {"WAKEUP"}]
  /\ Goto(u, "wk_check")
  /\ UNCHANGED <<gp_ctr, futex, readerVars, list, lockVars, gp_waiters,
                 waiters, gpVars, ipi, pre>>

(* Variant: FUTEX_WAKE is never called. *)
WakeCheckNoFutex(u) ==
  /\ pc[u] = "wk_check"
  /\ Goto(u, "wk_teardown")
  /\ UNCHANGED <<gp_ctr, futex, readerVars, list, lockVars, waitVars, gpVars,
                 ipi, pre>>

WakeCheck(u) ==
  /\ pc[u] = "wk_check"
  /\ Goto(u, IF "RUNNING" \in state[Target(u)] THEN "wk_teardown"
                                               ELSE "wk_futex")
  /\ UNCHANGED <<gp_ctr, futex, readerVars, list, lockVars, waitVars, gpVars,
                 ipi, pre>>

WakeFutex(u) ==
  /\ pc[u] = "wk_futex"
  /\ pc' = [t \in Threads |->
              IF t = u THEN "wk_teardown"
              ELSE IF t = Target(u) /\ pc[t] = "wait_sleep" THEN "wait"
                                                            ELSE pc[t]]
  /\ UNCHANGED <<gp_ctr, futex, readerVars, list, lockVars, waitVars, gpVars,
                 ipi, pre>>

WakeTeardown(u) ==
  /\ pc[u] = "wk_teardown"
  /\ state' = [state EXCEPT ![Target(u)] = @ \cup {"TEARDOWN"}]
  /\ waiters' = [waiters EXCEPT ![u] = Tail(@)]
  /\ Goto(u, "wk_next")
  /\ UNCHANGED <<gp_ctr, futex, readerVars, list, lockVars, gp_waiters, gpVars,
                 ipi, pre>>

LeadReturn(u) ==
  /\ pc[u] = "wk_next"
  /\ waiters[u] = <<>>
  /\ Goto(u, "idle")
  /\ UNCHANGED <<gp_ctr, futex, readerVars, list, lockVars, waitVars, gpVars,
                 ipi, pre>>

-----------------------------------------------------------------------------
ReaderCall(r) == \/ ReadLockStore(r) \/ ReadLockBarrier(r)
                 \/ WakeLoad(r) \/ WakeStore(r) \/ WakeCall(r)

ReaderStep(r) == \/ Register(r) \/ Unregister(r)
                 \/ ReadLock(r) \/ ReadLockNested(r)
                 \/ ReadUnlock(r) \/ ReadUnlockNested(r)
                 \/ ReaderCall(r)

Hardware(r) == Flush(r) \/ MasterBarrierReach(r)

WaiterStep(u) == \/ WaitLink(u) \/ WaitLoad(u)
                 \/ WaitRunning(u) \/ WaitReturn(u)

GpStep(u) == \/ LeadLink(u) \/ MoveWaiters(u) \/ BarrierStart(u)
             \/ Loop(u) \/ BarrierFutex(u) \/ Scan(u) \/ ScanDone(u)
             \/ BarrierClear(u) \/ BarrierWait(u) \/ GpFutexWait(u)
             \/ FlipPhase(u) \/ SpliceBack(u) \/ BarrierEnd(u) \/ Out(u)

WakeStep(u) == \/ WakeNext(u) \/ WakeSkip(u)
               \/ WakeState(u) \/ WakeCheck(u)
               \/ WakeFutex(u) \/ WakeTeardown(u) \/ LeadReturn(u)

LockStep(u) == GpLock(u) \/ RegLock(u) \/ Relock(u)

UpdaterStep(u) == \/ SyncPush(u) \/ WaiterStep(u) \/ WaitSpurious(u)
                  \/ LockStep(u) \/ GpStep(u) \/ GpSpurious(u) \/ WakeStep(u)

Next == \/ \E r \in Readers : ReaderStep(r) \/ Hardware(r)
        \/ \E u \in Updaters : UpdaterStep(u)

Spec == Init /\ [][Next]_vars

(***************************************************************************)
(* Fairness: a thread inside a library call keeps running, a mutex that is *)
(* released again and again is eventually obtained, a store does not stay  *)
(* buffered for ever, and a critical section ends (the API's requirement   *)
(* on readers).  Nothing is said of starting a call or a section.          *)
(***************************************************************************)
Fairness ==
  /\ \A r \in Readers : /\ WF_vars(ReaderCall(r))
                        /\ WF_vars(Flush(r))
                        /\ WF_vars(MasterBarrierReach(r))
                        /\ SF_vars(ReadUnlock(r))
                        /\ WF_vars(ReadUnlockNested(r))
  /\ \A u \in Updaters : /\ WF_vars(WaiterStep(u) \/ GpStep(u) \/ WakeStep(u))
                         /\ SF_vars(LockStep(u))

FairSpec == Spec /\ Fairness

-----------------------------------------------------------------------------
(* Properties *)

(* Types; rcu_gp.futex is 0 or -1, never lower: wait_gp() must only return *)
(* once a reader has reset the futex, or the decrement of the next loop    *)
(* takes it to -2, which no reader recognises as a sleeping updater.       *)
TypeOK ==
  /\ gp_ctr \in {0, 1}
  /\ futex \in {-1, 0}
  /\ ctr \in [Readers -> Ctr]
  /\ mem \in [Readers -> Ctr]
  /\ sb \in [Readers -> Seq(Ctr)]
  /\ gctr \in [Readers -> {0, 1}]
  /\ list \in [Readers -> {"none", "registry", "cur_snap", "qs"}]
  /\ gp_lock \in Updaters \cup {NoThread}
  /\ registry_lock \in Updaters \cup {NoThread}
  /\ gp_waiters \in Seq(Updaters)
  /\ state \in [Updaters -> SUBSET {"WAKEUP", "RUNNING", "TEARDOWN"}]
  /\ waiters \in [Updaters -> Seq(Updaters)]
  /\ pass \in {1, 2}
  /\ wait_loops \in 0..Attempts
  /\ todo \in SUBSET Readers
  /\ ipi \in SUBSET Readers
  /\ pc \in [Threads -> {"idle"} \cup ReaderPc \cup SyncPc]
  /\ pre \in [Updaters -> SUBSET Readers]

(* "Wait until every pre-existing RCU read-side critical section has       *)
(* completed": the sections in progress when synchronize_rcu() was called  *)
(* are over when its leader is past the grace period, and when a waiter it *)
(* has batched is told so.                                                 *)
GracePeriodGuarantee ==
  \A u \in Updaters :
    (pc[u] \in WakePc \/ "WAKEUP" \in state[u]) => pre[u] = {}

(* Between grace periods every registered reader is on the registry: none  *)
(* is left on the list heads of a returned synchronize_rcu() frame, where  *)
(* the next grace period would not see it.                                 *)
ListsRestored ==
  gp_lock = NoThread => \A r \in Readers : list[r] \in {"none", "registry"}

(* A leader never touches the wait node of a call that has returned: the   *)
(* node lives on the waiter's stack and URCU_WAIT_TEARDOWN hands it back.  *)
WaitNodeAlive ==
  \A u \in Updaters :
    pc[u] \in WakePc =>
      \A i \in 1..Len(waiters[u]) :
        waiters[u][i] = u \/ pc[waiters[u][i]] \in WaitPc

(* The assertion of urcu_adaptative_wake_up(): the node it wakes is still  *)
(* URCU_WAIT_WAITING, so nobody is woken twice and no leader wakes itself. *)
WakesWaiting ==
  \A u \in Updaters : pc[u] = "wk_store" => state[Target(u)] = {}

(* An updater asleep on rcu_gp.futex has a reader that will wake it: one   *)
(* of the readers it waits for has yet to test the futex, or some reader   *)
(* has seen the futex at -1 and is about to reset it or to call FUTEX_WAKE.*)
SleeperHasWaker ==
  \A u \in Updaters :
    pc[u] = "gp_sleep" =>
      \/ \E r \in Readers : pc[r] = "wake_store"
      \/ futex = 0 /\ \E r \in Readers : pc[r] = "wake_call"
      \/ futex = -1 /\ \E r \in Input : ctr[r].nest > 0 \/ pc[r] = "wake_load"

(* A waiter asleep in urcu_adaptative_busy_wait() that has been told to    *)
(* wake up has a leader about to call FUTEX_WAKE on its node.              *)
WaiterHasWaker ==
  \A w \in Updaters :
    pc[w] = "wait_sleep" /\ state[w] # {} =>
      \E u \in Updaters : /\ pc[u] \in {"wk_check", "wk_futex"}
                          /\ waiters[u] # <<>>
                          /\ Target(u) = w

(* The flavour implements the abstract grace period. *)
R == INSTANCE Rcu WITH cs <- {r \in Readers : InCS(r)},
                       syncing <- {u \in Updaters : pc[u] \in SyncPc}

ImplementsRcu == R!Spec

(* Every synchronize_rcu() returns, although readers keep coming and their *)
(* sections overlap: no wakeup is lost and nobody is starved by them.      *)
SyncReturns ==
  \A u \in Updaters : pc[u] \in SyncPc ~> pc[u] = "idle"
=============================================================================
