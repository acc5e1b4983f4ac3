-------------------------------- MODULE Qsbr --------------------------------
(***************************************************************************)
(* The quiescent-state flavour: src/urcu-qsbr.c and static/urcu-qsbr.h.    *)
(*                                                                         *)
(* Readers announce quiescent states; the stores that do are followed by   *)
(* full barriers, so shared words are modelled as sequentially consistent, *)
(* each load and each store being a step.  The handshake on the wait nodes *)
(* of batched callers is one step here: module Urcu has its detail.        *)
(***************************************************************************)
EXTENDS Integers

CONSTANTS Readers,    \* threads that register as readers
          Updaters,   \* threads that call synchronize_rcu(), readers or not
          NoThread,   \* "no owner" of a mutex
          Attempts,   \* RCU_QS_ACTIVE_ATTEMPTS
          MaxGp       \* bound: grace periods, when the counter is wide

VARIABLES
  wide,    \* CAA_BITS_PER_LONG >= 64, which selects synchronize_rcu()
  gp,      \* urcu_qsbr_gp: ctr and futex; the mutexes; gp_waiters; and the
           \*   locals of the grace period: pass, loops, todo
  rd,      \* urcu_qsbr_reader: ctr, waiting, list; gctr is the loaded counter
           \*   and after what follows the call in progress
  batch,   \* the waiters a leader has moved out of gp_waiters
  pc,      \* control point of each thread
  pre      \* history: sections each synchronize_rcu() must outlast

vars == <<wide, gp, rd, batch, pc, pre>>

Threads == Readers \cup Updaters
ONLINE == 1     \* URCU_QSBR_GP_ONLINE
GP_CTR == 2     \* URCU_QSBR_GP_CTR

Goto(t, l) == pc' = [pc EXCEPT ![t] = l]
Gp(g) == gp' = g

(* In a section: online, and in none of the calls that end or start one. *)
InCS(r) == rd[r].ctr # 0 /\ pc[r] = "idle"
Ended(r) == pre' = [u \in Updaters |-> pre[u] \ {r}]

Init ==
  /\ wide \in BOOLEAN
  /\ gp = [ctr |-> ONLINE, futex |-> 0, lock |-> NoThread, reg |-> NoThread,
           waiters |-> {}, pass |-> 1, loops |-> 0, todo |-> {}]
  /\ rd = [r \in Readers |-> [ctr |-> 0, gctr |-> 0, waiting |-> FALSE,
                              list |-> "none", after |-> "idle"]]
  /\ batch = [u \in Updaters |-> {}]
  /\ pc = [t \in Threads |-> "idle"]
  /\ pre = [u \in Updaters |-> {}]

-----------------------------------------------------------------------------
(* Readers *)

Register(r) ==
  /\ pc[r] = "idle"
  /\ rd[r].list = "none"
  /\ gp.reg = NoThread
  /\ rd' = [rd EXCEPT ![r].list = "registry"]
  /\ Goto(r, "on_load")
  /\ UNCHANGED <<gp, batch, pre>>

(* urcu_qsbr_thread_online(): load the global counter ... *)
Online(r) ==
  /\ pc[r] = "idle" /\ rd[r].list # "none" /\ rd[r].ctr = 0
  /\ Goto(r, "on_load")
  /\ UNCHANGED <<gp, rd, batch, pre>>

OnlineLoad(r) ==
  /\ pc[r] = "on_load"
  /\ rd' = [rd EXCEPT ![r].gctr = gp.ctr]
  /\ Goto(r, "on_store")
  /\ UNCHANGED <<gp, batch, pre>>

(* ... and store it, at any later time, in the thread's own. *)
OnlineStore(r) ==
  /\ pc[r] = "on_store"
  /\ rd' = [rd EXCEPT ![r].ctr = rd[r].gctr]
  /\ Goto(r, "idle")
  /\ UNCHANGED <<gp, batch, pre>>

(* urcu_qsbr_quiescent_state(): nothing to report if the counters match. *)
Quiescent(r) ==
  /\ InCS(r)
  /\ Ended(r)
  /\ rd' = [rd EXCEPT ![r].gctr = gp.ctr]
  /\ Goto(r, IF gp.ctr = rd[r].ctr THEN "qs_skip" ELSE "qs_store")
  /\ UNCHANGED <<gp, batch>>

QuiescentSkip(r) ==
  /\ pc[r] = "qs_skip"
  /\ Goto(r, "idle")
  /\ UNCHANGED <<gp, rd, batch, pre>>

(* Variant: the updater is not woken up. *)
QuiescentStoreSilent(r) ==
  /\ pc[r] = "qs_store"
  /\ rd' = [rd EXCEPT ![r].ctr = rd[r].gctr, ![r].after = "idle"]
  /\ Goto(r, "idle")
  /\ UNCHANGED <<gp, batch, pre>>

QuiescentStore(r) ==
  /\ pc[r] = "qs_store"
  /\ rd' = [rd EXCEPT ![r].ctr = rd[r].gctr, ![r].after = "idle"]
  /\ Goto(r, "wake")
  /\ UNCHANGED <<gp, batch, pre>>

(* urcu_qsbr_thread_offline(), which may be called offline too; next says  *)
(* what the caller does after it.                                          *)
GoOffline(r, next) ==
  /\ pc[r] = "idle" /\ rd[r].list # "none"
  /\ Ended(r)
  /\ rd' = [rd EXCEPT ![r].ctr = 0, ![r].after = next]
  /\ Goto(r, "wake")
  /\ UNCHANGED <<gp, batch>>

Offline(r) == GoOffline(r, "idle")
Unregister(r) == GoOffline(r, "unregister")

(* cds_list_del() takes the node off whichever list it is on. *)
UnregisterDel(r) ==
  /\ pc[r] = "unregister"
  /\ gp.reg = NoThread
  /\ rd' = [rd EXCEPT ![r].list = "none"]
  /\ Goto(r, "idle")
  /\ UNCHANGED <<gp, batch, pre>>

(* urcu_qsbr_wake_up_gp(): waiting, cleared before the futex is tested. *)
Wake(r) ==
  /\ pc[r] = "wake"
  /\ Goto(r, IF rd[r].waiting THEN "wake_clear" ELSE rd[r].after)
  /\ UNCHANGED <<gp, rd, batch, pre>>

WakeClear(r) ==
  /\ pc[r] = "wake_clear"
  /\ rd' = [rd EXCEPT ![r].waiting = FALSE]
  /\ Goto(r, "wake_futex")
  /\ UNCHANGED <<gp, batch, pre>>

WakeFutex(r) ==
  /\ pc[r] = "wake_futex"
  /\ Goto(r, IF gp.futex = -1 THEN "wake_store" ELSE rd[r].after)
  /\ UNCHANGED <<gp, rd, batch, pre>>

WakeStore(r) ==
  /\ pc[r] = "wake_store"
  /\ Gp([gp EXCEPT !.futex = 0])
  /\ Goto(r, "wake_call")
  /\ UNCHANGED <<rd, batch, pre>>

WakeCall(r) ==
  /\ pc[r] = "wake_call"
  /\ pc' = [t \in Threads |-> IF t = r THEN rd[r].after
                              ELSE IF pc[t] = "asleep" THEN "wait_gp" ELSE pc[t]]
  /\ UNCHANGED <<gp, rd, batch, pre>>

-----------------------------------------------------------------------------
(* urcu_qsbr_synchronize_rcu() *)

(* A caller that is online goes offline for the time of the call. *)
Sync(u) ==
  /\ pc[u] = "idle"
  /\ wide => gp.ctr < ONLINE + MaxGp * GP_CTR
  /\ \/ u \in Readers /\ rd[u].ctr # 0 /\ GoOffline(u, "push")
     \/ /\ u \in Readers => rd[u].ctr = 0
        /\ rd' = IF u \in Readers THEN [rd EXCEPT ![u].after = "idle"] ELSE rd
        /\ Goto(u, "push")
        /\ UNCHANGED <<gp, batch, pre>>

(* urcu_wait_add(): the first of the stack leads. *)
SyncPush(u) ==
  /\ pc[u] = "push"
  /\ pre' = [pre EXCEPT ![u] = {r \in Readers : InCS(r)}]
  /\ Gp([gp EXCEPT !.waiters = @ \cup {u}])
  /\ Goto(u, IF gp.waiters = {} THEN "lock" ELSE "waiting")
  /\ UNCHANGED <<rd, batch>>

GpLock(u) ==
  /\ pc[u] = "lock"
  /\ gp.lock = NoThread
  /\ batch' = [batch EXCEPT ![u] = gp.waiters]
  /\ Gp([gp EXCEPT !.lock = u, !.waiters = {}])
  /\ Goto(u, "reg_lock")
  /\ UNCHANGED <<rd, pre>>

OnList(l) == {r \in Readers : rd[r].list = l}

(* 64 bits: a new count.  32 bits: two passes around a change of parity. *)
RegLock(u) ==
  /\ pc[u] = "reg_lock"
  /\ gp.reg = NoThread
  /\ \/ /\ OnList("registry") = {}
        /\ Gp([gp EXCEPT !.reg = u])
        /\ Goto(u, "out")
     \/ /\ OnList("registry") # {}
        /\ Gp([gp EXCEPT !.reg = u, !.loops = 0, !.pass = 1,
                         !.ctr = IF wide THEN @ + GP_CTR ELSE @])
        /\ Goto(u, "loop")
  /\ UNCHANGED <<rd, batch, pre>>

(* wait_for_readers() *)
Input == OnList(IF gp.pass = 1 THEN "registry" ELSE "cur_snap")
Sleepy == gp.loops >= Attempts

Loop(u) ==
  /\ pc[u] = "loop"
  /\ LET n == IF gp.loops < Attempts THEN gp.loops + 1 ELSE gp.loops IN
       /\ Gp([gp EXCEPT !.loops = n, !.todo = Input,
                        !.futex = IF n >= Attempts THEN -1 ELSE @])
       /\ Goto(u, IF n >= Attempts THEN "ask" ELSE "scan")
  /\ UNCHANGED <<rd, batch, pre>>

(* Ask every reader still waited for to wake us up, ... *)
Ask(u) ==
  /\ pc[u] = "ask"
  /\ \/ \E r \in gp.todo : /\ rd' = [rd EXCEPT ![r].waiting = TRUE]
                           /\ Gp([gp EXCEPT !.todo = @ \ {r}])
                           /\ UNCHANGED pc
     \/ /\ gp.todo = {}
        /\ Gp([gp EXCEPT !.todo = Input])
        /\ Goto(u, "scan")
        /\ UNCHANGED rd
  /\ UNCHANGED <<batch, pre>>

(* Variant: an online reader is quiescent whatever count it has seen. *)
ScanToAny(r) == "qs"

(* ... and sort the readers by urcu_qsbr_reader_state(). *)
ScanTo(r) ==
  CASE rd[r].ctr = 0 -> "qs"
    [] rd[r].ctr = gp.ctr -> IF ~wide /\ gp.pass = 1 THEN "cur_snap" ELSE "qs"
    [] OTHER -> rd[r].list

Scan(u) ==
  /\ pc[u] = "scan"
  /\ \E r \in gp.todo : /\ rd' = [rd EXCEPT ![r].list = ScanTo(r)]
                        /\ Gp([gp EXCEPT !.todo = @ \ {r}])
  /\ UNCHANGED <<batch, pc, pre>>

ScanDone(u) ==
  /\ pc[u] = "scan"
  /\ gp.todo = {}
  /\ \/ /\ Input = {}
        /\ Gp([gp EXCEPT !.futex = IF Sleepy THEN 0 ELSE @])
        /\ Goto(u, "passed")
     \/ /\ Input # {}
        /\ Gp([gp EXCEPT !.reg = NoThread])
        /\ Goto(u, IF Sleepy THEN "wait_gp" ELSE "relock")
  /\ UNCHANGED <<rd, batch, pre>>

WaitGp(u) ==
  /\ pc[u] = "wait_gp"
  /\ Goto(u, IF gp.futex = -1 THEN "asleep" ELSE "relock")
  /\ UNCHANGED <<gp, rd, batch, pre>>

(* EINTR, or a wakeup meant for other code on the same address. *)
Spurious(u) ==
  /\ pc[u] = "asleep"
  /\ Goto(u, "wait_gp")
  /\ UNCHANGED <<gp, rd, batch, pre>>

Relock(u) ==
  /\ pc[u] = "relock"
  /\ gp.reg = NoThread
  /\ Gp([gp EXCEPT !.reg = u])
  /\ Goto(u, "loop")
  /\ UNCHANGED <<rd, batch, pre>>

(* Switch parity after the first pass; splice the readers back at the end. *)
Passed(u) ==
  /\ pc[u] = "passed"
  /\ \/ /\ ~wide /\ gp.pass = 1
        /\ Gp([gp EXCEPT !.pass = 2, !.loops = 0,
                         !.ctr = IF @ = ONLINE THEN ONLINE + GP_CTR ELSE ONLINE])
        /\ Goto(u, "loop")
        /\ UNCHANGED rd
     \/ /\ wide \/ gp.pass = 2
        /\ rd' = [r \in Readers |-> IF rd[r].list = "qs"
                                    THEN [rd[r] EXCEPT !.list = "registry"]
                                    ELSE rd[r]]
        /\ Goto(u, "out")
        /\ UNCHANGED gp
  /\ UNCHANGED <<batch, pre>>

(* Release the mutexes, then the batch. *)
Out(u) ==
  /\ pc[u] = "out"
  /\ Gp([gp EXCEPT !.reg = NoThread, !.lock = NoThread])
  /\ Goto(u, "release")
  /\ UNCHANGED <<rd, batch, pre>>

Release(u) ==
  /\ pc[u] = "release"
  /\ pc' = [t \in Threads |-> IF t \in batch[u] THEN "gp_end" ELSE pc[t]]
  /\ batch' = [batch EXCEPT ![u] = {}]
  /\ UNCHANGED <<gp, rd, pre>>

(* The call returns; a reader that was online comes online again. *)
SyncReturn(u) ==
  /\ pc[u] = "gp_end"
  /\ Goto(u, IF u \in Readers /\ rd[u].after = "push" THEN "on_load" ELSE "idle")
  /\ UNCHANGED <<gp, rd, batch, pre>>

-----------------------------------------------------------------------------
ReaderCall(r) == \/ OnlineLoad(r) \/ OnlineStore(r)
                 \/ QuiescentSkip(r) \/ QuiescentStore(r)
                 \/ Wake(r) \/ WakeClear(r) \/ WakeFutex(r) \/ WakeStore(r)
                 \/ WakeCall(r)

ReaderStep(r) == \/ Register(r) \/ Online(r) \/ Quiescent(r) \/ Offline(r)
                 \/ Unregister(r) \/ UnregisterDel(r) \/ ReaderCall(r)

GpStep(u) == \/ SyncPush(u) \/ Loop(u) \/ Ask(u) \/ Scan(u) \/ ScanDone(u)
             \/ WaitGp(u) \/ Passed(u) \/ Out(u) \/ Release(u) \/ SyncReturn(u)

LockStep(u) == GpLock(u) \/ RegLock(u) \/ Relock(u)

Next == /\ \/ \E r \in Readers : ReaderStep(r)
           \/ \E u \in Updaters :
                Sync(u) \/ GpStep(u) \/ LockStep(u) \/ Spurious(u)
        /\ UNCHANGED wide

Spec == Init /\ [][Next]_vars

-----------------------------------------------------------------------------
SyncPc == {"lock", "waiting", "reg_lock", "loop", "ask", "scan", "wait_gp",
           "asleep", "relock", "passed", "out", "release", "gp_end"}

(* An updater returns only when every reader that was online at its call   *)
(* has announced a quiescent state: the flavour implements the abstract    *)
(* grace period, callers that are readers themselves included.             *)
R == INSTANCE Rcu WITH cs <- {r \in Readers : InCS(r)},
                       syncing <- {u \in Updaters : pc[u] \in SyncPc}

RcuStep == [R!Next]_R!vars

(* The updater asleep on the futex has a waker: a reader it waits for that *)
(* has been asked and has yet to announce its quiescent state, or to look  *)
(* at waiting or at the futex, or one about to call FUTEX_WAKE.            *)
SleeperHasWaker ==
  \A u \in Updaters : pc[u] = "asleep" =>
    \/ \E r \in Readers : pc[r] = "wake_store"
    \/ gp.futex = 0 /\ \E r \in Readers : pc[r] = "wake_call"
    \/ /\ gp.futex = -1
       /\ \E r \in Input : \/ /\ rd[r].waiting
                              /\ ScanTo(r) = rd[r].list \/ pc[r] = "wake"
                           \/ pc[r] \in {"wake_clear", "wake_futex"}

(* A reader is on the list heads of synchronize_rcu()'s frame only while   *)
(* that frame exists.                                                      *)
ListsRestored ==
  gp.lock = NoThread => \A r \in Readers : rd[r].list \in {"none", "registry"}
=============================================================================
