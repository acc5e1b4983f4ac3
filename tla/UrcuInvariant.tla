--------------------------- MODULE UrcuInvariant ---------------------------
(* The inductive invariant behind the safety properties of Urcu. *)
EXTENDS Urcu

HoldsGp == {"move", "reg_lock"} \cup GpPc
HoldsRegistry == {"mb_start", "loop", "mb_futex", "scan", "mb_clear",
                  "mb_wait", "passed", "mb_end", "out"}

(* The owner of a mutex is where the code holds it. *)
LockInv ==
  \A u \in Updaters : /\ gp_lock = u <=> pc[u] \in HoldsGp
                      /\ registry_lock = u <=> pc[u] \in HoldsRegistry

(* A reader inside a library call is registered; so is one in a section.   *)
ReaderInv ==
  \A r \in Readers :
    /\ pc[r] \in ReaderPc \ {"lock_mb"} => ctr[r].nest = 0
    /\ pc[r] \in SyncPc => ctr[r].nest = 0
    /\ pc[r] = "lock_mb" => ~HasMembarrier
    /\ pc[r] \in ReaderPc \/ ctr[r].nest > 0 => list[r] # "none"
    /\ list[r] = "none" => sb[r] = <<>>

(* Only readers are in read-side calls, only updaters in synchronize_rcu().*)
RoleInv ==
  \A t \in Threads : /\ pc[t] \in ReaderPc => t \in Readers
                     /\ pc[t] \in SyncPc => t \in Updaters

(* The last pending store, or else memory, is what the thread itself sees. *)
BufferInv ==
  \A r \in Readers :
    IF sb[r] = <<>> THEN mem[r] = ctr[r] ELSE sb[r][Len(sb[r])] = ctr[r]

(* Whatever of r's counter becomes visible shows the section r is in. *)
Steady(r) ==
  /\ mem[r].nest > 0
  /\ mem[r].phase = ctr[r].phase
  /\ \A i \in 1..Len(sb[r]) : /\ sb[r][i].nest > 0
                              /\ sb[r][i].phase = ctr[r].phase

(* With fences in the readers a section is visible as soon as it starts. *)
FenceInv ==
  ~HasMembarrier => \A r \in Readers : InCS(r) => Steady(r)

(* A synchronize_rcu() waits for sections that are still in progress. *)
PreInv ==
  \A w \in Updaters : \A r \in pre[w] : InCS(r)

(* The calls whose grace period the leader u is running. *)
Served(u) == {u} \cup {waiters[u][i] : i \in 1..Len(waiters[u])}

(* Which list a pre-existing section's reader is on, and its parity: it is *)
(* visible once the first barrier has reached it, it can only leave the    *)
(* registry for the snapshot, and after the flip its parity is the old one.*)
Tracked(u, r) ==
  /\ ~(pc[u] = "mb_start" /\ r \in ipi) => Steady(r)
  /\ pass = 1 => /\ list[r] \in {"registry", "cur_snap"}
                 /\ list[r] = "cur_snap" => ctr[r].phase = gp_ctr
  /\ pass = 2 => /\ list[r] = "cur_snap"
                 /\ ctr[r].phase # gp_ctr

GraceInv ==
  \A u \in Updaters : \A w \in Served(u) :
    /\ pc[u] \in GpPc \ {"mb_end", "out"} => \A r \in pre[w] : Tracked(u, r)
    /\ pc[u] \in {"mb_end", "out"} \cup WakePc => pre[w] = {}

(* Between the splice and the next scan only the registry is in use; the   *)
(* scan only looks at readers of its input list, which it has emptied when *)
(* wait_for_readers() returns.                                             *)
Restored == \A r \in Readers : list[r] \in {"none", "registry"}

ListInv ==
  /\ gp_lock = NoThread => Restored
  /\ \A u \in Updaters :
       /\ pc[u] \in {"move", "reg_lock", "mb_start", "mb_end", "out"}
            => Restored
       /\ pc[u] = "mb_start" => pass = 1
       /\ pc[u] = "scan" => todo \subseteq Input
       /\ pc[u] \in {"mb_clear", "passed"} => Input = {}

(* The futex is armed only while the leader may sleep on it. *)
Armed(u) == \/ pc[u] \in {"mb_futex", "mb_clear", "mb_wait", "gp_futex",
                          "gp_sleep"}
            \/ pc[u] = "scan" /\ Sleepy(wait_loops)

FutexInv ==
  /\ futex # 0 => futex = -1 /\ \E u \in Updaters : Armed(u)
  /\ \A u \in Updaters : pc[u] = "mb_futex" => Sleepy(wait_loops)

(* A reader whose counter may look active to a leader that has armed the   *)
(* futex has yet to test it: it is in a section or before the wakeup.      *)
WillWake(r) == ctr[r].nest > 0 \/ pc[r] \in {"wake_load", "wake_store"}

MayLookActive(r) == mem[r].nest > 0 \/ sb[r] # <<>>

SleepInv ==
  \A u \in Updaters :
    /\ futex = -1 /\ Armed(u) =>
         \A r \in Readers :
           MayLookActive(r) /\ ~(pc[u] = "mb_futex" /\ r \in ipi)
             => WillWake(r)
    /\ futex = -1 /\ pc[u] = "scan" =>
         \A r \in Input \ todo : WillWake(r)
    /\ futex = -1 /\ pc[u] \in {"mb_wait", "gp_futex", "gp_sleep"} =>
         \E r \in Input : WillWake(r)
    /\ pc[u] = "gp_sleep" /\ futex = 0 =>
         \E r \in Readers : pc[r] = "wake_call"

(* With fences in the readers, the futex is tested after the store is out. *)
FencedWakeInv ==
  ~HasMembarrier =>
    \A r \in Readers : sb[r] # <<>> /\ ctr[r].nest = 0 => pc[r] = "wake_load"

(* Waiting updaters: each is in at most one queue, once, and is not awake; *)
(* the oldest entry of gp_waiters is the next leader.                      *)
Asleep(w) == pc[w] \in {"wait_link", "wait", "wait_sleep"} /\ state[w] = {}

StackInv ==
  /\ \A i \in 1..Len(gp_waiters) :
       /\ i < Len(gp_waiters) => Asleep(gp_waiters[i])
       /\ i = Len(gp_waiters) =>
            pc[gp_waiters[i]] \in {"lead_link", "gp_lock", "move"}
       /\ \A j \in 1..Len(gp_waiters) : gp_waiters[i] = gp_waiters[j] => i = j
  /\ \A u \in Updaters :
       pc[u] \in {"lead_link", "gp_lock", "move"} =>
         gp_waiters # <<>> /\ gp_waiters[Len(gp_waiters)] = u

(* A batch: whose it may be, that nobody is queued twice, and the state of *)
(* its entries.  Entry 1 is the one the leader is waking.                  *)
BatchPc ==
  \A u \in Updaters :
    /\ waiters[u] # <<>> => pc[u] \in {"reg_lock"} \cup GpPc \cup WakePc
    /\ pc[u] \in WakePc \ {"wk_next"} => waiters[u] # <<>>

BatchUnique ==
  \A u \in Updaters : \A i \in 1..Len(waiters[u]) :
    /\ \A j \in 1..Len(gp_waiters) : waiters[u][i] # gp_waiters[j]
    /\ \A v \in Updaters : \A j \in 1..Len(waiters[v]) :
         waiters[u][i] = waiters[v][j] => u = v /\ i = j

Waking(u) == pc[u] \in {"wk_check", "wk_futex", "wk_teardown"}

LeaderEntry(u, i, w) ==
  w = u /\ state[u] = {"RUNNING"} /\ (i = 1 => pc[u] \notin WakePc \ {"wk_next"})

AsleepEntry(u, i, w) == Asleep(w) /\ (i = 1 => ~Waking(u))

WokenEntry(u, i, w) ==
  /\ i = 1 /\ Waking(u)
  /\ pc[w] \in WaitPc
  /\ "WAKEUP" \in state[w] /\ "TEARDOWN" \notin state[w]

Entry(u, i, w) ==
  LeaderEntry(u, i, w) \/ AsleepEntry(u, i, w) \/ WokenEntry(u, i, w)

BatchInv ==
  /\ BatchPc
  /\ BatchUnique
  /\ \A u \in Updaters : \A i \in 1..Len(waiters[u]) :
       Entry(u, i, waiters[u][i])

WaiterInv ==
  \A w \in Updaters :
    /\ pc[w] \in {"wait_link", "wait", "wait_sleep"} =>
         /\ "RUNNING" \notin state[w]
         /\ state[w] = {} \/ "WAKEUP" \in state[w]
    /\ pc[w] \in {"wait_running", "wait_teardown"} => "WAKEUP" \in state[w]
    /\ pc[w] \in SyncPc \ (WaitPc \cup {"lead_link"}) =>
         state[w] = {"RUNNING"}
    /\ pc[w] = "lead_link" => state[w] = {}
    /\ "WAKEUP" \in state[w] => pre[w] = {}

IInv == /\ TypeOK /\ LockInv /\ RoleInv /\ ReaderInv
        /\ BufferInv /\ FenceInv /\ PreInv
        /\ GraceInv /\ ListInv
        /\ FutexInv /\ SleepInv /\ FencedWakeInv
        /\ StackInv /\ BatchInv /\ WaiterInv /\ WaiterHasWaker
============================================================================
