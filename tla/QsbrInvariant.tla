--------------------------- MODULE QsbrInvariant ----------------------------
(***************************************************************************)
(* The inductive invariant of Qsbr.                                        *)
(***************************************************************************)
EXTENDS Qsbr

(* NoThread owns no mutex; the attempts are a count. *)
QsbrAssumption == NoThread \notin Threads /\ Attempts \in Nat /\ MaxGp \in Nat

ReaderPc == {"on_load", "on_store", "qs_skip", "qs_store", "wake", "wake_clear",
             "wake_futex", "wake_store", "wake_call", "unregister"}
RegPc == {"loop", "ask", "scan", "passed", "out"}
GpPc == {"reg_lock", "wait_gp", "asleep", "relock"} \cup RegPc
BatchPc == GpPc \cup {"release"}

GpRecord == [ctr : Nat, futex : {-1, 0}, lock : Updaters \cup {NoThread},
             reg : Updaters \cup {NoThread}, waiters : SUBSET Updaters,
             pass : {1, 2}, loops : Nat, todo : SUBSET Readers]
ReaderRecord == [ctr : Nat, gctr : Nat, waiting : BOOLEAN,
                 list : {"none", "registry", "cur_snap", "qs"},
                 after : {"idle", "unregister", "push"}]
Pcs == {"idle", "push"} \cup ReaderPc \cup SyncPc

TypeOK ==
  /\ wide \in BOOLEAN
  /\ gp \in GpRecord
  /\ rd \in [Readers -> ReaderRecord]
  /\ batch \in [Updaters -> SUBSET Updaters]
  /\ pc \in [Threads -> Pcs]
  /\ pre \in [Updaters -> SUBSET Readers]

(* The holders of the two mutexes. *)
LockInv ==
  /\ \A t \in Threads : gp.lock = t <=> pc[t] \in GpPc
  /\ \A t \in Threads : gp.reg = t <=> pc[t] \in RegPc

(* A counter is odd or, while offline, 0: wide ones lag behind the global  *)
(* counter, narrow ones are one of its two values.                         *)
Seen(c) == IF wide THEN c <= gp.ctr ELSE c \in {1, 3}

CounterOf(r) ==
  /\ rd[r].ctr # 0 => Seen(rd[r].ctr)
  /\ pc[r] \in {"on_store", "qs_store"} => rd[r].gctr # 0 /\ Seen(rd[r].gctr)

CounterInv == /\ gp.ctr # 0 /\ (wide \/ gp.ctr \in {1, 3})
              /\ \A r \in Readers : CounterOf(r)

(* Where a reader is registered or offline. *)
WakePc == {"wake", "wake_clear", "wake_futex", "wake_store", "wake_call"}

Role(r) ==
  /\ rd[r].list = "none" => rd[r].ctr = 0
  /\ pc[r] \in ReaderPc => rd[r].list # "none"
  /\ pc[r] \in {"push"} \cup SyncPc => rd[r].ctr = 0
  /\ pc[r] \in {"push"} \cup SyncPc /\ rd[r].after = "push" => rd[r].list # "none"
  /\ pc[r] \in {"on_load", "on_store", "unregister"} => rd[r].ctr = 0
  /\ pc[r] \in {"qs_skip", "qs_store"} => rd[r].ctr # 0
  /\ pc[r] \in WakePc /\ rd[r].after # "idle" => rd[r].ctr = 0
  /\ pc[r] = "wake_clear" => rd[r].waiting

RoleInv == \A r \in Readers : Role(r)

(* Batches are disjoint, led by one of their own, and the rest of a batch  *)
(* and of gp_waiters wait; the leader-to-be is in gp_waiters.              *)
BatchInv ==
  /\ \A u, v \in Updaters : u \in batch[v] =>
       /\ pc[v] \in BatchPc
       /\ u = v \/ pc[u] = "waiting"
       /\ u \notin gp.waiters
  /\ \A u, v, w \in Updaters : u \in batch[v] /\ u \in batch[w] => v = w
  /\ \A u \in Updaters : pc[u] \in BatchPc => u \in batch[u]
  /\ \A u \in Updaters : u \in gp.waiters => pc[u] \in {"lock", "waiting"}
  /\ \A u \in Updaters : pc[u] = "lock" => u \in gp.waiters
  /\ \A u, v \in Updaters : pc[u] = "lock" /\ pc[v] = "lock" => u = v

(* The lists: whole between grace periods; a pass ends with its input      *)
(* list empty; what a scan has yet to visit is on that list.               *)
ListInv ==
  /\ (gp.lock = NoThread \/ \E u \in Updaters : pc[u] \in {"reg_lock", "out"}) =>
       \A r \in Readers : rd[r].list \in {"none", "registry"}
  /\ wide => \A r \in Readers : rd[r].list # "cur_snap"
  /\ \A u \in Updaters : pc[u] \in GpPc \ {"reg_lock", "out"} /\ wide => gp.pass = 1
  /\ \A u \in Updaters : pc[u] = "passed" => Input = {}
  /\ \A u \in Updaters : pc[u] \in {"ask", "scan"} => gp.todo \subseteq Input

(* A section that a served call must outlast: on 64 bits it has not seen   *)
(* the new count.  On 32 bits it is sorted by its count in the first pass, *)
(* and has the old one in the second.                                      *)
Tracked(r) ==
  \/ wide /\ rd[r].list = "registry" /\ rd[r].ctr # gp.ctr
  \/ ~wide /\ gp.pass = 1 /\ rd[r].list = "registry"
  \/ ~wide /\ gp.pass = 1 /\ rd[r].list = "cur_snap" /\ rd[r].ctr = gp.ctr
  \/ ~wide /\ gp.pass = 2 /\ rd[r].list = "cur_snap" /\ rd[r].ctr # gp.ctr

GraceInv ==
  /\ \A u \in Updaters : \A r \in pre[u] : InCS(r)
  /\ \A u, v \in Updaters : u \in batch[v] =>
       /\ pc[v] \in GpPc \ {"reg_lock", "out"} => \A r \in pre[u] : Tracked(r)
       /\ pc[v] \in {"out", "release"} => pre[u] = {}
  /\ \A u \in Updaters : pc[u] = "gp_end" => pre[u] = {}

(* A reader told to wake the leader, and one that has yet to do so. *)
Told(r) == rd[r].waiting \/ pc[r] = "wake_futex"
Asked(r) == \/ rd[r].waiting /\ (ScanTo(r) = rd[r].list \/ pc[r] = "wake")
            \/ pc[r] \in {"wake_clear", "wake_futex"}

Armed == gp.futex = -1 /\ \A r \in Readers : pc[r] # "wake_store"

(* Between arming the futex and sleeping on it. *)
SleepInv ==
  \A u \in Updaters :
    /\ pc[u] \in {"ask", "wait_gp", "asleep"} => Sleepy
    /\ pc[u] = "ask" /\ Armed => \A r \in Input \ gp.todo : Told(r)
    /\ pc[u] = "scan" /\ Sleepy /\ Armed =>
         /\ \A r \in Input : Told(r)
         /\ \A r \in Input \ gp.todo : Asked(r)
    /\ pc[u] \in {"wait_gp", "asleep"} /\ Armed => \E r \in Input : Asked(r)
    /\ pc[u] = "asleep" /\ gp.futex = 0 =>
         \E r \in Readers : pc[r] \in {"wake_store", "wake_call"}

IInv == /\ TypeOK /\ LockInv /\ CounterInv /\ RoleInv /\ BatchInv /\ ListInv
        /\ GraceInv /\ SleepInv
=============================================================================
