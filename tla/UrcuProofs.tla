----------------------------- MODULE UrcuProofs -----------------------------
(***************************************************************************)
(* The two waiting protocols of Urcu: the leader asleep on rcu_gp.futex,   *)
(* and the batched waiters asleep on their wait nodes.  Then the theorems: *)
(* what every behaviour of Urcu satisfies, for any number of readers and   *)
(* updaters, any nesting depth, any buffer size and any spin limit.        *)
(***************************************************************************)
EXTENDS UrcuGraceProofs

(* A reader that has yet to test the futex keeps having to while it is -1. *)
LEMMA WillWakeKept ==
  ASSUME TypeOK, RoleInv, ReaderInv, NEW q \in Readers,
         ReaderStep(q) \/ Hardware(q), futex' = -1
  PROVE  /\ futex = -1
         /\ \A r \in Readers : WillWake(r) => WillWake(r)'
         /\ \A r \in Readers : MayLookActive(r)' => \/ MayLookActive(r)
                                                    \/ WillWake(r)'
         /\ \A r \in Readers : r \in ipi /\ r \notin ipi' =>
              (MayLookActive(r)' => WillWake(r)')
<1> USE UrcuAssumption
<1>f. \A r \in Readers \ {q} :
         /\ UNCHANGED <<ctr[r], mem[r], sb[r]>>
         /\ pc'[r] = pc[r] \/ (pc[r] = "gp_sleep" /\ pc'[r] = "gp_futex")
  BY Zenon, ReaderFrame DEF Threads
<1>n. ctr[q].nest \in 0..MaxNest
  BY Zenon DEF TypeOK, Ctr
<1> DEFINE Kept == /\ futex = -1
                   /\ WillWake(q) => WillWake(q)'
                   /\ MayLookActive(q)' => MayLookActive(q) \/ WillWake(q)'
                   /\ ipi' = ipi \/ (ipi' = ipi \ {q}
                                     /\ (MayLookActive(q)' => WillWake(q)'))
<1>k. ASSUME Kept
      PROVE  /\ futex = -1
             /\ \A r \in Readers : WillWake(r) => WillWake(r)'
             /\ \A r \in Readers : MayLookActive(r)' => \/ MayLookActive(r)
                                                        \/ WillWake(r)'
             /\ \A r \in Readers : r \in ipi /\ r \notin ipi' =>
                  (MayLookActive(r)' => WillWake(r)')
  <2>1. \A r \in Readers \ {q} : /\ WillWake(r) => WillWake(r)'
                                 /\ MayLookActive(r)' => MayLookActive(r)
    BY Zenon, <1>f DEF WillWake, MayLookActive
  <2> QED
    BY Zenon, <1>k, <2>1
<1> USE DEF WillWake, MayLookActive, readerVars, Goto, Threads
<1>1. CASE Register(q)
  BY Zenon, <1>1, <1>k DEF Register
<1>2. CASE Unregister(q)
  BY Zenon, <1>2, <1>k DEF Unregister
<1>3. CASE ReadLock(q)
  BY Zenon, <1>3, <1>k DEF ReadLock, TypeOK
<1>4. CASE ReadLockStore(q)
  BY <1>4, <1>k, <1>n DEF ReadLockStore, StoreCtr, TypeOK
<1>5. CASE ReadLockBarrier(q)
  BY Zenon, <1>5, <1>k DEF ReadLockBarrier, TypeOK
<1>6. CASE ReadLockNested(q)
  BY SMTT(30), <1>6, <1>k, <1>n DEF ReadLockNested, StoreCtr, WithNest, TypeOK
<1>7. CASE ReadUnlock(q)
  BY Zenon, <1>7, <1>k, <1>n DEF ReadUnlock, TypeOK
<1>8. CASE ReadUnlockNested(q)
  BY SMTT(30), <1>8, <1>k, <1>n DEF ReadUnlockNested, StoreCtr, WithNest, TypeOK
<1>9. CASE WakeLoad(q)
  BY Zenon, <1>9, <1>k DEF WakeLoad, TypeOK
<1>10. CASE WakeStore(q)
  BY <1>10, <1>k DEF WakeStore
<1>11. CASE WakeCall(q)
  BY ZenonT(30), <1>11, <1>k DEF WakeCall, TypeOK, ReaderInv, ReaderPc
<1>12. CASE Flush(q)
  <2>1. MayLookActive(q)
    BY Zenon, <1>12 DEF Flush
  <2> QED
    BY Zenon, <1>12, <1>k, <2>1 DEF Flush
<1>13. CASE MasterBarrierReach(q)
  BY <1>13, <1>k, <1>n DEF MasterBarrierReach, TypeOK
<1> QED
  BY ZenonT(30), <1>1, <1>2, <1>3, <1>4, <1>5, <1>6, <1>7, <1>8, <1>9, <1>10, <1>11,
     <1>12, <1>13
  DEF ReaderStep, ReaderCall, Hardware

(* No step of a reader leaves the armed leader without a waker. *)
LEMMA SleepReaderStep ==
  ASSUME IInv, NEW q \in Readers, ReaderStep(q) \/ Hardware(q)
  PROVE  SleepInv'
<1> USE UrcuAssumption
<1>t. TypeOK /\ RoleInv /\ ReaderInv /\ SleepInv
  BY Zenon DEF IInv
<1> SUFFICES ASSUME NEW u \in Updaters
    PROVE
    /\ futex' = -1 /\ Armed(u)' =>
         \A r \in Readers :
           MayLookActive(r)' /\ ~(pc'[u] = "mb_futex" /\ r \in ipi')
             => WillWake(r)'
    /\ futex' = -1 /\ pc'[u] = "scan" =>
         \A r \in Input' \ todo' : WillWake(r)'
    /\ futex' = -1 /\ pc'[u] \in {"mb_wait", "gp_futex", "gp_sleep"} =>
         \E r \in Input' : WillWake(r)'
    /\ pc'[u] = "gp_sleep" /\ futex' = 0 =>
         \E r \in Readers : pc'[r] = "wake_call"
  BY Zenon DEF SleepInv
<1>f. /\ UNCHANGED <<pass, wait_loops, todo>>
      /\ \/ pc'[u] = pc[u]
         \/ pc[u] = "gp_sleep" /\ pc'[u] = "gp_futex"
         \/ pc'[u] \in {"idle"} \cup ReaderPc
  BY Zenon, <1>t, ReaderFrame DEF Threads
<1>a. /\ Armed(u)' => Armed(u)
      /\ pc'[u] \in {"scan", "mb_futex", "mb_wait", "gp_sleep"}
           => pc'[u] = pc[u]
      /\ pc'[u] = "gp_futex" => pc[u] \in {"gp_futex", "gp_sleep"}
  BY ZenonT(30), <1>f DEF Armed, ReaderPc
<1>l. \/ list' = list
      \/ list[q] = "none" /\ pc[q] = "idle" /\ list' = [list EXCEPT ![q] = "registry"]
         /\ registry_lock = NoThread
      \/ ~WillWake(q) /\ list' = [list EXCEPT ![q] = "none"]
  BY <1>t DEF ReaderStep, ReaderCall, Hardware, Register, Unregister, ReadLock,
         ReadLockStore, ReadLockBarrier, ReadLockNested, ReadUnlock,
         ReadUnlockNested, WakeLoad, WakeStore, WakeCall, Flush,
         MasterBarrierReach, WillWake, TypeOK
<1>1. ASSUME futex' = -1, Armed(u)', NEW r \in Readers, MayLookActive(r)',
             ~(pc'[u] = "mb_futex" /\ r \in ipi')
      PROVE  WillWake(r)'
  <2>1. CASE r \in ipi /\ r \notin ipi'
    BY ZenonT(30), <1>1, <1>t, <2>1, WillWakeKept
  <2>2. CASE ~(r \in ipi /\ r \notin ipi')
    <3>1. ~(pc[u] = "mb_futex" /\ r \in ipi)
      BY Zenon, <1>1, <1>f, <1>a, <2>2 DEF Armed, ReaderPc
    <3>2. futex = -1 /\ (MayLookActive(r) \/ WillWake(r)')
      BY Zenon, <1>1, <1>t, WillWakeKept
    <3>3. MayLookActive(r) => WillWake(r)
      BY Zenon, <1>1, <1>a, <1>t, <3>1, <3>2 DEF SleepInv
    <3> QED
      BY Zenon, <1>1, <1>t, <3>2, <3>3, WillWakeKept
  <2> QED
    BY Zenon, <2>1, <2>2
<1>2. ASSUME futex' = -1, pc'[u] = "scan" PROVE Input' \subseteq Input
  <2>1. registry_lock # NoThread
    BY Zenon, <1>2, <1>a DEF IInv, LockInv, HoldsRegistry
  <2> QED
    BY Zenon, <1>t, <1>f, <1>l, <2>1 DEF Input, OnList, TypeOK
<1>3. ASSUME futex' = -1, pc'[u] = "scan", NEW r \in Input' \ todo'
      PROVE  WillWake(r)'
  <2>1. r \in Input \ todo /\ r \in Readers
    BY Zenon, <1>2, <1>3, <1>f DEF Input, OnList
  <2>2. futex = -1 /\ WillWake(r)
    BY Zenon, <1>3, <1>a, <1>t, <2>1, WillWakeKept DEF SleepInv
  <2> QED
    BY Zenon, <1>3, <1>t, <2>1, <2>2, WillWakeKept
<1>4. ASSUME futex' = -1, pc'[u] \in {"mb_wait", "gp_futex", "gp_sleep"}
      PROVE  \E r \in Input' : WillWake(r)'
  <2>1. futex = -1 /\ pc[u] \in {"mb_wait", "gp_futex", "gp_sleep"}
    BY Zenon, <1>4, <1>a, <1>t, WillWakeKept
  <2>2. PICK r \in Input : WillWake(r)
    BY Zenon, <1>t, <2>1 DEF SleepInv
  <2>3. r \in Readers /\ WillWake(r)'
    BY Zenon, <1>4, <1>t, <2>2, WillWakeKept DEF Input, OnList
  <2>4. list'[r] = list[r]
    BY Zenon, <1>t, <1>l, <2>2, <2>3 DEF TypeOK, Input, OnList
  <2>5. r \in Input'
    BY ZenonT(30), <1>f, <2>2, <2>3, <2>4 DEF Input, OnList
  <2> QED
    BY Zenon, <2>3, <2>5
<1>5. ASSUME pc'[u] = "gp_sleep", futex' = 0
      PROVE  \E r \in Readers : pc'[r] = "wake_call"
  <2>1. CASE WakeStore(q)
    BY Zenon, <1>t, <2>1 DEF WakeStore, Goto, TypeOK, Threads
  <2>2. CASE WakeCall(q)
    BY Zenon, <1>t, <1>5, <2>2 DEF WakeCall, TypeOK, Threads
  <2>3. CASE futex' = futex /\ ~WakeCall(q)
    <3>1. PICK r \in Readers : pc[r] = "wake_call"
      BY ZenonT(30), <1>a, <1>5, <1>t, <2>3 DEF SleepInv
    <3>2. CASE r = q
      BY Zenon, <1>t, <2>3, <3>1, <3>2
      DEF ReaderStep, ReaderCall, Hardware, Register, Unregister, ReadLock,
          ReadLockStore, ReadLockBarrier, ReadLockNested, ReadUnlock,
          ReadUnlockNested, WakeLoad, WakeStore, Flush, MasterBarrierReach
    <3>3. CASE r # q
      BY Zenon, <1>t, <3>1, <3>3, ReaderFrame DEF Threads
    <3> QED
      BY Zenon, <3>2, <3>3
  <2> QED
    BY Zenon, <2>1, <2>2, <2>3
    DEF ReaderStep, ReaderCall, Hardware, Register, Unregister, ReadLock,
        ReadLockStore, ReadLockBarrier, ReadLockNested, ReadUnlock,
        ReadUnlockNested, WakeLoad, Flush, MasterBarrierReach
<1> QED
  BY Zenon, <1>1, <1>3, <1>4, <1>5

(* Nor does a step of an updater, the leader included. *)
LEMMA SleepUpdaterStep ==
  ASSUME IInv, NEW a \in Updaters, UpdaterStep(a)
  PROVE  SleepInv'
<1> USE UrcuAssumption
<1>t. /\ TypeOK /\ RoleInv /\ ReaderInv /\ SleepInv /\ LockInv /\ FutexInv
      /\ BufferInv /\ FencedWakeInv /\ ListInv
  BY Zenon DEF IInv
<1> SUFFICES ASSUME NEW u \in Updaters
    PROVE
    /\ futex' = -1 /\ Armed(u)' =>
         \A r \in Readers :
           MayLookActive(r)' /\ ~(pc'[u] = "mb_futex" /\ r \in ipi')
             => WillWake(r)'
    /\ futex' = -1 /\ pc'[u] = "scan" =>
         \A r \in Input' \ todo' : WillWake(r)'
    /\ futex' = -1 /\ pc'[u] \in {"mb_wait", "gp_futex", "gp_sleep"} =>
         \E r \in Input' : WillWake(r)'
    /\ pc'[u] = "gp_sleep" /\ futex' = 0 =>
         \E r \in Readers : pc'[r] = "wake_call"
  BY Zenon DEF SleepInv
<1>w. \A r \in Readers : /\ WillWake(r)' <=> WillWake(r)
                         /\ MayLookActive(r)' <=> MayLookActive(r)
                         /\ pc[r] = "wake_call" => pc'[r] = "wake_call"
  BY Zenon, <1>t, UpdaterFrame
  DEF WillWake, MayLookActive, Threads, SyncPc, WaitPc, GpPc, WakePc
<1>1. CASE u # a
  <2>1. pc'[u] = pc[u] \/ (pc[u] = "wait_sleep" /\ pc'[u] = "wait")
    BY Zenon, <1>1, <1>t, UpdaterFrame DEF Threads
  <2>2. CASE pc[u] \in HoldsGp
    <3>1. UNCHANGED <<list, ipi, pass, futex, wait_loops, todo>>
      BY Zenon, <1>1, <1>t, <2>2, OneLeader, UpdaterLocals
    <3>2. pc'[u] = pc[u] /\ (Armed(u)' <=> Armed(u)) /\ Input' = Input
      BY Zenon, <2>1, <2>2, <3>1 DEF HoldsGp, GpPc, Armed, Input, OnList
    <3>3. Input \subseteq Readers
      BY Zenon DEF Input, OnList
    <3>4. futex' = -1 /\ Armed(u)' =>
            \A r \in Readers :
              MayLookActive(r)' /\ ~(pc'[u] = "mb_futex" /\ r \in ipi')
                => WillWake(r)'
      BY Zenon, <1>w, <1>t, <3>1, <3>2 DEF SleepInv
    <3>5. futex' = -1 /\ pc'[u] = "scan" =>
            \A r \in Input' \ todo' : WillWake(r)'
      BY ZenonT(30), <1>w, <1>t, <3>1, <3>2, <3>3 DEF SleepInv
    <3>6. futex' = -1 /\ pc'[u] \in {"mb_wait", "gp_futex", "gp_sleep"} =>
            \E r \in Input' : WillWake(r)'
      BY Zenon, <1>w, <1>t, <3>1, <3>2, <3>3 DEF SleepInv
    <3>7. pc'[u] = "gp_sleep" /\ futex' = 0 =>
            \E r \in Readers : pc'[r] = "wake_call"
      BY ZenonT(30), <1>w, <1>t, <3>1, <3>2 DEF SleepInv
    <3> QED
      BY Zenon, <3>4, <3>5, <3>6, <3>7
  <2>3. CASE pc[u] \notin HoldsGp
    BY Zenon, <2>1, <2>3 DEF Armed, HoldsGp, GpPc
  <2> QED
    BY Zenon, <2>2, <2>3
<1>2. CASE u = a
  <2> DEFINE Quiet == pc'[a] \notin {"mb_futex", "mb_clear", "mb_wait", "gp_futex",
                                     "gp_sleep", "scan"}
  <2>q. CASE Quiet
    BY Zenon, <1>2, <2>q DEF Armed
  <2>z. pc[a] \in HoldsGp /\ futex # 0 => futex = -1 /\ Armed(a)
    BY Zenon, <1>t, OneLeader DEF FutexInv, Armed, HoldsGp, GpPc
  <2>n. Input \subseteq Readers
    BY Zenon DEF Input, OnList
  <2>1. CASE Loop(a)
    <3>1. pc[a] = "loop" /\ futex = 0
      BY Zenon, <2>1, <2>z DEF Loop, Armed, HoldsGp, GpPc
    <3>2. CASE futex' = futex /\ pc'[a] = "scan"
      BY <1>2, <3>1, <3>2
    <3>3. CASE StartMasterBarrier /\ pc'[a] = "mb_futex"
      <4>1. ASSUME NEW r \in Readers, MayLookActive(r), r \notin ipi'
            PROVE  WillWake(r)
        <5>1. ~HasMembarrier
          BY Zenon, <3>3, <4>1 DEF StartMasterBarrier
        <5>2. CASE sb[r] = <<>>
          BY Zenon, <1>t, <4>1, <5>2 DEF BufferInv, MayLookActive, WillWake
        <5>3. CASE sb[r] # <<>>
          <6>1. ctr[r].nest \in Nat
            BY <1>t DEF TypeOK, Ctr
          <6> QED
            BY <1>t, <5>1, <5>3, <6>1 DEF FencedWakeInv, WillWake
        <5> QED
          BY Zenon, <5>2, <5>3
      <4> QED
        BY Zenon, <1>2, <1>w, <3>3, <4>1
    <3> QED
      BY Zenon, <1>t, <2>1, <3>2, <3>3 DEF Loop, Goto, TypeOK, Threads
  <2>2. CASE BarrierFutex(a)
    <3>1. /\ pc[a] = "mb_futex" /\ pc'[a] = "scan" /\ ipi = {}
          /\ UNCHANGED <<futex, list, pass, wait_loops>> /\ todo' = Input
      BY Zenon, <1>t, <2>2 DEF BarrierFutex, AfterBarrier, Goto, TypeOK, Threads
    <3>2. Armed(a) /\ Input' = Input
      BY Zenon, <3>1 DEF Armed, Input, OnList
    <3> QED
      BY Zenon, <1>2, <1>t, <1>w, <3>1, <3>2 DEF SleepInv
  <2>3. CASE Scan(a)
    <3>1. /\ pc[a] = "scan" /\ pc'[a] = "scan" /\ UNCHANGED <<futex, pass, wait_loops>>
      BY Zenon, <2>3 DEF Scan
    <3>2. Armed(a)' <=> Armed(a)
      BY Zenon, <3>1 DEF Armed
    <3>3. PICK q \in todo : /\ list' = [list EXCEPT ![q] = ScanTo(q)]
                            /\ todo' = todo \ {q}
      BY ZenonT(30), <2>3 DEF Scan
    <3>4. ASSUME futex = -1, NEW r \in Input' \ todo' PROVE WillWake(r)
      <4>1. r \in Readers
        BY Zenon, <3>4 DEF Input, OnList
      <4>2. CASE r # q
        <5>1. r \in Input \ todo
          BY Zenon, <1>t, <3>1, <3>3, <3>4, <4>1, <4>2 DEF Input, OnList, TypeOK
        <5> QED
          BY Zenon, <1>t, <3>1, <3>4, <5>1 DEF SleepInv
      <4>3. CASE r = q
        <5>1. q \in Input /\ q \in Readers
          BY Zenon, <1>t, <3>1, <3>3 DEF ListInv, TypeOK
        <5>2. list[q] = ScanTo(q)
          BY Zenon, <1>t, <3>1, <3>3, <3>4, <4>3, <5>1 DEF Input, OnList, TypeOK
        <5>3. mem[q].nest # 0
          BY Zenon, <1>t, <5>1, <5>2 DEF ScanTo, reader_state, Input, OnList, TypeOK
        <5>4. MayLookActive(q)
          BY <1>t, <5>1, <5>3 DEF MayLookActive, TypeOK, Ctr
        <5>5. Armed(a)
          BY SMTT(30), <2>z, <3>1, <3>4 DEF HoldsGp, GpPc
        <5> QED
          BY Zenon, <1>t, <3>1, <3>4, <4>3, <5>1, <5>4, <5>5 DEF SleepInv
      <4> QED
        BY Zenon, <4>2, <4>3
    <3>5. Input' \subseteq Readers
      BY Zenon DEF Input, OnList
    <3> QED
      BY Zenon, <1>2, <1>t, <1>w, <3>1, <3>2, <3>4, <3>5 DEF SleepInv
  <2>4. CASE ScanDone(a)
    <3>1. /\ pc[a] = "scan" /\ todo = {}
          /\ UNCHANGED <<futex, list, pass, wait_loops, todo>>
      BY Zenon, <2>4 DEF ScanDone, gpVars
    <3>2. Input' = Input
      BY Zenon, <3>1 DEF Input, OnList
    <3>3. \/ Quiet
          \/ pc'[a] = "mb_clear" /\ Sleepy(wait_loops)
          \/ pc'[a] = "mb_wait" /\ Sleepy(wait_loops) /\ Input # {}
      BY Zenon, <1>t, <2>4 DEF ScanDone, Goto, TypeOK, Threads
    <3>4. CASE pc'[a] = "mb_clear" /\ Sleepy(wait_loops)
      BY Zenon, <1>2, <1>t, <1>w, <3>1, <3>4 DEF SleepInv, Armed
    <3>5. CASE pc'[a] = "mb_wait" /\ Sleepy(wait_loops) /\ Input # {}
      <4>1. futex = -1 => \E r \in Input : WillWake(r)
        BY Zenon, <1>t, <3>1, <3>5 DEF SleepInv
      <4>2. Armed(a)
        BY Zenon, <3>1, <3>5 DEF Armed
      <4> QED
        BY Zenon, <1>2, <1>t, <1>w, <2>n, <3>1, <3>2, <3>5, <4>1, <4>2 DEF SleepInv
    <3> QED
      BY Zenon, <2>q, <3>3, <3>4, <3>5
  <2>5. CASE BarrierWait(a)
    <3>1. /\ pc[a] = "mb_wait" /\ pc'[a] = "gp_futex"
          /\ UNCHANGED <<futex, list, pass>>
      BY Zenon, <1>t, <2>5 DEF BarrierWait, AfterBarrier, Goto, TypeOK, Threads
    <3>2. Input' = Input /\ Armed(a)
      BY Zenon, <3>1 DEF Input, OnList, Armed
    <3> QED
      BY Zenon, <1>2, <1>t, <1>w, <2>n, <3>1, <3>2 DEF SleepInv
  <2>6. CASE GpFutexWait(a)
    <3>1. /\ pc[a] = "gp_futex"
          /\ \/ pc'[a] = "gp_sleep" /\ futex = -1
             \/ pc'[a] = "relock"
          /\ UNCHANGED <<futex, list, pass>>
      BY Zenon, <1>t, <2>6 DEF GpFutexWait, Goto, TypeOK, Threads, gpVars
    <3>2. Input' = Input /\ Armed(a)
      BY Zenon, <3>1 DEF Input, OnList, Armed
    <3> QED
      BY <1>2, <1>t, <1>w, <2>n, <2>q, <3>1, <3>2 DEF SleepInv
  <2>7. CASE GpSpurious(a)
    <3>1. /\ pc[a] = "gp_sleep" /\ pc'[a] = "gp_futex"
          /\ UNCHANGED <<futex, list, pass>>
      BY Zenon, <1>t, <2>7 DEF GpSpurious, Goto, TypeOK, Threads, gpVars
    <3>2. Input' = Input /\ Armed(a)
      BY Zenon, <3>1 DEF Input, OnList, Armed
    <3> QED
      BY Zenon, <1>2, <1>t, <1>w, <2>n, <3>1, <3>2 DEF SleepInv
  <2>8. SyncPush(a) \/ LeadLink(a) \/ WaitLink(a) \/ WaitLoad(a) \/
        WaitSpurious(a) \/ WaitRunning(a) \/ WaitReturn(a) \/
        GpLock(a)
        => Quiet
    BY ZenonT(30), <1>t
    DEF SyncPush, LeadLink, WaitLink, WaitLoad, WaitSpurious,
        WaitRunning, WaitReturn, GpLock, AfterBarrier, Goto, TypeOK,
        Threads
  <2>9. MoveWaiters(a) \/ RegLock(a) \/ BarrierStart(a) \/ Relock(a)
        \/ FlipPhase(a) \/ SpliceBack(a) \/ BarrierEnd(a) \/ Out(a)
        => Quiet
    BY ZenonT(30), <1>t
    DEF MoveWaiters, RegLock, BarrierStart, Relock, FlipPhase,
        SpliceBack, BarrierEnd, Out, AfterBarrier, Goto, TypeOK, Threads
  <2>10. WakeNext(a) \/ WakeSkip(a) \/ WakeState(a) \/ WakeCheck(a)
         \/ WakeFutex(a) \/ WakeTeardown(a) \/ LeadReturn(a) \/
         BarrierClear(a)
         => Quiet
    BY <1>t
    DEF WakeNext, WakeSkip, WakeState, WakeCheck, WakeFutex,
        WakeTeardown, LeadReturn, BarrierClear, AfterBarrier, Goto,
        TypeOK, Threads
  <2> QED
    BY ZenonT(30), <2>q, <2>1, <2>2, <2>3, <2>4, <2>5, <2>6, <2>7, <2>8, <2>9, <2>10
    DEF UpdaterStep, WaiterStep, LockStep, GpStep, WakeStep
<1> QED
  BY ZenonT(30), <1>1, <1>2

(* The leader asleep on rcu_gp.futex always has a waker. *)
LEMMA SleepInvStep == IInv /\ [Next]_vars => SleepInv'
<1> SUFFICES ASSUME IInv, [Next]_vars PROVE SleepInv'
  OBVIOUS
<1>1. CASE UNCHANGED vars
  BY Zenon, <1>1 DEF IInv, SleepInv, Armed, MayLookActive, WillWake, Input, OnList,
              vars, readerVars, waitVars, gpVars
<1> QED
  BY Zenon, <1>1, SleepReaderStep, SleepUpdaterStep DEF Next

-----------------------------------------------------------------------------
(* Batched waiters *)

Leading == {"lead_link", "gp_lock", "move"}

(* The steps of a grace period between the move and the wakeups. *)
CoreStep(u) == \/ RegLock(u) \/ BarrierStart(u) \/ Loop(u)
               \/ BarrierFutex(u) \/ Scan(u) \/ ScanDone(u)
               \/ BarrierClear(u) \/ BarrierWait(u) \/ GpFutexWait(u)
               \/ GpSpurious(u) \/ Relock(u) \/ FlipPhase(u)
               \/ SpliceBack(u) \/ BarrierEnd(u) \/ Out(u)

(* A step that touches no wait node and no queue. *)
Mild == /\ UNCHANGED <<gp_waiters, state, waiters>>
        /\ \A t \in Updaters :
             /\ \/ pc'[t] = pc[t]
                \/ /\ pc[t] \in {"reg_lock"} \cup GpPc
                   /\ pc'[t] \in GpPc \cup {"wk_next"}
                \/ /\ pc[t] \in {"idle"} \cup ReaderPc
                   /\ pc'[t] \in {"idle"} \cup ReaderPc
             /\ pre'[t] \subseteq pre[t]

(* The grace period itself leaves the queues alone. *)
LEMMA CoreFrame ==
  ASSUME TypeOK, NEW u \in Updaters, CoreStep(u)
  PROVE  Mild
<1> USE DEF Mild, TypeOK, Goto, Threads, AfterBarrier, waitVars, GpPc
<1>1. CASE RegLock(u)
  BY Zenon, <1>1 DEF RegLock
<1>2. CASE BarrierStart(u)
  BY Zenon, <1>2 DEF BarrierStart
<1>3. CASE Loop(u)
  BY Zenon, <1>3 DEF Loop
<1>4. CASE BarrierFutex(u)
  BY Zenon, <1>4 DEF BarrierFutex
<1>5. CASE Scan(u)
  BY Zenon, <1>5 DEF Scan
<1>6. CASE ScanDone(u)
  BY Zenon, <1>6 DEF ScanDone
<1>7. CASE BarrierClear(u)
  BY Zenon, <1>7 DEF BarrierClear
<1>8. CASE BarrierWait(u)
  BY Zenon, <1>8 DEF BarrierWait
<1>9. CASE GpFutexWait(u)
  BY Zenon, <1>9 DEF GpFutexWait
<1>10. CASE GpSpurious(u)
  BY Zenon, <1>10 DEF GpSpurious
<1>11. CASE Relock(u)
  BY Zenon, <1>11 DEF Relock
<1>12. CASE FlipPhase(u)
  BY Zenon, <1>12 DEF FlipPhase
<1>13. CASE SpliceBack(u)
  BY Zenon, <1>13 DEF SpliceBack
<1>14. CASE BarrierEnd(u)
  BY Zenon, <1>14 DEF BarrierEnd
<1>15. CASE Out(u)
  BY Zenon, <1>15 DEF Out
<1> QED
  BY ZenonT(30), <1>1, <1>2, <1>3, <1>4, <1>5, <1>6, <1>7, <1>8, <1>9, <1>10, <1>11,
     <1>12, <1>13, <1>14, <1>15
  DEF CoreStep

(* Reader steps, the grace period and stuttering are all such steps. *)
LEMMA MildStep ==
  ASSUME IInv, [Next]_vars
  PROVE  Mild \/ \E u \in Updaters : UpdaterStep(u) /\ ~CoreStep(u)
<1>t. TypeOK /\ RoleInv
  BY Zenon DEF IInv
<1>1. CASE UNCHANGED vars
  BY Zenon, <1>1 DEF Mild, vars, waitVars
<1>2. ASSUME NEW r \in Readers, ReaderStep(r) \/ Hardware(r) PROVE Mild
  <2>1. ASSUME NEW t \in Updaters PROVE pre'[t] \subseteq pre[t]
    <3>1. pre' = pre \/ pre' = [u \in Updaters |-> pre[u] \ {r}]
      BY Zenon, <1>2
      DEF ReaderStep, ReaderCall, Hardware, Register, Unregister, ReadLock,
          ReadLockStore, ReadLockBarrier, ReadLockNested, ReadUnlock,
          ReadUnlockNested, WakeLoad, WakeStore, WakeCall, Flush,
          MasterBarrierReach
    <3> QED
      BY ZenonT(30), <3>1
  <2> QED
    BY Zenon, <1>t, <1>2, <2>1, ReaderFrame DEF Mild, Threads, GpPc
<1> QED
  BY Zenon, <1>1, <1>2, <1>t, CoreFrame DEF Next

(* gp_waiters: the oldest entry leads, the others are asleep, none twice.  *)
LEMMA StackInvStep == IInv /\ [Next]_vars => StackInv'
<1> SUFFICES ASSUME IInv, [Next]_vars PROVE StackInv'
  OBVIOUS
<1>t. TypeOK /\ RoleInv /\ StackInv /\ BatchInv /\ WaiterInv
  BY Zenon DEF IInv
<1> DEFINE Len0 == Len(gp_waiters)
           Queued(m) == \E i \in 1..Len(gp_waiters) : gp_waiters[i] = m
<1>m. \A i \in 1..Len0 : gp_waiters[i] \in Updaters /\ Queued(gp_waiters[i])
  BY <1>t DEF TypeOK
<1>k. ASSUME gp_waiters' = gp_waiters,
             \A m \in Updaters : pc'[m] \in Leading <=> pc[m] \in Leading,
             \A m \in Updaters : Queued(m) /\ Asleep(m) => Asleep(m)'
      PROVE  StackInv'
  <2> SUFFICES
        ASSUME NEW i \in 1..Len(gp_waiters)
        PROVE  /\ i < Len(gp_waiters) =>
                    /\ pc'[gp_waiters[i]] \in {"wait_link", "wait", "wait_sleep"}
                    /\ state'[gp_waiters[i]] = {}
               /\ i = Len(gp_waiters) => pc'[gp_waiters[i]] \in Leading
    BY <1>t, <1>k DEF StackInv, Leading, Asleep
  <2> QED
    BY ZenonT(30), <1>t, <1>k, <1>m DEF StackInv, Leading, Asleep
<1>1. CASE Mild
  BY Zenon, <1>k, <1>1 DEF Mild, Asleep, Leading, GpPc, ReaderPc
<1>2. ASSUME NEW u \in Updaters, UpdaterStep(u), ~CoreStep(u) PROVE StackInv'
  <2>1. CASE SyncPush(u)
    <3>1. /\ pc[u] = "idle" /\ gp_waiters \in Seq(Updaters)
          /\ gp_waiters' = <<u>> \o gp_waiters
          /\ state'[u] = {}
          /\ pc'[u] = IF gp_waiters = <<>> THEN "lead_link" ELSE "wait_link"
          /\ \A v \in Updaters \ {u} : pc'[v] = pc[v] /\ state'[v] = state[v]
      BY Zenon, <1>t, <2>1 DEF SyncPush, Goto, TypeOK, Threads
    <3>2. \A i \in 1..Len0 : gp_waiters[i] # u
      BY SMTT(30), <1>t, <3>1 DEF StackInv, Asleep
    <3>3. Len0 \in Nat /\ (gp_waiters = <<>> <=> Len0 = 0)
      BY <3>1, EmptyOf
    <3>4. /\ Len(gp_waiters') = Len0 + 1
          /\ gp_waiters'[1] = u
          /\ \A i \in 1..Len0 : gp_waiters'[i + 1] = gp_waiters[i]
      <4>1. <<u>> \in Seq(Updaters) /\ Len(<<u>>) = 1 /\ <<u>>[1] = u
        OBVIOUS
      <4> QED
        BY <3>1, <3>3, <4>1, ConcatOf
    <3> DEFINE Old(i) == gp_waiters[i]
    <3>5. \A i \in 2..(Len0 + 1) : /\ i - 1 \in 1..Len0
                                   /\ gp_waiters'[i] = Old(i - 1)
      BY <3>3, <3>4
    <3>6. \A i \in 1..Len0 :
            /\ Old(i) \in Updaters
            /\ pc'[Old(i)] = pc[Old(i)]
            /\ state'[Old(i)] = state[Old(i)]
            /\ i < Len0 => /\ pc[Old(i)] \in {"wait_link", "wait", "wait_sleep"}
                           /\ state[Old(i)] = {}
            /\ i = Len0 => pc[Old(i)] \in Leading
            /\ Old(i) # u
      BY Zenon, <1>t, <1>m, <3>1, <3>2 DEF StackInv, Asleep, Leading
    <3>7. \A i, j \in 1..Len0 : Old(i) = Old(j) => i = j
      BY Zenon, <1>t DEF StackInv
    <3> HIDE DEF Old
    <3>8. ASSUME NEW i \in 1..(Len0 + 1)
          PROVE /\ i < Len0 + 1 => Asleep(gp_waiters[i])'
                /\ i = Len0 + 1 => pc'[gp_waiters'[i]] \in Leading
                /\ \A j \in 1..(Len0 + 1) :
                     gp_waiters'[i] = gp_waiters'[j] => i = j
      <4>1. CASE i = 1
        <5>1. gp_waiters'[i] = u
          BY Zenon, <3>4, <4>1
        <5>2. \A j \in 2..(Len0 + 1) : gp_waiters'[j] # u
          BY Zenon, <3>5, <3>6
        <5> QED
          BY <3>1, <3>3, <4>1, <5>1, <5>2 DEF Asleep, Leading
      <4>2. CASE i # 1
        <5>1. i \in 2..(Len0 + 1)
          BY <3>3, <4>2
        <5>2. i - 1 \in 1..Len0 /\ gp_waiters'[i] = Old(i - 1)
          BY Zenon, <3>5, <5>1
        <5>3. \A j \in 2..(Len0 + 1) : gp_waiters'[i] = gp_waiters'[j] => i = j
          BY <3>5, <3>7, <5>1, <5>2
        <5>4. gp_waiters'[1] # gp_waiters'[i]
          BY Zenon, <3>4, <3>6, <5>2
        <5>5. \A j \in 1..(Len0 + 1) : gp_waiters'[i] = gp_waiters'[j] => i = j
          BY <3>3, <5>3, <5>4
        <5>6. i < Len0 + 1 => Asleep(gp_waiters[i])'
          BY <3>3, <3>6, <5>1, <5>2 DEF Asleep
        <5>7. i = Len0 + 1 => pc'[gp_waiters'[i]] \in Leading
          BY <3>3, <3>6, <5>1, <5>2
        <5> QED
          BY Zenon, <5>5, <5>6, <5>7
      <4> QED
        BY Zenon, <4>1, <4>2
    <3>9. ASSUME NEW v \in Updaters, pc'[v] \in Leading
          PROVE  gp_waiters' # <<>> /\ gp_waiters'[Len0 + 1] = v
      <4>1. gp_waiters' # <<>>
        BY <3>1, <3>3, <3>4
      <4>2. CASE v = u
        <5>1. Len0 = 0
          BY Zenon, <3>1, <3>3, <3>9, <4>2 DEF Leading
        <5> QED
          BY <3>4, <4>1, <4>2, <5>1
      <4>3. CASE v # u
        <5>1. gp_waiters # <<>> /\ gp_waiters[Len0] = v
          BY Zenon, <1>t, <3>1, <3>9, <4>3 DEF StackInv, Leading
        <5>2. Len0 \in 1..Len0
          BY <3>3, <5>1
        <5> QED
          BY Zenon, <3>4, <4>1, <5>1, <5>2
      <4> QED
        BY Zenon, <4>2, <4>3
    <3> QED
      BY Zenon, <3>4, <3>8, <3>9 DEF StackInv, Leading
  <2>2. CASE MoveWaiters(u)
    <3>1. /\ pc[u] = "move" /\ gp_waiters' = <<>>
          /\ pc'[u] = "reg_lock"
          /\ \A v \in Updaters \ {u} : pc'[v] = pc[v]
      BY Zenon, <1>t, <2>2 DEF MoveWaiters, Goto, TypeOK, Threads
    <3>2. \A v \in Updaters : pc'[v] \notin Leading
      BY Zenon, <1>t, <3>1 DEF StackInv, Leading
    <3>3. Len(gp_waiters') = 0
      BY Zenon, <3>1
    <3> QED
      BY <3>2, <3>3 DEF StackInv, Leading
  <2>t. CASE WakeState(u) \/ WakeTeardown(u)
    <3>1. /\ waiters[u] # <<>> /\ waiters[u] \in Seq(Updaters)
          /\ gp_waiters' = gp_waiters
          /\ \A v \in Updaters \ {Target(u)} : state'[v] = state[v]
          /\ pc[u] \in WakePc /\ pc'[u] \in WakePc
          /\ \A v \in Updaters \ {u} : pc'[v] = pc[v]
      BY <1>t, <2>t
      DEF BatchInv, BatchPc, WakeState, WakeTeardown, WakePc, Goto, TypeOK,
          Threads
    <3>2. 1 \in 1..Len(waiters[u]) /\ Target(u) = waiters[u][1]
      BY <3>1, EmptyOf DEF Target
    <3>3. ~Queued(Target(u))
      BY <1>t, <3>2 DEF BatchInv, BatchUnique
    <3> QED
      BY Zenon, <1>k, <3>1, <3>3 DEF Asleep, Leading, WakePc
  <2>w. CASE WaitLoad(u)
    BY Zenon, <1>k, <1>t, <2>w
    DEF WaitLoad, Asleep, Leading, Goto, TypeOK, Threads, waitVars
  <2>3. CASE LeadLink(u)
    BY ZenonT(30), <2>3, <1>k, <1>t
    DEF LeadLink, Asleep, Leading, Goto, TypeOK, Threads, waitVars
  <2>4. CASE WaitLink(u)
    BY Zenon, <2>4, <1>k, <1>t
    DEF WaitLink, Asleep, Leading, Goto, TypeOK, Threads, waitVars
  <2>5. CASE WaitSpurious(u)
    BY Zenon, <2>5, <1>k, <1>t
    DEF WaitSpurious, Asleep, Leading, Goto, TypeOK, Threads, waitVars
  <2>6. CASE WaitRunning(u)
    BY Zenon, <2>6, <1>k, <1>t
    DEF WaitRunning, Asleep, Leading, Goto, TypeOK, Threads, waitVars
  <2>7. CASE WaitReturn(u)
    BY Zenon, <2>7, <1>k, <1>t
    DEF WaitReturn, Asleep, Leading, Goto, TypeOK, Threads, waitVars
  <2>8. CASE GpLock(u)
    BY Zenon, <2>8, <1>k, <1>t
    DEF GpLock, Asleep, Leading, Goto, TypeOK, Threads, waitVars
  <2>9. CASE WakeNext(u)
    BY Zenon, <2>9, <1>k, <1>t
    DEF WakeNext, Asleep, Leading, Goto, TypeOK, Threads, waitVars
  <2>10. CASE WakeSkip(u)
    BY Zenon, <2>10, <1>k, <1>t
    DEF WakeSkip, Asleep, Leading, Goto, TypeOK, Threads, waitVars
  <2>11. CASE WakeCheck(u)
    BY Zenon, <2>11, <1>k, <1>t
    DEF WakeCheck, Asleep, Leading, Goto, TypeOK, Threads, waitVars
  <2>12. CASE WakeFutex(u)
    BY Zenon, <2>12, <1>k, <1>t
    DEF WakeFutex, Asleep, Leading, Goto, TypeOK, Threads, waitVars
  <2>13. CASE LeadReturn(u)
    BY Zenon, <2>13, <1>k, <1>t
    DEF LeadReturn, Asleep, Leading, Goto, TypeOK, Threads, waitVars
  <2> QED
    BY ZenonT(30), <1>2, <2>1, <2>2, <2>t, <2>w, <2>3, <2>4, <2>5, <2>6, <2>7, <2>8,
       <2>9, <2>10, <2>11, <2>12, <2>13
    DEF UpdaterStep, WaiterStep, LockStep, GpStep, WakeStep, CoreStep
<1> QED
  BY Zenon, <1>1, <1>2, MildStep

(* The node a leader is waking is the first entry of its batch. *)
LEMMA TargetIsFirst ==
  ASSUME TypeOK, BatchInv, NEW u \in Updaters, waiters[u] # <<>>
  PROVE  /\ waiters[u] \in Seq(Updaters)
         /\ 1 \in 1..Len(waiters[u])
         /\ Target(u) = waiters[u][1]
         /\ Target(u) \in Updaters
         /\ Entry(u, 1, Target(u))
<1>1. waiters[u] \in Seq(Updaters)
  BY Zenon DEF TypeOK
<1>2. 1 \in 1..Len(waiters[u]) /\ Target(u) = waiters[u][1]
  BY <1>1, EmptyOf DEF Target
<1> QED
  BY <1>1, <1>2 DEF BatchInv

(* A batch belongs to a leader that has yet to finish its wakeups. *)
LEMMA BatchPcStep == IInv /\ [Next]_vars => BatchPc'
<1> SUFFICES ASSUME IInv, [Next]_vars PROVE BatchPc'
  OBVIOUS
<1>t. TypeOK /\ BatchPc
  BY Zenon DEF IInv, BatchInv
<1>1. CASE Mild
  BY <1>t, <1>1 DEF Mild, BatchPc, GpPc, WakePc, ReaderPc
<1>2. ASSUME NEW u \in Updaters, UpdaterStep(u), ~CoreStep(u) PROVE BatchPc'
  <2> USE DEF BatchPc, GpPc, WakePc, Goto, TypeOK, Threads, waitVars
  <2>1. CASE SyncPush(u)
    BY Zenon, <2>1, <1>t DEF SyncPush
  <2>2. CASE LeadLink(u)
    BY Zenon, <2>2, <1>t DEF LeadLink
  <2>3. CASE WaitLink(u)
    BY Zenon, <2>3, <1>t DEF WaitLink
  <2>4. CASE WaitLoad(u)
    BY Zenon, <2>4, <1>t DEF WaitLoad
  <2>5. CASE WaitSpurious(u)
    BY Zenon, <2>5, <1>t DEF WaitSpurious
  <2>6. CASE WaitRunning(u)
    BY Zenon, <2>6, <1>t DEF WaitRunning
  <2>7. CASE WaitReturn(u)
    BY Zenon, <2>7, <1>t DEF WaitReturn
  <2>8. CASE GpLock(u)
    BY Zenon, <2>8, <1>t DEF GpLock
  <2>9. CASE MoveWaiters(u)
    BY Zenon, <2>9, <1>t DEF MoveWaiters
  <2>10. CASE WakeNext(u)
    BY Zenon, <2>10, <1>t DEF WakeNext
  <2>11. CASE WakeSkip(u)
    BY Zenon, <2>11, <1>t DEF WakeSkip
  <2>12. CASE WakeState(u)
    BY Zenon, <2>12, <1>t DEF WakeState
  <2>13. CASE WakeCheck(u)
    BY Zenon, <2>13, <1>t DEF WakeCheck
  <2>14. CASE WakeFutex(u)
    BY ZenonT(30), <2>14, <1>t DEF WakeFutex
  <2>15. CASE WakeTeardown(u)
    BY Zenon, <2>15, <1>t DEF WakeTeardown
  <2>16. CASE LeadReturn(u)
    BY Zenon, <2>16, <1>t DEF LeadReturn
  <2> QED
    BY ZenonT(30), <1>2, <2>1, <2>2, <2>3, <2>4, <2>5, <2>6, <2>7, <2>8, <2>9, <2>10,
       <2>11, <2>12, <2>13, <2>14, <2>15, <2>16
    DEF UpdaterStep, WaiterStep, LockStep, GpStep, WakeStep, CoreStep
<1> QED
  BY ZenonT(30), <1>1, <1>2, MildStep

(* Nobody is queued twice. *)
LEMMA BatchUniqueStep == IInv /\ [Next]_vars => BatchUnique'
<1> SUFFICES ASSUME IInv, [Next]_vars PROVE BatchUnique'
  OBVIOUS
<1>t. TypeOK /\ StackInv /\ BatchInv /\ BatchPc /\ BatchUnique
  BY Zenon DEF IInv, BatchInv
<1>u. \A u \in Updaters : \A i \in 1..Len(waiters[u]) :
        \A j \in 1..Len(gp_waiters) : waiters[u][i] # gp_waiters[j]
  BY ZenonT(30), <1>t DEF BatchUnique
<1>v. \A u \in Updaters : \A i \in 1..Len(waiters[u]) :
        \A v \in Updaters : \A j \in 1..Len(waiters[v]) :
          waiters[u][i] = waiters[v][j] => u = v /\ i = j
  BY ZenonT(30), <1>t DEF BatchUnique
<1>s. CASE UNCHANGED <<gp_waiters, waiters>>
  BY <1>t, <1>s DEF BatchUnique
<1>1. CASE Mild
  BY Zenon, <1>s, <1>1 DEF Mild
<1>2. ASSUME NEW a \in Updaters, SyncPush(a) PROVE BatchUnique'
  <2>1. /\ pc[a] = "idle" /\ waiters' = waiters
        /\ gp_waiters \in Seq(Updaters)
        /\ gp_waiters' = <<a>> \o gp_waiters
    BY Zenon, <1>t, <1>2 DEF SyncPush, TypeOK
  <2>2. /\ Len(gp_waiters') = Len(gp_waiters) + 1
        /\ \A j \in 1..Len(gp_waiters') :
             \/ gp_waiters'[j] = a
             \/ j - 1 \in 1..Len(gp_waiters) /\ gp_waiters'[j] = gp_waiters[j - 1]
    <3>1. <<a>> \in Seq(Updaters) /\ Len(<<a>>) = 1 /\ <<a>>[1] = a
      OBVIOUS
    <3>2. Len(gp_waiters) \in Nat
      BY <2>1
    <3>3. /\ Len(gp_waiters') = Len(gp_waiters) + 1
          /\ \A j \in 1..(Len(gp_waiters) + 1) :
               gp_waiters'[j] = IF j <= 1 THEN <<a>>[j] ELSE gp_waiters[j - 1]
      BY <2>1, <3>1, <3>2, ConcatOf
    <3> QED
      BY <3>1, <3>2, <3>3
  <2>3. ASSUME NEW u \in Updaters, NEW i \in 1..Len(waiters[u])
        PROVE  waiters[u][i] # a
    <3>1. Entry(u, i, waiters[u][i]) /\ waiters[u] # <<>>
      BY <1>t, <2>3 DEF BatchInv
    <3>2. pc[u] # "idle"
      BY Zenon, <1>t, <3>1 DEF BatchPc, GpPc, WakePc
    <3> QED
      BY Zenon, <2>1, <3>1, <3>2
      DEF Entry, LeaderEntry, AsleepEntry, WokenEntry, Asleep, WaitPc
  <2>4. ASSUME NEW u \in Updaters, NEW i \in 1..Len(waiters[u]),
               NEW j \in 1..Len(gp_waiters')
        PROVE  waiters[u][i] # gp_waiters'[j]
    <3>1. CASE gp_waiters'[j] = a
      BY ZenonT(30), <2>3, <3>1
    <3>2. CASE /\ j - 1 \in 1..Len(gp_waiters)
               /\ gp_waiters'[j] = gp_waiters[j - 1]
      BY Zenon, <1>u, <3>2
    <3> QED
      BY ZenonT(30), <2>2, <3>1, <3>2
  <2>5. \A u \in Updaters : \A i \in 1..Len(waiters'[u]) :
          /\ \A j \in 1..Len(gp_waiters') : waiters'[u][i] # gp_waiters'[j]
          /\ \A v \in Updaters : \A j \in 1..Len(waiters'[v]) :
               waiters'[u][i] = waiters'[v][j] => u = v /\ i = j
    BY <1>v, <2>1, <2>4
  <2> QED
    BY ZenonT(30), <2>5 DEF BatchUnique
<1>3. ASSUME NEW a \in Updaters, MoveWaiters(a) PROVE BatchUnique'
  <2>1. /\ pc[a] = "move" /\ gp_waiters' = <<>>
        /\ waiters'[a] = gp_waiters
        /\ \A v \in Updaters \ {a} : waiters'[v] = waiters[v]
    BY Zenon, <1>t, <1>3 DEF MoveWaiters, TypeOK
  <2>2. Len(gp_waiters') = 0
    BY Zenon, <2>1
  <2>3. ASSUME NEW u \in Updaters, NEW i \in 1..Len(waiters'[u]),
               NEW v \in Updaters, NEW j \in 1..Len(waiters'[v]),
               waiters'[u][i] = waiters'[v][j]
        PROVE  u = v /\ i = j
    <3>1. CASE u = a /\ v = a
      BY Zenon, <1>t, <2>1, <2>3, <3>1 DEF StackInv
    <3>2. CASE u = a /\ v # a
      BY <1>t, <2>1, <2>3, <3>2 DEF BatchUnique
    <3>3. CASE u # a /\ v = a
      BY <1>t, <2>1, <2>3, <3>3 DEF BatchUnique
    <3>4. CASE u # a /\ v # a
      BY <1>t, <2>1, <2>3, <3>4 DEF BatchUnique
    <3> QED
      BY Zenon, <3>1, <3>2, <3>3, <3>4
  <2> QED
    BY <2>2, <2>3 DEF BatchUnique
<1>4. ASSUME NEW a \in Updaters, WakeSkip(a) \/ WakeTeardown(a)
      PROVE  BatchUnique'
  <2>1. /\ waiters[a] \in Seq(Updaters) /\ waiters[a] # <<>>
        /\ waiters'[a] = Tail(waiters[a]) /\ gp_waiters' = gp_waiters
        /\ \A v \in Updaters \ {a} : waiters'[v] = waiters[v]
    BY Zenon, <1>t, <1>4 DEF WakeSkip, WakeTeardown, BatchPc, WakePc, TypeOK
  <2> DEFINE k(v) == IF v = a THEN 1 ELSE 0
  <2>2. ASSUME NEW v \in Updaters, NEW i \in 1..Len(waiters'[v])
        PROVE  /\ i + k(v) \in 1..Len(waiters[v])
               /\ waiters'[v][i] = waiters[v][i + k(v)]
    <3>1. CASE v = a
      <4>1. i \in 1..Len(Tail(waiters[a]))
        BY ZenonT(30), <2>1, <2>2, <3>1
      <4>2. /\ i + 1 \in 1..Len(waiters[a])
            /\ Tail(waiters[a])[i] = waiters[a][i + 1]
        BY <2>1, <4>1, TailOf
      <4> QED
        BY ZenonT(30), <2>1, <3>1, <4>2
    <3>2. CASE v # a
      BY <1>t, <2>1, <2>2, <3>2
    <3> QED
      BY Zenon, <3>1, <3>2
  <2>3. ASSUME NEW u \in Updaters, NEW i \in 1..Len(waiters'[u]),
               NEW v \in Updaters, NEW j \in 1..Len(waiters'[v]),
               waiters'[u][i] = waiters'[v][j]
        PROVE  u = v /\ i = j
    <3>2. i \in Int /\ j \in Int /\ k(u) \in Int
      BY <1>t
    <3> HIDE DEF k
    <3>3. /\ i + k(u) \in 1..Len(waiters[u])
          /\ j + k(v) \in 1..Len(waiters[v])
          /\ waiters[u][i + k(u)] = waiters[v][j + k(v)]
      BY Zenon, <2>2, <2>3
    <3>1. u = v /\ i + k(u) = j + k(v)
      BY Zenon, <1>v, <3>3
    <3> QED
      BY <3>1, <3>2
  <2>4. ASSUME NEW u \in Updaters, NEW i \in 1..Len(waiters'[u]),
               NEW j \in 1..Len(gp_waiters)
        PROVE  waiters'[u][i] # gp_waiters[j]
    <3> HIDE DEF k
    <3>1. /\ i + k(u) \in 1..Len(waiters[u])
          /\ waiters'[u][i] = waiters[u][i + k(u)]
      BY ZenonT(30), <2>2
    <3>2. waiters[u][i + k(u)] # gp_waiters[j]
      BY Zenon, <1>u, <3>1
    <3> QED
      BY ZenonT(30), <3>1, <3>2
  <2> QED
    BY <2>1, <2>3, <2>4 DEF BatchUnique
<1>5. ASSUME NEW a \in Updaters, UpdaterStep(a), ~CoreStep(a)
      PROVE  BatchUnique'
  BY ZenonT(30), <1>s, <1>2, <1>3, <1>4, <1>5
  DEF UpdaterStep, WaiterStep, LockStep, GpStep, WakeStep, CoreStep, LeadLink,
      WaitLink, WaitLoad, WaitSpurious, WaitRunning, WaitReturn, GpLock,
      WakeNext, WakeState, WakeCheck, WakeFutex, LeadReturn, waitVars
<1> QED
  BY ZenonT(30), <1>1, <1>5, MildStep

(* An entry that stays in its batch stays asleep, or is the leader's own,  *)
(* or is the one being woken.                                              *)
LEMMA EntryKept ==
  ASSUME TypeOK, BatchInv, WaiterInv, NEW a \in Updaters, UpdaterStep(a),
         ~CoreStep(a), ~MoveWaiters(a), NEW v \in Updaters,
         NEW i \in 1..Len(waiters[v]), NEW w \in Updaters,
         w = waiters[v][i],
         ~(v = a /\ (WakeSkip(a) \/ WakeTeardown(a)))
  PROVE  Entry(v, i, w)'
<1>a. Entry(v, i, w) /\ waiters[v] # <<>>
  BY DEF BatchInv
<1>b. pc[v] \in {"reg_lock"} \cup GpPc \cup WakePc
  BY Zenon, <1>a DEF BatchInv, BatchPc
<1>c. waiters[a] # <<>> /\ w = Target(a) => v = a /\ i = 1
  <2> SUFFICES ASSUME waiters[a] # <<>>, w = Target(a) PROVE v = a /\ i = 1
    OBVIOUS
  <2>1. 1 \in 1..Len(waiters[a]) /\ w = waiters[a][1]
    BY Zenon, TargetIsFirst
  <2>2. BatchUnique
    BY Zenon DEF BatchInv
  <2>3. waiters[v][i] = waiters[a][1]
    BY Zenon, <2>1
  <2> QED
    BY Zenon, <2>1, <2>2, <2>3 DEF BatchUnique
<1>d. pc[a] \in WakePc \ {"wk_next"} => waiters[a] # <<>>
  BY Zenon DEF BatchInv, BatchPc
<1>e. waiters[a] # <<>> /\ v = a /\ i = 1 => w = Target(a)
  BY Zenon, TargetIsFirst
<1>f. waiters[a] # <<>> => Target(a) \in Updaters
  BY Zenon, TargetIsFirst
<1>g. w \in Threads /\ v \in Threads /\ a \in Threads /\ pc \in [Threads -> {"idle"} \cup ReaderPc \cup SyncPc]
      /\ state \in [Updaters -> SUBSET {"WAKEUP", "RUNNING", "TEARDOWN"}]
  BY ZenonT(30) DEF TypeOK, Threads
<1> USE DEF Entry, LeaderEntry, AsleepEntry, WokenEntry, Asleep, Waking,
            WaitPc, WakePc, GpPc, Goto, waitVars
<1>1. CASE SyncPush(a)
  BY ZenonT(30), <1>1, <1>a, <1>b, <1>c, <1>d, <1>e, <1>f, <1>g DEF SyncPush
<1>2. CASE LeadLink(a)
  BY ZenonT(30), <1>2, <1>a, <1>b, <1>c, <1>d, <1>e, <1>f, <1>g DEF LeadLink
<1>3. CASE WaitLink(a)
  BY ZenonT(30), <1>3, <1>a, <1>b, <1>c, <1>d, <1>e, <1>f, <1>g DEF WaitLink
<1>4. CASE WaitLoad(a)
  BY ZenonT(30), <1>4, <1>a, <1>b, <1>c, <1>d, <1>e, <1>f, <1>g DEF WaitLoad
<1>5. CASE WaitSpurious(a)
  BY ZenonT(30), <1>5, <1>a, <1>b, <1>c, <1>d, <1>e, <1>f, <1>g DEF WaitSpurious
<1>6. CASE WaitRunning(a)
  BY ZenonT(30), <1>6, <1>a, <1>b, <1>c, <1>d, <1>e, <1>f, <1>g DEF WaitRunning
<1>7. CASE WaitReturn(a)
  BY ZenonT(30), <1>7, <1>a, <1>b, <1>c, <1>d, <1>e, <1>f, <1>g DEF WaitReturn
<1>8. CASE GpLock(a)
  BY ZenonT(30), <1>8, <1>a, <1>b, <1>c, <1>d, <1>e, <1>f, <1>g DEF GpLock
<1>9. CASE WakeNext(a)
  BY Zenon, <1>9, <1>a, <1>b, <1>c, <1>d, <1>e, <1>f, <1>g DEF WakeNext
<1>10. CASE WakeSkip(a)
  BY ZenonT(30), <1>10, <1>a, <1>b, <1>c, <1>d, <1>e, <1>f, <1>g DEF WakeSkip
<1>11. CASE WakeState(a)
  <2>1. CASE w = Target(a)
    BY ZenonT(30), <1>11, <1>a, <1>c, <1>d, <1>g, <2>1 DEF WakeState
  <2>2. CASE w # Target(a)
    BY ZenonT(30), <1>11, <1>a, <1>b, <1>d, <1>e, <1>f, <1>g, <2>2 DEF WakeState
  <2> QED
    BY Zenon, <2>1, <2>2
<1>12. CASE WakeCheck(a)
  BY ZenonT(30), <1>12, <1>a, <1>b, <1>c, <1>d, <1>e, <1>f, <1>g DEF WakeCheck
<1>13. CASE WakeFutex(a)
  <2>1. /\ pc[a] = "wk_futex" /\ pc'[a] = "wk_teardown" /\ state' = state
        /\ \A t \in Threads \ {a} :
             pc'[t] = pc[t] \/ (pc[t] = "wait_sleep" /\ pc'[t] = "wait")
    BY Zenon, <1>13, <1>g DEF WakeFutex
  <2>2. w # a => /\ pc[w] \in WaitPc => pc'[w] \in WaitPc
                 /\ Asleep(w) => Asleep(w)'
    BY Zenon, <1>g, <2>1
  <2>3. v # a => pc'[v] = pc[v]
    BY ZenonT(30), <1>b, <1>g, <2>1
  <2> QED
    BY Zenon, <1>a, <1>d, <1>e, <2>1, <2>2, <2>3
<1>14. CASE WakeTeardown(a)
  BY ZenonT(30), <1>14, <1>a, <1>b, <1>c, <1>d, <1>e, <1>f, <1>g DEF WakeTeardown
<1>15. CASE LeadReturn(a)
  BY ZenonT(30), <1>15, <1>a, <1>b, <1>c, <1>d, <1>e, <1>f, <1>g DEF LeadReturn
<1> QED
  BY ZenonT(30), <1>1, <1>2, <1>3, <1>4, <1>5, <1>6, <1>7, <1>8, <1>9, <1>10, <1>11,
     <1>12, <1>13, <1>14, <1>15
  DEF UpdaterStep, WaiterStep, LockStep, GpStep, WakeStep, CoreStep

(* Taking the first entry off leaves the others as they were. *)
LEMMA EntryPopped ==
  ASSUME TypeOK, BatchInv, NEW a \in Updaters, WakeSkip(a) \/ WakeTeardown(a),
         NEW i \in 1..Len(waiters[a]), i > 1, NEW w \in Updaters,
         w = waiters[a][i]
  PROVE  Entry(a, i - 1, w)'
<1>1. /\ waiters[a] # <<>> /\ pc'[a] = "wk_next" /\ pc[a] \in WakePc
      /\ \A v \in Updaters \ {a} : pc'[v] = pc[v]
      /\ \A v \in Updaters \ {Target(a)} : state'[v] = state[v]
  <2>1. CASE WakeSkip(a)
    BY ZenonT(30), <2>1 DEF WakeSkip, BatchInv, BatchPc, WakePc, Goto, TypeOK,
                       Threads
  <2>2. CASE WakeTeardown(a)
    BY ZenonT(30), <2>2 DEF WakeTeardown, BatchInv, BatchPc, WakePc, Goto, TypeOK,
                       Threads
  <2> QED
    BY Zenon, <2>1, <2>2
<1>2. Entry(a, i, w)
  BY Zenon DEF BatchInv
<1>3. w # Target(a)
  BY SMTT(30), <1>1, TargetIsFirst DEF BatchInv, BatchUnique
<1>4. state'[w] = state[w] /\ ~Waking(a)' /\ pc'[a] \notin WakePc \ {"wk_next"}
  BY Zenon, <1>1, <1>3 DEF Waking
<1>5. CASE LeaderEntry(a, i, w)
  BY ZenonT(30), <1>4, <1>5 DEF Entry, LeaderEntry
<1>6. CASE AsleepEntry(a, i, w)
  <2>1. w # a
    BY Zenon, <1>1, <1>6 DEF AsleepEntry, Asleep, WakePc
  <2> QED
    BY ZenonT(30), <1>1, <1>4, <1>6, <2>1 DEF Entry, AsleepEntry, Asleep
<1>7. CASE WokenEntry(a, i, w)
  BY <1>7 DEF WokenEntry
<1> QED
  BY ZenonT(30), <1>2, <1>5, <1>6, <1>7 DEF Entry

(* What a leader's batch looks like while it wakes the waiters. *)
LEMMA BatchInvStep == IInv /\ [Next]_vars => BatchInv'
<1> SUFFICES ASSUME IInv, [Next]_vars PROVE BatchInv'
  OBVIOUS
<1>t. TypeOK /\ StackInv /\ BatchInv /\ WaiterInv
  BY Zenon DEF IInv
<1> SUFFICES ASSUME NEW v \in Updaters, NEW i \in 1..Len(waiters'[v]),
                    NEW w, w = waiters'[v][i]
             PROVE  Entry(v, i, w)'
  BY Zenon, BatchPcStep, BatchUniqueStep DEF BatchInv
<1>u. w \in Updaters
  BY TypeStep DEF TypeOK
<1>1. CASE Mild
  <2>1. Entry(v, i, w)
    BY Zenon, <1>t, <1>1 DEF BatchInv, Mild
  <2> QED
    BY Zenon, <1>1, <1>u, <2>1
    DEF Mild, Entry, LeaderEntry, AsleepEntry, WokenEntry, Asleep, Waking,
        WaitPc, GpPc, WakePc, ReaderPc
<1>2. ASSUME NEW a \in Updaters, UpdaterStep(a), ~CoreStep(a)
      PROVE  Entry(v, i, w)'
  <2>1. CASE MoveWaiters(a) /\ v = a
    <3>1. /\ pc[a] = "move" /\ pc'[a] = "reg_lock"
          /\ waiters'[a] = gp_waiters /\ state' = state
          /\ \A t \in Updaters \ {a} : pc'[t] = pc[t]
      BY Zenon, <1>t, <2>1 DEF MoveWaiters, Goto, TypeOK, Threads
    <3>2. i \in 1..Len(gp_waiters) /\ w = gp_waiters[i]
      BY Zenon, <2>1, <3>1
    <3>3. CASE i = Len(gp_waiters)
      <4>1. w = a
        BY Zenon, <1>t, <3>1, <3>2, <3>3 DEF StackInv
      <4>2. state[a] = {"RUNNING"}
        BY Zenon, <1>t, <3>1 DEF WaiterInv, SyncPc, WaitPc
      <4> QED
        BY Zenon, <2>1, <3>1, <4>1, <4>2 DEF Entry, LeaderEntry, WakePc
    <3>4. CASE i # Len(gp_waiters)
      <4>1. i < Len(gp_waiters)
        BY <1>t, <3>2, <3>4 DEF TypeOK
      <4>2. Asleep(w)
        BY Zenon, <1>t, <3>2, <4>1 DEF StackInv
      <4>3. Asleep(w)'
        BY ZenonT(30), <1>u, <3>1, <4>2 DEF Asleep
      <4> QED
        BY Zenon, <2>1, <3>1, <4>3 DEF Entry, AsleepEntry, Waking
    <3> QED
      BY Zenon, <3>3, <3>4
  <2>2. CASE MoveWaiters(a) /\ v # a
    <3>1. /\ pc[a] = "move" /\ pc'[a] = "reg_lock"
          /\ waiters'[v] = waiters[v] /\ state' = state
          /\ \A t \in Updaters \ {a} : pc'[t] = pc[t]
      BY Zenon, <1>t, <2>2 DEF MoveWaiters, Goto, TypeOK, Threads
    <3>2. Entry(v, i, w)
      BY Zenon, <1>t, <3>1 DEF BatchInv
    <3> QED
      BY Zenon, <1>u, <2>2, <3>1, <3>2
      DEF Entry, LeaderEntry, AsleepEntry, WokenEntry, Asleep, Waking, WaitPc
  <2>3. CASE (WakeSkip(a) \/ WakeTeardown(a)) /\ v = a
    <3>1. /\ waiters[a] \in Seq(Updaters) /\ waiters[a] # <<>>
          /\ waiters'[a] = Tail(waiters[a])
      BY ZenonT(30), <1>t, <2>3
      DEF WakeSkip, WakeTeardown, BatchInv, BatchPc, WakePc, TypeOK
    <3>2. i + 1 \in 1..Len(waiters[a]) /\ w = waiters[a][i + 1]
      BY <2>3, <3>1, TailOf
    <3>3. i \in Int /\ i + 1 > 1 /\ (i + 1) - 1 = i
      OBVIOUS
    <3> DEFINE j == i + 1
    <3>4. j \in 1..Len(waiters[a]) /\ w = waiters[a][j] /\ j > 1 /\ j - 1 = i
      BY Zenon, <3>2, <3>3
    <3> HIDE DEF j
    <3>5. Entry(a, j - 1, w)'
      BY Zenon, <1>t, <1>u, <2>3, <3>4, EntryPopped
    <3> QED
      BY Zenon, <2>3, <3>4, <3>5
  <2>4. CASE ~MoveWaiters(a) /\ ~(v = a /\ (WakeSkip(a) \/ WakeTeardown(a)))
    <3>1. waiters'[v] = waiters[v]
      BY ZenonT(30), <1>t, <1>2, <2>4
      DEF UpdaterStep, WaiterStep, LockStep, GpStep, WakeStep, CoreStep,
          SyncPush, LeadLink, WaitLink, WaitLoad, WaitSpurious, WaitRunning,
          WaitReturn, GpLock, WakeNext, WakeSkip, WakeState, WakeCheck,
          WakeFutex, WakeTeardown, LeadReturn, waitVars, TypeOK
    <3> QED
      BY ZenonT(30), <1>t, <1>u, <1>2, <2>4, <3>1, EntryKept
  <2> QED
    BY Zenon, <2>1, <2>2, <2>3, <2>4
<1> QED
  BY Zenon, <1>1, <1>2, MildStep

(* Where an updater is and what its wait node says agree; a node that says *)
(* URCU_WAIT_WAKEUP belongs to a call whose readers are gone.              *)
LEMMA WaiterInvStep == IInv /\ [Next]_vars => WaiterInv'
<1> SUFFICES ASSUME IInv, [Next]_vars PROVE WaiterInv'
  OBVIOUS
<1>t. TypeOK /\ WaiterInv /\ BatchInv /\ GraceInv
  BY Zenon DEF IInv
<1> USE DEF WaiterInv, SyncPc, WaitPc, GpPc, WakePc
<1>1. CASE Mild
  BY <1>t, <1>1 DEF Mild, ReaderPc
<1>2. ASSUME NEW u \in Updaters, UpdaterStep(u), ~CoreStep(u)
      PROVE  WaiterInv'
  <2>g. pc[u] \in WakePc \ {"wk_next"} =>
          /\ waiters[u] # <<>> /\ Target(u) \in Updaters
          /\ pre[Target(u)] = {} /\ Entry(u, 1, Target(u))
    <3> SUFFICES ASSUME pc[u] \in WakePc \ {"wk_next"}
                 PROVE  /\ waiters[u] # <<>> /\ Target(u) \in Updaters
                        /\ pre[Target(u)] = {} /\ Entry(u, 1, Target(u))
      OBVIOUS
    <3>1. waiters[u] # <<>>
      BY Zenon, <1>t DEF BatchInv, BatchPc
    <3>2. Target(u) \in Served(u)
      BY Zenon, <1>t, <3>1, TargetIsFirst DEF Served
    <3> QED
      BY Zenon, <1>t, <3>1, <3>2, TargetIsFirst DEF GraceInv
  <2> USE DEF Goto, TypeOK, Threads, waitVars
  <2>1. CASE SyncPush(u)
    BY <2>1, <1>t DEF SyncPush
  <2>2. CASE LeadLink(u)
    BY <2>2, <1>t DEF LeadLink
  <2>3. CASE WaitLink(u)
    BY Zenon, <2>3, <1>t DEF WaitLink
  <2>4. CASE WaitLoad(u)
    BY Zenon, <2>4, <1>t DEF WaitLoad
  <2>5. CASE WaitSpurious(u)
    BY Zenon, <2>5, <1>t DEF WaitSpurious
  <2>6. CASE WaitRunning(u)
    BY <2>6, <1>t DEF WaitRunning
  <2>7. CASE WaitReturn(u)
    BY Zenon, <2>7, <1>t DEF WaitReturn
  <2>8. CASE GpLock(u)
    BY Zenon, <2>8, <1>t DEF GpLock
  <2>9. CASE MoveWaiters(u)
    BY Zenon, <2>9, <1>t DEF MoveWaiters
  <2>10. CASE WakeNext(u)
    BY ZenonT(30), <2>10, <1>t DEF WakeNext
  <2>11. CASE WakeSkip(u)
    BY Zenon, <2>11, <1>t DEF WakeSkip
  <2>12. CASE WakeState(u)
    <3>1. Asleep(Target(u))
      BY Zenon, <2>12, <2>g
      DEF WakeState, Entry, LeaderEntry, AsleepEntry, WokenEntry, Waking
    <3> QED
      BY SMTT(30), <2>12, <1>t, <2>g, <3>1 DEF WakeState, Asleep
  <2>13. CASE WakeCheck(u)
    BY Zenon, <2>13, <1>t DEF WakeCheck
  <2>14. CASE WakeFutex(u)
    BY ZenonT(60), <2>14, <1>t DEF WakeFutex
  <2>15. CASE WakeTeardown(u)
    <3>1. pc[Target(u)] \in WaitPc /\ "WAKEUP" \in state[Target(u)]
      BY Zenon, <2>15, <2>g
      DEF WakeTeardown, Entry, LeaderEntry, AsleepEntry, WokenEntry, Waking
    <3> QED
      BY ZenonT(60), <2>15, <1>t, <2>g, <3>1 DEF WakeTeardown
  <2>16. CASE LeadReturn(u)
    BY Zenon, <2>16, <1>t DEF LeadReturn
  <2> QED
    BY ZenonT(30), <1>2, <2>1, <2>2, <2>3, <2>4, <2>5, <2>6, <2>7, <2>8, <2>9, <2>10,
       <2>11, <2>12, <2>13, <2>14, <2>15, <2>16
    DEF UpdaterStep, WaiterStep, LockStep, GpStep, WakeStep, CoreStep
<1> QED
  BY ZenonT(30), <1>1, <1>2, MildStep

(* A sleeping waiter whose node has changed has its FUTEX_WAKE to come. *)
LEMMA WaiterHasWakerStep == IInv /\ [Next]_vars => WaiterHasWaker'
<1> SUFFICES ASSUME IInv, [Next]_vars, NEW w \in Updaters,
                    pc'[w] = "wait_sleep", state'[w] # {}
             PROVE  \E v \in Updaters : /\ pc'[v] \in {"wk_check", "wk_futex"}
                                        /\ waiters'[v] # <<>>
                                        /\ Target(v)' = w
  BY Zenon DEF WaiterHasWaker
<1>t. TypeOK /\ WaiterInv /\ BatchInv /\ WaiterHasWaker
  BY Zenon DEF IInv
<1> DEFINE Waker(v) == /\ pc[v] \in {"wk_check", "wk_futex"}
                       /\ waiters[v] # <<>>
                       /\ Target(v) = w
<1>w. pc[w] = "wait_sleep" /\ state[w] # {} => \E v \in Updaters : Waker(v)
  BY Zenon, <1>t DEF WaiterHasWaker
<1>k. ASSUME NEW v \in Updaters, Waker(v), UNCHANGED <<pc[v], waiters[v]>>
      PROVE  \E x \in Updaters : /\ pc'[x] \in {"wk_check", "wk_futex"}
                                 /\ waiters'[x] # <<>>
                                 /\ Target(x)' = w
  BY Zenon, <1>k DEF Target
<1>1. CASE Mild
  <2>1. PICK v \in Updaters : Waker(v)
    BY Zenon, <1>1, <1>w DEF Mild, GpPc, ReaderPc
  <2> QED
    BY Zenon, <1>1, <1>k, <2>1 DEF Mild, GpPc, ReaderPc
<1>2. ASSUME NEW a \in Updaters, UpdaterStep(a), ~CoreStep(a)
      PROVE  \E v \in Updaters : /\ pc'[v] \in {"wk_check", "wk_futex"}
                                 /\ waiters'[v] # <<>>
                                 /\ Target(v)' = w
  <2>1. CASE WakeState(a)
    <3>1. waiters[a] # <<>> /\ Target(a) \in Updaters
      BY Zenon, <1>t, <2>1, TargetIsFirst DEF BatchInv, BatchPc, WakeState, WakePc
    <3>2. /\ pc'[a] = "wk_check" /\ waiters' = waiters /\ pc[a] = "wk_store"
          /\ \A v \in Updaters \ {a} : pc'[v] = pc[v]
          /\ \A v \in Updaters \ {Target(a)} : state'[v] = state[v]
      BY Zenon, <1>t, <2>1 DEF WakeState, Goto, TypeOK, Threads
    <3>3. CASE w = Target(a)
      BY Zenon, <3>1, <3>2, <3>3 DEF Target
    <3>4. CASE w # Target(a)
      <4>1. pc[w] = "wait_sleep" /\ state[w] # {}
        BY Zenon, <3>2, <3>4
      <4>2. PICK v \in Updaters : Waker(v)
        BY Zenon, <1>w, <4>1
      <4>3. v # a
        BY Zenon, <3>2, <4>2
      <4> QED
        BY Zenon, <1>k, <3>2, <4>2, <4>3
    <3> QED
      BY Zenon, <3>3, <3>4
  <2>2. CASE WakeCheck(a) \/ WakeFutex(a)
    <3>1. /\ waiters' = waiters /\ state' = state
          /\ \A v \in Updaters \ {a} :
               pc'[v] = pc[v] \/ (pc[v] = "wait_sleep" /\ pc'[v] = "wait")
          /\ pc[a] \in {"wk_check", "wk_futex"}
          /\ pc'[a] \in {"wk_teardown", "wk_futex"}
      BY Zenon, <1>t, <2>2
      DEF WakeCheck, WakeFutex, Goto, TypeOK, Threads, waitVars
    <3>2. pc[w] = "wait_sleep" /\ state[w] # {}
      BY Zenon, <3>1
    <3>3. PICK v \in Updaters : Waker(v)
      BY Zenon, <1>w, <3>2
    <3>4. CASE v # a
      BY Zenon, <1>k, <3>1, <3>3, <3>4
    <3>5. CASE v = a /\ WakeCheck(a)
      <4>1. "RUNNING" \notin state[Target(a)]
        BY Zenon, <1>t, <3>2, <3>3, <3>5 DEF WaiterInv
      <4>2. pc'[a] = "wk_futex"
        BY Zenon, <1>t, <3>5, <4>1 DEF WakeCheck, Goto, TypeOK, Threads
      <4> QED
        BY Zenon, <3>1, <3>3, <3>5, <4>2 DEF Target
    <3>6. CASE v = a /\ WakeFutex(a)
      <4>1. w \in Threads /\ w # a /\ w = Target(a) /\ pc[w] = "wait_sleep"
        BY Zenon, <3>1, <3>2, <3>3, <3>6 DEF Threads
      <4>2. pc'[w] = "wait"
        BY Zenon, <3>6, <4>1 DEF WakeFutex
      <4> QED
        BY Zenon, <4>2
    <3> QED
      BY Zenon, <2>2, <3>4, <3>5, <3>6
  <2>3. CASE /\ \A v \in Updaters \ {a} : UNCHANGED <<pc[v], waiters[v]>>
             /\ pc[a] \notin {"wk_check", "wk_futex"}
             /\ pc[w] = "wait_sleep" /\ state[w] # {}
    <3>1. PICK v \in Updaters : Waker(v)
      BY Zenon, <1>w, <2>3
    <3> QED
      BY Zenon, <1>k, <2>3, <3>1
  <2>4. CASE WakeTeardown(a)
    <3>1. /\ waiters[a] # <<>> /\ Entry(a, 1, Target(a))
          /\ Target(a) \in Updaters
      BY Zenon, <1>t, <2>4, TargetIsFirst DEF BatchInv, BatchPc, WakeTeardown, WakePc
    <3>2. "WAKEUP" \in state[Target(a)]
      BY Zenon, <2>4, <3>1
      DEF WakeTeardown, Entry, LeaderEntry, AsleepEntry, WokenEntry, Waking,
          WakePc
    <3>3. /\ pc[a] = "wk_teardown" /\ pc'[a] = "wk_next"
          /\ \A v \in Updaters \ {a} : UNCHANGED <<pc[v], waiters[v]>>
          /\ \A v \in Updaters \ {Target(a)} : state'[v] = state[v]
      BY Zenon, <1>t, <2>4 DEF WakeTeardown, Goto, TypeOK, Threads
    <3> QED
      BY Zenon, <2>3, <3>2, <3>3
  <2> USE DEF Goto, TypeOK, Threads, waitVars
  <2>5. CASE SyncPush(a)
    BY Zenon, <2>5, <1>t, <2>3 DEF SyncPush
  <2>6. CASE LeadLink(a)
    BY Zenon, <2>6, <1>t, <2>3 DEF LeadLink
  <2>7. CASE WaitLink(a)
    BY Zenon, <2>7, <1>t, <2>3 DEF WaitLink
  <2>8. CASE WaitLoad(a)
    BY Zenon, <2>8, <1>t, <2>3 DEF WaitLoad
  <2>9. CASE WaitSpurious(a)
    BY Zenon, <2>9, <1>t, <2>3 DEF WaitSpurious
  <2>10. CASE WaitRunning(a)
    BY Zenon, <2>10, <1>t, <2>3 DEF WaitRunning
  <2>11. CASE WaitReturn(a)
    BY Zenon, <2>11, <1>t, <2>3 DEF WaitReturn
  <2>12. CASE GpLock(a)
    BY Zenon, <2>12, <1>t, <2>3 DEF GpLock
  <2>13. CASE MoveWaiters(a)
    BY Zenon, <2>13, <1>t, <2>3 DEF MoveWaiters
  <2>14. CASE WakeNext(a)
    BY Zenon, <2>14, <1>t, <2>3 DEF WakeNext
  <2>15. CASE WakeSkip(a)
    BY Zenon, <2>15, <1>t, <2>3 DEF WakeSkip
  <2>16. CASE LeadReturn(a)
    BY Zenon, <2>16, <1>t, <2>3 DEF LeadReturn
  <2> QED
    BY ZenonT(30), <1>2, <2>1, <2>2, <2>4, <2>5, <2>6, <2>7, <2>8, <2>9, <2>10,
       <2>11, <2>12, <2>13, <2>14, <2>15, <2>16
    DEF UpdaterStep, WaiterStep, LockStep, GpStep, WakeStep, CoreStep
<1> QED
  BY ZenonT(30), <1>1, <1>2, MildStep

-----------------------------------------------------------------------------
(* The invariant, and what follows from it. *)

(* The invariant holds when the library is loaded. *)
LEMMA InitInv == Init => IInv
<1> SUFFICES ASSUME Init PROVE IInv
  OBVIOUS
<1> USE UrcuAssumption DEF Init, Threads
<1>0. /\ gp_lock = NoThread /\ registry_lock = NoThread
      /\ \A u \in Updaters : u # NoThread /\ pc[u] = "idle"
                             /\ waiters[u] = <<>> /\ state[u] = {}
                             /\ pre[u] = {}
      /\ \A t \in Threads : pc[t] = "idle"
      /\ \A r \in Readers : /\ pc[r] = "idle" /\ list[r] = "none"
                            /\ sb[r] = <<>> /\ mem[r] = ctr[r]
                            /\ ctr[r].nest = 0
      /\ gp_waiters = <<>> /\ futex = 0
  OBVIOUS
<1>1. TypeOK
  BY DEF TypeOK, Ctr
<1>2. LockInv /\ RoleInv /\ ReaderInv
  BY <1>0
  DEF LockInv, RoleInv, ReaderInv, HoldsGp, HoldsRegistry, GpPc, ReaderPc,
      SyncPc, WaitPc, WakePc
<1>3. BufferInv /\ FenceInv /\ PreInv /\ FencedWakeInv
  BY <1>0 DEF BufferInv, FenceInv, PreInv, FencedWakeInv, InCS
<1>4. GraceInv
  BY Zenon, <1>0 DEF GraceInv, GpPc, WakePc
<1>5. ListInv /\ FutexInv
  BY Zenon, <1>0 DEF ListInv, Restored, FutexInv
<1>6. SleepInv
  BY <1>0 DEF SleepInv
<1>7. Len(gp_waiters) = 0 /\ \A u \in Updaters : Len(waiters[u]) = 0
  BY Zenon, <1>0
<1>8. StackInv
  BY <1>0, <1>7 DEF StackInv
<1>9. BatchInv
  BY <1>0, <1>7 DEF BatchInv, BatchPc, BatchUnique, WakePc
<1>10. WaiterInv /\ WaiterHasWaker
  BY Zenon, <1>0 DEF WaiterInv, WaiterHasWaker, SyncPc, WaitPc, GpPc, WakePc
<1> QED
  BY Zenon, <1>1, <1>2, <1>3, <1>4, <1>5, <1>6, <1>8, <1>9, <1>10 DEF IInv

(* Every step of a reader, an updater or the hardware preserves it. *)
LEMMA InvStep == IInv /\ [Next]_vars => IInv'
BY Zenon, TypeStep, LockStepInv, RoleStep, ReaderInvStep, BufferInvStep,
   FenceInvStep, PreInvStep, GraceInvStep, ListInvStep, FutexInvStep,
   SleepInvStep, FencedWakeInvStep, StackInvStep, BatchInvStep,
   WaiterInvStep, WaiterHasWakerStep
DEF IInv

(* IInv is an invariant of every behaviour of the library. *)
THEOREM Invariance == Spec => []IInv
BY InitInv, InvStep, PTL DEF Spec

(* The types, and that rcu_gp.futex never leaves {-1, 0}: each decrement   *)
(* of wait_for_readers() finds it reset by a reader or by the leader.      *)
THEOREM TypeCorrect == Spec => []TypeOK
<1>1. IInv => TypeOK
  BY Zenon DEF IInv
<1> QED
  BY <1>1, Invariance, PTL

(* synchronize_rcu(), leading a grace period or batched behind a leader,   *)
(* never completes while a section it found in progress is still open.     *)
THEOREM GracePeriod == Spec => []GracePeriodGuarantee
<1>1. IInv => GracePeriodGuarantee
  BY Zenon DEF IInv, GraceInv, Served, WaiterInv, GracePeriodGuarantee
<1> QED
  BY <1>1, Invariance, PTL

(* No registered reader is lost: whenever rcu_gp_lock is free, all of them *)
(* are on the registry again.                                              *)
THEOREM ReadersRestored == Spec => []ListsRestored
<1>1. IInv => ListsRestored
  BY Zenon DEF IInv, ListInv, Restored, ListsRestored
<1> QED
  BY <1>1, Invariance, PTL

(* urcu_wake_all_waiters() only follows nodes whose owners are still       *)
(* inside their call, although the nodes live on the owners' stacks.       *)
THEOREM NodesAlive == Spec => []WaitNodeAlive
<1>1. IInv => WaitNodeAlive
  BY Zenon DEF IInv, BatchInv, Entry, LeaderEntry, AsleepEntry, WokenEntry, Asleep,
           WaitPc, WaitNodeAlive
<1> QED
  BY <1>1, Invariance, PTL

(* The urcu_posix_assert() of urcu_adaptative_wake_up() never fails. *)
THEOREM WakesOnce == Spec => []WakesWaiting
<1>1. IInv => WakesWaiting
  <2> SUFFICES ASSUME IInv, NEW u \in Updaters, pc[u] = "wk_store"
               PROVE  state[Target(u)] = {}
    BY Zenon DEF WakesWaiting
  <2>1. TypeOK /\ BatchInv /\ waiters[u] # <<>>
    BY Zenon DEF IInv, BatchInv, BatchPc, WakePc
  <2>2. Entry(u, 1, Target(u))
    BY Zenon, <2>1, TargetIsFirst
  <2> QED
    BY Zenon, <2>2 DEF Entry, LeaderEntry, AsleepEntry, WokenEntry, Asleep, Waking,
                WakePc
<1> QED
  BY <1>1, Invariance, PTL

(* The leader is never asleep on rcu_gp.futex with no reader left to wake  *)
(* it, with or without sys_membarrier.                                     *)
THEOREM LeaderWoken == Spec => []SleeperHasWaker
<1>1. IInv => SleeperHasWaker
  BY Zenon DEF IInv, SleepInv, FutexInv, WillWake, SleeperHasWaker, Input, OnList,
           Armed, TypeOK
<1> QED
  BY <1>1, Invariance, PTL

(* No waiter sleeps through its wakeup. *)
THEOREM WaiterWoken == Spec => []WaiterHasWaker
<1>1. IInv => WaiterHasWaker
  BY Zenon DEF IInv
<1> QED
  BY <1>1, Invariance, PTL

(* Only three steps enter or leave synchronize_rcu(). *)
LEMMA InsideCall ==
  ASSUME TypeOK, NEW a \in Updaters, UpdaterStep(a)
  PROVE  \/ SyncPush(a) \/ WaitReturn(a) \/ LeadReturn(a)
         \/ pc[a] \in SyncPc /\ pc'[a] \in SyncPc
<1> USE DEF AfterBarrier, Goto, TypeOK, Threads, SyncPc, WaitPc, GpPc, WakePc
<1> DEFINE Inside == pc[a] \in SyncPc /\ pc'[a] \in SyncPc
<1>1. LeadLink(a) \/ WaitLink(a) \/ WaitLoad(a) \/ WaitSpurious(a) \/
      WaitRunning(a) \/ GpLock(a) \/ MoveWaiters(a)
      => Inside
  BY Zenon DEF LeadLink, WaitLink, WaitLoad, WaitSpurious, WaitRunning, GpLock,
      MoveWaiters
<1>2. RegLock(a) \/ BarrierStart(a) \/ Loop(a) \/ BarrierFutex(a) \/
      Scan(a) \/ ScanDone(a) \/ BarrierClear(a)
      => Inside
  BY Zenon DEF RegLock, BarrierStart, Loop, BarrierFutex, Scan, ScanDone,
      BarrierClear
<1>3. BarrierWait(a) \/ GpFutexWait(a) \/ GpSpurious(a) \/ Relock(a) \/
      FlipPhase(a) \/ SpliceBack(a) \/ BarrierEnd(a)
      => Inside
  BY Zenon DEF BarrierWait, GpFutexWait, GpSpurious, Relock, FlipPhase,
      SpliceBack, BarrierEnd
<1>4. Out(a) \/ WakeNext(a) \/ WakeSkip(a) \/ WakeState(a) \/
      WakeCheck(a) \/ WakeFutex(a) \/ WakeTeardown(a)
      => Inside
  BY Zenon DEF Out, WakeNext, WakeSkip, WakeState, WakeCheck, WakeFutex,
      WakeTeardown
<1> QED
  BY Zenon, <1>1, <1>2, <1>3, <1>4
  DEF UpdaterStep, WaiterStep, LockStep, GpStep, WakeStep

(* Every step of the library is a step of the abstract grace period, or    *)
(* changes none of what the callers see.                                   *)
LEMMA RcuStep == IInv /\ [Next]_vars => [R!Next]_(R!vars)
<1> SUFFICES ASSUME IInv, [Next]_vars PROVE [R!Next]_(R!vars)
  OBVIOUS
<1> DEFINE CS == {r \in Readers : InCS(r)}
           SY == {u \in Updaters : pc[u] \in SyncPc}
<1>t. TypeOK /\ RoleInv /\ ReaderInv /\ GraceInv /\ WaiterInv
  BY Zenon DEF IInv
<1>s. ASSUME CS' = CS, SY' = SY, pre' = pre PROVE [R!Next]_(R!vars)
  BY Zenon, <1>s DEF R!vars
<1>1. CASE UNCHANGED vars
  BY Zenon, <1>1, <1>s DEF vars, readerVars, InCS
<1>2. ASSUME NEW q \in Readers, ReaderStep(q) \/ Hardware(q)
      PROVE  [R!Next]_(R!vars)
  <2>1. SY' = SY
    <3>1. \A u \in Updaters : pc'[u] \in SyncPc <=> pc[u] \in SyncPc
      BY <1>t, <1>2, ReaderFrame
      DEF Threads, ReaderPc, SyncPc, WaitPc, GpPc, WakePc
    <3> QED
      BY Zenon, <3>1
  <2>2. \A r \in Readers \ {q} : InCS(r)' <=> InCS(r)
    BY Zenon, <1>t, <1>2, ReaderFrame DEF InCS, Threads
  <2>3. CASE ReadUnlock(q)
    <3>1. /\ InCS(q) /\ ~InCS(q)'
          /\ pre' = [u \in Updaters |-> pre[u] \ {q}]
      BY <1>t, <2>3 DEF ReadUnlock, StoreCtr, WithNest, InCS, TypeOK
    <3>2. q \in CS /\ CS' = CS \ {q}
      BY Zenon, <2>2, <3>1
    <3>3. R!ReadUnlock(q)
      BY Zenon, <2>1, <3>1, <3>2 DEF R!ReadUnlock
    <3> QED
      BY Zenon, <3>3 DEF R!Next
  <2>4. CASE ~ReadUnlock(q)
    <3>1. pre' = pre
      BY Zenon, <1>2, <2>4
      DEF ReaderStep, ReaderCall, Hardware, Register, Unregister, ReadLock,
          ReadLockStore, ReadLockBarrier, ReadLockNested, ReadUnlockNested,
          WakeLoad, WakeStore, WakeCall, Flush, MasterBarrierReach
    <3>2. InCS(q) => InCS(q)'
      BY Zenon, <2>4, SectionKept
    <3>3. CASE InCS(q)' <=> InCS(q)
      <4>1. CS' = CS
        BY Zenon, <2>2, <3>3
      <4> QED
        BY Zenon, <1>s, <2>1, <3>1, <4>1
    <3>4. CASE ~InCS(q) /\ InCS(q)'
      <4>1. q \notin CS /\ CS' = CS \cup {q}
        BY Zenon, <2>2, <3>4
      <4>2. R!ReadLock(q)
        BY Zenon, <2>1, <3>1, <4>1 DEF R!ReadLock
      <4> QED
        BY Zenon, <4>2 DEF R!Next
    <3> QED
      BY Zenon, <3>2, <3>3, <3>4
  <2> QED
    BY Zenon, <2>3, <2>4
<1>3. ASSUME NEW a \in Updaters, UpdaterStep(a) PROVE [R!Next]_(R!vars)
  <2>1. CS' = CS
    <3>1. \A r \in Readers : InCS(r)' <=> InCS(r)
      BY Zenon, <1>t, <1>3, UpdaterFrame
      DEF InCS, Threads, SyncPc, WaitPc, GpPc, WakePc
    <3> QED
      BY Zenon, <3>1
  <2>2. \A u \in Updaters \ {a} : pc'[u] \in SyncPc <=> pc[u] \in SyncPc
    BY Zenon, <1>t, <1>3, UpdaterFrame DEF Threads, SyncPc, WaitPc
  <2>3. CASE SyncPush(a)
    <3>1. /\ pc[a] = "idle" /\ pc'[a] \in {"lead_link", "wait_link"}
          /\ pre' = [pre EXCEPT ![a] = CS]
      BY Zenon, <1>t, <2>3 DEF SyncPush, Goto, TypeOK, Threads
    <3>2. a \notin SY /\ SY' = SY \cup {a}
      BY Zenon, <2>2, <3>1 DEF SyncPc, WaitPc, GpPc, WakePc
    <3>3. R!SyncStart(a)
      BY Zenon, <2>1, <3>1, <3>2 DEF R!SyncStart
    <3> QED
      BY Zenon, <3>3 DEF R!Next
  <2>4. CASE WaitReturn(a) \/ LeadReturn(a)
    <3>1. /\ pc[a] \in {"wait_teardown", "wk_next"} /\ pc'[a] = "idle"
          /\ pre' = pre
      BY Zenon, <1>t, <2>4 DEF WaitReturn, LeadReturn, Goto, TypeOK, Threads
    <3>2. pre[a] = {}
      BY Zenon, <1>t, <3>1 DEF GraceInv, Served, WaiterInv, WakePc
    <3>3. a \in SY /\ SY' = SY \ {a}
      BY Zenon, <2>2, <3>1 DEF SyncPc, WaitPc, GpPc, WakePc
    <3>4. R!SyncReturn(a)
      BY Zenon, <2>1, <3>1, <3>2, <3>3 DEF R!SyncReturn
    <3> QED
      BY Zenon, <3>4 DEF R!Next
  <2>5. CASE pc[a] \in SyncPc /\ pc'[a] \in SyncPc
    <3>1. pre' = pre
      BY Zenon, <1>t, <1>3, <2>5, UpdaterLocals
      DEF SyncPush, SyncPc, WaitPc, GpPc, WakePc
    <3>2. SY' = SY
      BY Zenon, <2>2, <2>5
    <3> QED
      BY Zenon, <1>s, <2>1, <3>1, <3>2
  <2> QED
    BY Zenon, <1>t, <1>3, <2>3, <2>4, <2>5, InsideCall
<1> QED
  BY Zenon, <1>1, <1>2, <1>3 DEF Next

(* Both flavours implement the abstract grace period: seen from outside,   *)
(* sections open and close, and synchronize_rcu() returns only when the    *)
(* sections it found open have closed.                                     *)
THEOREM Refinement == Spec => ImplementsRcu
<1>1. Init => R!Init
  <2> SUFFICES ASSUME Init PROVE R!Init
    OBVIOUS
  <2>1. {r \in Readers : InCS(r)} = {}
    BY DEF Init, InCS
  <2>2. {u \in Updaters : pc[u] \in SyncPc} = {}
    BY Zenon DEF Init, Threads, SyncPc, WaitPc, GpPc, WakePc
  <2> QED
    BY Zenon, <2>1, <2>2 DEF R!Init, Init
<1> QED
  BY <1>1, RcuStep, Invariance, PTL DEF Spec, ImplementsRcu, R!Spec
=============================================================================
