-------------------------- MODULE UrcuGraceProofs ---------------------------
(***************************************************************************)
(* Lemmas about the steps of Urcu, and the grace period: the list, futex   *)
(* and reader tracking invariants.                                         *)
(***************************************************************************)
EXTENDS UrcuInvariant, TLAPS

(* The rest of a sequence. *)
LEMMA TailOf ==
  ASSUME NEW S, NEW s \in Seq(S), s # <<>>
  PROVE  /\ Head(s) \in S
         /\ Tail(s) \in Seq(S)
         /\ Len(Tail(s)) = Len(s) - 1
         /\ \A k \in 1..Len(Tail(s)) : Tail(s)[k] = s[k + 1]
<1>1. Head(s) \in S
  OBVIOUS
<1>2. Tail(s) \in Seq(S)
  OBVIOUS
<1>3. Len(Tail(s)) = Len(s) - 1
  OBVIOUS
<1>4. \A k \in 1..Len(Tail(s)) : Tail(s)[k] = s[k + 1]
  OBVIOUS
<1> QED
  BY Zenon, <1>1, <1>2, <1>3, <1>4

(* The empty sequence. *)
LEMMA EmptyOf ==
  ASSUME NEW S, NEW s \in Seq(S)
  PROVE  s = <<>> <=> Len(s) = 0
OBVIOUS

(* Two sequences one after the other. *)
LEMMA ConcatOf ==
  ASSUME NEW S, NEW s \in Seq(S), NEW t \in Seq(S)
  PROVE  /\ s \o t \in Seq(S)
         /\ Len(s \o t) = Len(s) + Len(t)
         /\ \A k \in 1..(Len(s) + Len(t)) :
              (s \o t)[k] = IF k <= Len(s) THEN s[k] ELSE t[k - Len(s)]
<1>1. s \o t \in Seq(S) /\ Len(s \o t) = Len(s) + Len(t)
  OBVIOUS
<1>2. ASSUME NEW k \in 1..(Len(s) + Len(t))
      PROVE  (s \o t)[k] = IF k <= Len(s) THEN s[k] ELSE t[k - Len(s)]
  BY <1>1
<1> QED
  BY Zenon, <1>1, <1>2

(* Every step of every reader and updater keeps the types of Urcu, and     *)
(* rcu_gp.futex in {-1, 0}.                                                *)
LEMMA TypeStep == IInv /\ [Next]_vars => TypeOK'
<1> SUFFICES ASSUME IInv, [Next]_vars PROVE TypeOK'
  OBVIOUS
<1> USE UrcuAssumption
    DEF Goto, Threads, readerVars, lockVars, waitVars, gpVars
<1>t. TypeOK
  BY Zenon DEF IInv
<1>1. ASSUME NEW r \in Readers, NEW v \in Ctr, StoreCtr(r, v)
      PROVE ctr' \in [Readers -> Ctr] /\ sb' \in [Readers -> Seq(Ctr)]
  BY <1>t, <1>1 DEF TypeOK, StoreCtr
<1>p. ASSUME NEW t \in Threads, NEW l \in SyncPc, Goto(t, l)
      PROVE pc' \in [Threads -> {"idle"} \cup ReaderPc \cup SyncPc]
  BY Zenon, <1>p, <1>t DEF TypeOK
<1>2. ASSUME NEW r \in Readers, ReadLockStore(r) PROVE TypeOK'
  <2>1. [phase |-> gctr[r], nest |-> 1] \in Ctr
    BY <1>t DEF TypeOK, Ctr
  <2> QED
    BY Zenon, <2>1, <1>1, <1>2, <1>t DEF TypeOK, ReadLockStore, ReaderPc
<1>3. ASSUME NEW r \in Readers, NEW n \in 0..MaxNest, StoreCtr(r, WithNest(r, n))
      PROVE ctr' \in [Readers -> Ctr] /\ sb' \in [Readers -> Seq(Ctr)]
  BY ZenonT(30), <1>1, <1>3, <1>t DEF TypeOK, Ctr, WithNest
<1>4. \A r \in Readers : ctr[r].nest \in 0..MaxNest
  BY Zenon, <1>t DEF TypeOK, Ctr
<1>5. ASSUME NEW r \in Readers, ReaderStep(r) \/ Hardware(r) PROVE TypeOK'
  <2>1. CASE ReadLockStore(r)
    BY Zenon, <1>2, <2>1
  <2>2. CASE ReadLockNested(r)
    <3>1. PICK n \in 0..MaxNest : n = ctr[r].nest + 1
      <4>1. ctr[r].nest \in 1..(MaxNest - 1)
        BY Zenon, <2>2 DEF ReadLockNested
      <4> QED
        BY <4>1
    <3>2. ctr' \in [Readers -> Ctr] /\ sb' \in [Readers -> Seq(Ctr)]
      BY Zenon, <1>3, <2>2, <3>1 DEF ReadLockNested
    <3> QED
      BY Zenon, <1>t, <2>2, <3>2 DEF TypeOK, ReadLockNested
  <2>3. CASE ReadUnlockNested(r)
    BY <1>3, <1>4, <1>t, <2>3 DEF TypeOK, ReadUnlockNested
  <2>4. CASE ReadUnlock(r)
    BY <1>3, <1>4, <1>t, <2>4 DEF TypeOK, ReadUnlock, ReaderPc
  <2>5. CASE Register(r)
    BY Zenon, <1>t, <2>5 DEF TypeOK, Register
  <2>6. CASE Unregister(r)
    BY Zenon, <1>t, <2>6 DEF TypeOK, Unregister
  <2>7. CASE ReadLock(r)
    BY Zenon, <1>t, <2>7 DEF TypeOK, ReadLock, ReaderPc
  <2>8. CASE ReadLockBarrier(r)
    BY Zenon, <1>t, <2>8 DEF TypeOK, ReadLockBarrier
  <2>9. CASE WakeLoad(r)
    BY Zenon, <1>t, <2>9 DEF TypeOK, WakeLoad, ReaderPc
  <2>10. CASE WakeStore(r)
    BY Zenon, <1>t, <2>10 DEF TypeOK, WakeStore, ReaderPc
  <2>11. CASE WakeCall(r)
    BY Zenon, <1>t, <2>11 DEF TypeOK, WakeCall, SyncPc, GpPc
  <2>12. CASE Flush(r)
    BY <1>t, <2>12 DEF TypeOK, Flush
  <2>13. CASE MasterBarrierReach(r)
    BY <1>t, <2>13 DEF TypeOK, MasterBarrierReach
  <2> QED
    BY Zenon, <1>5, <2>1, <2>2, <2>3, <2>4, <2>5, <2>6, <2>7, <2>8, <2>9, <2>10,
       <2>11, <2>12, <2>13 DEF ReaderStep, ReaderCall, Hardware
<1>6. ASSUME NEW u \in Updaters, UpdaterStep(u) PROVE TypeOK'
  <2>1. CASE Loop(u)
    <3>1. futex = 0
      BY Zenon, <2>1 DEF IInv, FutexInv, LockInv, HoldsGp, GpPc, Armed, Loop
    <3>2. /\ ipi' \in SUBSET Readers /\ todo' \in SUBSET Readers
          /\ futex' \in {-1, 0} /\ wait_loops' \in 0..Attempts
      BY <3>1, <2>1, <1>t DEF TypeOK, Loop, Input, OnList, StartMasterBarrier
    <3>3. pc' \in [Threads -> {"idle"} \cup ReaderPc \cup SyncPc]
      <4>1. \E l \in {"mb_futex", "scan"} : Goto(u, l)
        BY Zenon, <2>1 DEF Loop
      <4> QED
        BY ZenonT(30), <4>1, <1>p DEF SyncPc, GpPc
    <3> QED
      BY Zenon, <3>2, <3>3, <2>1, <1>t DEF TypeOK, Loop
  <2>2. CASE WakeTeardown(u)
    <3>1. waiters[u] # <<>>
      BY Zenon, <2>2 DEF IInv, BatchInv, BatchPc, WakePc, WakeTeardown
    <3>2. /\ waiters' \in [Updaters -> Seq(Updaters)]
          /\ state' \in [Updaters -> SUBSET {"WAKEUP", "RUNNING", "TEARDOWN"}]
      <4>1. Target(u) \in Updaters
        BY <3>1, <1>t DEF TypeOK, Target
      <4>2. state' = [state EXCEPT ![Target(u)] = @ \cup {"TEARDOWN"}]
        BY Zenon, <2>2 DEF WakeTeardown
      <4> QED
        BY <4>1, <4>2, <3>1, <2>2, <1>t DEF TypeOK, WakeTeardown
    <3> QED
      BY Zenon, <3>1, <3>2, <2>2, <1>t DEF TypeOK, WakeTeardown, SyncPc, WakePc
  <2>3. CASE SyncPush(u)
    BY <1>t, <2>3 DEF TypeOK, SyncPush, SyncPc, WaitPc
  <2>4. CASE WaitLink(u)
    BY Zenon, <1>t, <2>4 DEF TypeOK, WaitLink, SyncPc, WaitPc
  <2>5. CASE WaitLoad(u)
    BY Zenon, <1>t, <2>5 DEF TypeOK, WaitLoad, SyncPc, WaitPc
  <2>6. CASE WaitSpurious(u)
    BY Zenon, <1>t, <2>6 DEF TypeOK, WaitSpurious, SyncPc, WaitPc
  <2>7. CASE WaitRunning(u)
    BY Zenon, <1>t, <2>7 DEF TypeOK, WaitRunning, SyncPc, WaitPc
  <2>8. CASE WaitReturn(u)
    BY Zenon, <1>t, <2>8 DEF TypeOK, WaitReturn
  <2>9. CASE LeadLink(u)
    BY Zenon, <1>t, <2>9 DEF TypeOK, LeadLink, SyncPc
  <2>10. CASE GpLock(u)
    BY Zenon, <1>t, <2>10 DEF TypeOK, GpLock, SyncPc
  <2>11. CASE MoveWaiters(u)
    BY <1>t, <2>11 DEF TypeOK, MoveWaiters, SyncPc
  <2>12. CASE RegLock(u)
    <3>1. /\ ipi' \in SUBSET Readers /\ todo' \in SUBSET Readers
          /\ pass' \in {1, 2} /\ wait_loops' \in 0..Attempts
      BY <1>t, <2>12 DEF TypeOK, RegLock, StartMasterBarrier
    <3>2. pc' \in [Threads -> {"idle"} \cup ReaderPc \cup SyncPc]
      <4>1. \E l \in {"out", "mb_start"} : Goto(u, l)
        BY Zenon, <2>12 DEF RegLock
      <4> QED
        BY ZenonT(30), <4>1, <1>p DEF SyncPc, GpPc
    <3> QED
      BY Zenon, <3>1, <3>2, <1>t, <2>12 DEF TypeOK, RegLock
  <2>13. CASE BarrierStart(u)
    BY Zenon, <1>t, <2>13 DEF TypeOK, BarrierStart, AfterBarrier, SyncPc, GpPc
  <2>14. CASE BarrierFutex(u)
    BY Zenon, <1>t, <2>14 DEF TypeOK, BarrierFutex, AfterBarrier, SyncPc, GpPc,
       Input, OnList
  <2>15. CASE Scan(u)
    BY <1>t, <2>15 DEF TypeOK, Scan, ScanTo, reader_state
  <2>16. CASE ScanDone(u)
    <3>1. /\ ipi' \in SUBSET Readers
          /\ registry_lock' \in Updaters \cup {NoThread}
      BY Zenon, <1>t, <2>16 DEF TypeOK, ScanDone, StartMasterBarrier
    <3>2. pc' \in [Threads -> {"idle"} \cup ReaderPc \cup SyncPc]
      <4>1. \E l \in {"mb_clear", "mb_wait", "passed", "relock"} : Goto(u, l)
        BY Zenon, <2>16 DEF ScanDone
      <4> QED
        BY ZenonT(30), <4>1, <1>p DEF SyncPc, GpPc
    <3> QED
      BY Zenon, <3>1, <3>2, <1>t, <2>16 DEF TypeOK, ScanDone
  <2>17. CASE BarrierClear(u)
    BY Zenon, <1>t, <2>17 DEF TypeOK, BarrierClear, AfterBarrier, SyncPc, GpPc
  <2>18. CASE BarrierWait(u)
    BY Zenon, <1>t, <2>18 DEF TypeOK, BarrierWait, AfterBarrier, SyncPc, GpPc
  <2>19. CASE GpFutexWait(u)
    BY Zenon, <1>t, <2>19 DEF TypeOK, GpFutexWait, SyncPc, GpPc
  <2>20. CASE GpSpurious(u)
    BY Zenon, <1>t, <2>20 DEF TypeOK, GpSpurious, SyncPc, GpPc
  <2>21. CASE Relock(u)
    BY Zenon, <1>t, <2>21 DEF TypeOK, Relock, SyncPc, GpPc
  <2>22. CASE FlipPhase(u)
    BY <1>t, <2>22 DEF TypeOK, FlipPhase, SyncPc, GpPc
  <2>23. CASE SpliceBack(u)
    BY Zenon, <1>t, <2>23 DEF TypeOK, SpliceBack, StartMasterBarrier, SyncPc, GpPc
  <2>24. CASE BarrierEnd(u)
    BY Zenon, <1>t, <2>24 DEF TypeOK, BarrierEnd, AfterBarrier, SyncPc, GpPc
  <2>25. CASE Out(u)
    BY Zenon, <1>t, <2>25 DEF TypeOK, Out, SyncPc, WakePc
  <2>26. CASE WakeNext(u)
    BY Zenon, <1>t, <2>26 DEF TypeOK, WakeNext, SyncPc, WakePc
  <2>27. CASE WakeState(u)
    BY ZenonT(30), <1>t, <2>27 DEF TypeOK, WakeState, SyncPc, WakePc
  <2>28. CASE WakeCheck(u)
    BY Zenon, <1>t, <2>28 DEF TypeOK, WakeCheck, SyncPc, WakePc
  <2>29. CASE WakeFutex(u)
    BY Zenon, <1>t, <2>29 DEF TypeOK, WakeFutex, SyncPc, WakePc, WaitPc
  <2>30. CASE LeadReturn(u)
    BY Zenon, <1>t, <2>30 DEF TypeOK, LeadReturn
  <2>31. CASE WakeSkip(u)
    BY <1>t, <2>31 DEF TypeOK, WakeSkip
  <2> QED
    BY ZenonT(30), <1>6, <2>31, <2>1, <2>2, <2>3, <2>4, <2>5, <2>6, <2>7, <2>8, <2>9, <2>10,
       <2>11, <2>12, <2>13, <2>14, <2>15, <2>16, <2>17, <2>18, <2>19, <2>20,
       <2>21, <2>22, <2>23, <2>24, <2>25, <2>26, <2>27, <2>28, <2>29, <2>30
       DEF UpdaterStep, WaiterStep, LockStep, GpStep, WakeStep
<1>7. CASE UNCHANGED vars
  BY Zenon, <1>7, <1>t DEF TypeOK, vars
<1> QED
  BY Zenon, <1>5, <1>6, <1>7 DEF Next

(* What a read-side call, or the hardware draining a store buffer, leaves  *)
(* alone: the grace-period state, the queues and the other threads, but    *)
(* for an updater its FUTEX_WAKE wakes.                                    *)
LEMMA ReaderFrame ==
  ASSUME NEW r \in Readers, TypeOK, RoleInv, ReaderStep(r) \/ Hardware(r)
  PROVE  /\ UNCHANGED <<gp_ctr, gp_lock, registry_lock, gp_waiters, state,
                        waiters, pass, wait_loops, todo>>
         /\ \A q \in Readers \ {r} :
              UNCHANGED <<ctr[q], mem[q], sb[q], list[q]>>
         /\ \/ pc'[r] = pc[r]
            \/ /\ pc[r] \in {"idle"} \cup ReaderPc
               /\ pc'[r] \in {"idle"} \cup ReaderPc
         /\ \A t \in Threads \ {r} :
              \/ pc'[t] = pc[t]
              \/ pc[t] = "gp_sleep" /\ pc'[t] = "gp_futex"
<1> USE DEF TypeOK, Goto, StoreCtr, Threads, ReaderPc, readerVars, lockVars,
            waitVars, gpVars
<1>1. CASE Register(r)
  BY Zenon, <1>1 DEF Register
<1>2. CASE Unregister(r)
  BY Zenon, <1>2 DEF Unregister
<1>3. CASE ReadLock(r)
  BY Zenon, <1>3 DEF ReadLock
<1>4. CASE ReadLockStore(r)
  BY Zenon, <1>4 DEF ReadLockStore
<1>5. CASE ReadLockBarrier(r)
  BY Zenon, <1>5 DEF ReadLockBarrier
<1>6. CASE ReadLockNested(r)
  BY Zenon, <1>6 DEF ReadLockNested
<1>7. CASE ReadUnlock(r)
  BY Zenon, <1>7 DEF ReadUnlock
<1>8. CASE ReadUnlockNested(r)
  BY Zenon, <1>8 DEF ReadUnlockNested
<1>9. CASE WakeLoad(r)
  BY Zenon, <1>9 DEF WakeLoad
<1>10. CASE WakeStore(r)
  BY Zenon, <1>10 DEF WakeStore
<1>11. CASE WakeCall(r)
  BY Zenon, <1>11 DEF WakeCall
<1>12. CASE Flush(r)
  BY Zenon, <1>12 DEF Flush
<1>13. CASE MasterBarrierReach(r)
  BY Zenon, <1>13 DEF MasterBarrierReach
<1> QED
  BY Zenon, <1>1, <1>2, <1>3, <1>4, <1>5, <1>6, <1>7, <1>8, <1>9, <1>10, <1>11, <1>12, <1>13
  DEF ReaderStep, ReaderCall, Hardware

(* What a step of synchronize_rcu() leaves alone: the reader counters and  *)
(* the other threads, but for a waiter its FUTEX_WAKE wakes.               *)
LEMMA UpdaterFrame ==
  ASSUME NEW u \in Updaters, TypeOK, UpdaterStep(u)
  PROVE  /\ UNCHANGED <<ctr, mem, sb, gctr>>
         /\ pc[u] \in {"idle"} \cup SyncPc
         /\ pc'[u] \in {"idle"} \cup SyncPc
         /\ \A t \in Threads \ {u} :
              \/ pc'[t] = pc[t]
              \/ pc[t] = "wait_sleep" /\ pc'[t] = "wait"
<1> USE DEF TypeOK, Goto, Threads, readerVars, AfterBarrier,
            SyncPc, WaitPc, GpPc, WakePc
<1>1. CASE SyncPush(u)
  BY Zenon, <1>1 DEF SyncPush
<1>2. CASE LeadLink(u)
  BY Zenon, <1>2 DEF LeadLink
<1>3. CASE WaitLink(u)
  BY Zenon, <1>3 DEF WaitLink
<1>4. CASE WaitLoad(u)
  BY Zenon, <1>4 DEF WaitLoad
<1>5. CASE WaitSpurious(u)
  BY Zenon, <1>5 DEF WaitSpurious
<1>6. CASE WaitRunning(u)
  BY Zenon, <1>6 DEF WaitRunning
<1>7. CASE WaitReturn(u)
  BY Zenon, <1>7 DEF WaitReturn
<1>8. CASE GpLock(u)
  BY Zenon, <1>8 DEF GpLock
<1>9. CASE MoveWaiters(u)
  BY Zenon, <1>9 DEF MoveWaiters
<1>10. CASE RegLock(u)
  BY Zenon, <1>10 DEF RegLock
<1>11. CASE BarrierStart(u)
  BY Zenon, <1>11 DEF BarrierStart
<1>12. CASE Loop(u)
  BY Zenon, <1>12 DEF Loop
<1>13. CASE BarrierFutex(u)
  BY Zenon, <1>13 DEF BarrierFutex
<1>14. CASE Scan(u)
  BY Zenon, <1>14 DEF Scan
<1>15. CASE ScanDone(u)
  BY Zenon, <1>15 DEF ScanDone
<1>16. CASE BarrierClear(u)
  BY Zenon, <1>16 DEF BarrierClear
<1>17. CASE BarrierWait(u)
  BY Zenon, <1>17 DEF BarrierWait
<1>18. CASE GpFutexWait(u)
  BY Zenon, <1>18 DEF GpFutexWait
<1>19. CASE GpSpurious(u)
  BY Zenon, <1>19 DEF GpSpurious
<1>20. CASE Relock(u)
  BY Zenon, <1>20 DEF Relock
<1>21. CASE FlipPhase(u)
  BY Zenon, <1>21 DEF FlipPhase
<1>22. CASE SpliceBack(u)
  BY Zenon, <1>22 DEF SpliceBack
<1>23. CASE BarrierEnd(u)
  BY Zenon, <1>23 DEF BarrierEnd
<1>24. CASE Out(u)
  BY Zenon, <1>24 DEF Out
<1>25. CASE WakeNext(u)
  BY Zenon, <1>25 DEF WakeNext
<1>26. CASE WakeSkip(u)
  BY Zenon, <1>26 DEF WakeSkip
<1>27. CASE WakeState(u)
  BY Zenon, <1>27 DEF WakeState
<1>28. CASE WakeCheck(u)
  BY Zenon, <1>28 DEF WakeCheck
<1>29. CASE WakeFutex(u)
  BY Zenon, <1>29 DEF WakeFutex
<1>30. CASE WakeTeardown(u)
  BY Zenon, <1>30 DEF WakeTeardown
<1>31. CASE LeadReturn(u)
  BY Zenon, <1>31 DEF LeadReturn
<1> QED
  BY ZenonT(30), <1>1, <1>2, <1>3, <1>4, <1>5, <1>6, <1>7, <1>8, <1>9, <1>10, <1>11,
     <1>12, <1>13, <1>14, <1>15, <1>16, <1>17, <1>18, <1>19, <1>20, <1>21,
     <1>22, <1>23, <1>24, <1>25, <1>26, <1>27, <1>28, <1>29, <1>30, <1>31
  DEF UpdaterStep, WaiterStep, LockStep, GpStep, WakeStep

(* Read-side calls are made by readers, synchronize_rcu() by updaters.     *)
LEMMA RoleStep == IInv /\ [Next]_vars => RoleInv'
<1> SUFFICES ASSUME IInv, [Next]_vars PROVE RoleInv'
  OBVIOUS
<1> USE DEF RoleInv, Threads, ReaderPc, SyncPc, WaitPc, GpPc, WakePc
<1>t. TypeOK /\ RoleInv
  BY Zenon DEF IInv
<1>1. ASSUME NEW r \in Readers, ReaderStep(r) \/ Hardware(r) PROVE RoleInv'
  BY <1>t, <1>1, ReaderFrame
<1>2. ASSUME NEW u \in Updaters, UpdaterStep(u) PROVE RoleInv'
  BY Zenon, <1>t, <1>2, UpdaterFrame
<1>3. CASE UNCHANGED vars
  BY Zenon, <1>t, <1>3 DEF vars
<1> QED
  BY Zenon, <1>1, <1>2, <1>3 DEF Next

(* rcu_gp_lock and rcu_registry_lock are owned by the threads that are     *)
(* between mutex_lock() and mutex_unlock().                                *)
LEMMA LockStepInv == IInv /\ [Next]_vars => LockInv'
<1> SUFFICES ASSUME IInv, [Next]_vars PROVE LockInv'
  OBVIOUS
<1> USE UrcuAssumption
    DEF LockInv, HoldsGp, HoldsRegistry, Threads, GpPc
<1>t. TypeOK /\ RoleInv /\ LockInv
  BY Zenon DEF IInv
<1>1. ASSUME NEW r \in Readers, ReaderStep(r) \/ Hardware(r) PROVE LockInv'
  BY <1>t, <1>1, ReaderFrame DEF ReaderPc
<1>2. ASSUME NEW u \in Updaters, UpdaterStep(u) PROVE LockInv'
  <2> USE DEF TypeOK, Goto, AfterBarrier, lockVars
  <2>1. CASE SyncPush(u)
    BY Zenon, <2>1, <1>t DEF SyncPush
  <2>2. CASE LeadLink(u)
    BY Zenon, <2>2, <1>t DEF LeadLink
  <2>3. CASE WaitLink(u)
    BY Zenon, <2>3, <1>t DEF WaitLink
  <2>4. CASE WaitLoad(u)
    BY Zenon, <2>4, <1>t DEF WaitLoad
  <2>5. CASE WaitSpurious(u)
    BY Zenon, <2>5, <1>t DEF WaitSpurious
  <2>6. CASE WaitRunning(u)
    BY Zenon, <2>6, <1>t DEF WaitRunning
  <2>7. CASE WaitReturn(u)
    BY Zenon, <2>7, <1>t DEF WaitReturn
  <2>8. CASE GpLock(u)
    BY <2>8, <1>t DEF GpLock
  <2>9. CASE MoveWaiters(u)
    BY Zenon, <2>9, <1>t DEF MoveWaiters
  <2>10. CASE RegLock(u)
    BY <2>10, <1>t DEF RegLock
  <2>11. CASE BarrierStart(u)
    BY Zenon, <2>11, <1>t DEF BarrierStart
  <2>12. CASE Loop(u)
    BY <2>12, <1>t DEF Loop
  <2>13. CASE BarrierFutex(u)
    BY Zenon, <2>13, <1>t DEF BarrierFutex
  <2>14. CASE Scan(u)
    BY Zenon, <2>14, <1>t DEF Scan
  <2>15. CASE ScanDone(u)
    BY <2>15, <1>t DEF ScanDone
  <2>16. CASE BarrierClear(u)
    BY Zenon, <2>16, <1>t DEF BarrierClear
  <2>17. CASE BarrierWait(u)
    BY <2>17, <1>t DEF BarrierWait
  <2>18. CASE GpFutexWait(u)
    BY Zenon, <2>18, <1>t DEF GpFutexWait
  <2>19. CASE GpSpurious(u)
    BY Zenon, <2>19, <1>t DEF GpSpurious
  <2>20. CASE Relock(u)
    BY Zenon, <2>20, <1>t DEF Relock
  <2>21. CASE FlipPhase(u)
    BY Zenon, <2>21, <1>t DEF FlipPhase
  <2>22. CASE SpliceBack(u)
    BY Zenon, <2>22, <1>t DEF SpliceBack
  <2>23. CASE BarrierEnd(u)
    BY Zenon, <2>23, <1>t DEF BarrierEnd
  <2>24. CASE Out(u)
    BY <2>24, <1>t DEF Out
  <2>25. CASE WakeNext(u)
    BY Zenon, <2>25, <1>t DEF WakeNext
  <2>26. CASE WakeSkip(u)
    BY Zenon, <2>26, <1>t DEF WakeSkip
  <2>27. CASE WakeState(u)
    BY Zenon, <2>27, <1>t DEF WakeState
  <2>28. CASE WakeCheck(u)
    BY Zenon, <2>28, <1>t DEF WakeCheck
  <2>29. CASE WakeFutex(u)
    BY Zenon, <2>29, <1>t DEF WakeFutex
  <2>30. CASE WakeTeardown(u)
    BY Zenon, <2>30, <1>t DEF WakeTeardown
  <2>31. CASE LeadReturn(u)
    BY Zenon, <2>31, <1>t DEF LeadReturn
  <2> QED
    BY ZenonT(30), <1>2, <2>1, <2>2, <2>3, <2>4, <2>5, <2>6, <2>7, <2>8, <2>9, <2>10,
       <2>11, <2>12, <2>13, <2>14, <2>15, <2>16, <2>17, <2>18, <2>19,
       <2>20, <2>21, <2>22, <2>23, <2>24, <2>25, <2>26, <2>27, <2>28,
       <2>29, <2>30, <2>31
    DEF UpdaterStep, WaiterStep, LockStep, GpStep, WakeStep
<1>3. CASE UNCHANGED vars
  BY Zenon, <1>t, <1>3 DEF vars, lockVars
<1> QED
  BY ZenonT(30), <1>1, <1>2, <1>3 DEF Next

(* An updater moves readers between lists only in the scan and in the      *)
(* final splice, and never registers or unregisters one.                   *)
LEMMA ListFrame ==
  ASSUME NEW u \in Updaters, TypeOK, ListInv, UpdaterStep(u)
  PROVE  /\ \A r \in Readers : list'[r] = "none" <=> list[r] = "none"
         /\ list' = list \/ Scan(u) \/ SpliceBack(u)
<1>1. CASE Scan(u)
  <2>1. PICK r \in todo : list' = [list EXCEPT ![r] = ScanTo(r)]
    BY ZenonT(30), <1>1 DEF Scan
  <2>2. r \in Readers /\ list[r] # "none"
    BY Zenon, <1>1, <2>1 DEF TypeOK, ListInv, Scan, Input, OnList
  <2>3. ScanTo(r) # "none"
    BY Zenon, <2>2 DEF ScanTo, reader_state
  <2> QED
    BY Zenon, <1>1, <2>1, <2>2, <2>3 DEF TypeOK
<1>2. CASE SpliceBack(u)
  BY Zenon, <1>2 DEF TypeOK, SpliceBack
<1>3. CASE UNCHANGED list
  BY Zenon, <1>3
<1> QED
  BY ZenonT(30), <1>1, <1>2, <1>3
  DEF UpdaterStep, WaiterStep, LockStep, GpStep, WakeStep, SyncPush,
      LeadLink, WaitLink, WaitLoad, WaitSpurious, WaitRunning, WaitReturn,
      GpLock, MoveWaiters, RegLock, BarrierStart, Loop, BarrierFutex,
      ScanDone, BarrierClear, BarrierWait, GpFutexWait, GpSpurious, Relock,
      FlipPhase, BarrierEnd, Out, WakeNext, WakeSkip, WakeState, WakeCheck,
      WakeFutex, WakeTeardown, LeadReturn, AfterBarrier

(* Threads in a read-side call or a section are registered, and threads    *)
(* inside synchronize_rcu() are in no section.                             *)
LEMMA ReaderInvStep == IInv /\ [Next]_vars => ReaderInv'
<1> SUFFICES ASSUME IInv, [Next]_vars PROVE ReaderInv'
  OBVIOUS
<1> USE UrcuAssumption DEF ReaderInv, Threads, ReaderPc
<1>t. TypeOK /\ RoleInv /\ ReaderInv /\ ListInv
  BY Zenon DEF IInv
<1>1. ASSUME NEW r \in Readers, ReaderStep(r) \/ Hardware(r) PROVE ReaderInv'
  <2> SUFFICES ASSUME NEW q \in Readers PROVE ReaderInv!(q)'
    OBVIOUS
  <2>1. CASE q # r
    <3>1. /\ UNCHANGED <<ctr[q], mem[q], sb[q], list[q]>>
          /\ \/ pc'[q] = pc[q]
             \/ pc[q] = "gp_sleep" /\ pc'[q] = "gp_futex"
      BY <1>t, <1>1, <2>1, ReaderFrame
    <3> QED
      BY Zenon, <1>t, <3>1 DEF SyncPc, GpPc
  <2>2. CASE q = r
    <3> USE DEF TypeOK, Ctr, Goto, StoreCtr, WithNest, SlaveBarrier, Drained,
                SyncPc, WaitPc, GpPc, WakePc, readerVars
    <3>1. CASE Register(r)
      BY Zenon, <3>1, <1>t, <2>2 DEF Register
    <3>2. CASE Unregister(r)
      BY <3>2, <1>t, <2>2 DEF Unregister
    <3>3. CASE ReadLock(r)
      BY Zenon, <3>3, <1>t, <2>2 DEF ReadLock
    <3>4. CASE ReadLockStore(r)
      BY Zenon, <3>4, <1>t, <2>2 DEF ReadLockStore
    <3>5. CASE ReadLockBarrier(r)
      BY ZenonT(30), <3>5, <1>t, <2>2 DEF ReadLockBarrier
    <3>6. CASE ReadLockNested(r)
      BY <3>6, <1>t, <2>2 DEF ReadLockNested
    <3>7. CASE ReadUnlock(r)
      BY <3>7, <1>t, <2>2 DEF ReadUnlock
    <3>8. CASE ReadUnlockNested(r)
      BY <3>8, <1>t, <2>2 DEF ReadUnlockNested
    <3>9. CASE WakeLoad(r)
      BY Zenon, <3>9, <1>t, <2>2 DEF WakeLoad
    <3>10. CASE WakeStore(r)
      BY Zenon, <3>10, <1>t, <2>2 DEF WakeStore
    <3>11. CASE WakeCall(r)
      BY ZenonT(30), <3>11, <1>t, <2>2 DEF WakeCall
    <3>12. CASE Flush(r)
      BY ZenonT(30), <3>12, <1>t, <2>2 DEF Flush
    <3>13. CASE MasterBarrierReach(r)
      BY ZenonT(30), <3>13, <1>t, <2>2 DEF MasterBarrierReach
    <3> QED
      BY ZenonT(30), <1>1, <3>1, <3>2, <3>3, <3>4, <3>5, <3>6, <3>7, <3>8, <3>9,
         <3>10, <3>11, <3>12, <3>13
      DEF ReaderStep, ReaderCall, Hardware
  <2> QED
    BY Zenon, <2>1, <2>2
<1>2. ASSUME NEW u \in Updaters, UpdaterStep(u) PROVE ReaderInv'
  <2>1. pc[u] = "idle" /\ pc'[u] # "idle" /\ u \in Readers => ctr[u].nest = 0
    BY ZenonT(30), <1>2, <1>t
    DEF UpdaterStep, WaiterStep, LockStep, GpStep, WakeStep, SyncPush,
        LeadLink, WaitLink, WaitLoad, WaitSpurious, WaitRunning,
        WaitReturn, GpLock, MoveWaiters, RegLock, BarrierStart, Loop,
        BarrierFutex, Scan, ScanDone, BarrierClear, BarrierWait,
        GpFutexWait, GpSpurious, Relock, FlipPhase, SpliceBack,
        BarrierEnd, Out, WakeNext, WakeSkip, WakeState, WakeCheck,
        WakeFutex, WakeTeardown, LeadReturn, AfterBarrier, Goto, TypeOK
  <2> SUFFICES ASSUME NEW q \in Readers PROVE ReaderInv!(q)'
    OBVIOUS
  <2>2. /\ UNCHANGED <<ctr[q], sb[q]>>
        /\ list'[q] = "none" <=> list[q] = "none"
    BY Zenon, <1>t, <1>2, UpdaterFrame, ListFrame
  <2>3. CASE q = u
    BY <1>t, <1>2, <2>1, <2>2, <2>3, UpdaterFrame
    DEF SyncPc, WaitPc, GpPc, WakePc
  <2>4. CASE q # u
    BY Zenon, <1>t, <1>2, <2>2, <2>4, UpdaterFrame DEF SyncPc, WaitPc
  <2> QED
    BY Zenon, <2>3, <2>4
<1>3. CASE UNCHANGED vars
  BY Zenon, <1>t, <1>3 DEF vars, readerVars
<1> QED
  BY Zenon, <1>1, <1>2, <1>3 DEF Next

(* A store of rcu_read_lock() or rcu_read_unlock() that keeps the nesting  *)
(* count above 0 and the parity keeps the visible counter so.              *)
LEMMA SteadyStore ==
  ASSUME TypeOK, NEW r \in Readers, NEW v \in Ctr, StoreCtr(r, v),
         Steady(r), v.nest > 0, v.phase = ctr[r].phase, mem'[r] = mem[r]
  PROVE  Steady(r)'
<1>1. sb[r] \in Seq(Ctr) /\ sb'[r] = Append(sb[r], v) /\ ctr'[r] = v
  BY Zenon DEF TypeOK, StoreCtr
<1>2. Len(sb'[r]) = Len(sb[r]) + 1
  BY <1>1
<1>3. ASSUME NEW i \in 1..Len(sb'[r])
      PROVE  sb'[r][i].nest > 0 /\ sb'[r][i].phase = v.phase
  <2>1. CASE i = Len(sb[r]) + 1
    BY <2>1, <1>1
  <2>2. CASE i \in 1..Len(sb[r])
    BY <2>2, <1>1 DEF Steady
  <2> QED
    BY <2>1, <2>2, <1>1, <1>2
<1> QED
  BY Zenon, <1>1, <1>3 DEF Steady

(* So does the hardware making the oldest pending store visible.           *)
LEMMA SteadyFlush ==
  ASSUME TypeOK, NEW r \in Readers, Flush(r), Steady(r)
  PROVE  Steady(r)'
<1>1. /\ sb[r] \in Seq(Ctr) /\ sb[r] # <<>>
      /\ sb'[r] = Tail(sb[r]) /\ mem'[r] = sb[r][1] /\ ctr'[r] = ctr[r]
  BY DEF TypeOK, Flush
<1>2. /\ 1 \in 1..Len(sb[r])
      /\ Len(sb'[r]) = Len(sb[r]) - 1
      /\ \A i \in 1..Len(sb'[r]) : sb'[r][i] = sb[r][i + 1]
  BY <1>1
<1>3. \A i \in 1..Len(sb'[r]) : i + 1 \in 1..Len(sb[r])
  BY <1>1, <1>2
<1> QED
  BY Zenon, <1>1, <1>2, <1>3 DEF Steady

(* A section only ends with the outermost rcu_read_unlock(), and keeps its *)
(* parity and its visibility until then.                                   *)
LEMMA SectionKept ==
  ASSUME IInv, [Next]_vars, NEW r \in Readers, InCS(r), ~ReadUnlock(r)
  PROVE  /\ InCS(r)'
         /\ ctr'[r].phase = ctr[r].phase
         /\ Steady(r) => Steady(r)'
<1> USE UrcuAssumption
<1>t. TypeOK /\ RoleInv /\ ReaderInv
  BY Zenon DEF IInv
<1>c. ctr[r] \in Ctr /\ ctr[r].nest \in 1..MaxNest /\ pc[r] # "lock_mb"
  BY <1>t DEF TypeOK, Ctr, InCS
<1>1. CASE UNCHANGED <<ctr[r], mem[r], sb[r]>> /\ pc'[r] # "lock_mb"
  BY Zenon, <1>1, <1>c DEF InCS, Steady
<1>2. ASSUME NEW n \in 1..MaxNest, StoreCtr(r, WithNest(r, n)),
             mem' = mem, pc' = pc
      PROVE  /\ InCS(r)'
             /\ ctr'[r].phase = ctr[r].phase
             /\ Steady(r) => Steady(r)'
  <2> DEFINE v == WithNest(r, n)
  <2>1. v \in Ctr /\ v.nest > 0 /\ v.phase = ctr[r].phase
    BY <1>c DEF Ctr, WithNest
  <2>2. ctr'[r] = v
    BY ZenonT(30), <1>t, <1>2 DEF TypeOK, StoreCtr
  <2> HIDE DEF v
  <2> QED
    BY Zenon, <1>2, <1>c, <1>t, <2>1, <2>2, SteadyStore DEF InCS, v
<1>3. ASSUME NEW q \in Readers, ReaderStep(q) \/ Hardware(q)
      PROVE  /\ InCS(r)'
             /\ ctr'[r].phase = ctr[r].phase
             /\ Steady(r) => Steady(r)'
  <2>1. CASE q # r
    BY Zenon, <1>1, <1>c, <1>t, <1>3, <2>1, ReaderFrame DEF Threads
  <2>2. CASE q = r /\ (ReadLockNested(r) \/ ReadUnlockNested(r))
    BY <1>2, <1>c, <2>2 DEF ReadLockNested, ReadUnlockNested
  <2>3. CASE q = r /\ Flush(r)
    BY ZenonT(30), <1>c, <1>t, <2>3, SteadyFlush DEF Flush, InCS
  <2>4. CASE q = r /\ MasterBarrierReach(r)
    BY <1>c, <1>t, <2>4 DEF MasterBarrierReach, InCS, Steady, TypeOK, Ctr
  <2>5. CASE q = r /\ (Register(r) \/ Unregister(r))
    BY Zenon, <1>1, <1>c, <2>5 DEF Register, Unregister, readerVars
  <2>6. CASE q = r /\ pc[r] \in ReaderPc
    <3>1. ctr[r].nest = 0
      BY ZenonT(30), <1>c, <1>t, <2>6 DEF ReaderInv
    <3>2. ctr[r].nest # 0
      BY <1>c
    <3> QED
      BY ZenonT(30), <3>1, <3>2
  <2>7. CASE q = r /\ ReadLock(r)
    <3>1. ctr[r].nest = 0
      BY ZenonT(30), <2>7 DEF ReadLock
    <3>2. ctr[r].nest # 0
      BY <1>c
    <3> QED
      BY ZenonT(30), <3>1, <3>2
  <2>8. ASSUME \/ ReadLockStore(r) \/ ReadLockBarrier(r)
               \/ WakeLoad(r) \/ WakeStore(r) \/ WakeCall(r)
        PROVE  pc[r] \in ReaderPc
    BY ZenonT(30), <2>8
    DEF ReadLockStore, ReadLockBarrier, WakeLoad, WakeStore, WakeCall, ReaderPc
  <2> QED
    BY ZenonT(30), <1>3, <2>1, <2>2, <2>3, <2>4, <2>5, <2>6, <2>7, <2>8
    DEF ReaderStep, ReaderCall, Hardware
<1>4. ASSUME NEW u \in Updaters, UpdaterStep(u)
      PROVE  UNCHANGED <<ctr[r], mem[r], sb[r]>> /\ pc'[r] # "lock_mb"
  BY Zenon, <1>4, <1>c, <1>t, UpdaterFrame
  DEF Threads, SyncPc, WaitPc, GpPc, WakePc
<1>5. CASE UNCHANGED vars
  BY Zenon, <1>1, <1>5, <1>c DEF vars, readerVars
<1> QED
  BY Zenon, <1>1, <1>3, <1>4, <1>5 DEF Next

(* The sections a synchronize_rcu() has yet to see the end of are open.    *)
LEMMA PreInvStep == IInv /\ [Next]_vars => PreInv'
<1> SUFFICES ASSUME IInv, [Next]_vars, NEW w \in Updaters, NEW r \in pre'[w]
             PROVE  InCS(r)'
  BY Zenon DEF PreInv
<1>t. TypeOK /\ RoleInv /\ PreInv /\ pre' \in [Updaters -> SUBSET Readers]
  BY ZenonT(30), TypeStep DEF IInv, TypeOK
<1>1. InCS(r) /\ ~ReadUnlock(r)
  <2>1. CASE \E u \in Updaters : SyncPush(u)
    BY <1>t, <2>1 DEF SyncPush, PreInv, TypeOK, ReadUnlock
  <2>2. CASE \E q \in Readers : ReadUnlock(q)
    BY <1>t, <2>2 DEF ReadUnlock, PreInv, TypeOK, Goto, Threads
  <2>3. CASE UNCHANGED pre /\ ~\E q \in Readers : ReadUnlock(q)
    BY Zenon, <1>t, <2>3 DEF PreInv, TypeOK
  <2>4. ASSUME NEW q \in Readers, ReaderStep(q) \/ Hardware(q)
        PROVE  ReadUnlock(q) \/ UNCHANGED pre
    BY Zenon, <2>4
    DEF ReaderStep, ReaderCall, Hardware, Register, Unregister, ReadLock,
        ReadLockStore, ReadLockBarrier, ReadLockNested, ReadUnlockNested,
        WakeLoad, WakeStore, WakeCall, Flush, MasterBarrierReach
  <2>5. ASSUME NEW u \in Updaters, UpdaterStep(u)
        PROVE  SyncPush(u) \/ UNCHANGED pre
    BY ZenonT(30), <2>5
    DEF UpdaterStep, WaiterStep, LockStep, GpStep, WakeStep, LeadLink,
        WaitLink, WaitLoad, WaitSpurious, WaitRunning, WaitReturn, GpLock,
        MoveWaiters, RegLock, BarrierStart, Loop, BarrierFutex, Scan,
        ScanDone, BarrierClear, BarrierWait, GpFutexWait, GpSpurious, Relock,
        FlipPhase, SpliceBack, BarrierEnd, Out, WakeNext, WakeSkip,
        WakeState, WakeCheck, WakeFutex, WakeTeardown, LeadReturn,
        AfterBarrier
  <2>6. UNCHANGED vars => UNCHANGED pre
    BY Zenon DEF vars
  <2> QED
    BY Zenon, <2>1, <2>2, <2>3, <2>4, <2>5, <2>6 DEF Next
<1> QED
  BY Zenon, <1>t, <1>1, SectionKept DEF TypeOK

(* Store buffers are FIFO: the youngest pending store is the value the     *)
(* thread itself reads.                                                    *)
LEMMA BufferInvStep == IInv /\ [Next]_vars => BufferInv'
<1> SUFFICES ASSUME IInv, [Next]_vars, NEW r \in Readers PROVE BufferInv!(r)'
  BY Zenon DEF BufferInv
<1>t. TypeOK /\ RoleInv /\ BufferInv /\ sb[r] \in Seq(Ctr)
  BY Zenon DEF IInv, TypeOK
<1>1. CASE UNCHANGED <<ctr[r], mem[r], sb[r]>>
  BY Zenon, <1>1, <1>t DEF BufferInv
<1>2. ASSUME NEW v \in Ctr, StoreCtr(r, v) PROVE BufferInv!(r)'
  <2>1. sb'[r] = Append(sb[r], v) /\ ctr'[r] = v
    BY Zenon, <1>t, <1>2 DEF TypeOK, StoreCtr
  <2>2. sb'[r] # <<>> /\ sb'[r][Len(sb'[r])] = v
    BY <1>t, <2>1
  <2> QED
    BY Zenon, <2>1, <2>2
<1>3. ASSUME NEW q \in Readers, ReaderStep(q) \/ Hardware(q)
      PROVE  BufferInv!(r)'
  <2>1. CASE q # r
    BY Zenon, <1>1, <1>t, <1>3, <2>1, ReaderFrame
  <2>2. CASE q = r /\ ReadLockStore(r)
    <3>1. [phase |-> gctr[r], nest |-> 1] \in Ctr
      BY <1>t, UrcuAssumption DEF TypeOK, Ctr
    <3> QED
      BY Zenon, <1>2, <2>2, <3>1 DEF ReadLockStore
  <2>3. \A n \in 0..MaxNest : WithNest(r, n) \in Ctr
    BY Zenon, <1>t DEF WithNest, TypeOK, Ctr
  <2>4. CASE /\ q = r
             /\ ReadLockNested(r) \/ ReadUnlockNested(r) \/ ReadUnlock(r)
    <3>1. \E n \in 0..MaxNest : StoreCtr(r, WithNest(r, n))
      BY <1>t, <2>4, UrcuAssumption
      DEF ReadLockNested, ReadUnlockNested, ReadUnlock, TypeOK, Ctr
    <3> QED
      BY Zenon, <1>2, <2>3, <3>1
  <2>5. CASE q = r /\ Flush(r)
    <3>1. /\ sb[r] # <<>>
          /\ sb'[r] = Tail(sb[r]) /\ mem'[r] = sb[r][1] /\ ctr'[r] = ctr[r]
      BY <1>t, <2>5 DEF TypeOK, Flush
    <3>2. /\ Len(sb'[r]) = Len(sb[r]) - 1 /\ Len(sb[r]) \in Nat
          /\ \A i \in 1..Len(sb'[r]) : sb'[r][i] = sb[r][i + 1]
          /\ sb'[r] = <<>> <=> Len(sb'[r]) = 0
      <4>1. sb'[r] \in Seq(Ctr) /\ Len(sb'[r]) = Len(sb[r]) - 1
        BY <1>t, <3>1
      <4>2. \A i \in 1..Len(sb'[r]) : sb'[r][i] = sb[r][i + 1]
        BY <1>t, <3>1
      <4>3. sb'[r] = <<>> <=> Len(sb'[r]) = 0
        BY ZenonT(30), <4>1, EmptyOf
      <4> QED
        BY <1>t, <4>1, <4>2, <4>3
    <3>3. sb'[r] # <<>> => sb'[r][Len(sb'[r])] = sb[r][Len(sb[r])]
      <4> SUFFICES ASSUME sb'[r] # <<>>
                   PROVE  sb'[r][Len(sb'[r])] = sb[r][Len(sb[r])]
        OBVIOUS
      <4>1. Len(sb'[r]) \in 1..Len(sb'[r]) /\ Len(sb'[r]) + 1 = Len(sb[r])
        BY <1>t, <3>1, <3>2
      <4> QED
        BY Zenon, <4>1, <3>2
    <3> QED
      BY SMTT(30), <1>t, <3>1, <3>2, <3>3 DEF BufferInv
  <2>6. CASE q = r /\ MasterBarrierReach(r)
    BY Zenon, <1>t, <2>6 DEF MasterBarrierReach, TypeOK
  <2>7. CASE /\ q = r
             /\ \/ Register(r) \/ Unregister(r) \/ ReadLock(r)
                \/ ReadLockBarrier(r)
                \/ WakeLoad(r) \/ WakeStore(r) \/ WakeCall(r)
    BY Zenon, <1>1, <2>7
    DEF Register, Unregister, ReadLock, ReadLockBarrier, WakeLoad, WakeStore,
        WakeCall, readerVars
  <2> QED
    BY Zenon, <1>3, <2>1, <2>2, <2>3, <2>4, <2>5, <2>6, <2>7
    DEF ReaderStep, ReaderCall, Hardware
<1>4. ASSUME NEW u \in Updaters, UpdaterStep(u) PROVE BufferInv!(r)'
  BY Zenon, <1>1, <1>t, <1>4, UpdaterFrame
<1>5. CASE UNCHANGED vars
  BY Zenon, <1>1, <1>5 DEF vars, readerVars
<1> QED
  BY Zenon, <1>3, <1>4, <1>5 DEF Next

(* A section starts with the store of the outermost rcu_read_lock() or,    *)
(* with fences in the readers, with the fence after it.                    *)
LEMMA SectionStart ==
  ASSUME IInv, [Next]_vars, NEW r \in Readers, ~InCS(r), InCS(r)'
  PROVE  \/ ReadLockStore(r) /\ HasMembarrier
         \/ ReadLockBarrier(r)
<1> USE UrcuAssumption
<1>t. TypeOK /\ RoleInv /\ ReaderInv
  BY Zenon DEF IInv
<1>1. ASSUME NEW q \in Readers, ReaderStep(q) \/ Hardware(q)
      PROVE  \/ ReadLockStore(r) /\ HasMembarrier
         \/ ReadLockBarrier(r)
  <2>1. CASE q # r
    BY Zenon, <1>t, <1>1, <2>1, ReaderFrame DEF InCS, Threads
  <2>2. CASE q = r /\ ReadLockStore(r)
    BY Zenon, <1>t, <2>2 DEF ReadLockStore, Goto, InCS, TypeOK, Threads
  <2>3. CASE q = r /\ ReadUnlock(r)
    BY <1>t, <2>3 DEF ReadUnlock, StoreCtr, WithNest, InCS, TypeOK
  <2>4. CASE /\ q = r
             /\ \/ Register(r) \/ Unregister(r) \/ ReadLock(r)
                \/ WakeLoad(r) \/ WakeStore(r) \/ WakeCall(r)
    <3>1. ctr' = ctr /\ pc[r] # "lock_mb"
      BY Zenon, <2>4 DEF Register, Unregister, ReadLock, WakeLoad, WakeStore,
                  WakeCall, readerVars
    <3> QED
      BY Zenon, <3>1 DEF InCS
  <2>5. CASE q = r /\ (Flush(r) \/ MasterBarrierReach(r))
    BY Zenon, <2>5 DEF Flush, MasterBarrierReach, InCS
  <2>6. CASE q = r /\ (ReadLockNested(r) \/ ReadUnlockNested(r))
    <3>1. ctr[r].nest > 0 /\ pc[r] # "lock_mb"
      BY <1>t, <2>6 DEF ReadLockNested, ReadUnlockNested, TypeOK, Ctr
    <3> QED
      BY Zenon, <3>1 DEF InCS
  <2> QED
    BY Zenon, <1>1, <2>1, <2>2, <2>3, <2>4, <2>5, <2>6
    DEF ReaderStep, ReaderCall, Hardware
<1>2. ASSUME NEW u \in Updaters, UpdaterStep(u) PROVE FALSE
  <2>1. ctr'[r] = ctr[r] /\ (pc'[r] = pc[r] \/ u = r \/ pc[r] = "wait_sleep")
    BY Zenon, <1>t, <1>2, UpdaterFrame DEF Threads
  <2>2. pc[r] # "lock_mb"
    BY Zenon, <2>1, <1>t, <1>2, UpdaterFrame
    DEF InCS, SyncPc, WaitPc, GpPc, WakePc
  <2> QED
    BY Zenon, <2>1, <2>2 DEF InCS
<1>3. CASE UNCHANGED vars
  BY Zenon, <1>3 DEF vars, readerVars, InCS
<1> QED
  BY Zenon, <1>1, <1>2, <1>3 DEF Next

(* With smp_mb_slave() a real fence, an open section is visible to all.    *)
LEMMA FenceInvStep == IInv /\ [Next]_vars => FenceInv'
<1> SUFFICES ASSUME IInv, [Next]_vars, ~HasMembarrier,
                    NEW r \in Readers, InCS(r)'
             PROVE  Steady(r)'
  BY Zenon DEF FenceInv
<1>t. TypeOK /\ BufferInv /\ FenceInv
  BY Zenon DEF IInv
<1>1. CASE InCS(r)
  <2>1. ~ReadUnlock(r)
    BY <1>t DEF ReadUnlock, StoreCtr, WithNest, InCS, TypeOK
  <2> QED
    BY Zenon, <1>1, <1>t, <2>1, SectionKept DEF FenceInv
<1>2. CASE ~InCS(r)
  <2>1. ReadLockBarrier(r)
    BY Zenon, <1>2, SectionStart
  <2>2. sb'[r] = <<>> /\ mem'[r] = ctr'[r] /\ ctr'[r].nest > 0
    BY Zenon, <1>t, <2>1
    DEF ReadLockBarrier, SlaveBarrier, BufferInv, InCS, readerVars
  <2> QED
    BY <2>2 DEF Steady
<1> QED
  BY Zenon, <1>1, <1>2

(* With smp_mb_slave() a real fence, the store that ends a section is      *)
(* visible before urcu_common_wake_up_gp() loads the futex.                *)
LEMMA FencedWakeInvStep == IInv /\ [Next]_vars => FencedWakeInv'
<1> SUFFICES ASSUME IInv, [Next]_vars, ~HasMembarrier, NEW r \in Readers,
                    sb'[r] # <<>>, ctr'[r].nest = 0
             PROVE  pc'[r] = "wake_load"
  BY Zenon DEF FencedWakeInv
<1> USE UrcuAssumption
<1>t. TypeOK /\ RoleInv /\ ReaderInv /\ FencedWakeInv
  BY Zenon DEF IInv
<1>1. ASSUME NEW q \in Readers, ReaderStep(q) \/ Hardware(q)
      PROVE  pc'[r] = "wake_load"
  <2>1. CASE q # r
    BY <1>t, <1>1, <2>1, ReaderFrame DEF FencedWakeInv, Threads
  <2>2. CASE q = r
    <3> USE <1>t, <2>2 DEF FencedWakeInv, TypeOK, Ctr, Goto, StoreCtr,
            WithNest, SlaveBarrier, Drained, Threads, readerVars
    <3>1. CASE Register(r)
      BY Zenon, <3>1 DEF Register
    <3>2. CASE Unregister(r)
      BY Zenon, <3>2 DEF Unregister
    <3>3. CASE ReadLock(r)
      BY Zenon, <3>3 DEF ReadLock
    <3>4. CASE ReadLockStore(r)
      BY <3>4 DEF ReadLockStore
    <3>5. CASE ReadLockBarrier(r)
      BY Zenon, <3>5 DEF ReadLockBarrier
    <3>6. CASE ReadLockNested(r)
      BY <3>6 DEF ReadLockNested
    <3>7. CASE ReadUnlock(r)
      BY Zenon, <3>7 DEF ReadUnlock
    <3>8. CASE ReadUnlockNested(r)
      BY <3>8 DEF ReadUnlockNested
    <3>9. CASE WakeLoad(r)
      BY Zenon, <3>9 DEF WakeLoad
    <3>10. CASE WakeStore(r)
      BY Zenon, <3>10 DEF WakeStore
    <3>11. CASE WakeCall(r)
      BY Zenon, <3>11 DEF WakeCall
    <3>12. CASE Flush(r)
      BY Zenon, <3>12 DEF Flush
    <3>13. CASE MasterBarrierReach(r)
      BY Zenon, <3>13 DEF MasterBarrierReach
    <3> QED
      BY ZenonT(30), <1>1, <3>1, <3>2, <3>3, <3>4, <3>5, <3>6, <3>7, <3>8, <3>9,
         <3>10, <3>11, <3>12, <3>13
      DEF ReaderStep, ReaderCall, Hardware
  <2> QED
    BY Zenon, <2>1, <2>2
<1>2. ASSUME NEW u \in Updaters, UpdaterStep(u) PROVE pc'[r] = "wake_load"
  <2>1. sb[r] # <<>> /\ ctr[r].nest = 0
    BY Zenon, <1>t, <1>2, UpdaterFrame
  <2> QED
    BY <1>t, <1>2, <2>1, UpdaterFrame
    DEF FencedWakeInv, Threads, SyncPc, WaitPc, GpPc, WakePc
<1>3. CASE UNCHANGED vars
  BY Zenon, <1>3, <1>t DEF FencedWakeInv, vars, readerVars
<1> QED
  BY Zenon, <1>1, <1>2, <1>3 DEF Next

-----------------------------------------------------------------------------
(* The grace period. *)

(* rcu_gp_lock admits one grace period at a time.                          *)
LEMMA OneLeader ==
  ASSUME LockInv, NEW u \in Updaters, NEW v \in Updaters,
         pc[u] \in HoldsGp, pc[v] \in HoldsGp
  PROVE  u = v
BY Zenon DEF LockInv

(* Which lists are in use at each point of the grace period, and that      *)
(* wait_for_readers() has emptied its input when it returns.               *)
LEMMA ListInvStep == IInv /\ [Next]_vars => ListInv'
<1> SUFFICES ASSUME IInv, [Next]_vars PROVE ListInv'
  OBVIOUS
<1> USE UrcuAssumption
    DEF ListInv, Restored, Input, OnList, Threads, LockInv, HoldsGp,
        HoldsRegistry, GpPc
<1>t. TypeOK /\ RoleInv /\ LockInv /\ ListInv
  BY ZenonT(30) DEF IInv
<1>1. ASSUME NEW r \in Readers, ReaderStep(r) \/ Hardware(r) PROVE ListInv'
  <2>1. CASE UNCHANGED list
    BY <1>t, <1>1, <2>1, ReaderFrame DEF ReaderPc
  <2>2. CASE Register(r)
    BY <1>t, <2>2 DEF Register, TypeOK, lockVars, gpVars
  <2>3. CASE Unregister(r)
    BY <1>t, <2>3 DEF Unregister, TypeOK, lockVars, gpVars
  <2> QED
    BY ZenonT(30), <1>1, <2>1, <2>2, <2>3
    DEF ReaderStep, ReaderCall, Hardware, ReadLock, ReadLockStore,
        ReadLockBarrier, ReadLockNested, ReadUnlock, ReadUnlockNested,
        WakeLoad, WakeStore, WakeCall, Flush, MasterBarrierReach
<1>2. ASSUME NEW u \in Updaters, UpdaterStep(u) PROVE ListInv'
  <2> USE DEF TypeOK, Goto, AfterBarrier, lockVars, gpVars
  <2>1. CASE SyncPush(u)
    BY <2>1, <1>t DEF SyncPush
  <2>2. CASE LeadLink(u)
    BY <2>2, <1>t DEF LeadLink
  <2>3. CASE WaitLink(u)
    BY <2>3, <1>t DEF WaitLink
  <2>4. CASE WaitLoad(u)
    BY <2>4, <1>t DEF WaitLoad
  <2>5. CASE WaitSpurious(u)
    BY <2>5, <1>t DEF WaitSpurious
  <2>6. CASE WaitRunning(u)
    BY <2>6, <1>t DEF WaitRunning
  <2>7. CASE WaitReturn(u)
    BY <2>7, <1>t DEF WaitReturn
  <2>8. CASE GpLock(u)
    BY <2>8, <1>t DEF GpLock
  <2>9. CASE MoveWaiters(u)
    BY <2>9, <1>t DEF MoveWaiters
  <2>10. CASE RegLock(u)
    <3>1. /\ pc' = [pc EXCEPT ![u] = "out"] \/ pc' = [pc EXCEPT ![u] = "mb_start"]
          /\ pc'[u] = "mb_start" => pass' = 1
          /\ list' = list /\ gp_lock' = gp_lock /\ pc[u] = "reg_lock"
      BY Zenon, <2>10, <1>t DEF RegLock
    <3>2. \A v \in Updaters : v # u => pc[v] \notin HoldsGp
      BY Zenon, <1>t, <3>1, OneLeader
    <3>3. \A v \in Updaters : v # u => pc'[v] = pc[v]
      BY <1>t, <3>1
    <3>4. pc'[u] \in {"out", "mb_start"} /\ gp_lock' = u
      BY <1>t, <3>1
    <3> QED
      BY ZenonT(30), <1>t, <3>1, <3>2, <3>3, <3>4
  <2>11. CASE BarrierStart(u)
    BY <2>11, <1>t DEF BarrierStart
  <2>12. CASE Loop(u)
    <3>1. /\ \/ pc' = [pc EXCEPT ![u] = "mb_futex"]
             \/ pc' = [pc EXCEPT ![u] = "scan"] /\ todo' = Input
          /\ list' = list /\ pass' = pass /\ gp_lock' = gp_lock /\ pc[u] = "loop"
      BY Zenon, <2>12, <1>t DEF Loop
    <3>2. \A v \in Updaters : v # u => pc[v] \notin HoldsGp
      BY Zenon, <1>t, <3>1, OneLeader
    <3>3. \A v \in Updaters : v # u => pc'[v] = pc[v]
      BY <1>t, <3>1
    <3>4. pc'[u] \in {"mb_futex", "scan"} /\ gp_lock' = u
      BY <1>t, <3>1
    <3> QED
      <4>1. gp_lock' # NoThread
        BY Zenon, <3>4
      <4>2. ASSUME NEW v \in Updaters, v # u PROVE pc'[v] \notin HoldsGp
        BY Zenon, <3>2, <3>3, <4>2
      <4>3. pc'[u] = "scan" => todo' \subseteq Input'
        BY <1>t, <3>1
      <4> QED
        BY Zenon, <3>4, <4>1, <4>2, <4>3
  <2>13. CASE BarrierFutex(u)
    BY <2>13, <1>t DEF BarrierFutex
  <2>14. CASE Scan(u)
    <3>1. PICK r \in todo : /\ list' = [list EXCEPT ![r] = ScanTo(r)]
                            /\ todo' = todo \ {r}
      BY ZenonT(30), <2>14 DEF Scan
    <3>2. \A v \in Updaters : v # u => pc[v] \notin HoldsGp
      BY Zenon, <2>14, <1>t, OneLeader DEF Scan
    <3> QED
      BY <2>14, <1>t, <3>1, <3>2 DEF Scan
  <2>15. CASE ScanDone(u)
    BY <2>15, <1>t DEF ScanDone
  <2>16. CASE BarrierClear(u)
    BY <2>16, <1>t DEF BarrierClear
  <2>17. CASE BarrierWait(u)
    BY <2>17, <1>t DEF BarrierWait
  <2>18. CASE GpFutexWait(u)
    BY <2>18, <1>t DEF GpFutexWait
  <2>19. CASE GpSpurious(u)
    BY <2>19, <1>t DEF GpSpurious
  <2>20. CASE Relock(u)
    BY <2>20, <1>t DEF Relock
  <2>21. CASE FlipPhase(u)
    BY <2>21, <1>t DEF FlipPhase
  <2>22. CASE SpliceBack(u)
    BY <2>22, <1>t DEF SpliceBack
  <2>23. CASE BarrierEnd(u)
    BY <2>23, <1>t DEF BarrierEnd
  <2>24. CASE Out(u)
    BY <2>24, <1>t DEF Out
  <2>25. CASE WakeNext(u)
    BY <2>25, <1>t DEF WakeNext
  <2>26. CASE WakeSkip(u)
    BY <2>26, <1>t DEF WakeSkip
  <2>27. CASE WakeState(u)
    BY <2>27, <1>t DEF WakeState
  <2>28. CASE WakeCheck(u)
    BY <2>28, <1>t DEF WakeCheck
  <2>29. CASE WakeFutex(u)
    BY <2>29, <1>t DEF WakeFutex
  <2>30. CASE WakeTeardown(u)
    BY <2>30, <1>t DEF WakeTeardown
  <2>31. CASE LeadReturn(u)
    BY <2>31, <1>t DEF LeadReturn
  <2> QED
    BY ZenonT(30), <1>2, <2>1, <2>2, <2>3, <2>4, <2>5, <2>6, <2>7, <2>8, <2>9, <2>10,
       <2>11, <2>12, <2>13, <2>14, <2>15, <2>16, <2>17, <2>18, <2>19,
       <2>20, <2>21, <2>22, <2>23, <2>24, <2>25, <2>26, <2>27, <2>28,
       <2>29, <2>30, <2>31
    DEF UpdaterStep, WaiterStep, LockStep, GpStep, WakeStep
<1>3. CASE UNCHANGED vars
  BY Zenon, <1>t, <1>3 DEF vars, lockVars, gpVars
<1> QED
  BY ZenonT(30), <1>1, <1>2, <1>3 DEF Next

(* rcu_gp.futex is only -1 while the leader may sleep on it, so the        *)
(* decrement of wait_for_readers() always finds it 0.                      *)
LEMMA FutexInvStep == IInv /\ [Next]_vars => FutexInv'
<1> SUFFICES ASSUME IInv, [Next]_vars PROVE FutexInv'
  OBVIOUS
<1> USE UrcuAssumption DEF FutexInv, Armed, Threads
<1>t. TypeOK /\ RoleInv /\ LockInv /\ FutexInv
  BY ZenonT(30) DEF IInv
<1>1. ASSUME NEW r \in Readers, ReaderStep(r) \/ Hardware(r) PROVE FutexInv'
  <2>1. CASE UNCHANGED futex
    <3>1. /\ wait_loops' = wait_loops
          /\ \/ pc'[r] = pc[r]
             \/ pc[r] \in {"idle"} \cup ReaderPc /\ pc'[r] \in {"idle"} \cup ReaderPc
          /\ \A t \in Threads \ {r} :
               pc'[t] = pc[t] \/ (pc[t] = "gp_sleep" /\ pc'[t] = "gp_futex")
      BY Zenon, <1>t, <1>1, ReaderFrame
    <3>2. ASSUME NEW u \in Updaters
          PROVE  /\ Armed(u) => Armed(u)'
                 /\ pc'[u] = "mb_futex" => pc[u] = "mb_futex"
      BY Zenon, <3>1 DEF ReaderPc, Sleepy
    <3> QED
      BY Zenon, <1>t, <2>1, <3>1, <3>2 DEF Sleepy
  <2>2. CASE WakeStore(r)
    BY <1>t, <1>1, <2>2, ReaderFrame DEF WakeStore, ReaderPc
  <2> QED
    BY Zenon, <1>1, <2>1, <2>2
    DEF ReaderStep, ReaderCall, Hardware, Register, Unregister, ReadLock,
        ReadLockStore, ReadLockBarrier, ReadLockNested, ReadUnlock,
        ReadUnlockNested, WakeLoad, WakeCall, Flush, MasterBarrierReach
<1>2. ASSUME NEW u \in Updaters, UpdaterStep(u) PROVE FutexInv'
  <2>1. \A v \in Updaters : Armed(v) /\ pc[u] \in HoldsGp => u = v
    BY Zenon, <1>t, OneLeader DEF HoldsGp, GpPc
  <2> USE DEF TypeOK, Goto, AfterBarrier, gpVars, HoldsGp, GpPc, LockInv
  <2>2. CASE SyncPush(u)
    BY Zenon, <2>2, <1>t, <2>1 DEF SyncPush
  <2>3. CASE LeadLink(u)
    BY Zenon, <2>3, <1>t, <2>1 DEF LeadLink
  <2>4. CASE WaitLink(u)
    BY Zenon, <2>4, <1>t, <2>1 DEF WaitLink
  <2>5. CASE WaitLoad(u)
    BY Zenon, <2>5, <1>t, <2>1 DEF WaitLoad
  <2>6. CASE WaitSpurious(u)
    BY Zenon, <2>6, <1>t, <2>1 DEF WaitSpurious
  <2>7. CASE WaitRunning(u)
    BY Zenon, <2>7, <1>t, <2>1 DEF WaitRunning
  <2>8. CASE WaitReturn(u)
    BY Zenon, <2>8, <1>t, <2>1 DEF WaitReturn
  <2>9. CASE GpLock(u)
    BY Zenon, <2>9, <1>t, <2>1 DEF GpLock
  <2>10. CASE MoveWaiters(u)
    BY Zenon, <2>10, <1>t, <2>1 DEF MoveWaiters
  <2>11. CASE RegLock(u)
    BY Zenon, <2>11, <1>t, <2>1 DEF RegLock
  <2>12. CASE BarrierStart(u)
    BY Zenon, <2>12, <1>t, <2>1 DEF BarrierStart
  <2>13. CASE Loop(u)
    <3>1. futex = 0
      BY Zenon, <2>13, <1>t, <2>1 DEF Loop
    <3>2. /\ \/ /\ pc' = [pc EXCEPT ![u] = "mb_futex"]
                /\ futex' = -1 /\ Sleepy(wait_loops')
             \/ pc' = [pc EXCEPT ![u] = "scan"] /\ futex' = 0
          /\ pc[u] = "loop"
      BY <2>13, <3>1 DEF Loop
    <3>3. \A v \in Updaters : v # u => pc[v] \notin HoldsGp /\ pc'[v] = pc[v]
      BY <1>t, <3>2, OneLeader
    <3>4. pc'[u] = "mb_futex" => Sleepy(wait_loops')
      BY <1>t, <3>2
    <3>5. futex' # 0 => futex' = -1 /\ pc'[u] = "mb_futex"
      BY <1>t, <3>2
    <3> QED
      BY Zenon, <3>3, <3>4, <3>5
  <2>14. CASE BarrierFutex(u)
    BY Zenon, <2>14, <1>t, <2>1 DEF BarrierFutex
  <2>15. CASE Scan(u)
    BY Zenon, <2>15, <1>t, <2>1 DEF Scan
  <2>16. CASE ScanDone(u)
    BY <2>16, <1>t, <2>1 DEF ScanDone
  <2>17. CASE BarrierClear(u)
    BY Zenon, <2>17, <1>t, <2>1 DEF BarrierClear
  <2>18. CASE BarrierWait(u)
    BY Zenon, <2>18, <1>t, <2>1 DEF BarrierWait
  <2>19. CASE GpFutexWait(u)
    BY Zenon, <2>19, <1>t, <2>1 DEF GpFutexWait
  <2>20. CASE GpSpurious(u)
    BY Zenon, <2>20, <1>t, <2>1 DEF GpSpurious
  <2>21. CASE Relock(u)
    BY Zenon, <2>21, <1>t, <2>1 DEF Relock
  <2>22. CASE FlipPhase(u)
    BY Zenon, <2>22, <1>t, <2>1 DEF FlipPhase
  <2>23. CASE SpliceBack(u)
    BY Zenon, <2>23, <1>t, <2>1 DEF SpliceBack
  <2>24. CASE BarrierEnd(u)
    BY Zenon, <2>24, <1>t, <2>1 DEF BarrierEnd
  <2>25. CASE Out(u)
    BY Zenon, <2>25, <1>t, <2>1 DEF Out
  <2>26. CASE WakeNext(u)
    BY Zenon, <2>26, <1>t, <2>1 DEF WakeNext
  <2>27. CASE WakeSkip(u)
    BY Zenon, <2>27, <1>t, <2>1 DEF WakeSkip
  <2>28. CASE WakeState(u)
    BY Zenon, <2>28, <1>t, <2>1 DEF WakeState
  <2>29. CASE WakeCheck(u)
    BY Zenon, <2>29, <1>t, <2>1 DEF WakeCheck
  <2>30. CASE WakeFutex(u)
    BY ZenonT(30), <2>30, <1>t, <2>1 DEF WakeFutex
  <2>31. CASE WakeTeardown(u)
    BY Zenon, <2>31, <1>t, <2>1 DEF WakeTeardown
  <2>32. CASE LeadReturn(u)
    BY Zenon, <2>32, <1>t, <2>1 DEF LeadReturn
  <2> QED
    BY ZenonT(30), <1>2, <2>2, <2>3, <2>4, <2>5, <2>6, <2>7, <2>8, <2>9, <2>10,
       <2>11, <2>12, <2>13, <2>14, <2>15, <2>16, <2>17, <2>18, <2>19,
       <2>20, <2>21, <2>22, <2>23, <2>24, <2>25, <2>26, <2>27, <2>28,
       <2>29, <2>30, <2>31, <2>32
    DEF UpdaterStep, WaiterStep, LockStep, GpStep, WakeStep
<1>3. CASE UNCHANGED vars
  BY Zenon, <1>t, <1>3 DEF vars, gpVars
<1> QED
  BY ZenonT(30), <1>1, <1>2, <1>3 DEF Next

(* A thread without rcu_gp_lock changes nothing of the grace period in     *)
(* progress, and nobody changes the batch of another leader.               *)
LEMMA UpdaterLocals ==
  ASSUME TypeOK, NEW u \in Updaters, UpdaterStep(u)
  PROVE  /\ \A v \in Updaters \ {u} : waiters'[v] = waiters[v]
         /\ pc[u] \notin HoldsGp =>
              UNCHANGED <<gp_ctr, list, ipi, pass, futex, wait_loops, todo>>
         /\ SyncPush(u) \/ pre' = pre
<1> USE DEF TypeOK, HoldsGp, GpPc, AfterBarrier, waitVars, gpVars
<1>1. CASE SyncPush(u)
  BY Zenon, <1>1 DEF SyncPush
<1>2. CASE LeadLink(u)
  BY Zenon, <1>2 DEF LeadLink
<1>3. CASE WaitLink(u)
  BY Zenon, <1>3 DEF WaitLink
<1>4. CASE WaitLoad(u)
  BY Zenon, <1>4 DEF WaitLoad
<1>5. CASE WaitSpurious(u)
  BY Zenon, <1>5 DEF WaitSpurious
<1>6. CASE WaitRunning(u)
  BY Zenon, <1>6 DEF WaitRunning
<1>7. CASE WaitReturn(u)
  BY Zenon, <1>7 DEF WaitReturn
<1>8. CASE GpLock(u)
  BY Zenon, <1>8 DEF GpLock
<1>9. CASE MoveWaiters(u)
  BY Zenon, <1>9 DEF MoveWaiters
<1>10. CASE RegLock(u)
  BY Zenon, <1>10 DEF RegLock
<1>11. CASE BarrierStart(u)
  BY Zenon, <1>11 DEF BarrierStart
<1>12. CASE Loop(u)
  BY Zenon, <1>12 DEF Loop
<1>13. CASE BarrierFutex(u)
  BY Zenon, <1>13 DEF BarrierFutex
<1>14. CASE Scan(u)
  BY Zenon, <1>14 DEF Scan
<1>15. CASE ScanDone(u)
  BY Zenon, <1>15 DEF ScanDone
<1>16. CASE BarrierClear(u)
  BY Zenon, <1>16 DEF BarrierClear
<1>17. CASE BarrierWait(u)
  BY Zenon, <1>17 DEF BarrierWait
<1>18. CASE GpFutexWait(u)
  BY Zenon, <1>18 DEF GpFutexWait
<1>19. CASE GpSpurious(u)
  BY Zenon, <1>19 DEF GpSpurious
<1>20. CASE Relock(u)
  BY Zenon, <1>20 DEF Relock
<1>21. CASE FlipPhase(u)
  BY Zenon, <1>21 DEF FlipPhase
<1>22. CASE SpliceBack(u)
  BY Zenon, <1>22 DEF SpliceBack
<1>23. CASE BarrierEnd(u)
  BY Zenon, <1>23 DEF BarrierEnd
<1>24. CASE Out(u)
  BY Zenon, <1>24 DEF Out
<1>25. CASE WakeNext(u)
  BY Zenon, <1>25 DEF WakeNext
<1>26. CASE WakeSkip(u)
  BY Zenon, <1>26 DEF WakeSkip
<1>27. CASE WakeState(u)
  BY Zenon, <1>27 DEF WakeState
<1>28. CASE WakeCheck(u)
  BY Zenon, <1>28 DEF WakeCheck
<1>29. CASE WakeFutex(u)
  BY Zenon, <1>29 DEF WakeFutex
<1>30. CASE WakeTeardown(u)
  BY Zenon, <1>30 DEF WakeTeardown
<1>31. CASE LeadReturn(u)
  BY Zenon, <1>31 DEF LeadReturn
<1> QED
  BY ZenonT(30), <1>1, <1>2, <1>3, <1>4, <1>5, <1>6, <1>7, <1>8, <1>9, <1>10, <1>11,
     <1>12, <1>13, <1>14, <1>15, <1>16, <1>17, <1>18, <1>19, <1>20, <1>21,
     <1>22, <1>23, <1>24, <1>25, <1>26, <1>27, <1>28, <1>29, <1>30, <1>31
  DEF UpdaterStep, WaiterStep, LockStep, GpStep, WakeStep

(* The calls served by a grace period have not returned.                   *)
LEMMA ServedBusy ==
  ASSUME TypeOK, BatchInv, NEW v \in Updaters, pc[v] \in GpPc \cup WakePc,
         NEW w \in Served(v)
  PROVE  w \in Updaters /\ pc[w] # "idle"
<1>1. CASE w = v
  BY Zenon, <1>1 DEF GpPc, WakePc
<1>2. CASE \E i \in 1..Len(waiters[v]) : w = waiters[v][i]
  <2>1. PICK i \in 1..Len(waiters[v]) : w = waiters[v][i]
    BY Zenon, <1>2
  <2>2. w \in Updaters
    BY <2>1 DEF TypeOK
  <2>3. w = v \/ Asleep(w) \/ pc[w] \in WaitPc
    BY Zenon, <2>1
    DEF BatchInv, Entry, LeaderEntry, AsleepEntry, WokenEntry
  <2> QED
    BY Zenon, <2>2, <2>3, <1>1 DEF Asleep, WaitPc
<1> QED
  BY Zenon, <1>1, <1>2 DEF Served

(* Steps of readers keep every section that the leader has to wait for     *)
(* where the leader will find it.                                          *)
LEMMA GraceReaderStep ==
  ASSUME IInv, [Next]_vars, NEW q \in Readers, ReaderStep(q) \/ Hardware(q)
  PROVE  GraceInv'
<1> SUFFICES ASSUME NEW v \in Updaters, NEW w \in Served(v)
             PROVE  /\ pc'[v] \in GpPc \ {"mb_end", "out"} =>
                         \A r \in pre'[w] : Tracked(v, r)'
                    /\ pc'[v] \in {"mb_end", "out"} \cup WakePc =>
                         pre'[w] = {}
  <2>1. \A v \in Updaters : Served(v)' = Served(v)
    <3>1. waiters' = waiters
      BY Zenon, ReaderFrame DEF IInv
    <3> QED
      BY Zenon, <3>1 DEF Served
  <2> QED
    BY Zenon, <2>1 DEF GraceInv
<1>t. TypeOK /\ RoleInv /\ ReaderInv /\ PreInv /\ GraceInv /\ BatchInv
  BY Zenon DEF IInv
<1>v. \/ pc'[v] = pc[v]
      \/ pc[v] = "gp_sleep" /\ pc'[v] = "gp_futex"
      \/ pc'[v] \in {"idle"} \cup ReaderPc
  BY ZenonT(30), <1>t, ReaderFrame DEF Threads
<1>p. \/ pre' = pre
      \/ pre' = [x \in Updaters |-> pre[x] \ {q}] /\ ReadUnlock(q)
  <2>1. CASE ReadUnlock(q)
    BY Zenon, <2>1 DEF ReadUnlock
  <2>2. CASE UNCHANGED pre
    BY Zenon, <2>2
  <2> QED
    BY Zenon, <2>1, <2>2
    DEF ReaderStep, ReaderCall, Hardware, Register, Unregister, ReadLock,
        ReadLockStore, ReadLockBarrier, ReadLockNested, ReadUnlockNested,
        WakeLoad, WakeStore, WakeCall, Flush, MasterBarrierReach
<1>1. ASSUME pc'[v] \in GpPc \ {"mb_end", "out"}, NEW r \in pre'[w]
      PROVE  Tracked(v, r)'
  <2>1. pc[v] \in GpPc \ {"mb_end", "out"} /\ w \in Updaters
    BY Zenon, <1>t, <1>v, <1>1, ServedBusy DEF GpPc, ReaderPc
  <2>2. r \in pre[w] /\ r \in Readers /\ ~ReadUnlock(r)
    BY <1>t, <1>p, <1>1, <2>1 DEF TypeOK, ReadUnlock, Goto, Threads, PreInv
  <2>3. InCS(r) /\ Tracked(v, r)
    BY Zenon, <1>t, <2>1, <2>2 DEF PreInv, GraceInv
  <2>4. /\ InCS(r)' /\ ctr'[r].phase = ctr[r].phase
        /\ Steady(r) => Steady(r)'
    BY ZenonT(30), <2>2, <2>3, SectionKept
  <2>5. list'[r] = list[r]
    <3>1. CASE Register(q)
      BY Zenon, <1>t, <2>2, <2>3, <3>1 DEF Register, InCS, ReaderInv, TypeOK, Ctr
    <3>2. CASE Unregister(q)
      BY <1>t, <2>2, <2>3, <3>2 DEF Unregister, InCS, TypeOK, Ctr
    <3>3. CASE list' = list
      BY ZenonT(30), <3>3
    <3> QED
      BY Zenon, <3>1, <3>2, <3>3
      DEF ReaderStep, ReaderCall, Hardware, ReadLock, ReadLockStore,
          ReadLockBarrier, ReadLockNested, ReadUnlock, ReadUnlockNested,
          WakeLoad, WakeStore, WakeCall, Flush, MasterBarrierReach
  <2>6. pc[v] = "mb_start" /\ r \in ipi =>
          (pc'[v] = "mb_start" /\ r \in ipi') \/ Steady(r)'
    <3>1. CASE MasterBarrierReach(q)
      BY <1>t, <1>v, <1>1, <2>2, <2>4, <3>1
      DEF MasterBarrierReach, Steady, TypeOK, InCS, GpPc, ReaderPc
    <3>2. CASE ipi' = ipi
      BY ZenonT(30), <1>v, <1>1, <3>2 DEF GpPc, ReaderPc
    <3> QED
      BY Zenon, <3>1, <3>2
      DEF ReaderStep, ReaderCall, Hardware, Register, Unregister, ReadLock,
          ReadLockStore, ReadLockBarrier, ReadLockNested, ReadUnlock,
          ReadUnlockNested, WakeLoad, WakeStore, WakeCall, Flush
  <2>7. UNCHANGED <<pass, gp_ctr>>
    BY Zenon, <1>t, ReaderFrame
  <2> QED
    BY Zenon, <2>3, <2>4, <2>5, <2>6, <2>7 DEF Tracked
<1>2. ASSUME pc'[v] \in {"mb_end", "out"} \cup WakePc PROVE pre'[w] = {}
  <2>1. pc[v] = pc'[v]
    BY Zenon, <1>v, <1>2 DEF ReaderPc, GpPc, WakePc
  <2>2. w \in Updaters /\ pre[w] = {}
    BY Zenon, <1>t, <1>2, <2>1, ServedBusy DEF GraceInv, GpPc
  <2> QED
    BY Zenon, <1>p, <2>2
<1> QED
  BY Zenon, <1>1, <1>2

(* The scan of wait_for_readers() does not lose a section it waits for: it *)
(* stays on the input list or goes to the snapshot.                        *)
LEMMA ScanTracked ==
  ASSUME TypeOK, NEW u \in Updaters, NEW r \in Readers, Scan(u), Tracked(u, r)
  PROVE  Tracked(u, r)'
<1>1. PICK q \in todo : list' = [list EXCEPT ![q] = ScanTo(q)]
  BY ZenonT(30) DEF Scan
<1>2. /\ UNCHANGED <<gp_ctr, pass, ctr, mem, sb, ipi, pc>>
      /\ pc[u] = "scan" /\ pass \in {1, 2} /\ gp_ctr \in {0, 1}
      /\ list \in [Readers -> {"none", "registry", "cur_snap", "qs"}]
  BY Zenon DEF Scan, readerVars, TypeOK
<1>3. Steady(r) /\ Steady(r)'
  BY Zenon, <1>2 DEF Tracked, Steady
<1>4. CASE q # r
  BY Zenon, <1>1, <1>2, <1>3, <1>4 DEF Tracked
<1>5. CASE q = r
  <2>1. list'[r] = ScanTo(r)
    BY Zenon, <1>1, <1>2, <1>5
  <2>2. reader_state(r) = IF ctr[r].phase = gp_ctr THEN "ACTIVE_CURRENT"
                                                   ELSE "ACTIVE_OLD"
    <3>1. mem[r].nest > 0 /\ mem[r].phase = ctr[r].phase
      BY Zenon, <1>3 DEF Steady
    <3>2. mem[r].nest # 0
      BY <3>1
    <3> QED
      BY Zenon, <3>1, <3>2 DEF reader_state
  <2>3. CASE pass = 1
    BY Zenon, <1>2, <1>3, <2>1, <2>2, <2>3 DEF Tracked, ScanTo
  <2>4. CASE pass = 2
    BY Zenon, <1>2, <1>3, <2>1, <2>2, <2>4 DEF Tracked, ScanTo
  <2> QED
    BY Zenon, <1>2, <2>3, <2>4
<1> QED
  BY Zenon, <1>4, <1>5

(* Nor do the steps of updaters: the barrier makes the sections visible,   *)
(* the first pass leaves them in the snapshot with the current parity, the *)
(* flip makes that parity old, and the second pass ends when the snapshot  *)
(* is empty.                                                               *)
LEMMA GraceUpdaterStep ==
  ASSUME IInv, [Next]_vars, NEW a \in Updaters, UpdaterStep(a)
  PROVE  GraceInv'
<1> SUFFICES ASSUME NEW v \in Updaters, NEW w \in Served(v)'
             PROVE  /\ pc'[v] \in GpPc \ {"mb_end", "out"} =>
                         \A r \in pre'[w] : Tracked(v, r)'
                    /\ pc'[v] \in {"mb_end", "out"} \cup WakePc =>
                         pre'[w] = {}
  BY Zenon DEF GraceInv
<1> DEFINE Goal == /\ pc'[v] \in GpPc \ {"mb_end", "out"} =>
                        \A r \in pre'[w] : Tracked(v, r)'
                   /\ pc'[v] \in {"mb_end", "out"} \cup WakePc => pre'[w] = {}
<1> USE UrcuAssumption
<1>t. /\ TypeOK /\ LockInv /\ RoleInv /\ ReaderInv /\ FenceInv /\ PreInv
      /\ GraceInv /\ ListInv /\ BatchInv
  BY Zenon DEF IInv
<1>f. /\ UNCHANGED <<ctr, mem, sb>>
      /\ \A r \in Readers : Steady(r)' <=> Steady(r)
  BY Zenon, <1>t, UpdaterFrame DEF Steady
<1>r. \A x \in Updaters : \A r \in pre[x] : r \in Readers /\ InCS(r)
  BY Zenon, <1>t DEF PreInv, TypeOK
<1>1. CASE v # a
  <2>1. Served(v)' = Served(v)
    BY Zenon, <1>1, <1>t, UpdaterLocals DEF Served
  <2>2. pc'[v] = pc[v] \/ (pc[v] = "wait_sleep" /\ pc'[v] = "wait")
    BY Zenon, <1>1, <1>t, UpdaterFrame DEF Threads
  <2>3. ASSUME pc'[v] \in GpPc \cup WakePc PROVE pre'[w] = pre[w]
    <3>1. pc[v] = pc'[v] /\ w \in Updaters /\ pc[w] # "idle"
      BY Zenon, <1>t, <2>1, <2>2, <2>3, ServedBusy DEF GpPc, WakePc
    <3>2. CASE SyncPush(a)
      BY Zenon, <1>t, <3>1, <3>2 DEF SyncPush, TypeOK
    <3> QED
      BY Zenon, <1>t, <3>2, UpdaterLocals
  <2>4. ASSUME pc'[v] \in GpPc PROVE UNCHANGED <<gp_ctr, list, ipi, pass>>
    <3>1. pc[v] \in HoldsGp
      BY Zenon, <2>2, <2>4 DEF GpPc, HoldsGp
    <3>2. pc[a] \notin HoldsGp
      BY Zenon, <1>1, <1>t, <3>1, OneLeader
    <3> QED
      BY Zenon, <1>t, <3>2, UpdaterLocals
  <2>5. ASSUME pc'[v] \in GpPc \ {"mb_end", "out"}, NEW r \in pre'[w]
        PROVE  Tracked(v, r)'
    <3>1. pc'[v] = pc[v]
      BY Zenon, <2>2, <2>5 DEF GpPc
    <3>2. r \in Readers /\ Tracked(v, r)
      BY Zenon, <1>t, <1>r, <2>1, <2>3, <2>5, <3>1, ServedBusy DEF GraceInv
    <3> QED
      BY Zenon, <1>f, <2>4, <2>5, <3>1, <3>2 DEF Tracked
  <2>6. ASSUME pc'[v] \in {"mb_end", "out"} \cup WakePc PROVE pre'[w] = {}
    BY Zenon, <1>t, <2>1, <2>2, <2>3, <2>6 DEF GraceInv, GpPc, WakePc
  <2> QED
    BY Zenon, <2>5, <2>6
<1>2. ASSUME v = a, w \in Served(a), pre' = pre, pc[a] \in GpPc,
             UNCHANGED <<gp_ctr, list, pass>>,
             pc[a] = "mb_start" => ipi = {},
             pc[a] \notin {"mb_end", "out"},
             pc'[a] \in GpPc \ {"mb_start", "mb_end", "out"}
      PROVE  Goal
  <2>1. w \in Updaters /\ \A r \in pre[w] : r \in Readers /\ Tracked(a, r)
    BY Zenon, <1>2, <1>t, <1>r, ServedBusy DEF GraceInv
  <2>2. \A r \in pre[w] : Tracked(a, r)'
    BY Zenon, <1>2, <1>f, <2>1 DEF Tracked
  <2> QED
    BY Zenon, <1>2, <2>2 DEF GpPc, WakePc
<1>3. CASE v = a
  <2>u. pre' = pre \/ SyncPush(a)
    BY Zenon, <1>t, UpdaterLocals
  <2>1. CASE RegLock(a)
    <3>0. /\ pre' = pre /\ waiters' = waiters /\ list' = list
          /\ Served(a)' = Served(a)
          /\ pc[a] = "reg_lock"
      BY Zenon, <2>1 DEF RegLock, waitVars, Served
    <3>1. Restored
      BY Zenon, <1>t, <3>0 DEF ListInv
    <3>2. w \in Updaters
      BY <1>3, <1>t, <3>0 DEF Served, TypeOK
    <3>3. \A r \in pre[w] : list[r] = "registry"
      BY Zenon, <1>t, <1>r, <3>1, <3>2 DEF Restored, ReaderInv, InCS
    <3>4. CASE pc'[a] = "out"
      <4>1. OnList("registry") = {}
        BY Zenon, <1>t, <2>1, <3>4 DEF RegLock, Goto, TypeOK, Threads
      <4>2. pre[w] = {}
        BY Zenon, <1>r, <3>2, <3>3, <4>1 DEF OnList
      <4> QED
        BY Zenon, <1>3, <3>0, <3>4, <4>2 DEF GpPc
    <3>5. CASE pc'[a] = "mb_start" /\ pass' = 1 /\ StartMasterBarrier
      <4>1. ASSUME NEW r \in pre[w] PROVE Tracked(a, r)'
        <5>1. r \in Readers /\ InCS(r)
          BY Zenon, <1>r, <3>2
        <5>2. r \in ipi' \/ Steady(r)'
          BY Zenon, <1>f, <1>t, <3>5, <5>1 DEF StartMasterBarrier, FenceInv
        <5> QED
          BY <3>0, <3>3, <3>5, <5>2 DEF Tracked
      <4> QED
        BY Zenon, <1>3, <3>0, <3>5, <4>1 DEF WakePc
    <3> QED
      BY Zenon, <1>t, <2>1, <3>4, <3>5 DEF RegLock, Goto, TypeOK, Threads
  <2>2. CASE BarrierStart(a)
    BY Zenon, <1>2, <1>3, <1>t, <2>2
    DEF BarrierStart, AfterBarrier, Served, waitVars, Goto, TypeOK, Threads,
        GpPc
  <2>3. CASE Loop(a)
    <3>1. /\ w \in Served(a) /\ pre' = pre /\ pc[a] = "loop"
          /\ UNCHANGED <<gp_ctr, list, pass>>
      BY Zenon, <1>3, <2>3 DEF Loop, Served, waitVars, gpVars
    <3>2. pc'[a] \in {"mb_futex", "scan"}
      BY Zenon, <1>t, <2>3 DEF Loop, Goto, TypeOK, Threads
    <3> QED
      BY Zenon, <1>2, <1>3, <3>1, <3>2 DEF GpPc
  <2>4. CASE BarrierFutex(a)
    <3>1. /\ w \in Served(a) /\ pre' = pre /\ pc[a] = "mb_futex"
          /\ UNCHANGED <<gp_ctr, list, pass>>
      BY Zenon, <1>3, <2>4 DEF BarrierFutex, AfterBarrier, Served, waitVars, gpVars
    <3>2. pc'[a] \in {"scan"}
      BY Zenon, <1>t, <2>4 DEF BarrierFutex, AfterBarrier, Goto, TypeOK, Threads
    <3> QED
      BY Zenon, <1>2, <1>3, <3>1, <3>2 DEF GpPc
  <2>5. CASE ScanDone(a)
    <3>1. /\ w \in Served(a) /\ pre' = pre /\ pc[a] = "scan"
          /\ UNCHANGED <<gp_ctr, list, pass>>
      BY Zenon, <1>3, <2>5 DEF ScanDone, Served, waitVars, gpVars
    <3>2. pc'[a] \in {"mb_clear", "mb_wait", "passed", "relock"}
      BY Zenon, <1>t, <2>5 DEF ScanDone, Goto, TypeOK, Threads
    <3> QED
      BY Zenon, <1>2, <1>3, <3>1, <3>2 DEF GpPc
  <2>6. CASE BarrierClear(a)
    <3>1. /\ w \in Served(a) /\ pre' = pre /\ pc[a] = "mb_clear"
          /\ UNCHANGED <<gp_ctr, list, pass>>
      BY Zenon, <1>3, <2>6 DEF BarrierClear, AfterBarrier, Served, waitVars, gpVars
    <3>2. pc'[a] \in {"passed"}
      BY Zenon, <1>t, <2>6 DEF BarrierClear, AfterBarrier, Goto, TypeOK, Threads
    <3> QED
      BY Zenon, <1>2, <1>3, <3>1, <3>2 DEF GpPc
  <2>7. CASE BarrierWait(a)
    <3>1. /\ w \in Served(a) /\ pre' = pre /\ pc[a] = "mb_wait"
          /\ UNCHANGED <<gp_ctr, list, pass>>
      BY Zenon, <1>3, <2>7 DEF BarrierWait, AfterBarrier, Served, waitVars, gpVars
    <3>2. pc'[a] \in {"gp_futex"}
      BY Zenon, <1>t, <2>7 DEF BarrierWait, AfterBarrier, Goto, TypeOK, Threads
    <3> QED
      BY Zenon, <1>2, <1>3, <3>1, <3>2 DEF GpPc
  <2>8. CASE GpFutexWait(a)
    <3>1. /\ w \in Served(a) /\ pre' = pre /\ pc[a] = "gp_futex"
          /\ UNCHANGED <<gp_ctr, list, pass>>
      BY Zenon, <1>3, <2>8 DEF GpFutexWait, Served, waitVars, gpVars
    <3>2. pc'[a] \in {"gp_sleep", "relock"}
      BY Zenon, <1>t, <2>8 DEF GpFutexWait, Goto, TypeOK, Threads
    <3> QED
      BY Zenon, <1>2, <1>3, <3>1, <3>2 DEF GpPc
  <2>9. CASE GpSpurious(a)
    <3>1. /\ w \in Served(a) /\ pre' = pre /\ pc[a] = "gp_sleep"
          /\ UNCHANGED <<gp_ctr, list, pass>>
      BY Zenon, <1>3, <2>9 DEF GpSpurious, Served, waitVars, gpVars
    <3>2. pc'[a] \in {"gp_futex"}
      BY Zenon, <1>t, <2>9 DEF GpSpurious, Goto, TypeOK, Threads
    <3> QED
      BY Zenon, <1>2, <1>3, <3>1, <3>2 DEF GpPc
  <2>10. CASE Relock(a)
    <3>1. /\ w \in Served(a) /\ pre' = pre /\ pc[a] = "relock"
          /\ UNCHANGED <<gp_ctr, list, pass>>
      BY Zenon, <1>3, <2>10 DEF Relock, Served, waitVars, gpVars
    <3>2. pc'[a] \in {"loop"}
      BY Zenon, <1>t, <2>10 DEF Relock, Goto, TypeOK, Threads
    <3> QED
      BY Zenon, <1>2, <1>3, <3>1, <3>2 DEF GpPc
  <2>11. CASE Scan(a)
    <3>1. /\ w \in Served(a) /\ pre' = pre /\ pc[a] = "scan"
          /\ pc'[a] = "scan"
      BY Zenon, <1>3, <2>11 DEF Scan, Served, waitVars
    <3>2. \A r \in pre[w] : r \in Readers /\ Tracked(a, r)
      BY Zenon, <1>t, <1>r, <3>1, ServedBusy DEF GraceInv, GpPc
    <3> QED
      BY Zenon, <1>3, <1>t, <2>11, <3>1, <3>2, ScanTracked DEF WakePc
  <2>12. CASE FlipPhase(a)
    <3>1. /\ w \in Served(a) /\ pre' = pre /\ pc[a] = "passed" /\ pass = 1
          /\ pass' = 2 /\ gp_ctr' = 1 - gp_ctr /\ list' = list
          /\ pc'[a] = "loop"
      BY ZenonT(30), <1>3, <1>t, <2>12
      DEF FlipPhase, Served, waitVars, Goto, TypeOK, Threads
    <3>2. \A r \in pre[w] : r \in Readers /\ Tracked(a, r)
      BY ZenonT(30), <1>t, <1>r, <3>1, ServedBusy DEF GraceInv, GpPc
    <3>3. OnList("registry") = {}
      BY Zenon, <1>t, <3>1 DEF ListInv, Input
    <3>4. ASSUME NEW r \in pre[w] PROVE Tracked(a, r)'
      <4>1. Steady(r)' /\ list'[r] = "cur_snap" /\ ctr'[r].phase = gp_ctr
        BY Zenon, <1>f, <3>1, <3>2, <3>3 DEF Tracked, OnList
      <4>2. gp_ctr \in {0, 1}
        BY Zenon, <1>t DEF TypeOK
      <4>3. (\A c \in {0, 1} : c # 1 - c) /\ 2 # 1
        OBVIOUS
      <4>4. ctr'[r].phase # gp_ctr' /\ pass' # 1
        BY Zenon, <3>1, <4>1, <4>2, <4>3
      <4> QED
        BY Zenon, <4>1, <4>4 DEF Tracked
    <3> QED
      BY Zenon, <1>3, <3>1, <3>4 DEF WakePc
  <2>13. CASE SpliceBack(a)
    <3>1. /\ w \in Served(a) /\ pre' = pre /\ pc[a] = "passed" /\ pass = 2
          /\ pc'[a] = "mb_end"
      BY Zenon, <1>3, <1>t, <2>13
      DEF SpliceBack, Served, waitVars, Goto, TypeOK, Threads
    <3>2. \A r \in pre[w] : r \in Readers /\ list[r] = "cur_snap"
      BY Zenon, <1>t, <1>r, <3>1, ServedBusy DEF GraceInv, GpPc, Tracked
    <3>3. OnList("cur_snap") = {}
      BY <1>t, <3>1 DEF ListInv, Input
    <3>4. pre[w] = {}
      BY ZenonT(30), <3>2, <3>3 DEF OnList
    <3> QED
      BY Zenon, <1>3, <3>1, <3>4 DEF GpPc
  <2>14. CASE BarrierEnd(a) \/ Out(a) \/ WakeNext(a) \/ WakeState(a)
              \/ WakeCheck(a) \/ WakeFutex(a)
    <3>1. /\ w \in Served(a) /\ pre' = pre
          /\ pc[a] \in {"mb_end", "out"} \cup WakePc
      BY Zenon, <1>3, <1>t, <2>14
      DEF BarrierEnd, AfterBarrier, Out, WakeNext, WakeState, WakeCheck,
          WakeFutex, Served, waitVars, WakePc
    <3> QED
      BY ZenonT(30), <1>3, <1>t, <2>14, <3>1
      DEF GraceInv, BarrierEnd, AfterBarrier, Out, WakeNext, WakeState,
          WakeCheck, WakeFutex, Goto, TypeOK, Threads, GpPc, WakePc
  <2>15. CASE WakeSkip(a) \/ WakeTeardown(a)
    <3>1. /\ pre' = pre /\ pc[a] \in WakePc /\ pc'[a] = "wk_next"
          /\ waiters[a] \in Seq(Updaters) /\ waiters[a] # <<>>
          /\ waiters'[a] = Tail(waiters[a])
      BY ZenonT(60), <1>t, <2>15
      DEF WakeSkip, WakeTeardown, WakePc, BatchInv, BatchPc, Goto, TypeOK,
          Threads
    <3>2. \A i \in 1..Len(waiters'[a]) :
             /\ i + 1 \in 1..Len(waiters[a])
             /\ waiters'[a][i] = waiters[a][i + 1]
      BY <3>1, TailOf
    <3>3. w \in Served(a)
      BY Zenon, <1>3, <3>2 DEF Served
    <3> QED
      BY Zenon, <1>3, <1>t, <3>1, <3>3 DEF GraceInv, GpPc
  <2>16. CASE pc'[a] \notin GpPc \cup WakePc
    BY Zenon, <1>3, <2>16 DEF GpPc
  <2>17. SyncPush(a) \/ LeadLink(a) \/ WaitLink(a) \/ WaitLoad(a)
         \/ WaitSpurious(a) => pc'[a] \notin GpPc \cup WakePc
    <3>1. SyncPush(a) \/ LeadLink(a) \/ WaitLink(a) =>
            \E l \in {"lead_link", "wait_link", "gp_lock", "wait"} :
               pc' = [pc EXCEPT ![a] = l]
      BY Zenon DEF SyncPush, LeadLink, WaitLink, Goto
    <3>2. WaitLoad(a) \/ WaitSpurious(a) =>
            \E l \in {"wait_sleep", "wait_running", "wait"} : pc' = [pc EXCEPT ![a] = l]
      BY Zenon DEF WaitLoad, WaitSpurious, Goto
    <3> QED
      BY Zenon, <1>t, <3>1, <3>2 DEF TypeOK, Threads, GpPc, WakePc
  <2>18. WaitRunning(a) \/ WaitReturn(a) \/ GpLock(a) \/ MoveWaiters(a)
         \/ LeadReturn(a) => pc'[a] \notin GpPc \cup WakePc
    BY SMTT(30), <1>t DEF WaitRunning, WaitReturn, GpLock, MoveWaiters, LeadReturn, Goto,
                TypeOK, Threads, GpPc, WakePc
  <2> QED
    BY ZenonT(30), <2>1, <2>2, <2>3, <2>4, <2>5, <2>6, <2>7, <2>8, <2>9, <2>10, <2>11,
       <2>12, <2>13, <2>14, <2>15, <2>16, <2>17, <2>18
    DEF UpdaterStep, WaiterStep, LockStep, GpStep, WakeStep
<1> QED
  BY ZenonT(30), <1>1, <1>3

(* The grace period has seen the end of every section it serves before it  *)
(* completes.                                                              *)
LEMMA GraceInvStep == IInv /\ [Next]_vars => GraceInv'
<1> SUFFICES ASSUME IInv, [Next]_vars PROVE GraceInv'
  OBVIOUS
<1>1. CASE UNCHANGED vars
  BY SMTT(30), <1>1 DEF IInv, GraceInv, Served, Tracked, Steady, vars, readerVars,
              waitVars, gpVars
<1> QED
  BY Zenon, <1>1, GraceReaderStep, GraceUpdaterStep DEF Next
=============================================================================
