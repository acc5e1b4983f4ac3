---------------------------- MODULE DeferProofs -----------------------------
(***************************************************************************)
(* The invariant of DeferInvariant is inductive, and the properties of     *)
(* Defer follow from it: for any number of threads and readers, any ring   *)
(* size and index width, any functions and data.                           *)
(***************************************************************************)
EXTENDS DeferRingProofs

(* Every step of the proofs sees what the steps of the code are made of. *)
USE DEF Goto, Move, StartRun, WaitDone

(* Every step keeps the control points of the threads and of the defer     *)
(* thread.                                                                 *)
LEMMA ControlStep == IInv /\ [Next]_vars => ControlInv'
<1> SUFFICES ASSUME IInv, [Next]_vars PROVE ControlInv'
  OBVIOUS
<1>t. /\ pc \in [Procs -> Pcs] /\ ret \in [Procs -> Pcs] /\ ControlInv
      /\ arg \in [Threads -> {<<>>} \cup Callbacks]
  BY Zenon DEF IInv, TypeOK
<1>p. tid_defer \notin Threads /\ tid_defer \in Procs /\ Threads \subseteq Procs
  BY Zenon, DeferAssumption DEF Procs
<1> USE <1>t, <1>p DEF ControlInv, WakePc, RunPc, BarrierPc, WaitPc, ThreadPc
<1>1. ASSUME NEW r \in Readers, ReadLock(r) \/ ReadUnlock(r) PROVE ControlInv'
  BY Zenon, <1>1 DEF ReadLock, ReadUnlock
<1>2. ASSUME NEW t \in Threads, Register(t) PROVE ControlInv'
  BY ZenonT(60), <1>2 DEF Register
<1>3. ASSUME NEW t \in Threads, RegisterAdd(t) PROVE ControlInv'
  BY <1>3 DEF RegisterAdd
<1>4. ASSUME NEW t \in Threads, defer_rcu(t) PROVE ControlInv'
  BY ZenonT(60), <1>4 DEF defer_rcu
<1>5. ASSUME NEW t \in Threads, Enqueue(t) PROVE ControlInv'
  BY Zenon, <1>5 DEF Enqueue
<1>6. ASSUME NEW t \in Threads,
             WakeLoad(t) \/ WakeStore(t) \/ WakeCall(t)
      PROVE  ControlInv'
  BY <1>6 DEF WakeLoad, WakeStore, WakeCall
<1>7. ASSUME NEW t \in Threads,
             BarrierThread(t) \/ BarrierThreadLock(t) \/ rcu_defer_barrier(t)
      PROVE  ControlInv'
  BY <1>7 DEF BarrierThread, BarrierThreadLock, rcu_defer_barrier
<1>8. ASSUME NEW t \in Threads,
             Unregister(t) \/ UnregisterLock(t) \/ UnregisterFree(t)
             \/ StopStore(t) \/ Join(t)
      PROVE  ControlInv'
  BY <1>8 DEF Unregister, UnregisterLock, UnregisterFree, StopStore, Join
<1>9. ASSUME NEW x \in Procs, BarrierEmpty(x) \/ BarrierLock(x) PROVE ControlInv'
  BY <1>9 DEF BarrierEmpty, BarrierLock, Procs
<1>10. ASSUME NEW x \in Procs, SyncDone(x) \/ RunCallback(x) \/ QueueDone(x)
      PROVE  ControlInv'
  BY <1>10 DEF SyncDone, RunCallback, QueueDone, Procs
<1>11. CASE WaitDec \/ WaitStop \/ WaitExit \/ WaitNum
  BY <1>11 DEF WaitDec, WaitStop, WaitExit, WaitNum
<1>12. CASE WaitClear \/ WaitFutex \/ WaitSpurious
  BY <1>12 DEF WaitClear, WaitFutex, WaitSpurious
<1>13. CASE UNCHANGED vars
  BY Zenon, <1>13 DEF vars
<1> QED
  BY ZenonT(30), Steps, <1>1, <1>2, <1>3, <1>4, <1>5, <1>6, <1>7, <1>8, <1>9,
     <1>10, <1>11, <1>12, <1>13

(* Every step keeps mutual exclusion under both mutexes. *)
LEMMA MutexStep == IInv /\ [Next]_vars => MutexInv'
<1> SUFFICES ASSUME IInv, [Next]_vars PROVE MutexInv'
  OBVIOUS
<1>t. /\ pc \in [Procs -> Pcs] /\ ret \in [Procs -> Pcs]
      /\ ControlInv /\ MutexInv
      /\ rcu_defer_mutex \in Procs \cup {NoThread}
      /\ defer_thread_mutex \in Threads \cup {NoThread}
  BY Zenon DEF IInv, TypeOK
<1>p. /\ tid_defer \notin Threads /\ tid_defer \in Procs /\ Threads \subseteq Procs
      /\ NoThread \notin Procs
  BY Zenon, DeferAssumption DEF Procs
<1> USE <1>t, <1>p DEF ControlInv, MutexInv, Leaving, WakePc, RunPc, BarrierPc, WaitPc
<1>1. ASSUME NEW r \in Readers, ReadLock(r) \/ ReadUnlock(r) PROVE MutexInv'
  BY ZenonT(60), <1>1 DEF ReadLock, ReadUnlock, lockVars
<1>2. ASSUME NEW t \in Threads, Register(t) PROVE MutexInv'
  BY ZenonT(60), <1>2 DEF Register, lockVars
<1>3. ASSUME NEW t \in Threads, RegisterAdd(t) PROVE MutexInv'
  BY <1>3 DEF RegisterAdd, lockVars
<1>4. ASSUME NEW t \in Threads, defer_rcu(t) PROVE MutexInv'
  BY ZenonT(60), <1>4 DEF defer_rcu, lockVars
<1>5. ASSUME NEW t \in Threads, Enqueue(t) PROVE MutexInv'
  BY Zenon, <1>5 DEF Enqueue, lockVars
<1>6. ASSUME NEW t \in Threads, WakeLoad(t) PROVE MutexInv'
  BY ZenonT(60), <1>6 DEF WakeLoad, lockVars
<1>7. ASSUME NEW t \in Threads, WakeStore(t) PROVE MutexInv'
  BY Zenon, <1>7 DEF WakeStore, lockVars
<1>8. ASSUME NEW t \in Threads, WakeCall(t) PROVE MutexInv'
  BY <1>8 DEF WakeCall, lockVars
<1>9. ASSUME NEW t \in Threads, BarrierThread(t) PROVE MutexInv'
  BY Zenon, <1>9 DEF BarrierThread, lockVars
<1>10. ASSUME NEW t \in Threads, BarrierThreadLock(t) PROVE MutexInv'
  BY <1>10 DEF BarrierThreadLock, lockVars
<1>11. ASSUME NEW t \in Threads, rcu_defer_barrier(t) PROVE MutexInv'
  BY ZenonT(60), <1>11 DEF rcu_defer_barrier, lockVars
<1>12. ASSUME NEW t \in Threads, Unregister(t) PROVE MutexInv'
  BY ZenonT(60), <1>12 DEF Unregister, lockVars
<1>13. ASSUME NEW t \in Threads, UnregisterLock(t) PROVE MutexInv'
  BY <1>13 DEF UnregisterLock, lockVars
<1>14. ASSUME NEW t \in Threads, UnregisterFree(t) PROVE MutexInv'
  BY ZenonT(30), <1>14 DEF UnregisterFree, lockVars
<1>15. ASSUME NEW t \in Threads, StopStore(t) PROVE MutexInv'
  BY ZenonT(60), <1>15 DEF StopStore, lockVars
<1>16. ASSUME NEW t \in Threads, Join(t) PROVE MutexInv'
  BY ZenonT(60), <1>16 DEF Join, lockVars
<1>17. ASSUME NEW x \in Procs, BarrierEmpty(x) PROVE MutexInv'
  BY ZenonT(60), <1>17 DEF BarrierEmpty, Procs, lockVars
<1>18. ASSUME NEW x \in Procs, BarrierLock(x) PROVE MutexInv'
  BY <1>18 DEF BarrierLock, Procs, lockVars
<1>19. ASSUME NEW x \in Procs, SyncDone(x) PROVE MutexInv'
  BY Zenon, <1>19 DEF SyncDone, Procs, lockVars
<1>20. ASSUME NEW x \in Procs, RunCallback(x) PROVE MutexInv'
  BY Zenon, <1>20 DEF RunCallback, Procs, lockVars
<1>21. ASSUME NEW x \in Procs, QueueDone(x) PROVE MutexInv'
  BY <1>21 DEF QueueDone, Procs, lockVars
<1>22. CASE WaitDec \/ WaitStop \/ WaitExit \/ WaitNum
  BY <1>22 DEF WaitDec, WaitStop, WaitExit, WaitNum, lockVars
<1>23. CASE WaitClear \/ WaitFutex \/ WaitSpurious
  BY <1>23 DEF WaitClear, WaitFutex, WaitSpurious, lockVars
<1>24. CASE UNCHANGED vars
  BY Zenon, <1>24 DEF vars, lockVars
<1> QED
  BY ZenonT(30), Steps, <1>1, <1>2, <1>3, <1>4, <1>5, <1>6, <1>7, <1>8, <1>9,
     <1>10, <1>11, <1>12, <1>13, <1>14, <1>15, <1>16, <1>17, <1>18, <1>19,
     <1>20, <1>21, <1>22, <1>23, <1>24

(* Registering puts a queue at the front of the list. *)
LEMMA RegistryAdded ==
  ASSUME registry \in Seq(Threads), NEW t \in Threads,
         registry' = <<t>> \o registry
  PROVE  /\ Len(registry') = Len(registry) + 1
         /\ registry' # <<>>
         /\ registry'[1] = t
         /\ \A k \in 1..Len(registry) : registry'[k + 1] = registry[k]
         /\ Registered' = Registered \cup {t}
<1>1. /\ Len(registry') = Len(registry) + 1 /\ Len(registry) \in Nat
      /\ registry'[1] = t
      /\ \A k \in 1..Len(registry) : registry'[k + 1] = registry[k]
  OBVIOUS
<1>2. registry' # <<>>
  BY <1>1
<1>3. ASSUME NEW k \in 1..Len(registry'), k # 1
      PROVE  registry'[k] \in Registered
  <2>1. k - 1 \in 1..Len(registry) /\ (k - 1) + 1 = k
    BY <1>1, <1>3
  <2>2. registry'[k] = registry[k - 1]
    BY Zenon, <1>1, <2>1
  <2> QED
    BY Zenon, <2>1, <2>2 DEF Registered
<1>4. \A k \in 1..Len(registry) : k + 1 \in 1..Len(registry')
  BY <1>1
<1>5. 1 \in 1..Len(registry')
  BY <1>1
<1>6. Registered' \subseteq Registered \cup {t}
  BY Zenon, <1>1, <1>3 DEF Registered
<1>7. Registered \cup {t} \subseteq Registered'
  BY ZenonT(60), <1>1, <1>4, <1>5 DEF Registered
<1> QED
  BY Zenon, <1>1, <1>2, <1>6, <1>7

(* Unregistering takes one queue off the list. *)
LEMMA RegistryRemoved ==
  ASSUME registry \in Seq(Threads), RegistryInv, NEW t \in Registered,
         registry' = Others(t)
  PROVE  /\ registry' \in Seq(Threads)
         /\ Registered' = Registered \ {t}
         /\ \A j, k \in 1..Len(registry') : registry'[j] = registry'[k] => j = k
<1> DEFINE at == CHOOSE k \in 1..Len(registry) : registry[k] = t
<1>1. at \in 1..Len(registry) /\ registry[at] = t
  BY Zenon DEF Registered
<1>2. registry' = [k \in 1..(Len(registry) - 1) |->
                     registry[IF k < at THEN k ELSE k + 1]]
  BY Zenon DEF Others
<1> HIDE DEF at
<1>3. Len(registry) \in Nat /\ Len(registry) >= 1
  BY <1>1
<1>4. registry' \in Seq(Threads) /\ Len(registry') = Len(registry) - 1
  <2>1. \A k \in 1..(Len(registry) - 1) :
          registry[IF k < at THEN k ELSE k + 1] \in Threads
    BY <1>1, <1>3
  <2> QED
    BY <1>2, <1>3, <2>1
<1>5. \A k \in 1..Len(registry') :
        /\ k < at => registry'[k] = registry[k] /\ k \in 1..Len(registry)
        /\ k >= at => registry'[k] = registry[k + 1] /\ k + 1 \in 1..Len(registry)
  BY <1>1, <1>2, <1>3, <1>4
<1>6. \A j, k \in 1..Len(registry) : registry[j] = registry[k] => j = k
  BY Zenon DEF RegistryInv
<1>7. \A k \in 1..Len(registry') : registry'[k] # t /\ registry'[k] \in Registered
  BY <1>1, <1>3, <1>4, <1>5, <1>6 DEF Registered
<1>8. ASSUME NEW o \in Registered \ {t} PROVE o \in Registered'
  <2>1. PICK k \in 1..Len(registry) : registry[k] = o
    BY Zenon, <1>8 DEF Registered
  <2>2. CASE k < at
    <3>1. k \in 1..Len(registry') /\ registry'[k] = o
      BY <1>1, <1>3, <1>4, <1>5, <2>1, <2>2
    <3> QED
      BY Zenon, <3>1 DEF Registered
  <2>3. CASE k > at
    <3>1. k - 1 \in 1..Len(registry') /\ registry'[k - 1] = registry[(k - 1) + 1]
      BY <1>1, <1>3, <1>4, <1>5, <2>1, <2>3
    <3>2. registry'[k - 1] = o
      BY <2>1, <3>1
    <3> QED
      BY Zenon, <3>1, <3>2 DEF Registered
  <2> QED
    BY <1>1, <1>8, <2>1, <2>2, <2>3
<1>9. Registered' = Registered \ {t}
  <2>1. Registered' \subseteq Registered \ {t}
    BY Zenon, <1>7 DEF Registered
  <2> QED
    BY Zenon, <1>8, <2>1
<1>10. \A j, k \in 1..Len(registry') : registry'[j] = registry'[k] => j = k
  BY <1>1, <1>3, <1>4, <1>5, <1>6
<1> QED
  BY Zenon, <1>4, <1>9, <1>10

(* Other steps leave the list, and who should be on it, alone. *)
LEMMA MemberKept ==
  ASSUME IInv, [Next]_vars,
         ~\E t \in Threads : RegisterAdd(t) \/ UnregisterLock(t)
  PROVE  registry' = registry /\ \A o \in Threads : Member(o)' <=> Member(o)
<1> DEFINE Kept == registry' = registry /\ \A o \in Threads : Member(o)' <=> Member(o)
<1>t. /\ pc \in [Procs -> Pcs] /\ ret \in [Procs -> Pcs]
      /\ ControlInv /\ RegistryInv
  BY Zenon DEF IInv, TypeOK
<1>p. tid_defer \notin Threads /\ tid_defer \in Procs /\ Threads \subseteq Procs
  BY Zenon, DeferAssumption DEF Procs
<1> USE <1>t, <1>p DEF ControlInv, Member, WakePc, RunPc, BarrierPc, WaitPc
<1>1. ASSUME NEW r \in Readers, ReadLock(r) \/ ReadUnlock(r) PROVE Kept
  BY Zenon, <1>1 DEF ReadLock, ReadUnlock
<1>2. ASSUME NEW t \in Threads, Register(t) PROVE Kept
  BY Zenon, <1>2 DEF Register
<1>3. ASSUME NEW t \in Threads, RegisterAdd(t) PROVE Kept
  BY Zenon, <1>3
<1>4. ASSUME NEW t \in Threads, defer_rcu(t) PROVE Kept
  BY Zenon, <1>4 DEF defer_rcu
<1>5. ASSUME NEW t \in Threads, Enqueue(t) PROVE Kept
  BY Zenon, <1>5 DEF Enqueue
<1>6. ASSUME NEW t \in Threads, WakeLoad(t) PROVE Kept
  BY Zenon, <1>6 DEF WakeLoad
<1>7. ASSUME NEW t \in Threads, WakeStore(t) PROVE Kept
  BY Zenon, <1>7 DEF WakeStore
<1>8. ASSUME NEW t \in Threads, WakeCall(t) PROVE Kept
  BY Zenon, <1>8 DEF WakeCall
<1>9. ASSUME NEW t \in Threads, BarrierThread(t) PROVE Kept
  BY Zenon, <1>9 DEF BarrierThread
<1>10. ASSUME NEW t \in Threads, BarrierThreadLock(t) PROVE Kept
  BY Zenon, <1>10 DEF BarrierThreadLock
<1>11. ASSUME NEW t \in Threads, rcu_defer_barrier(t) PROVE Kept
  BY Zenon, <1>11 DEF rcu_defer_barrier
<1>12. ASSUME NEW t \in Threads, Unregister(t) PROVE Kept
  BY Zenon, <1>12 DEF Unregister
<1>13. ASSUME NEW t \in Threads, UnregisterLock(t) PROVE Kept
  BY Zenon, <1>13
<1>14. ASSUME NEW t \in Threads, UnregisterFree(t) PROVE Kept
  BY Zenon, <1>14 DEF UnregisterFree
<1>15. ASSUME NEW t \in Threads, StopStore(t) PROVE Kept
  BY Zenon, <1>15 DEF StopStore
<1>16. ASSUME NEW t \in Threads, Join(t) PROVE Kept
  BY Zenon, <1>16 DEF Join
<1>17. ASSUME NEW x \in Procs, BarrierEmpty(x) PROVE Kept
  BY Zenon, <1>17 DEF BarrierEmpty
<1>18. ASSUME NEW x \in Procs, BarrierLock(x) PROVE Kept
  BY ZenonT(60), <1>18 DEF BarrierLock
<1>19. ASSUME NEW x \in Procs, SyncDone(x) PROVE Kept
  BY Zenon, <1>19 DEF SyncDone
<1>20. ASSUME NEW x \in Procs, RunCallback(x) PROVE Kept
  BY Zenon, <1>20 DEF RunCallback
<1>21. ASSUME NEW x \in Procs, QueueDone(x) PROVE Kept
  BY Zenon, <1>21 DEF QueueDone
<1>22. CASE WaitDec \/ WaitStop \/ WaitExit \/ WaitNum
  BY ZenonT(60), <1>22 DEF WaitDec, WaitStop, WaitExit, WaitNum
<1>23. CASE WaitClear \/ WaitFutex \/ WaitSpurious
  BY ZenonT(60), <1>23 DEF WaitClear, WaitFutex, WaitSpurious
<1>24. CASE UNCHANGED vars
  BY Zenon, <1>24 DEF vars
<1> QED
  BY ZenonT(30), Steps, <1>1, <1>2, <1>3, <1>4, <1>5, <1>6, <1>7, <1>8, <1>9,
     <1>10, <1>11, <1>12, <1>13, <1>14, <1>15, <1>16, <1>17, <1>18, <1>19,
     <1>20, <1>21, <1>22, <1>23,
     <1>24

(* The list names the registered threads, each once. *)
LEMMA RegistryStep == IInv /\ [Next]_vars => RegistryInv'
<1> SUFFICES ASSUME IInv, [Next]_vars PROVE RegistryInv'
  OBVIOUS
<1>t. /\ pc \in [Procs -> Pcs] /\ ret \in [Procs -> Pcs]
      /\ registry \in Seq(Threads) /\ RegistryInv
  BY Zenon DEF IInv, TypeOK
<1>p. tid_defer \notin Threads /\ tid_defer \in Procs /\ Threads \subseteq Procs
  BY Zenon, DeferAssumption DEF Procs
<1>1. ASSUME NEW t \in Threads, RegisterAdd(t) PROVE RegistryInv'
  <2>1. t \notin Registered
    BY Zenon, <1>t, <1>p, <1>1
    DEF RegistryInv, RegisterAdd, Member, WakePc, RunPc, BarrierPc
  <2>2. /\ Len(registry') = Len(registry) + 1 /\ registry'[1] = t
        /\ \A k \in 1..Len(registry) : registry'[k + 1] = registry[k]
        /\ Registered' = Registered \cup {t}
    BY Zenon, <1>t, <1>1, RegistryAdded DEF RegisterAdd
  <2>3. \A o \in Threads : Member(o)' <=> Member(o) \/ o = t
    BY Zenon, <1>t, <1>p, <1>1 DEF RegisterAdd, Member, WakePc, RunPc, BarrierPc
  <2>4. \A k \in 1..Len(registry') : k # 1 =>
          k - 1 \in 1..Len(registry) /\ (k - 1) + 1 = k
    BY <1>t, <2>2
  <2>5. \A k \in 1..Len(registry') : k # 1 => registry'[k] = registry[k - 1]
    BY Zenon, <2>2, <2>4
  <2>6. \A k \in 1..Len(registry) : registry[k] # t
    BY Zenon, <2>1 DEF Registered
  <2>7. \A j, k \in 1..Len(registry') : registry'[j] = registry'[k] => j = k
    <3> SUFFICES ASSUME NEW j \in 1..Len(registry'), NEW k \in 1..Len(registry'),
                        registry'[j] = registry'[k]
                 PROVE  j = k
      OBVIOUS
    <3>1. j = 1 => k = 1
      BY Zenon, <2>2, <2>4, <2>5, <2>6
    <3>2. k = 1 => j = 1
      BY Zenon, <2>2, <2>4, <2>5, <2>6
    <3>3. j # 1 /\ k # 1 => j - 1 = k - 1
      BY Zenon, <1>t, <2>4, <2>5 DEF RegistryInv
    <3> QED
      BY Zenon, <2>4, <3>1, <3>2, <3>3
  <2> QED
    BY Zenon, <1>t, <2>2, <2>3, <2>7 DEF RegistryInv
<1>2. ASSUME NEW t \in Threads, UnregisterLock(t) PROVE RegistryInv'
  <2>1. t \in Registered
    BY Zenon, <1>t, <1>2 DEF RegistryInv, UnregisterLock, Member
  <2>2. /\ Registered' = Registered \ {t}
        /\ \A j, k \in 1..Len(registry') : registry'[j] = registry'[k] => j = k
    BY Zenon, <1>t, <1>2, <2>1, RegistryRemoved DEF UnregisterLock
  <2>3. \A o \in Threads : Member(o)' <=> Member(o) /\ o # t
    BY Zenon, <1>t, <1>p, <1>2 DEF UnregisterLock, Member, WakePc, RunPc, BarrierPc
  <2> QED
    BY Zenon, <1>t, <2>2, <2>3 DEF RegistryInv
<1>3. CASE ~\E t \in Threads : RegisterAdd(t) \/ UnregisterLock(t)
  BY Zenon, <1>t, <1>3, MemberKept DEF RegistryInv, Registered
<1> QED
  BY Zenon, <1>1, <1>2, <1>3

(* The first thread on the list finds no defer thread. *)
LEMMA NoDeferThread ==
  ASSUME IInv, NEW t \in Threads, RegisterAdd(t), registry = <<>>
  PROVE  pc[tid_defer] = "none"
<1>1. defer_thread_mutex = t /\ MutexInv
  BY Zenon DEF IInv, MutexInv, RegisterAdd
<1>2. \A o \in Threads : Leaving(o) => o = t
  BY Zenon, <1>1 DEF MutexInv
<1>3. ~Leaving(t)
  BY Zenon DEF Leaving, RegisterAdd, RunPc, WakePc
<1> QED
  BY Zenon, <1>2, <1>3 DEF IInv, SleepInv

(* Outside those steps whoever runs callbacks keeps the mutex and goes on. *)
LEMMA HolderKept ==
  ASSUME IInv, [Next]_vars, ~RingSteps
  PROVE  \A x \in Procs : /\ pc'[x] \in RunPc <=> pc[x] \in RunPc
                          /\ pc[x] \in RunPc => /\ ret'[x] = ret[x]
                                                /\ rcu_defer_mutex' = rcu_defer_mutex
<1> DEFINE Kept ==
      \A x \in Procs : /\ pc'[x] \in RunPc <=> pc[x] \in RunPc
                       /\ pc[x] \in RunPc => /\ ret'[x] = ret[x]
                                             /\ rcu_defer_mutex' = rcu_defer_mutex
<1>t. /\ pc \in [Procs -> Pcs] /\ ret \in [Procs -> Pcs]
      /\ ControlInv /\ MutexInv
  BY Zenon DEF IInv, TypeOK
<1>p. /\ tid_defer \notin Threads /\ tid_defer \in Procs /\ Threads \subseteq Procs
      /\ NoThread \notin Procs
  BY Zenon, DeferAssumption DEF Procs
<1> USE <1>t, <1>p
<1>1. ASSUME NEW r \in Readers, ReadLock(r) PROVE Kept
  BY Zenon, <1>1 DEF ReadLock, lockVars
<1>2. ASSUME NEW t \in Threads, Register(t) PROVE Kept
  BY Zenon, <1>2 DEF Register, lockVars, RunPc, ControlInv, WakePc, BarrierPc
<1>3. ASSUME NEW t \in Threads, RegisterAdd(t) PROVE Kept
  BY Zenon, <1>3, NoDeferThread
  DEF RegisterAdd, lockVars, RunPc, ControlInv, WakePc, BarrierPc
<1>4. ASSUME NEW t \in Threads, defer_rcu(t) PROVE Kept
  BY Zenon, <1>4 DEF defer_rcu, lockVars, RunPc, ControlInv, WakePc, BarrierPc
<1>5. ASSUME NEW t \in Threads, WakeLoad(t) PROVE Kept
  BY Zenon, <1>5 DEF WakeLoad, lockVars, RunPc, ControlInv, WakePc, BarrierPc
<1>6. ASSUME NEW t \in Threads, WakeStore(t) PROVE Kept
  BY Zenon, <1>6 DEF WakeStore, lockVars, RunPc, ControlInv, WakePc, BarrierPc
<1>7. ASSUME NEW t \in Threads, WakeCall(t) PROVE Kept
  BY Zenon, <1>7 DEF WakeCall, lockVars, RunPc, ControlInv, WakePc, BarrierPc
<1>8. ASSUME NEW t \in Threads, BarrierThread(t) PROVE Kept
  BY Zenon, <1>8 DEF BarrierThread, lockVars, RunPc, ControlInv, WakePc, BarrierPc
<1>9. ASSUME NEW t \in Threads, rcu_defer_barrier(t) PROVE Kept
  BY Zenon, <1>9 DEF rcu_defer_barrier, lockVars, RunPc, ControlInv, WakePc, BarrierPc
<1>10. ASSUME NEW t \in Threads, Unregister(t) PROVE Kept
  BY Zenon, <1>10 DEF Unregister, lockVars, RunPc, ControlInv, WakePc, BarrierPc
<1>11. ASSUME NEW t \in Threads, UnregisterFree(t) PROVE Kept
  BY Zenon, <1>11 DEF UnregisterFree, lockVars, RunPc, MutexInv
<1>12. ASSUME NEW t \in Threads, StopStore(t) PROVE Kept
  BY Zenon, <1>12 DEF StopStore, lockVars, RunPc, ControlInv, WakePc, BarrierPc
<1>13. ASSUME NEW t \in Threads, Join(t) PROVE Kept
  BY Zenon, <1>13 DEF Join, lockVars, RunPc, ControlInv, WakePc, BarrierPc
<1>14. ASSUME NEW x \in Procs, BarrierEmpty(x) PROVE Kept
  BY Zenon, <1>14 DEF BarrierEmpty, Procs, lockVars, RunPc, ControlInv, WakePc, BarrierPc
<1>15. ASSUME NEW x \in Procs, SyncDone(x) PROVE Kept
  BY Zenon, <1>15 DEF SyncDone, lockVars, RunPc, ControlInv, WakePc, BarrierPc
<1>16. CASE WaitDec \/ WaitStop \/ WaitExit \/ WaitNum
  BY Zenon, <1>16 DEF WaitDec, WaitStop, WaitExit, WaitNum, lockVars, RunPc
<1>17. CASE WaitClear \/ WaitFutex \/ WaitSpurious
  BY Zenon, <1>17 DEF WaitClear, WaitFutex, WaitSpurious, lockVars, RunPc
<1>18. CASE UNCHANGED vars
  BY Zenon, <1>18 DEF vars, lockVars
<1> QED
  BY ZenonT(30), Steps, <1>1, <1>2, <1>3, <1>4, <1>5, <1>6, <1>7, <1>8, <1>9,
     <1>10, <1>11, <1>12, <1>13, <1>14, <1>15, <1>16, <1>17, <1>18
  DEF RingSteps

(* Threads leave the list only by UnregisterLock. *)
LEMMA RegisteredKept ==
  ASSUME IInv, [Next]_vars, ~\E t \in Threads : UnregisterLock(t)
  PROVE  Registered \subseteq Registered'
<1>1. ASSUME NEW t \in Threads, RegisterAdd(t) PROVE Registered \subseteq Registered'
  BY Zenon, <1>1, RegistryAdded DEF RegisterAdd, IInv, TypeOK
<1>2. CASE ~\E t \in Threads : RegisterAdd(t) \/ UnregisterLock(t)
  BY Zenon, <1>2, MemberKept DEF Registered
<1> QED
  BY Zenon, <1>1, <1>2

(* The queues to run are registered, or the one being unregistered. *)
LEMMA TodoStep == IInv /\ [Next]_vars => TodoInv'
<1> SUFFICES ASSUME IInv, [Next]_vars PROVE TodoInv'
  OBVIOUS
<1>t. /\ pc \in [Procs -> Pcs] /\ ret \in [Procs -> Pcs]
      /\ registry \in Seq(Threads) /\ todo \in Seq(Threads)
      /\ rcu_defer_mutex \in Procs \cup {NoThread}
      /\ ControlInv /\ MutexInv /\ TodoInv /\ RegistryInv
  BY Zenon DEF IInv, TypeOK
<1>p. /\ tid_defer \notin Threads /\ tid_defer \in Procs /\ Threads \subseteq Procs
      /\ NoThread \notin Procs
  BY Zenon, DeferAssumption DEF Procs
<1>1. CASE ~RingSteps
  <2>1. todo' = todo
    BY Zenon, <1>1, RingKept
  <2>2. Registered \subseteq Registered'
    BY Zenon, <1>1, RegisteredKept DEF RingSteps
  <2>3. \A x \in Procs : /\ pc'[x] \in RunPc <=> pc[x] \in RunPc
                         /\ pc[x] \in RunPc => /\ ret'[x] = ret[x]
                                               /\ rcu_defer_mutex' = rcu_defer_mutex
    BY Zenon, <1>1, HolderKept
  <2>4. /\ todo # <<>> => /\ rcu_defer_mutex # NoThread
                          /\ pc[rcu_defer_mutex] \in RunPc
                          /\ rcu_defer_mutex \in Procs
                          /\ rcu_defer_mutex' = rcu_defer_mutex
    BY Zenon, <1>t, <2>3 DEF TodoInv
  <2>5. \A k \in 1..Len(todo) : todo # <<>>
    BY <1>t
  <2> QED
    BY ZenonT(60), <1>t, <1>p, <2>1, <2>2, <2>3, <2>4, <2>5 DEF TodoInv
<1>2. ASSUME NEW r \in Readers, ReadUnlock(r) PROVE TodoInv'
  BY <1>t, <1>2 DEF ReadUnlock, TodoInv, Registered, lockVars, runVars
<1>3. ASSUME NEW t \in Threads, Enqueue(t) PROVE TodoInv'
  <2>1. /\ todo' = todo /\ registry' = registry /\ rcu_defer_mutex' = rcu_defer_mutex
        /\ pc' = [pc EXCEPT ![t] = "wake_load"] /\ ret' = [ret EXCEPT ![t] = "idle"]
        /\ pc[t] = "enq"
    BY Zenon, <1>3 DEF Enqueue, lockVars, runVars
  <2>2. t # rcu_defer_mutex
    BY <1>t, <1>p, <2>1 DEF MutexInv, RunPc
  <2>3. \A x \in Procs : pc'[x] \in RunPc => pc[x] \in RunPc /\ ret'[x] = ret[x]
    BY Zenon, <1>t, <1>p, <2>1 DEF RunPc
  <2>4. todo # <<>> => /\ rcu_defer_mutex \in Procs /\ pc'[rcu_defer_mutex] \in RunPc
                       /\ ret'[rcu_defer_mutex] = ret[rcu_defer_mutex]
    BY Zenon, <1>t, <2>1, <2>2 DEF TodoInv
  <2>5. \A k \in 1..Len(todo) : todo # <<>>
    BY <1>t
  <2> QED
    BY <1>t, <2>1, <2>3, <2>4, <2>5 DEF TodoInv, Registered
<1>4. ASSUME NEW t \in Threads, BarrierThreadLock(t) PROVE TodoInv'
  <2>1. todo = <<>>
    BY Zenon, <1>4, TodoFree DEF BarrierThreadLock
  <2>2. t \in Registered /\ Registered' = Registered /\ ret[t] # "un_free"
    <3>1. Registered' = Registered /\ pc[t] = "bt_lock"
      BY Zenon, <1>4 DEF BarrierThreadLock, Registered
    <3>2. t \in Registered /\ ret[t] \in {"idle", "enq"}
      BY Zenon, <1>t, <3>1 DEF RegistryInv, Member, ControlInv
    <3> QED
      BY Zenon, <3>1, <3>2
  <2>3. CASE Items(t) = 0
    <3>1. /\ ret' = ret /\ todo' = todo /\ pc' = [pc EXCEPT ![t] = ret[t]]
          /\ ret[t] \in {"idle", "enq"}
      BY Zenon, <1>t, <1>4, <2>3 DEF BarrierThreadLock, runVars, ControlInv
    <3>2. \A x \in Procs : pc'[x] \notin RunPc
      BY Zenon, <1>t, <1>p, <1>4, <3>1 DEF MutexInv, RunPc, BarrierThreadLock
    <3> QED
      BY <2>1, <3>1, <3>2 DEF TodoInv
  <2>4. CASE Items(t) # 0
    <3>1. /\ ret' = ret /\ todo' = <<t>> /\ rcu_defer_mutex' = t
          /\ pc' = [pc EXCEPT ![t] = "sync"]
      BY Zenon, <1>t, <1>4, <2>4 DEF BarrierThreadLock
    <3>2. \A x \in Procs : pc'[x] \in RunPc <=> x = t
      BY Zenon, <1>t, <1>p, <1>4, <3>1 DEF MutexInv, RunPc, BarrierThreadLock
    <3> QED
      BY <1>t, <1>p, <2>2, <3>1, <3>2 DEF TodoInv
  <2> QED
    BY Zenon, <2>3, <2>4
<1>5. ASSUME NEW t \in Threads, UnregisterLock(t) PROVE TodoInv'
  <2>1. todo = <<>>
    BY Zenon, <1>5, TodoFree DEF UnregisterLock
  <2>3. CASE Items(t) = 0
    <3>1. /\ ret' = ret /\ todo' = todo /\ pc' = [pc EXCEPT ![t] = "un_free"]
      BY Zenon, <1>t, <1>5, <2>3 DEF UnregisterLock, runVars
    <3>2. \A x \in Procs : pc'[x] \notin RunPc
      BY Zenon, <1>t, <1>p, <1>5, <3>1 DEF MutexInv, RunPc, UnregisterLock
    <3> QED
      BY <2>1, <3>1, <3>2 DEF TodoInv
  <2>4. CASE Items(t) # 0
    <3>1. /\ ret' = [ret EXCEPT ![t] = "un_free"] /\ todo' = <<t>>
          /\ rcu_defer_mutex' = t /\ pc' = [pc EXCEPT ![t] = "sync"]
      BY Zenon, <1>t, <1>5, <2>4 DEF UnregisterLock
    <3>2. \A x \in Procs : pc'[x] \in RunPc <=> x = t
      BY Zenon, <1>t, <1>p, <1>5, <3>1 DEF MutexInv, RunPc, UnregisterLock
    <3> QED
      BY <1>t, <1>p, <3>1, <3>2 DEF TodoInv
  <2> QED
    BY Zenon, <2>3, <2>4
<1>6. ASSUME NEW x \in Procs, BarrierLock(x) PROVE TodoInv'
  <2>1. todo = <<>>
    BY Zenon, <1>6, TodoFree DEF BarrierLock
  <2>2. ret[x] \in {"idle", "out", "w_dec"} /\ registry' = registry
    BY Zenon, <1>t, <1>p, <1>6 DEF BarrierLock, ControlInv, BarrierPc, Procs
  <2>3. CASE \A t \in Registered : Items(t) = 0
    <3>1. ret' = ret /\ todo' = todo /\ pc' = [pc EXCEPT ![x] = ret[x]]
      BY Zenon, <1>t, <1>6, <2>3 DEF BarrierLock, runVars
    <3>2. \A y \in Procs : pc'[y] \notin RunPc
      BY Zenon, <1>t, <1>p, <1>6, <2>2, <3>1 DEF MutexInv, RunPc, BarrierLock
    <3> QED
      BY <2>1, <3>1, <3>2 DEF TodoInv
  <2>4. CASE ~\A t \in Registered : Items(t) = 0
    <3>1. /\ ret' = ret /\ todo' = registry /\ Registered # {}
          /\ rcu_defer_mutex' = x /\ pc' = [pc EXCEPT ![x] = "sync"]
      BY Zenon, <1>t, <1>6, <2>4 DEF BarrierLock
    <3>2. \A y \in Procs : pc'[y] \in RunPc <=> y = x
      BY Zenon, <1>t, <1>p, <1>6, <3>1 DEF MutexInv, RunPc, BarrierLock
    <3>3. registry # <<>>
      BY <1>t, <3>1 DEF Registered
    <3>4. /\ \A k \in 1..Len(todo') : todo'[k] \in Registered'
          /\ \A j, k \in 1..Len(todo') : todo'[j] = todo'[k] => j = k
      BY Zenon, <1>t, <2>2, <3>1 DEF RegistryInv, Registered
    <3> QED
      BY Zenon, <1>t, <1>p, <2>2, <3>1, <3>2, <3>3, <3>4 DEF TodoInv
  <2> QED
    BY Zenon, <2>3, <2>4
<1>7. ASSUME NEW x \in Procs, RunCallback(x) PROVE TodoInv'
  BY <1>t, <1>7 DEF RunCallback, TodoInv, Registered, lockVars
<1>8. ASSUME NEW x \in Procs, QueueDone(x) PROVE TodoInv'
  <2>1. /\ todo # <<>> /\ rcu_defer_mutex = x
        /\ ret[x] \in {"enq", "un_free"} => todo = <<x>>
        /\ \A y \in Procs : pc[y] \in RunPc => y = x
    BY Zenon, <1>t, <1>8 DEF TodoInv, MutexInv, QueueDone, RunPc
  <2>2. /\ todo' = Tail(todo) /\ ret' = ret /\ registry' = registry
    BY Zenon, <1>8 DEF QueueDone
  <2>3. CASE Len(todo) > 1
    <3>1. pc' = pc /\ rcu_defer_mutex' = rcu_defer_mutex
      BY <1>8, <2>3 DEF QueueDone
    <3>2. /\ Len(todo') = Len(todo) - 1 /\ todo' # <<>>
          /\ \A k \in 1..Len(todo') : todo'[k] = todo[k + 1]
                                      /\ k + 1 \in 1..Len(todo)
      <4>1. /\ Len(todo') = Len(todo) - 1
            /\ \A k \in 1..(Len(todo) - 1) : todo'[k] = todo[k + 1]
        BY Zenon, <1>t, <2>1, <2>2, TailOf
      <4> QED
        BY <1>t, <2>3, <4>1
    <3>3. \A k \in 1..Len(todo') :
            \/ todo'[k] \in Registered'
            \/ todo'[k] = rcu_defer_mutex' /\ ret'[todo'[k]] = "un_free"
      BY <1>t, <2>2, <3>1, <3>2 DEF TodoInv, Registered
    <3>4. \A j, k \in 1..Len(todo') : todo'[j] = todo'[k] => j = k
      BY <1>t, <3>2 DEF TodoInv
    <3>5. ret[x] \notin {"enq", "un_free"}
      <4>1. todo = <<x>> => ~(Len(todo) > 1)
        OBVIOUS
      <4> QED
        BY Zenon, <2>1, <2>3, <4>1
    <3> QED
      BY Zenon, <1>t, <2>1, <2>2, <3>1, <3>2, <3>3, <3>4, <3>5, <1>p DEF TodoInv
  <2>4. CASE Len(todo) = 1
    <3>1. pc' = [pc EXCEPT ![x] = ret[x]]
      BY <1>8, <2>4 DEF QueueDone
    <3>2. todo' = <<>>
      BY <1>t, <2>2, <2>4
    <3>3. ret[x] \notin RunPc
      BY Zenon, <1>t, <1>p, <1>8 DEF QueueDone, ControlInv, RunPc, BarrierPc, Procs
    <3>4. \A y \in Procs : pc'[y] \notin RunPc
      BY Zenon, <1>t, <2>1, <3>1, <3>3
    <3> QED
      BY <3>2, <3>4 DEF TodoInv
  <2>5. Len(todo) \in Nat /\ Len(todo) # 0
    BY <1>t, <2>1
  <2> QED
    BY Zenon, <1>8, <2>3, <2>4, <2>5 DEF QueueDone
<1> QED
  BY Zenon, <1>1, <1>2, <1>3, <1>4, <1>5, <1>6, <1>7, <1>8 DEF RingSteps

(* Types of the other variables. *)
LEMMA TypeRest ==
  ASSUME IInv, [Next]_vars
  PROVE  /\ registry' \in Seq(Threads)
         /\ rcu_defer_mutex' \in Procs \cup {NoThread}
         /\ defer_thread_mutex' \in Threads \cup {NoThread}
         /\ defer_thread_futex' \in {-1, 0} /\ defer_thread_stop' \in {0, 1}
         /\ pc' \in [Procs -> Pcs] /\ ret' \in [Procs -> Pcs]
         /\ arg' \in [Threads -> {<<>>} \cup Callbacks]
         /\ cs' \in SUBSET Readers
<1> DEFINE Type == /\ registry \in Seq(Threads)
                   /\ rcu_defer_mutex \in Procs \cup {NoThread}
                   /\ defer_thread_mutex \in Threads \cup {NoThread}
                   /\ defer_thread_futex \in {-1, 0} /\ defer_thread_stop \in {0, 1}
                   /\ pc \in [Procs -> Pcs] /\ ret \in [Procs -> Pcs]
                   /\ arg \in [Threads -> {<<>>} \cup Callbacks]
                   /\ cs \in SUBSET Readers
<1>t. Type
  BY Zenon DEF IInv, TypeOK
<1>p. /\ tid_defer \notin Threads /\ tid_defer \in Procs /\ Threads \subseteq Procs
      /\ NoThread \notin Procs
  BY Zenon, DeferAssumption DEF Procs
<1> USE <1>t, <1>p
<1>c. ControlInv
  BY Zenon DEF IInv
<1>1. ASSUME NEW r \in Readers, ReadLock(r) \/ ReadUnlock(r) PROVE Type'
  BY Zenon, <1>1
  DEF ReadLock, ReadUnlock, lockVars, threadVars, Pcs, ThreadPc, WakePc,
      BarrierPc, RunPc, WaitPc
<1>2. ASSUME NEW t \in Threads, Register(t) PROVE Type'
  BY Zenon, <1>2
  DEF Register, lockVars, threadVars, Pcs, ThreadPc, WakePc, BarrierPc, RunPc,
      WaitPc
<1>3. ASSUME NEW t \in Threads, RegisterAdd(t) PROVE Type'
  <2>1. registry' \in Seq(Threads)
    BY <1>3 DEF RegisterAdd
  <2> QED
    BY Zenon, <1>3, <2>1
    DEF RegisterAdd, lockVars, threadVars, Pcs, ThreadPc, WakePc, BarrierPc,
        RunPc, WaitPc
<1>4. ASSUME NEW t \in Threads, defer_rcu(t) PROVE Type'
  BY Zenon, <1>4
  DEF defer_rcu, lockVars, threadVars, Pcs, ThreadPc, WakePc, BarrierPc, RunPc,
      WaitPc
<1>5. ASSUME NEW t \in Threads, Enqueue(t) PROVE Type'
  BY Zenon, <1>5
  DEF Enqueue, lockVars, threadVars, Pcs, ThreadPc, WakePc, BarrierPc, RunPc,
      WaitPc
<1>6. ASSUME NEW t \in Threads, WakeLoad(t) PROVE Type'
  BY Zenon, <1>6
  DEF WakeLoad, lockVars, threadVars, Pcs, ThreadPc, WakePc, BarrierPc, RunPc,
      WaitPc
<1>7. ASSUME NEW t \in Threads, WakeStore(t) PROVE Type'
  BY Zenon, <1>7
  DEF WakeStore, lockVars, threadVars, Pcs, ThreadPc, WakePc, BarrierPc, RunPc,
      WaitPc
<1>8. ASSUME NEW t \in Threads, WakeCall(t) PROVE Type'
  BY Zenon, <1>8
  DEF WakeCall, lockVars, threadVars, Pcs, ThreadPc, WakePc, BarrierPc, RunPc,
      WaitPc
<1>9. ASSUME NEW t \in Threads, BarrierThread(t) PROVE Type'
  BY Zenon, <1>9
  DEF BarrierThread, lockVars, threadVars, Pcs, ThreadPc, WakePc, BarrierPc,
      RunPc, WaitPc
<1>10. ASSUME NEW t \in Threads, BarrierThreadLock(t) PROVE Type'
  BY <1>10
  DEF BarrierThreadLock, lockVars, threadVars, Pcs, ThreadPc, WakePc, BarrierPc,
      RunPc, WaitPc
<1>11. ASSUME NEW t \in Threads, rcu_defer_barrier(t) PROVE Type'
  BY Zenon, <1>11
  DEF rcu_defer_barrier, lockVars, threadVars, Pcs, ThreadPc, WakePc, BarrierPc,
      RunPc, WaitPc
<1>12. ASSUME NEW t \in Threads, Unregister(t) PROVE Type'
  BY Zenon, <1>12
  DEF Unregister, lockVars, threadVars, Pcs, ThreadPc, WakePc, BarrierPc, RunPc,
      WaitPc
<1>13. ASSUME NEW t \in Threads, UnregisterLock(t) PROVE Type'
  <2>1. t \in Registered
    BY Zenon, <1>13 DEF UnregisterLock, IInv, RegistryInv, Member
  <2>2. registry' \in Seq(Threads)
    BY Zenon, <1>13, <2>1, RegistryRemoved DEF UnregisterLock, IInv, RegistryInv
  <2> QED
    BY <1>13, <2>2
    DEF UnregisterLock, lockVars, threadVars, Pcs, ThreadPc, WakePc, BarrierPc,
        RunPc, WaitPc
<1>14. ASSUME NEW t \in Threads, UnregisterFree(t) PROVE Type'
  BY Zenon, <1>14
  DEF UnregisterFree, lockVars, threadVars, Pcs, ThreadPc, WakePc, BarrierPc,
      RunPc, WaitPc
<1>15. ASSUME NEW t \in Threads, StopStore(t) PROVE Type'
  BY Zenon, <1>15
  DEF StopStore, lockVars, threadVars, Pcs, ThreadPc, WakePc, BarrierPc, RunPc,
      WaitPc
<1>16. ASSUME NEW t \in Threads, Join(t) PROVE Type'
  BY Zenon, <1>16
  DEF Join, lockVars, threadVars, Pcs, ThreadPc, WakePc, BarrierPc, RunPc,
      WaitPc
<1>17. ASSUME NEW x \in Procs, BarrierEmpty(x) PROVE Type'
  BY Zenon, <1>17
  DEF BarrierEmpty, lockVars, threadVars, Pcs, ThreadPc, WakePc, BarrierPc,
      RunPc, WaitPc
<1>18. ASSUME NEW x \in Procs, BarrierLock(x) PROVE Type'
  BY ZenonT(30), <1>18
  DEF BarrierLock, lockVars, threadVars, Pcs, ThreadPc, WakePc, BarrierPc,
      RunPc, WaitPc
<1>19. ASSUME NEW x \in Procs, SyncDone(x) PROVE Type'
  BY Zenon, <1>19
  DEF SyncDone, lockVars, threadVars, Pcs, ThreadPc, WakePc, BarrierPc, RunPc,
      WaitPc
<1>20. ASSUME NEW x \in Procs, RunCallback(x) PROVE Type'
  BY Zenon, <1>20
  DEF RunCallback, lockVars, threadVars, Pcs, ThreadPc, WakePc, BarrierPc,
      RunPc, WaitPc
<1>21. ASSUME NEW x \in Procs, QueueDone(x) PROVE Type'
  BY Zenon, <1>21
  DEF QueueDone, lockVars, threadVars, Pcs, ThreadPc, WakePc, BarrierPc, RunPc,
      WaitPc
<1>22. CASE WaitDec
  <2>1. defer_thread_futex = 0
    BY Zenon, <1>22 DEF WaitDec, IInv, SleepInv, WaitPc
  <2> QED
    BY <1>22, <2>1
    DEF WaitDec, lockVars, threadVars, Pcs, ThreadPc, WakePc, BarrierPc, RunPc,
        WaitPc
<1>23. CASE WaitStop
  BY Zenon, <1>23
  DEF WaitStop, lockVars, threadVars, Pcs, ThreadPc, WakePc, BarrierPc, RunPc,
      WaitPc
<1>24. CASE WaitExit
  BY Zenon, <1>24
  DEF WaitExit, lockVars, threadVars, Pcs, ThreadPc, WakePc, BarrierPc, RunPc,
      WaitPc
<1>25. CASE WaitNum
  BY Zenon, <1>25
  DEF WaitNum, lockVars, threadVars, Pcs, ThreadPc, WakePc, BarrierPc, RunPc,
      WaitPc
<1>26. CASE WaitClear \/ WaitFutex \/ WaitSpurious
  BY ZenonT(60), <1>26
  DEF WaitClear, WaitFutex, WaitSpurious, lockVars, threadVars, Pcs, ThreadPc,
      WakePc, BarrierPc, RunPc, WaitPc
<1>27. CASE UNCHANGED vars
  BY Zenon, <1>27
  DEF vars, lockVars, threadVars, Pcs, ThreadPc, WakePc, BarrierPc, RunPc,
      WaitPc
<1> QED
  BY ZenonT(30), Steps, <1>1, <1>2, <1>3, <1>4, <1>5, <1>6, <1>7, <1>8, <1>9,
     <1>10, <1>11, <1>12, <1>13, <1>14, <1>15, <1>16, <1>17, <1>18, <1>19,
     <1>20, <1>21, <1>22, <1>23, <1>24, <1>25, <1>26,
     <1>27

(* Types. *)
LEMMA TypeStep == IInv /\ [Next]_vars => TypeOK'
BY Zenon, TypeRing, TypeRest DEF TypeOK

(* How a thread comes to store a callback. *)
LEMMA Enters ==
  ASSUME IInv, [Next]_vars, NEW o \in Threads
  PROVE  pc'[o] = "enq" => \/ pc[o] = "enq" /\ ret'[o] = ret[o]
                           \/ ~Full(o) /\ ret'[o] = "idle"
                           \/ BarrierThreadLock(o) \/ QueueDone(o)
<1> DEFINE Entry == pc'[o] = "enq" => \/ pc[o] = "enq" /\ ret'[o] = ret[o]
                                      \/ ~Full(o) /\ ret'[o] = "idle"
                                      \/ BarrierThreadLock(o) \/ QueueDone(o)
<1>t. pc \in [Procs -> Pcs] /\ ret \in [Procs -> Pcs] /\ ControlInv
  BY Zenon DEF IInv, TypeOK
<1>p. tid_defer \notin Threads /\ tid_defer \in Procs /\ Threads \subseteq Procs
  BY Zenon, DeferAssumption DEF Procs
<1> USE <1>t, <1>p
<1>1. ASSUME NEW r \in Readers, ReadLock(r) \/ ReadUnlock(r) PROVE Entry
  BY Zenon, <1>1 DEF ReadLock, ReadUnlock
<1>2. ASSUME NEW t \in Threads, Register(t) PROVE Entry
  BY Zenon, <1>2 DEF Register
<1>3. ASSUME NEW t \in Threads, RegisterAdd(t) PROVE Entry
  BY Zenon, <1>3 DEF RegisterAdd
<1>4. ASSUME NEW t \in Threads, defer_rcu(t) PROVE Entry
  BY Zenon, <1>4 DEF defer_rcu
<1>5. ASSUME NEW t \in Threads, Enqueue(t) PROVE Entry
  BY Zenon, <1>5 DEF Enqueue
<1>6. ASSUME NEW t \in Threads, WakeLoad(t) PROVE Entry
  BY Zenon, <1>6 DEF WakeLoad, ControlInv, WakePc
<1>7. ASSUME NEW t \in Threads, WakeStore(t) PROVE Entry
  BY Zenon, <1>7 DEF WakeStore
<1>8. ASSUME NEW t \in Threads, WakeCall(t) PROVE Entry
  BY Zenon, <1>8 DEF WakeCall, ControlInv, WakePc
<1>9. ASSUME NEW t \in Threads, BarrierThread(t) PROVE Entry
  BY Zenon, <1>9 DEF BarrierThread
<1>10. ASSUME NEW t \in Threads, BarrierThreadLock(t) PROVE Entry
  <2>1. CASE t = o
    BY Zenon, <1>10, <2>1
  <2>2. CASE t # o
    BY Zenon, <1>10, <2>2 DEF BarrierThreadLock
  <2> QED
    BY Zenon, <2>1, <2>2
<1>11. ASSUME NEW t \in Threads, rcu_defer_barrier(t) PROVE Entry
  BY Zenon, <1>11 DEF rcu_defer_barrier
<1>12. ASSUME NEW t \in Threads, Unregister(t) PROVE Entry
  BY Zenon, <1>12 DEF Unregister
<1>13. ASSUME NEW t \in Threads, UnregisterLock(t) PROVE Entry
  BY Zenon, <1>13 DEF UnregisterLock
<1>14. ASSUME NEW t \in Threads, UnregisterFree(t) PROVE Entry
  BY Zenon, <1>14 DEF UnregisterFree
<1>15. ASSUME NEW t \in Threads, StopStore(t) PROVE Entry
  BY Zenon, <1>15 DEF StopStore
<1>16. ASSUME NEW t \in Threads, Join(t) PROVE Entry
  BY Zenon, <1>16 DEF Join
<1>17. ASSUME NEW x \in Procs, BarrierEmpty(x) PROVE Entry
  BY Zenon, <1>17 DEF BarrierEmpty, ControlInv, BarrierPc, Procs
<1>18. ASSUME NEW x \in Procs, BarrierLock(x) PROVE Entry
  BY Zenon, <1>18 DEF BarrierLock, ControlInv, BarrierPc, Procs
<1>19. ASSUME NEW x \in Procs, SyncDone(x) PROVE Entry
  BY Zenon, <1>19 DEF SyncDone
<1>20. ASSUME NEW x \in Procs, RunCallback(x) PROVE Entry
  BY Zenon, <1>20 DEF RunCallback
<1>21. ASSUME NEW x \in Procs, QueueDone(x) PROVE Entry
  <2>1. CASE x = o
    BY Zenon, <1>21, <2>1
  <2>2. CASE x # o
    BY Zenon, <1>21, <2>2 DEF QueueDone
  <2> QED
    BY Zenon, <2>1, <2>2
<1>22. CASE WaitDec \/ WaitStop \/ WaitExit \/ WaitNum
  BY Zenon, <1>22 DEF WaitDec, WaitStop, WaitExit, WaitNum
<1>23. CASE WaitClear \/ WaitFutex \/ WaitSpurious
  BY Zenon, <1>23 DEF WaitClear, WaitFutex, WaitSpurious
<1>24. CASE UNCHANGED vars
  BY Zenon, <1>24 DEF vars
<1> QED
  BY ZenonT(30), Steps, <1>1, <1>2, <1>3, <1>4, <1>5, <1>6, <1>7, <1>8, <1>9,
     <1>10, <1>11, <1>12, <1>13, <1>14, <1>15, <1>16, <1>17, <1>18, <1>19,
     <1>20, <1>21, <1>22, <1>23,
     <1>24

(* The sections a callback or a run waits for are open. *)
LEMMA GraceStep == IInv /\ [Next]_vars => GraceInv'
<1> SUFFICES ASSUME IInv, [Next]_vars PROVE GraceInv'
  OBVIOUS
<1>t. /\ pc \in [Procs -> Pcs] /\ pending \in [Threads -> Seq(Callback)]
      /\ todo \in Seq(Threads) /\ GraceInv /\ ControlInv /\ MutexInv
      /\ ret \in [Procs -> Pcs]
  BY Zenon DEF IInv, TypeOK
<1>p. /\ tid_defer \notin Threads /\ tid_defer \in Procs /\ Threads \subseteq Procs
      /\ NoThread \notin Procs
  BY Zenon, DeferAssumption DEF Procs
<1> USE <1>t, <1>p
<1>1. ASSUME ~RingSteps, ~\E x \in Procs : SyncDone(x) PROVE GraceInv'
  <2>1. UNCHANGED <<gpre, pending>> /\ cs \subseteq cs'
    BY Zenon, <1>1, RingKept
  <2>2. \A x \in Procs : pc'[x] = "run" => pc[x] = "run"
    <3> DEFINE Run == \A x \in Procs : pc'[x] = "run" => pc[x] = "run"
    <3>1. ASSUME NEW r \in Readers, ReadLock(r) PROVE Run
      BY Zenon, <3>1 DEF ReadLock
    <3>2. ASSUME NEW t \in Threads, Register(t) \/ RegisterAdd(t) \/ defer_rcu(t)
          PROVE  Run
      BY Zenon, <3>2 DEF Register, RegisterAdd, defer_rcu
    <3>3. ASSUME NEW t \in Threads, WakeLoad(t) \/ WakeStore(t) \/ WakeCall(t)
          PROVE  Run
      BY Zenon, <3>3 DEF WakeLoad, WakeStore, WakeCall, ControlInv, WakePc
    <3>4. ASSUME NEW t \in Threads, BarrierThread(t) \/ rcu_defer_barrier(t)
          PROVE  Run
      BY Zenon, <3>4 DEF BarrierThread, rcu_defer_barrier
    <3>5. ASSUME NEW t \in Threads,
                 Unregister(t) \/ UnregisterFree(t) \/ StopStore(t) \/ Join(t)
          PROVE  Run
      BY Zenon, <3>5 DEF Unregister, UnregisterFree, StopStore, Join
    <3>6. ASSUME NEW x \in Procs, BarrierEmpty(x) PROVE Run
      BY Zenon, <3>6 DEF BarrierEmpty, ControlInv, BarrierPc, Procs
    <3>7. CASE WaitDec \/ WaitStop \/ WaitExit \/ WaitNum
      BY Zenon, <3>7 DEF WaitDec, WaitStop, WaitExit, WaitNum
    <3>8. CASE WaitClear \/ WaitFutex \/ WaitSpurious
      BY Zenon, <3>8 DEF WaitClear, WaitFutex, WaitSpurious
    <3>9. CASE UNCHANGED vars
      BY Zenon, <3>9 DEF vars
    <3> QED
      BY ZenonT(30), Steps, <1>1, <3>1, <3>2, <3>3, <3>4, <3>5, <3>6, <3>7,
         <3>8, <3>9
      DEF RingSteps
  <2> QED
    BY Zenon, <2>1, <2>2 DEF GraceInv
<1>2. ASSUME NEW x \in Procs, SyncDone(x) PROVE GraceInv'
  BY Zenon, <1>2 DEF SyncDone, GraceInv, hist
<1>3. ASSUME NEW r \in Readers, ReadUnlock(r) PROVE GraceInv'
  <2>1. ASSUME NEW t \in Threads, NEW k \in 1..Len(pending'[t])
        PROVE  pending'[t][k].pre \subseteq cs'
    <3>1. /\ pending'[t] = [j \in 1..Len(pending[t]) |->
                              [pending[t][j] EXCEPT !.pre = @ \ {r}]]
          /\ pending[t] \in Seq(Callback)
      BY Zenon, <1>3 DEF ReadUnlock
    <3>2. k \in 1..Len(pending[t])
      BY <3>1
    <3>3. pending[t][k] \in Callback
      BY <3>1, <3>2
    <3>4. pending'[t][k].pre = pending[t][k].pre \ {r}
      BY <3>1, <3>2, <3>3 DEF Callback
    <3> QED
      BY Zenon, <1>3, <3>2, <3>4 DEF ReadUnlock, GraceInv
  <2> QED
    BY Zenon, <1>3, <2>1 DEF ReadUnlock, GraceInv
<1>4. ASSUME NEW t \in Threads, Enqueue(t) PROVE GraceInv'
  <2>1. PICK f, p : pending' = [pending EXCEPT ![t] =
                                  Append(@, [fct |-> f, p |-> p, pre |-> cs])]
    BY Zenon, <1>4 DEF Enqueue
  <2>2. /\ cs' = cs /\ gpre' = gpre /\ pc' = [pc EXCEPT ![t] = "wake_load"]
    BY Zenon, <1>4 DEF Enqueue
  <2>3. ASSUME NEW o \in Threads, NEW k \in 1..Len(pending'[o])
        PROVE  pending'[o][k].pre \subseteq cs
    <3>1. pending[o] \in Seq(Callback)
      BY Zenon, <1>t
    <3>2. CASE o # t
      <4>1. pending'[o] = pending[o]
        BY Zenon, <2>1, <3>2
      <4> QED
        BY Zenon, <4>1 DEF GraceInv
    <3>3. CASE o = t
      <4>1. pending'[o] = Append(pending[o], [fct |-> f, p |-> p, pre |-> cs])
        BY Zenon, <2>1, <3>3
      <4>2. CASE k \in 1..Len(pending[o])
        <5>1. pending'[o][k] = pending[o][k]
          BY <3>1, <4>1, <4>2
        <5> QED
          BY Zenon, <4>2, <5>1 DEF GraceInv
      <4>3. CASE k \notin 1..Len(pending[o])
        <5>1. pending'[o][k] = [fct |-> f, p |-> p, pre |-> cs]
          BY <3>1, <4>1, <4>3
        <5> QED
          BY <5>1
      <4> QED
        BY Zenon, <4>2, <4>3
    <3> QED
      BY Zenon, <3>2, <3>3
  <2> QED
    BY Zenon, <2>2, <2>3 DEF GraceInv
<1>5. CASE \/ \E t \in Threads : BarrierThreadLock(t) \/ UnregisterLock(t)
           \/ \E x \in Procs : BarrierLock(x)
  <2>1. pending' = pending /\ cs' = cs
    BY Zenon, <1>5 DEF BarrierThreadLock, UnregisterLock, BarrierLock, hist
  <2>2. gpre' \subseteq cs
    BY Zenon, <1>5 DEF BarrierThreadLock, UnregisterLock, BarrierLock, GraceInv
  <2>3. \A x \in Procs : pc[x] # "run"
    BY ZenonT(60), <1>5
    DEF MutexInv, RunPc, BarrierThreadLock, UnregisterLock, BarrierLock
  <2>4. \A x \in Procs : pc'[x] # "run"
    <3>1. ASSUME NEW t \in Threads, BarrierThreadLock(t)
          PROVE  \A x \in Procs : pc'[x] # "run"
      BY Zenon, <2>3, <3>1 DEF BarrierThreadLock, ControlInv
    <3>2. ASSUME NEW t \in Threads, UnregisterLock(t)
          PROVE  \A x \in Procs : pc'[x] # "run"
      BY Zenon, <2>3, <3>2 DEF UnregisterLock
    <3>3. ASSUME NEW y \in Procs, BarrierLock(y)
          PROVE  \A x \in Procs : pc'[x] # "run"
      BY Zenon, <2>3, <3>3 DEF BarrierLock, ControlInv, BarrierPc, Procs
    <3> QED
      BY Zenon, <1>5, <3>1, <3>2, <3>3
  <2> QED
    BY Zenon, <2>1, <2>2, <2>4 DEF GraceInv
<1>6. ASSUME NEW x \in Procs, RunCallback(x) PROVE GraceInv'
  <2>1. PICK t \in Threads : t = todo[1]
    BY <1>6 DEF RunCallback, IInv, TodoInv, RunPc
  <2>2. PICK pos \in Positions(t) : Layout(t, pos) /\ Covered(t, pos)
    BY Zenon DEF IInv, RingInv, Ring
  <2>3. Len(pending[t]) >= 1
    BY Zenon, <1>6, <2>1, <2>2, NextCallback DEF RunCallback
  <2>4. pending' = [pending EXCEPT ![t] = Tail(@)] /\ cs' = cs /\ gpre' = gpre /\ pc' = pc
    BY Zenon, <1>6, <2>1 DEF RunCallback
  <2>5. ASSUME NEW o \in Threads, NEW k \in 1..Len(pending'[o])
        PROVE  pending'[o][k].pre \subseteq cs
    <3>1. CASE o # t
      <4>1. pending'[o] = pending[o]
        BY Zenon, <2>4, <3>1
      <4> QED
        BY Zenon, <4>1 DEF GraceInv
    <3>2. CASE o = t
      <4>1. pending[o] \in Seq(Callback) /\ pending[o] # <<>>
        BY <2>3, <3>2
      <4>2. pending'[o] = Tail(pending[o])
        BY Zenon, <2>4, <3>2
      <4>3. /\ Len(pending'[o]) = Len(pending[o]) - 1
            /\ \A j \in 1..Len(pending'[o]) : pending'[o][j] = pending[o][j + 1]
        BY Zenon, <4>1, <4>2, TailOf
      <4>4. k + 1 \in 1..Len(pending[o]) /\ pending'[o][k] = pending[o][k + 1]
        BY <4>1, <4>3
      <4> QED
        BY Zenon, <4>4 DEF GraceInv
    <3> QED
      BY Zenon, <3>1, <3>2
  <2> QED
    BY Zenon, <2>4, <2>5 DEF GraceInv
<1>7. ASSUME NEW x \in Procs, QueueDone(x) PROVE GraceInv'
  <2>1. UNCHANGED <<pending, cs, gpre>>
    BY Zenon, <1>7 DEF QueueDone, hist
  <2>2. \A y \in Procs : pc'[y] = "run" => pc[y] = "run"
    BY Zenon, <1>7 DEF QueueDone, ControlInv, Procs
  <2> QED
    BY Zenon, <2>1, <2>2 DEF GraceInv
<1> QED
  BY Zenon, <1>1, <1>2, <1>3, <1>4, <1>5, <1>6, <1>7 DEF RingSteps

(* Every step keeps what a queue holds for its owner. *)
LEMMA OwnStep == IInv /\ [Next]_vars => OwnInv'
<1> SUFFICES ASSUME IInv, [Next]_vars, NEW o \in Threads PROVE Own(o)'
  BY Zenon DEF OwnInv, Own
<1>t. /\ pc \in [Procs -> Pcs] /\ ret \in [Procs -> Pcs] /\ ControlInv /\ MutexInv
      /\ Own(o) /\ todo \in Seq(Threads) /\ head \in [Threads -> Index]
      /\ registry \in Seq(Threads)
  BY Zenon DEF IInv, TypeOK, OwnInv, Own
<1>p. /\ tid_defer \notin Threads /\ tid_defer \in Procs /\ Threads \subseteq Procs
      /\ NoThread \notin Procs /\ o \in Procs
  BY Zenon, DeferAssumption DEF Procs
<1>s. Items(o) \in Nat /\ Items(o) <= Size
  <2>1. head[o] \in Index /\ tail[o] \in Index
    BY Zenon DEF IInv, TypeOK
  <2>2. Items(o) \in Index
    BY Zenon, <2>1, Circle DEF Items
  <2> QED
    BY <2>2 DEF Index, IInv, RingInv, Ring
<1>1. CASE ~RingSteps
  <2>1. UNCHANGED <<queueVars, todo, i, upto>>
    BY Zenon, <1>1, RingKept
  <2>2. /\ Items(o)' = Items(o) /\ head' = head
        /\ \A k \in 1..Len(todo) : Bound(k)' = Bound(k)
    BY Zenon, <2>1 DEF Items, Bound, queueVars
  <2>3. /\ pc'[o] \in RunPc <=> pc[o] \in RunPc
        /\ pc[o] \in RunPc => ret'[o] = ret[o]
    BY Zenon, <1>1, <1>p, HolderKept
  <2>4. Member(o) => Member(o)'
    <3>1. ASSUME NEW t \in Threads, RegisterAdd(t) PROVE Member(o) => Member(o)'
      BY Zenon, <1>t, <1>p, <3>1 DEF RegisterAdd, Member, WakePc, BarrierPc, RunPc
    <3>2. CASE ~\E t \in Threads : RegisterAdd(t) \/ UnregisterLock(t)
      BY Zenon, <3>2, MemberKept
    <3> QED
      BY Zenon, <1>1, <3>1, <3>2 DEF RingSteps
  <2>5. ~Member(o)' /\ ~(pc'[o] \in RunPc /\ ret'[o] = "un_free") => Items(o)' = 0
    BY Zenon, <1>t, <2>2, <2>3, <2>4 DEF Own
  <2>6. pc'[o] = "enq" => Items(o)' <= (IF ret'[o] = "enq" THEN 0 ELSE Size - 3)
    <3>1. pc'[o] = "enq" => \/ pc[o] = "enq" /\ ret'[o] = ret[o]
                            \/ ~Full(o) /\ ret'[o] = "idle"
      BY Zenon, <1>1, <1>p, Enters DEF RingSteps
    <3>2. ~Full(o) => Items(o) <= Size - 3
      BY <1>s, Sizes DEF Full
    <3> QED
      BY Zenon, <1>t, <2>2, <3>1, <3>2 DEF Own
  <2>7. pc'[o] \in RunPc =>
          /\ \A k \in 1..Len(todo') : todo'[k] = o => Bound(k)' = head'[o]
          /\ Items(o)' = 0 \/ \E k \in 1..Len(todo') : todo'[k] = o
    BY Zenon, <1>t, <2>1, <2>2, <2>3 DEF Own
  <2> QED
    BY Zenon, <2>5, <2>6, <2>7 DEF Own
<1>2. ASSUME NEW r \in Readers, ReadUnlock(r) PROVE Own(o)'
  <2>1. UNCHANGED <<head, tail, last_head, todo, upto, pc, ret>>
    BY Zenon, <1>2 DEF ReadUnlock, queueVars, runVars
  <2>2. /\ Items(o)' = Items(o) /\ Member(o)' = Member(o)
        /\ \A k \in 1..Len(todo) : Bound(k)' = Bound(k)
    BY Zenon, <2>1 DEF Items, Bound, Member
  <2> QED
    BY Zenon, <1>t, <2>1, <2>2 DEF Own
<1>3. ASSUME NEW t \in Threads, Enqueue(t) PROVE Own(o)'
  <2>1. /\ UNCHANGED <<tail, last_head, todo, upto>>
        /\ pc' = [pc EXCEPT ![t] = "wake_load"] /\ ret' = [ret EXCEPT ![t] = "idle"]
        /\ \E y : head' = [head EXCEPT ![t] = y]
    BY Zenon, <1>3 DEF Enqueue, runVars
  <2>2. CASE o = t
    BY Zenon, <1>t, <1>p, <2>1, <2>2 DEF Own, Member, WakePc, RunPc
  <2>3. CASE o # t
    <3>1. /\ Items(o)' = Items(o) /\ head'[o] = head[o]
          /\ pc'[o] = pc[o] /\ ret'[o] = ret[o]
          /\ \A k \in 1..Len(todo) : Bound(k)' = Bound(k)
      BY Zenon, <1>t, <1>p, <2>1, <2>3 DEF Items, Bound
    <3>2. Member(o)' = Member(o)
      BY Zenon, <3>1 DEF Member
    <3> QED
      BY Zenon, <1>t, <2>1, <3>1, <3>2 DEF Own
  <2> QED
    BY Zenon, <2>2, <2>3
<1>4. CASE \/ \E t \in Threads : BarrierThreadLock(t) \/ UnregisterLock(t)
           \/ \E x \in Procs : BarrierLock(x)
  <2>1. /\ Items(o)' = Items(o) /\ head' = head
        /\ todo' \in Seq(Threads)
        /\ \A k \in 1..Len(todo') : Bound(k)' = head[todo'[k]]
    BY ZenonT(60), <1>4, RingStart
  <2>2. /\ \A x \in Procs : pc[x] \notin RunPc
        /\ \A k \in 1..Len(todo') : todo'[k] = o => Bound(k)' = head'[o]
    BY SMTT(30), <1>t, <1>p, <1>4, <2>1
    DEF MutexInv, BarrierThreadLock, UnregisterLock, BarrierLock
  <2>3. ASSUME NEW t \in Threads, BarrierThreadLock(t) PROVE Own(o)'
    <3>1. CASE o # t
      <4>1. pc'[o] = pc[o] /\ ret'[o] = ret[o]
        BY Zenon, <1>t, <1>p, <2>3, <3>1 DEF BarrierThreadLock
      <4>2. Member(o)' = Member(o)
        BY ZenonT(60), <4>1 DEF Member
      <4> QED
        BY Zenon, <1>t, <1>p, <2>1, <2>2, <4>1, <4>2 DEF Own
    <3>2. CASE o = t /\ Items(t) = 0
      <4>1. pc'[o] = ret[o] /\ ret'[o] = ret[o] /\ ret[o] \in {"idle", "enq"}
        BY ZenonT(60), <1>t, <1>p, <2>3, <3>2 DEF BarrierThreadLock, ControlInv
      <4> QED
        BY SMTT(30), <2>1, <3>2, <4>1, Sizes DEF Own, RunPc
    <3>3. CASE o = t /\ Items(t) # 0
      <4>1. /\ pc'[o] = "sync" /\ ret'[o] = ret[o] /\ ret[o] \in {"idle", "enq"}
            /\ todo' = <<o>>
        BY Zenon, <1>t, <1>p, <2>3, <3>3 DEF BarrierThreadLock, ControlInv
      <4> QED
        BY SMTT(30), <2>2, <4>1 DEF Own, RunPc, Member, BarrierPc
    <3> QED
      BY Zenon, <3>1, <3>2, <3>3
  <2>4. ASSUME NEW t \in Threads, UnregisterLock(t) PROVE Own(o)'
    <3>1. CASE o # t
      <4>1. pc'[o] = pc[o] /\ ret'[o] = ret[o]
        BY Zenon, <1>t, <1>p, <2>4, <3>1 DEF UnregisterLock
      <4>2. Member(o)' = Member(o)
        BY Zenon, <4>1 DEF Member
      <4> QED
        BY Zenon, <1>t, <1>p, <2>1, <2>2, <4>1, <4>2 DEF Own
    <3>2. CASE o = t /\ Items(t) = 0
      <4>1. pc'[o] = "un_free"
        BY ZenonT(60), <1>t, <1>p, <2>4, <3>2 DEF UnregisterLock
      <4> QED
        BY Zenon, <2>1, <3>2, <4>1 DEF Own, RunPc
    <3>3. CASE o = t /\ Items(t) # 0
      <4>1. pc'[o] = "sync" /\ ret'[o] = "un_free" /\ todo' = <<o>>
        BY Zenon, <1>t, <1>p, <2>4, <3>3 DEF UnregisterLock
      <4> QED
        <5>1. Len(<<o>>) = 1 /\ <<o>>[1] = o /\ 1 \in 1..1 /\ \A k \in 1..1 : k = 1
          OBVIOUS
        <5> QED
          BY Zenon, <2>2, <4>1, <5>1 DEF Own, RunPc
    <3> QED
      BY Zenon, <3>1, <3>2, <3>3
  <2>5. ASSUME NEW x \in Procs, BarrierLock(x) PROVE Own(o)'
    <3>1. CASE o # x
      <4>1. pc'[o] = pc[o] /\ ret'[o] = ret[o]
        BY Zenon, <1>t, <1>p, <2>5, <3>1 DEF BarrierLock
      <4>2. Member(o)' = Member(o)
        BY Zenon, <4>1 DEF Member
      <4> QED
        BY Zenon, <1>t, <1>p, <2>1, <2>2, <4>1, <4>2 DEF Own
    <3>2. /\ ret'[x] = ret[x] /\ pc[x] = "b_lock"
          /\ o = x => ret[o] \in {"idle", "out"} /\ (ret[o] = "idle" <=> Member(o))
      BY Zenon, <1>t, <1>p, <2>5 DEF BarrierLock, ControlInv, Member, BarrierPc, WakePc
    <3>3. CASE o = x /\ \A t \in Registered : Items(t) = 0
      <4>1. pc'[o] = ret[o]
        BY Zenon, <1>t, <1>p, <2>5, <3>3 DEF BarrierLock
      <4> QED
        BY Zenon, <1>t, <2>1, <3>2, <3>3, <4>1 DEF Own, RunPc, Member, BarrierPc, WakePc
    <3>4. CASE o = x /\ ~\A t \in Registered : Items(t) = 0
      <4>1. pc'[o] = "sync" /\ todo' = registry
        BY Zenon, <1>t, <1>p, <2>5, <3>4 DEF BarrierLock
      <4>2. Member(o)' <=> Member(o)
        BY Zenon, <3>2, <3>4, <4>1 DEF Member, BarrierPc, RunPc, WakePc
      <4>3. ~Member(o) => Items(o) = 0
        BY Zenon, <1>t, <3>2, <3>4 DEF Own, RunPc
      <4>4. Member(o) => \E k \in 1..Len(todo') : todo'[k] = o
        BY Zenon, <4>1 DEF IInv, RegistryInv, Registered
      <4> QED
        BY Zenon, <2>1, <2>2, <4>1, <4>2, <4>3, <4>4 DEF Own, RunPc
    <3> QED
      BY Zenon, <3>1, <3>3, <3>4
  <2> QED
    BY Zenon, <1>4, <2>3, <2>4, <2>5
<1>5. ASSUME NEW x \in Procs, RunCallback(x) PROVE Own(o)'
  <2>1. UNCHANGED <<head, tail, last_head, todo, upto, pc, ret>>
    BY Zenon, <1>5 DEF RunCallback
  <2>2. /\ Items(o)' = Items(o) /\ Member(o)' = Member(o)
        /\ \A k \in 1..Len(todo) : Bound(k)' = Bound(k)
    BY Zenon, <2>1 DEF Items, Bound, Member
  <2> QED
    BY Zenon, <1>t, <2>1, <2>2 DEF Own
<1>6. ASSUME NEW x \in Procs, QueueDone(x) PROVE Own(o)'
  <2>1. PICK t \in Threads : t = todo[1]
    BY <1>t, <1>6 DEF QueueDone, IInv, TodoInv, RunPc
  <2>2. /\ todo' \in Seq(Threads) /\ Len(todo') = Len(todo) - 1
        /\ \A k \in 1..Len(todo') : /\ todo'[k] = todo[k + 1]
                                    /\ k + 1 \in 1..Len(todo)
                                    /\ Bound(k)' = Bound(k + 1)
        /\ head' = head
    BY Zenon, <1>6, <2>1, TodoDone
  <2>3. /\ o = t => /\ Items(o)' <= Items(o)
                    /\ Items(o)' = 0 <=> head[o] = upto
        /\ o # t => Items(o)' = Items(o)
    BY Zenon, <1>6, <2>1, RingDone
  <2>4. Items(o)' \in Nat /\ Items(o)' <= Items(o) /\ (Items(o) = 0 => Items(o)' = 0)
    <3>1. head'[o] \in Index /\ tail'[o] \in Index
      BY Zenon, <1>6, TypeRing
    <3>2. Items(o)' \in Index
      BY Zenon, <3>1, Circle DEF Items
    <3>3. Items(o)' \in Nat
      BY <3>2 DEF Index
    <3> QED
      BY <1>s, <2>3, <3>3
  <2>5. ret' = ret /\ pc[x] = "run"
    BY Zenon, <1>6 DEF QueueDone
  <2>6. CASE o # x
    <3>1. pc'[o] = pc[o] /\ ret'[o] = ret[o] /\ pc[o] \notin RunPc
      BY Zenon, <1>t, <1>p, <1>6, <2>6 DEF QueueDone, MutexInv, RunPc
    <3>2. Member(o)' = Member(o)
      BY Zenon, <3>1 DEF Member
    <3>3. pc[o] = "enq" => Items(o)' <= (IF ret[o] = "enq" THEN 0 ELSE Size - 3)
      BY <1>s, <1>t, <2>4, Sizes DEF Own
    <3> QED
      BY Zenon, <1>t, <2>4, <3>1, <3>2, <3>3 DEF Own
  <2>7. CASE o = x
    <3>1. /\ \A k \in 1..Len(todo) : todo[k] = o => Bound(k) = head[o]
          /\ Items(o) = 0 \/ \E k \in 1..Len(todo) : todo[k] = o
      BY Zenon, <1>t, <2>5, <2>7 DEF Own, RunPc
    <3>2. 1 \in 1..Len(todo)
      BY <1>t, <1>6 DEF QueueDone, IInv, TodoInv, RunPc
    <3>3. o = t => Items(o)' = 0
      BY Zenon, <2>1, <2>3, <3>1, <3>2 DEF Bound
    <3>4. ret[o] \in {"enq", "un_free"} => Len(todo) = 1 /\ Items(o)' = 0
      BY <1>p, <2>1, <2>5, <2>7, <3>3 DEF IInv, TodoInv, RunPc
    <3>5. ret[o] = "out" => Items(o)' = 0
      BY Zenon, <1>t, <2>4, <2>5, <2>7 DEF Own, Member, RunPc, WakePc
    <3>6. CASE pc'[o] = pc[o]
      <4>1. Items(o)' = 0 \/ \E k \in 1..Len(todo') : todo'[k] = o
        <5>1. ASSUME NEW k \in 1..Len(todo), todo[k] = o, k # 1
              PROVE  k - 1 \in 1..Len(todo') /\ todo'[k - 1] = o
          <6>1. k - 1 \in 1..Len(todo') /\ (k - 1) + 1 = k
            BY <1>t, <2>2, <5>1
          <6> QED
            BY Zenon, <2>2, <5>1, <6>1
        <5> QED
          BY Zenon, <2>1, <2>4, <3>1, <3>3, <5>1
      <4>2. \A k \in 1..Len(todo') : todo'[k] = o => Bound(k)' = head'[o]
        BY Zenon, <2>2, <3>1
      <4>3. Member(o)' = Member(o)
        BY ZenonT(60), <2>5, <3>6 DEF Member
      <4> QED
        BY Zenon, <1>t, <2>4, <2>5, <2>7, <3>6, <4>1, <4>2, <4>3 DEF Own
    <3>7. CASE pc'[o] = ret[o]
      <4>1. ret[o] \in {"idle", "out", "enq", "un_free"}
        BY Zenon, <1>t, <2>5, <2>7 DEF ControlInv, RunPc
      <4> QED
        BY SMTT(30), <2>4, <2>5, <3>4, <3>5, <3>7, <4>1, Sizes DEF Own, Member, RunPc
    <3> QED
      BY Zenon, <1>t, <1>p, <1>6, <2>7, <3>6, <3>7 DEF QueueDone
  <2> QED
    BY Zenon, <2>6, <2>7
<1> QED
  BY Zenon, <1>1, <1>2, <1>3, <1>4, <1>5, <1>6 DEF RingSteps

(* t is to stop the defer thread. *)
Stopping(t) == pc[t] = "join" \/ (pc[t] \in WakePc /\ ret[t] = "join")
(* t is about to see, to clear or to have cleared the futex of the         *)
(* sleeper.                                                                *)
Waking(t) == \/ pc[t] = "wake_load" /\ defer_thread_futex = -1
             \/ pc[t] = "wake_store"
             \/ pc[t] = "wake_call" /\ defer_thread_futex = 0
(* The control points between the decrement of the futex and the sleep. *)
Doze == {"w_num", "w_futex", "w_sleep"}

(* Who leaves the list goes on until the defer thread is joined. *)
LEMMA LeavingKept ==
  ASSUME IInv, [Next]_vars, NEW o \in Threads, Leaving(o)
  PROVE  Leaving(o)' \/ registry' # <<>> \/ pc'[tid_defer] = "none"
<1> DEFINE Goal ==
      Leaving(o)' \/ registry' # <<>> \/ pc'[tid_defer] = "none"
<1>t. /\ pc \in [Procs -> Pcs] /\ ret \in [Procs -> Pcs] /\ ControlInv
      /\ defer_thread_futex \in {-1, 0} /\ registry \in Seq(Threads)
      /\ defer_thread_stop \in {0, 1}
  BY Zenon DEF IInv, TypeOK
<1>p. tid_defer \notin Threads /\ tid_defer \in Procs /\ Threads \subseteq Procs
  BY Zenon, DeferAssumption DEF Procs
<1> USE <1>t, <1>p
<1>1. ASSUME NEW r \in Readers, ReadLock(r) \/ ReadUnlock(r) PROVE Goal
  BY Zenon, <1>1 DEF ReadLock, ReadUnlock, Leaving, RunPc, WakePc
<1>2. ASSUME NEW t \in Threads, Register(t) PROVE Goal
  BY Zenon, <1>2 DEF Register, Leaving, RunPc, WakePc
<1>3. ASSUME NEW t \in Threads, RegisterAdd(t) PROVE Goal
  <2>1. registry' # <<>>
    BY <1>3 DEF RegisterAdd
  <2> QED
    BY Zenon, <2>1
<1>4. ASSUME NEW t \in Threads, defer_rcu(t) PROVE Goal
  BY Zenon, <1>4 DEF defer_rcu, Leaving, RunPc, WakePc
<1>5. ASSUME NEW t \in Threads, Enqueue(t) PROVE Goal
  BY Zenon, <1>5 DEF Enqueue, Leaving, RunPc, WakePc
<1>6. ASSUME NEW t \in Threads, WakeLoad(t) PROVE Goal
  BY Zenon, <1>6 DEF WakeLoad, Leaving, RunPc, WakePc
<1>7. ASSUME NEW t \in Threads, WakeStore(t) PROVE Goal
  BY Zenon, <1>7 DEF WakeStore, Leaving, RunPc, WakePc
<1>8. ASSUME NEW t \in Threads, WakeCall(t) PROVE Goal
  BY Zenon, <1>8 DEF WakeCall, Leaving, RunPc, WakePc
<1>9. ASSUME NEW t \in Threads, BarrierThread(t) PROVE Goal
  BY Zenon, <1>9 DEF BarrierThread, Leaving, RunPc, WakePc
<1>10. ASSUME NEW t \in Threads, BarrierThreadLock(t) PROVE Goal
  BY Zenon, <1>10 DEF BarrierThreadLock, Leaving, RunPc, WakePc
<1>11. ASSUME NEW t \in Threads, rcu_defer_barrier(t) PROVE Goal
  BY Zenon, <1>11 DEF rcu_defer_barrier, Leaving, RunPc, WakePc
<1>12. ASSUME NEW t \in Threads, Unregister(t) PROVE Goal
  BY Zenon, <1>12 DEF Unregister, Leaving, RunPc, WakePc
<1>13. ASSUME NEW t \in Threads, UnregisterLock(t) PROVE Goal
  BY Zenon, <1>13 DEF UnregisterLock, Leaving, RunPc, WakePc
<1>14. ASSUME NEW t \in Threads, UnregisterFree(t) PROVE Goal
  <2>1. CASE t = o
    BY Zenon, <1>14, <2>1 DEF UnregisterFree, Leaving
  <2>2. CASE t # o
    <3>1. pc'[o] = pc[o] /\ ret'[o] = ret[o]
      BY Zenon, <1>14, <2>2 DEF UnregisterFree
    <3> QED
      BY Zenon, <3>1 DEF Leaving
  <2> QED
    BY Zenon, <2>1, <2>2
<1>15. ASSUME NEW t \in Threads, StopStore(t) PROVE Goal
  BY Zenon, <1>15 DEF StopStore, Leaving, RunPc, WakePc
<1>16. ASSUME NEW t \in Threads, Join(t) PROVE Goal
  BY Zenon, <1>16 DEF Join, Leaving, RunPc, WakePc
<1>17. ASSUME NEW x \in Procs, BarrierEmpty(x) PROVE Goal
  BY Zenon, <1>17 DEF BarrierEmpty, Leaving, RunPc, WakePc
<1>18. ASSUME NEW x \in Procs, BarrierLock(x) PROVE Goal
  BY Zenon, <1>18 DEF BarrierLock, Leaving, RunPc, WakePc
<1>19. ASSUME NEW x \in Procs, SyncDone(x) PROVE Goal
  BY Zenon, <1>19 DEF SyncDone, Leaving, RunPc, WakePc
<1>20. ASSUME NEW x \in Procs, RunCallback(x) PROVE Goal
  BY Zenon, <1>20 DEF RunCallback, Leaving, RunPc, WakePc
<1>21. ASSUME NEW x \in Procs, QueueDone(x) PROVE Goal
  BY Zenon, <1>21 DEF QueueDone, Leaving, RunPc, WakePc
<1>22. CASE WaitDec \/ WaitStop \/ WaitExit \/ WaitNum
  BY Zenon, <1>22 DEF WaitDec, WaitStop, WaitExit, WaitNum, Leaving, RunPc, WakePc
<1>23. CASE WaitClear \/ WaitFutex \/ WaitSpurious
  BY Zenon, <1>23 DEF WaitClear, WaitFutex, WaitSpurious, Leaving, RunPc, WakePc
<1>24. CASE UNCHANGED vars
  BY Zenon, <1>24 DEF vars, Leaving, RunPc, WakePc
<1> QED
  BY ZenonT(30), Steps, <1>1, <1>2, <1>3, <1>4, <1>5, <1>6, <1>7, <1>8, <1>9,
     <1>10, <1>11, <1>12, <1>13, <1>14, <1>15, <1>16, <1>17, <1>18, <1>19,
     <1>20, <1>21, <1>22, <1>23,
     <1>24

(* The thread that has set defer_thread_stop resets it. *)
LEMMA StoppingKept ==
  ASSUME IInv, [Next]_vars, NEW o \in Threads, Stopping(o)
  PROVE  Stopping(o)' \/ defer_thread_stop' = 0
<1> DEFINE Goal ==
      Stopping(o)' \/ defer_thread_stop' = 0
<1>t. /\ pc \in [Procs -> Pcs] /\ ret \in [Procs -> Pcs] /\ ControlInv
      /\ defer_thread_futex \in {-1, 0} /\ registry \in Seq(Threads)
      /\ defer_thread_stop \in {0, 1}
  BY Zenon DEF IInv, TypeOK
<1>p. tid_defer \notin Threads /\ tid_defer \in Procs /\ Threads \subseteq Procs
  BY Zenon, DeferAssumption DEF Procs
<1> USE <1>t, <1>p
<1>1. ASSUME NEW r \in Readers, ReadLock(r) \/ ReadUnlock(r) PROVE Goal
  BY Zenon, <1>1 DEF ReadLock, ReadUnlock, Stopping, WakePc
<1>2. ASSUME NEW t \in Threads, Register(t) PROVE Goal
  BY Zenon, <1>2 DEF Register, Stopping, WakePc
<1>3. ASSUME NEW t \in Threads, RegisterAdd(t) PROVE Goal
  BY Zenon, <1>3 DEF RegisterAdd, Stopping, WakePc
<1>4. ASSUME NEW t \in Threads, defer_rcu(t) PROVE Goal
  BY Zenon, <1>4 DEF defer_rcu, Stopping, WakePc
<1>5. ASSUME NEW t \in Threads, Enqueue(t) PROVE Goal
  BY Zenon, <1>5 DEF Enqueue, Stopping, WakePc
<1>6. ASSUME NEW t \in Threads, WakeLoad(t) PROVE Goal
  BY Zenon, <1>6 DEF WakeLoad, Stopping, WakePc
<1>7. ASSUME NEW t \in Threads, WakeStore(t) PROVE Goal
  BY Zenon, <1>7 DEF WakeStore, Stopping, WakePc
<1>8. ASSUME NEW t \in Threads, WakeCall(t) PROVE Goal
  BY Zenon, <1>8 DEF WakeCall, Stopping, WakePc
<1>9. ASSUME NEW t \in Threads, BarrierThread(t) PROVE Goal
  BY Zenon, <1>9 DEF BarrierThread, Stopping, WakePc
<1>10. ASSUME NEW t \in Threads, BarrierThreadLock(t) PROVE Goal
  BY Zenon, <1>10 DEF BarrierThreadLock, Stopping, WakePc
<1>11. ASSUME NEW t \in Threads, rcu_defer_barrier(t) PROVE Goal
  BY Zenon, <1>11 DEF rcu_defer_barrier, Stopping, WakePc
<1>12. ASSUME NEW t \in Threads, Unregister(t) PROVE Goal
  BY Zenon, <1>12 DEF Unregister, Stopping, WakePc
<1>13. ASSUME NEW t \in Threads, UnregisterLock(t) PROVE Goal
  BY Zenon, <1>13 DEF UnregisterLock, Stopping, WakePc
<1>14. ASSUME NEW t \in Threads, UnregisterFree(t) PROVE Goal
  BY Zenon, <1>14 DEF UnregisterFree, Stopping, WakePc
<1>15. ASSUME NEW t \in Threads, StopStore(t) PROVE Goal
  BY Zenon, <1>15 DEF StopStore, Stopping, WakePc
<1>16. ASSUME NEW t \in Threads, Join(t) PROVE Goal
  BY Zenon, <1>16 DEF Join, Stopping, WakePc
<1>17. ASSUME NEW x \in Procs, BarrierEmpty(x) PROVE Goal
  BY Zenon, <1>17 DEF BarrierEmpty, Stopping, WakePc
<1>18. ASSUME NEW x \in Procs, BarrierLock(x) PROVE Goal
  BY Zenon, <1>18 DEF BarrierLock, Stopping, WakePc
<1>19. ASSUME NEW x \in Procs, SyncDone(x) PROVE Goal
  BY Zenon, <1>19 DEF SyncDone, Stopping, WakePc
<1>20. ASSUME NEW x \in Procs, RunCallback(x) PROVE Goal
  BY Zenon, <1>20 DEF RunCallback, Stopping, WakePc
<1>21. ASSUME NEW x \in Procs, QueueDone(x) PROVE Goal
  BY Zenon, <1>21 DEF QueueDone, Stopping, WakePc
<1>22. CASE WaitDec \/ WaitStop \/ WaitExit \/ WaitNum
  BY Zenon, <1>22 DEF WaitDec, WaitStop, WaitExit, WaitNum, Stopping, WakePc
<1>23. CASE WaitClear \/ WaitFutex \/ WaitSpurious
  BY Zenon, <1>23 DEF WaitClear, WaitFutex, WaitSpurious, Stopping, WakePc
<1>24. CASE UNCHANGED vars
  BY Zenon, <1>24 DEF vars, Stopping, WakePc
<1> QED
  BY ZenonT(30), Steps, <1>1, <1>2, <1>3, <1>4, <1>5, <1>6, <1>7, <1>8, <1>9,
     <1>10, <1>11, <1>12, <1>13, <1>14, <1>15, <1>16, <1>17, <1>18, <1>19,
     <1>20, <1>21, <1>22, <1>23,
     <1>24

(* defer_thread_stop and the futex. *)
LEMMA FutexStep ==
  ASSUME IInv, [Next]_vars
  PROVE  /\ defer_thread_stop' = 1 => \/ defer_thread_stop = 1
                                      \/ \E t \in Threads : StopStore(t)
         /\ pc'[tid_defer] \notin WaitPc => \/ defer_thread_futex' = 0
                                            \/ /\ pc[tid_defer] \notin WaitPc
                                               /\ defer_thread_futex' = defer_thread_futex
         /\ pc'[tid_defer] # "none" => \/ pc[tid_defer] # "none"
                                       \/ \E t \in Threads : RegisterAdd(t)
         /\ pc'[tid_defer] \in Doze =>
              /\ \/ pc[tid_defer] \in Doze
                 \/ defer_thread_stop' = 0 /\ pc'[tid_defer] = "w_num"
              /\ pc'[tid_defer] # "w_num" /\ pc[tid_defer] = "w_num" =>
                   /\ \A t \in Registered : Items(t) = 0
                   /\ UNCHANGED <<registry, head, tail>>
              /\ pc'[tid_defer] = "w_sleep" => \/ pc[tid_defer] = "w_sleep"
                                               \/ defer_thread_futex' = -1
              /\ \/ defer_thread_futex' = defer_thread_futex
                 \/ \E t \in Threads : WakeStore(t)
<1> DEFINE Goal ==
      /\ defer_thread_stop' = 1 => \/ defer_thread_stop = 1
                                   \/ \E t \in Threads : StopStore(t)
      /\ pc'[tid_defer] \notin WaitPc => \/ defer_thread_futex' = 0
                                         \/ /\ pc[tid_defer] \notin WaitPc
                                            /\ defer_thread_futex' = defer_thread_futex
      /\ pc'[tid_defer] # "none" => \/ pc[tid_defer] # "none"
                                    \/ \E t \in Threads : RegisterAdd(t)
      /\ pc'[tid_defer] \in Doze =>
           /\ \/ pc[tid_defer] \in Doze
              \/ defer_thread_stop' = 0 /\ pc'[tid_defer] = "w_num"
           /\ pc'[tid_defer] # "w_num" /\ pc[tid_defer] = "w_num" =>
                /\ \A t \in Registered : Items(t) = 0
                /\ UNCHANGED <<registry, head, tail>>
           /\ pc'[tid_defer] = "w_sleep" => \/ pc[tid_defer] = "w_sleep"
                                            \/ defer_thread_futex' = -1
           /\ \/ defer_thread_futex' = defer_thread_futex
              \/ \E t \in Threads : WakeStore(t)
<1>t. /\ pc \in [Procs -> Pcs] /\ ret \in [Procs -> Pcs] /\ ControlInv
      /\ defer_thread_futex \in {-1, 0} /\ registry \in Seq(Threads)
      /\ defer_thread_stop \in {0, 1}
  BY Zenon DEF IInv, TypeOK
<1>p. tid_defer \notin Threads /\ tid_defer \in Procs /\ Threads \subseteq Procs
  BY Zenon, DeferAssumption DEF Procs
<1> USE <1>t, <1>p
<1>1. ASSUME NEW r \in Readers, ReadLock(r) \/ ReadUnlock(r) PROVE Goal
  BY Zenon, <1>1 DEF ReadLock, ReadUnlock, threadVars, Doze, WaitPc
<1>2. ASSUME NEW t \in Threads, Register(t) PROVE Goal
  BY Zenon, <1>2 DEF Register, threadVars, Doze, WaitPc
<1>3. ASSUME NEW t \in Threads, RegisterAdd(t) PROVE Goal
  <2>1. /\ pc'[tid_defer] = IF registry = <<>> THEN "w_dec" ELSE pc[tid_defer]
        /\ registry = <<>> => pc[tid_defer] = "none"
        /\ UNCHANGED threadVars
    BY Zenon, <1>3, NoDeferThread DEF RegisterAdd
  <2> QED
    BY Zenon, <1>3, <2>1 DEF threadVars, Doze, WaitPc
<1>4. ASSUME NEW t \in Threads, defer_rcu(t) PROVE Goal
  BY Zenon, <1>4 DEF defer_rcu, threadVars, Doze, WaitPc
<1>5. ASSUME NEW t \in Threads, Enqueue(t) PROVE Goal
  BY Zenon, <1>5 DEF Enqueue, threadVars, Doze, WaitPc
<1>6. ASSUME NEW t \in Threads, WakeLoad(t) PROVE Goal
  BY Zenon, <1>6 DEF WakeLoad, threadVars, Doze, WaitPc
<1>7. ASSUME NEW t \in Threads, WakeStore(t) PROVE Goal
  BY Zenon, <1>7 DEF WakeStore, threadVars, Doze, WaitPc
<1>8. ASSUME NEW t \in Threads, WakeCall(t) PROVE Goal
  BY Zenon, <1>8 DEF WakeCall, threadVars, Doze, WaitPc
<1>9. ASSUME NEW t \in Threads, BarrierThread(t) PROVE Goal
  BY Zenon, <1>9 DEF BarrierThread, threadVars, Doze, WaitPc
<1>10. ASSUME NEW t \in Threads, BarrierThreadLock(t) PROVE Goal
  BY Zenon, <1>10 DEF BarrierThreadLock, threadVars, Doze, WaitPc
<1>11. ASSUME NEW t \in Threads, rcu_defer_barrier(t) PROVE Goal
  BY Zenon, <1>11 DEF rcu_defer_barrier, threadVars, Doze, WaitPc
<1>12. ASSUME NEW t \in Threads, Unregister(t) PROVE Goal
  BY Zenon, <1>12 DEF Unregister, threadVars, Doze, WaitPc
<1>13. ASSUME NEW t \in Threads, UnregisterLock(t) PROVE Goal
  BY Zenon, <1>13 DEF UnregisterLock, threadVars, Doze, WaitPc
<1>14. ASSUME NEW t \in Threads, UnregisterFree(t) PROVE Goal
  BY Zenon, <1>14 DEF UnregisterFree, threadVars, Doze, WaitPc
<1>15. ASSUME NEW t \in Threads, StopStore(t) PROVE Goal
  BY Zenon, <1>15 DEF StopStore, threadVars, Doze, WaitPc
<1>16. ASSUME NEW t \in Threads, Join(t) PROVE Goal
  BY Zenon, <1>16 DEF Join, threadVars, Doze, WaitPc
<1>17. ASSUME NEW x \in Procs, BarrierEmpty(x) PROVE Goal
  BY Zenon, <1>17
  DEF BarrierEmpty, threadVars, Doze, WaitPc, ControlInv, BarrierPc, Procs
<1>18. ASSUME NEW x \in Procs, BarrierLock(x) PROVE Goal
  BY Zenon, <1>18 DEF BarrierLock, threadVars, Doze, WaitPc, ControlInv, BarrierPc, Procs
<1>19. ASSUME NEW x \in Procs, SyncDone(x) PROVE Goal
  BY Zenon, <1>19 DEF SyncDone, threadVars, Doze, WaitPc
<1>20. ASSUME NEW x \in Procs, RunCallback(x) PROVE Goal
  BY Zenon, <1>20 DEF RunCallback, threadVars, Doze, WaitPc
<1>21. ASSUME NEW x \in Procs, QueueDone(x) PROVE Goal
  BY Zenon, <1>21
  DEF QueueDone, threadVars, Doze, WaitPc, ControlInv, BarrierPc, RunPc, Procs
<1>22. CASE WaitDec
  BY Zenon, <1>22 DEF WaitDec, threadVars, Doze, WaitPc
<1>23. CASE WaitStop
  BY Zenon, <1>23 DEF WaitStop, threadVars, Doze, WaitPc
<1>24. CASE WaitExit
  BY Zenon, <1>24 DEF WaitExit, threadVars, Doze, WaitPc
<1>25. CASE WaitNum
  BY Zenon, <1>25 DEF WaitNum, threadVars, queueVars, Doze, WaitPc
<1>26. CASE WaitClear \/ WaitFutex \/ WaitSpurious
  BY Zenon, <1>26 DEF WaitClear, WaitFutex, WaitSpurious, threadVars, Doze, WaitPc
<1>27. CASE UNCHANGED vars
  BY Zenon, <1>27 DEF vars, threadVars, Doze, WaitPc
<1> QED
  BY ZenonT(30), Steps, <1>1, <1>2, <1>3, <1>4, <1>5, <1>6, <1>7, <1>8, <1>9,
     <1>10, <1>11, <1>12, <1>13, <1>14, <1>15, <1>16, <1>17, <1>18, <1>19,
     <1>20, <1>21, <1>22, <1>23, <1>24, <1>25, <1>26,
     <1>27

(* A waker goes on until the defer thread is awake. *)
LEMMA WakingKept ==
  ASSUME IInv, [Next]_vars, NEW o \in Threads, Waking(o), pc'[tid_defer] \in Doze
  PROVE  \/ \E t \in Threads : Waking(t)'
         \/ defer_thread_futex' = 0 /\ pc'[tid_defer] # "w_sleep"
<1> DEFINE Goal ==
      \/ \E t \in Threads : Waking(t)'
      \/ defer_thread_futex' = 0 /\ pc'[tid_defer] # "w_sleep"
<1>t. /\ pc \in [Procs -> Pcs] /\ ret \in [Procs -> Pcs] /\ ControlInv
      /\ defer_thread_futex \in {-1, 0} /\ registry \in Seq(Threads)
      /\ defer_thread_stop \in {0, 1}
  BY Zenon DEF IInv, TypeOK
<1>p. tid_defer \notin Threads /\ tid_defer \in Procs /\ Threads \subseteq Procs
  BY Zenon, DeferAssumption DEF Procs
<1> USE <1>t, <1>p
<1>1. ASSUME NEW r \in Readers, ReadLock(r) \/ ReadUnlock(r) PROVE Goal
  BY Zenon, <1>1 DEF ReadLock, ReadUnlock, Waking, Doze, threadVars
<1>2. ASSUME NEW t \in Threads, Register(t) PROVE Goal
  BY Zenon, <1>2 DEF Register, Waking, Doze, threadVars
<1>3. ASSUME NEW t \in Threads, RegisterAdd(t) PROVE Goal
  BY Zenon, <1>3 DEF RegisterAdd, Waking, Doze, threadVars
<1>4. ASSUME NEW t \in Threads, defer_rcu(t) PROVE Goal
  BY Zenon, <1>4 DEF defer_rcu, Waking, Doze, threadVars
<1>5. ASSUME NEW t \in Threads, Enqueue(t) PROVE Goal
  BY Zenon, <1>5 DEF Enqueue, Waking, Doze, threadVars
<1>6. ASSUME NEW t \in Threads, WakeLoad(t) PROVE Goal
  <2>1. Waking(o)'
    BY Zenon, <1>6 DEF WakeLoad, Waking, threadVars
  <2> QED
    BY Zenon, <2>1
<1>7. ASSUME NEW t \in Threads, WakeStore(t) PROVE Goal
  <2>1. Waking(t)'
    BY Zenon, <1>7 DEF WakeStore, Waking
  <2> QED
    BY Zenon, <2>1
<1>8. ASSUME NEW t \in Threads, WakeCall(t) PROVE Goal
  BY Zenon, <1>8 DEF WakeCall, Waking, Doze, threadVars
<1>9. ASSUME NEW t \in Threads, BarrierThread(t) PROVE Goal
  BY Zenon, <1>9 DEF BarrierThread, Waking, Doze, threadVars
<1>10. ASSUME NEW t \in Threads, BarrierThreadLock(t) PROVE Goal
  BY Zenon, <1>10 DEF BarrierThreadLock, Waking, Doze, threadVars
<1>11. ASSUME NEW t \in Threads, rcu_defer_barrier(t) PROVE Goal
  BY Zenon, <1>11 DEF rcu_defer_barrier, Waking, Doze, threadVars
<1>12. ASSUME NEW t \in Threads, Unregister(t) PROVE Goal
  BY Zenon, <1>12 DEF Unregister, Waking, Doze, threadVars
<1>13. ASSUME NEW t \in Threads, UnregisterLock(t) PROVE Goal
  BY Zenon, <1>13 DEF UnregisterLock, Waking, Doze, threadVars
<1>14. ASSUME NEW t \in Threads, UnregisterFree(t) PROVE Goal
  BY Zenon, <1>14 DEF UnregisterFree, Waking, Doze, threadVars
<1>15. ASSUME NEW t \in Threads, StopStore(t) PROVE Goal
  BY Zenon, <1>15 DEF StopStore, Waking, Doze, threadVars
<1>16. ASSUME NEW t \in Threads, Join(t) PROVE Goal
  BY Zenon, <1>16 DEF Join, Waking, Doze, threadVars
<1>17. ASSUME NEW x \in Procs, BarrierEmpty(x) PROVE Goal
  BY Zenon, <1>17 DEF BarrierEmpty, Waking, Doze, threadVars
<1>18. ASSUME NEW x \in Procs, BarrierLock(x) PROVE Goal
  BY Zenon, <1>18 DEF BarrierLock, Waking, Doze, threadVars
<1>19. ASSUME NEW x \in Procs, SyncDone(x) PROVE Goal
  BY Zenon, <1>19 DEF SyncDone, Waking, Doze, threadVars
<1>20. ASSUME NEW x \in Procs, RunCallback(x) PROVE Goal
  BY Zenon, <1>20 DEF RunCallback, Waking, Doze, threadVars
<1>21. ASSUME NEW x \in Procs, QueueDone(x) PROVE Goal
  BY Zenon, <1>21 DEF QueueDone, Waking, Doze, threadVars
<1>22. CASE WaitDec \/ WaitStop \/ WaitExit \/ WaitNum
  BY Zenon, <1>22 DEF WaitDec, WaitStop, WaitExit, WaitNum, Waking, Doze, threadVars
<1>23. CASE WaitClear \/ WaitFutex \/ WaitSpurious
  BY Zenon, <1>23 DEF WaitClear, WaitFutex, WaitSpurious, Waking, Doze, threadVars
<1>24. CASE UNCHANGED vars
  BY Zenon, <1>24 DEF vars, Waking, Doze, threadVars
<1> QED
  BY ZenonT(30), Steps, <1>1, <1>2, <1>3, <1>4, <1>5, <1>6, <1>7, <1>8, <1>9,
     <1>10, <1>11, <1>12, <1>13, <1>14, <1>15, <1>16, <1>17, <1>18, <1>19,
     <1>20, <1>21, <1>22, <1>23,
     <1>24

(* Waker, thread by thread. *)
LEMMA WakerIs == Waker <=> \E t \in Threads : Waking(t)
BY Zenon DEF Waker, Waking

(* The defer thread does not sleep through work. *)
LEMMA SleepStep == IInv /\ [Next]_vars => SleepInv'
<1> SUFFICES ASSUME IInv, [Next]_vars PROVE SleepInv'
  OBVIOUS
<1>t. /\ pc \in [Procs -> Pcs] /\ ret \in [Procs -> Pcs] /\ ControlInv /\ SleepInv
      /\ registry \in Seq(Threads) /\ defer_thread_futex \in {-1, 0}
      /\ defer_thread_stop \in {0, 1}
  BY Zenon DEF IInv, TypeOK
<1>p. tid_defer \notin Threads /\ tid_defer \in Procs /\ Threads \subseteq Procs
  BY Zenon, DeferAssumption DEF Procs
<1>q. defer_thread_futex' \in {-1, 0} /\ defer_thread_stop' \in {0, 1}
  BY Zenon, TypeRest
<1>1. ASSUME pc'[tid_defer] # "none"
      PROVE  registry' # <<>> \/ \E t \in Threads : Leaving(t)'
  <2>1. ASSUME NEW t \in Threads, RegisterAdd(t) PROVE registry' # <<>>
    BY <1>t, <2>1 DEF RegisterAdd
  <2>2. ASSUME NEW t \in Threads, UnregisterLock(t) PROVE Leaving(t)'
    BY Zenon, <1>t, <1>p, <2>2 DEF UnregisterLock, Leaving, RunPc
  <2>3. ASSUME pc[tid_defer] # "none",
               ~\E t \in Threads : RegisterAdd(t) \/ UnregisterLock(t)
        PROVE  registry' # <<>> \/ \E t \in Threads : Leaving(t)'
    <3>1. CASE registry # <<>>
      BY Zenon, <2>3, <3>1, MemberKept
    <3>2. ASSUME NEW t \in Threads, Leaving(t)
          PROVE  registry' # <<>> \/ Leaving(t)'
      BY Zenon, <1>1, <3>2, LeavingKept
    <3> QED
      BY Zenon, <1>t, <2>3, <3>1, <3>2 DEF SleepInv
  <2> QED
    BY Zenon, <1>1, <2>1, <2>2, <2>3, FutexStep
<1>2. pc'[tid_defer] \notin WaitPc => defer_thread_futex' = 0
  BY Zenon, <1>t, FutexStep DEF SleepInv
<1>3. ASSUME defer_thread_stop' = 1 PROVE \E t \in Threads : Stopping(t)'
  <2>1. ASSUME NEW t \in Threads, StopStore(t) PROVE Stopping(t)'
    BY Zenon, <1>t, <1>p, <2>1 DEF StopStore, Stopping, WakePc
  <2>2. ASSUME defer_thread_stop = 1 PROVE \E t \in Threads : Stopping(t)'
    <3>1. PICK t \in Threads : Stopping(t)
      BY Zenon, <1>t, <2>2 DEF SleepInv, Stopping
    <3> QED
      BY <1>3, <3>1, StoppingKept
  <2> QED
    BY Zenon, <1>3, <2>1, <2>2, FutexStep
<1> DEFINE Woken == (\E t \in Threads : Waking(t)') \/ defer_thread_futex' = 0
<1>4. ASSUME pc'[tid_defer] \in Doze, Waker \/ defer_thread_futex = 0
      PROVE  Woken
  <2>1. CASE Waker
    BY Zenon, <1>4, <2>1, WakerIs, WakingKept
  <2>2. ASSUME NEW t \in Threads, WakeStore(t) PROVE Woken
    BY Zenon, <2>2 DEF WakeStore
  <2> QED
    BY Zenon, <1>4, <2>1, <2>2, FutexStep
<1>5. ASSUME NEW t \in Threads, StopStore(t) \/ Enqueue(t) PROVE Woken
  <2>1. pc'[t] = "wake_load"
    BY Zenon, <1>t, <1>p, <1>5 DEF StopStore, Enqueue
  <2> QED
    BY Zenon, <1>q, <2>1 DEF Waking
<1>6. ASSUME pc'[tid_defer] = "w_sleep", defer_thread_futex' = 0
      PROVE  \E t \in Threads : Waking(t)'
  <2>0. pc'[tid_defer] \in Doze
    BY Zenon, <1>6 DEF Doze
  <2>1. ASSUME NEW t \in Threads, WakeStore(t) PROVE Waking(t)'
    BY Zenon, <1>t, <1>p, <2>1 DEF WakeStore, Waking
  <2>2. CASE ~\E t \in Threads : WakeStore(t)
    <3>1. pc[tid_defer] = "w_sleep" /\ defer_thread_futex = 0
      BY <1>6, <2>0, <2>2, FutexStep
    <3>2. PICK t \in Threads : Waking(t)
      BY Zenon, <1>t, <3>1, WakerIs DEF SleepInv
    <3> QED
      BY Zenon, <1>6, <2>0, <3>2, WakingKept
  <2> QED
    BY <2>1, <2>2
<1>7. ASSUME pc'[tid_defer] \in Doze, defer_thread_stop' = 1 PROVE Woken
  <2>1. CASE defer_thread_stop = 1
    <3>1. pc[tid_defer] \in Doze
      BY <1>7, FutexStep
    <3> QED
      BY Zenon, <1>t, <1>4, <1>7, <2>1, <3>1 DEF SleepInv, Doze
  <2> QED
    BY Zenon, <1>5, <1>7, <2>1, FutexStep
<1>8. ASSUME pc'[tid_defer] \in {"w_futex", "w_sleep"},
             NEW o \in Registered', Items(o)' # 0
      PROVE  Woken
  <2>0. pc'[tid_defer] \in Doze /\ pc'[tid_defer] # "w_num"
    BY Zenon, <1>8 DEF Doze
  <2>1. o \in Threads
    <3>1. registry' \in Seq(Threads)
      BY Zenon, TypeRest
    <3> QED
      BY <3>1 DEF Registered
  <2>2. CASE ~Enqueue(o)
    <3>1. Items(o) # 0
      BY Zenon, <1>8, <2>1, <2>2, ItemsStep
    <3>2. o \in Registered
      <4>1. CASE ~\E t \in Threads : RegisterAdd(t) \/ UnregisterLock(t)
        BY Zenon, <4>1, MemberKept DEF Registered
      <4>2. ASSUME NEW t \in Threads, UnregisterLock(t) PROVE o \in Registered
        <5>1. t \in Registered
          BY Zenon, <4>2 DEF UnregisterLock, IInv, RegistryInv, Member
        <5> QED
          BY Zenon, <1>t, <4>2, <5>1, RegistryRemoved DEF UnregisterLock, IInv
      <4>3. ASSUME NEW t \in Threads, RegisterAdd(t) PROVE o \in Registered
        <5>1. Registered' = Registered \cup {t}
          BY Zenon, <1>t, <4>3, RegistryAdded DEF RegisterAdd
        <5>2. Items(t) = 0
          BY Zenon, <4>3
          DEF RegisterAdd, IInv, OwnInv, Own, Member, WakePc, BarrierPc, RunPc
        <5> QED
          BY Zenon, <3>1, <5>1, <5>2
      <4> QED
        BY Zenon, <4>1, <4>2, <4>3
    <3>3. pc[tid_defer] \in {"w_futex", "w_sleep"}
      BY Zenon, <2>0, <3>1, <3>2, FutexStep DEF Doze
    <3>4. Waker \/ defer_thread_futex = 0
      BY Zenon, <1>t, <3>1, <3>2, <3>3 DEF SleepInv
    <3> QED
      BY Zenon, <1>4, <2>0, <3>4
  <2> QED
    BY Zenon, <1>5, <2>1, <2>2
<1>9. Woken <=> Waker' \/ defer_thread_futex' = 0
  BY Zenon DEF Waker, Waking
<1>10. (\E t \in Threads : Waking(t)') <=> Waker'
  BY Zenon DEF Waker, Waking
<1> QED
  BY Zenon, <1>1, <1>2, <1>3, <1>6, <1>7, <1>8, <1>9, <1>10 DEF SleepInv, Stopping, Doze

(* How a thread returns from a barrier. *)
LEMMA Returns ==
  ASSUME [Next]_vars, IInv, NEW o \in Threads, pc'[o] = "idle",
         pc[o] \in {"b_empty", "b_lock", "bt_lock", "run"}
  PROVE  BarrierEmpty(o) \/ BarrierLock(o) \/ BarrierThreadLock(o) \/ QueueDone(o)
<1> DEFINE Goal ==
      BarrierEmpty(o) \/ BarrierLock(o) \/ BarrierThreadLock(o) \/ QueueDone(o)
<1>t. /\ pc \in [Procs -> Pcs] /\ ret \in [Procs -> Pcs] /\ ControlInv
      /\ defer_thread_futex \in {-1, 0} /\ registry \in Seq(Threads)
      /\ defer_thread_stop \in {0, 1}
  BY Zenon DEF IInv, TypeOK
<1>p. tid_defer \notin Threads /\ tid_defer \in Procs /\ Threads \subseteq Procs
  BY Zenon, DeferAssumption DEF Procs
<1> USE <1>t, <1>p
<1>1. ASSUME NEW r \in Readers, ReadLock(r) \/ ReadUnlock(r) PROVE Goal
  BY Zenon, <1>1 DEF ReadLock, ReadUnlock
<1>2. ASSUME NEW t \in Threads, Register(t) PROVE Goal
  BY Zenon, <1>2 DEF Register
<1>3. ASSUME NEW t \in Threads, RegisterAdd(t) PROVE Goal
  BY Zenon, <1>3 DEF RegisterAdd
<1>4. ASSUME NEW t \in Threads, defer_rcu(t) PROVE Goal
  BY Zenon, <1>4 DEF defer_rcu
<1>5. ASSUME NEW t \in Threads, Enqueue(t) PROVE Goal
  BY Zenon, <1>5 DEF Enqueue
<1>6. ASSUME NEW t \in Threads, WakeLoad(t) PROVE Goal
  BY Zenon, <1>6 DEF WakeLoad
<1>7. ASSUME NEW t \in Threads, WakeStore(t) PROVE Goal
  BY Zenon, <1>7 DEF WakeStore
<1>8. ASSUME NEW t \in Threads, WakeCall(t) PROVE Goal
  BY Zenon, <1>8 DEF WakeCall
<1>9. ASSUME NEW t \in Threads, BarrierThread(t) PROVE Goal
  BY Zenon, <1>9 DEF BarrierThread
<1>10. ASSUME NEW t \in Threads, BarrierThreadLock(t) PROVE Goal
  <2>1. CASE t = o
    BY Zenon, <1>10, <2>1
  <2>2. CASE t # o
    BY Zenon, <1>10, <2>2 DEF BarrierThreadLock
  <2> QED
    BY Zenon, <2>1, <2>2
<1>11. ASSUME NEW t \in Threads, rcu_defer_barrier(t) PROVE Goal
  BY Zenon, <1>11 DEF rcu_defer_barrier
<1>12. ASSUME NEW t \in Threads, Unregister(t) PROVE Goal
  BY Zenon, <1>12 DEF Unregister
<1>13. ASSUME NEW t \in Threads, UnregisterLock(t) PROVE Goal
  BY Zenon, <1>13 DEF UnregisterLock
<1>14. ASSUME NEW t \in Threads, UnregisterFree(t) PROVE Goal
  BY Zenon, <1>14 DEF UnregisterFree
<1>15. ASSUME NEW t \in Threads, StopStore(t) PROVE Goal
  BY Zenon, <1>15 DEF StopStore
<1>16. ASSUME NEW t \in Threads, Join(t) PROVE Goal
  BY Zenon, <1>16 DEF Join
<1>17. ASSUME NEW x \in Procs, BarrierEmpty(x) PROVE Goal
  <2>1. CASE x = o
    BY Zenon, <1>17, <2>1
  <2>2. CASE x # o
    BY Zenon, <1>17, <2>2 DEF BarrierEmpty
  <2> QED
    BY Zenon, <2>1, <2>2
<1>18. ASSUME NEW x \in Procs, BarrierLock(x) PROVE Goal
  <2>1. CASE x = o
    BY Zenon, <1>18, <2>1
  <2>2. CASE x # o
    BY Zenon, <1>18, <2>2 DEF BarrierLock
  <2> QED
    BY Zenon, <2>1, <2>2
<1>19. ASSUME NEW x \in Procs, SyncDone(x) PROVE Goal
  BY Zenon, <1>19 DEF SyncDone
<1>20. ASSUME NEW x \in Procs, RunCallback(x) PROVE Goal
  BY Zenon, <1>20 DEF RunCallback
<1>21. ASSUME NEW x \in Procs, QueueDone(x) PROVE Goal
  <2>1. CASE x = o
    BY Zenon, <1>21, <2>1
  <2>2. CASE x # o
    BY Zenon, <1>21, <2>2 DEF QueueDone
  <2> QED
    BY Zenon, <2>1, <2>2
<1>22. CASE WaitDec \/ WaitStop \/ WaitExit \/ WaitNum
  BY Zenon, <1>22 DEF WaitDec, WaitStop, WaitExit, WaitNum
<1>23. CASE WaitClear \/ WaitFutex \/ WaitSpurious
  BY Zenon, <1>23 DEF WaitClear, WaitFutex, WaitSpurious
<1>24. CASE UNCHANGED vars
  BY Zenon, <1>24 DEF vars
<1> QED
  BY ZenonT(30), Steps, <1>1, <1>2, <1>3, <1>4, <1>5, <1>6, <1>7, <1>8, <1>9,
     <1>10, <1>11, <1>12, <1>13, <1>14, <1>15, <1>16, <1>17, <1>18, <1>19,
     <1>20, <1>21, <1>22, <1>23,
     <1>24

(* The invariant holds initially. *)
LEMMA InitInv == Init => IInv
<1> SUFFICES ASSUME Init PROVE IInv
  OBVIOUS
<1>p. /\ tid_defer \notin Threads /\ tid_defer \in Procs /\ Threads \subseteq Procs
      /\ NoThread \notin Procs
  BY Zenon, DeferAssumption DEF Procs
<1>1. /\ pc = [x \in Procs |-> IF x = tid_defer THEN "none" ELSE "out"]
      /\ ret = [x \in Procs |-> "none"]
      /\ registry = <<>> /\ todo = <<>> /\ rcu_defer_mutex = NoThread
      /\ defer_thread_mutex = NoThread
  BY Zenon DEF Init
<1>2. TypeOK
  <2>1. 0 \in Index
    BY Sizes DEF Index
  <2>2. <<>> \in Seq(Threads) /\ <<>> \in Seq(Callback)
    OBVIOUS
  <2>3. pc \in [Procs -> Pcs] /\ ret \in [Procs -> Pcs]
    BY Zenon, <1>1, <1>p DEF Pcs, ThreadPc
  <2> QED
    BY Zenon, <2>1, <2>2, <2>3 DEF Init, TypeOK
<1>3. ControlInv
  BY Zenon, <1>1, <1>p DEF ControlInv, ThreadPc, WakePc, BarrierPc, RunPc
<1>4. \A t \in Threads : pc[t] = "out" /\ ~Member(t) /\ ~Leaving(t)
  BY Zenon, <1>1, <1>p DEF Member, Leaving, WakePc, BarrierPc, RunPc
<1>5. MutexInv
  BY Zenon, <1>1, <1>p, <1>4 DEF MutexInv, RunPc
<1>6. RegistryInv
  <2>1. \A k \in 1..Len(registry) : FALSE
    BY <1>1
  <2>2. Registered = {}
    BY Zenon, <2>1 DEF Registered
  <2> QED
    BY Zenon, <1>4, <2>1, <2>2 DEF RegistryInv
<1>7. TodoInv
  BY <1>1, <1>p DEF TodoInv, RunPc
<1>8. \A t \in Threads : Items(t) = 0
  <2>1. \A t \in Threads : head[t] = 0 /\ tail[t] = 0
    BY Zenon DEF Init
  <2>2. Minus(0, 0) = 0
    BY Sizes, Circle DEF Index
  <2> QED
    BY Zenon, <2>1, <2>2 DEF Items
<1>9. RingInv
  <2> SUFFICES ASSUME NEW t \in Threads PROVE Ring(t)
    BY Zenon DEF RingInv
  <2>1. pending[t] = <<>> /\ head[t] = 0 /\ tail[t] = 0 /\ last_fct_in[t] = 0
        /\ last_fct_out[t] = 0
    BY Zenon DEF Init
  <2>2. End(t) = 1 /\ Len(pending[t]) = 0 /\ Cur(t) = 0
    BY <1>1, <2>1 DEF End, Cur
  <2>3. PICK pos : pos = [k \in 1..(Len(pending[t]) + 1) |-> 0]
    BY Zenon
  <2>4. pos \in Positions(t) /\ pos[1] = 0
    BY <2>2, <2>3 DEF Positions
  <2>5. Layout(t, pos)
    <3>1. head[t] = Wrap(pos[End(t)])
      BY <2>1, <2>2, <2>4, Sizes DEF Wrap
    <3>2. Items(t) = Minus(Cur(t), tail[t]) + pos[End(t)] - pos[1]
      BY <1>8, <2>1, <2>2, <2>4 DEF Minus
    <3>3. \A j, k \in 1..End(t) : ~(j < k)
      BY <2>2
    <3>4. \A k \in 1..Len(pending[t]) : FALSE
      BY <2>2
    <3> QED
      BY Zenon, <2>2, <2>4, <3>1, <3>2, <3>3, <3>4 DEF Layout
  <2>6. Covered(t, pos)
    BY <1>1 DEF Covered
  <2>7. last_fct_in[t] = FctBefore(t, End(t))
    BY Zenon, <2>1, <2>2 DEF FctBefore
  <2> QED
    BY <1>8, <2>4, <2>5, <2>6, <2>7, Sizes DEF Ring
<1>10. OwnInv
  BY Zenon, <1>4, <1>8 DEF OwnInv, Own, RunPc
<1>11. GraceInv
  BY <1>p DEF Init, GraceInv
<1>12. SleepInv
  BY <1>1, <1>p DEF Init, SleepInv, WaitPc
<1> QED
  BY Zenon, <1>2, <1>3, <1>5, <1>6, <1>7, <1>9, <1>10, <1>11, <1>12 DEF IInv

(* The inductive invariant holds in every reachable state. *)
THEOREM Invariant == Spec => []IInv
<1>1. IInv /\ [Next]_vars => IInv'
  BY Zenon, ControlStep, MutexStep, RegistryStep, TodoStep, RingStep, TypeStep,
     OwnStep, GraceStep, SleepStep
  DEF IInv
<1> QED
  BY <1>1, InitInv, PTL DEF Spec

(* Who runs a callback decodes the oldest one of its thread, function and  *)
(* argument, and the sections open when it was deferred are over: for any  *)
(* ring size, index width, functions, data and number of threads.          *)
THEOREM RunsOldestHolds == Spec => []RunsOldest
<1>1. IInv => RunsOldest
  <2> SUFFICES ASSUME IInv, NEW x \in Procs, pc[x] = "run", i # upto
               PROVE  /\ pending[todo[1]] # <<>>
                      /\ pending[todo[1]][1] =
                           [fct |-> Decode(todo[1], i).fct,
                            p |-> Decode(todo[1], i).p, pre |-> {}]
    BY Zenon DEF RunsOldest
  <2>1. PICK t \in Threads : t = todo[1]
    <3>1. todo \in Seq(Threads) /\ todo # <<>>
      BY Zenon DEF IInv, TypeOK, TodoInv, RunPc
    <3> QED
      BY <3>1
  <2>2. PICK pos \in Positions(t) : Layout(t, pos) /\ Covered(t, pos)
    BY Zenon DEF IInv, RingInv, Ring
  <2>3. /\ Len(pending[t]) >= 1
        /\ Decode(t, i).fct = pending[t][1].fct /\ Decode(t, i).p = pending[t][1].p
        /\ \E m \in 2..End(t) :
             \A j \in 1..(m - 1) : pending[t][j].pre \subseteq gpre
    BY Zenon, <2>1, <2>2, NextCallback
  <2>4. pending[t][1].pre = {}
    <3>1. PICK m \in 2..End(t) :
            \A j \in 1..(m - 1) : pending[t][j].pre \subseteq gpre
      BY Zenon, <2>3
    <3>2. End(t) \in Nat
      <4>1. pending[t] \in Seq(Callback)
        BY Zenon DEF IInv, TypeOK
      <4> QED
        BY <4>1 DEF End
    <3>3. 1 \in 1..(m - 1)
      BY SMTT(30), <3>1, <3>2
    <3>4. gpre = {}
      BY Zenon DEF IInv, GraceInv
    <3> QED
      BY <3>1, <3>3, <3>4
  <2>5. pending[t] # <<>> /\ pending[t][1] \in Callback
    <3>1. pending[t] \in Seq(Callback)
      BY Zenon DEF IInv, TypeOK
    <3> QED
      BY <2>3, <3>1
  <2> QED
    BY Zenon, <2>1, <2>3, <2>4, <2>5 DEF Callback
<1> QED
  BY <1>1, Invariant, PTL

(* The assertions of _defer_rcu() and of stop_defer_thread() never fail. *)
THEOREM AssertsHold == Spec => []Asserts
<1>1. IInv => Asserts
  <2> SUFFICES ASSUME IInv, NEW t \in Threads
               PROVE  /\ Items(t) <= Size
                      /\ pc[t] = "enq" /\ ret[t] = "enq" => Items(t) = 0
                      /\ pc[t] = "join" /\ pc[tid_defer] = "none"
                           => defer_thread_futex = 0
    BY Zenon DEF Asserts
  <2>1. Items(t) <= Size
    BY Zenon DEF IInv, RingInv, Ring
  <2>2. Items(t) \in Nat
    <3>1. head[t] \in Index /\ tail[t] \in Index
      BY Zenon DEF IInv, TypeOK
    <3>2. Items(t) \in Index
      BY Zenon, <3>1, Circle DEF Items
    <3> QED
      BY <3>2 DEF Index
  <2>3. pc[t] = "enq" /\ ret[t] = "enq" => Items(t) = 0
    BY <2>2 DEF IInv, OwnInv, Own
  <2>4. pc[tid_defer] = "none" => defer_thread_futex = 0
    BY Zenon DEF IInv, SleepInv, WaitPc
  <2> QED
    BY Zenon, <2>1, <2>3, <2>4
<1> QED
  BY <1>1, Invariant, PTL

(* When the defer thread sleeps with work to do, a thread is on its way to *)
(* wake it up: no FUTEX_WAKE is lost.                                      *)
THEOREM DeferThreadHasWakerHolds == Spec => []DeferThreadHasWaker
<1>1. IInv => DeferThreadHasWaker
  <2> SUFFICES ASSUME IInv PROVE DeferThreadHasWaker
    OBVIOUS
  <2>1. defer_thread_futex \in {-1, 0} /\ SleepInv
    BY Zenon DEF IInv, TypeOK
  <2>2. /\ pc[tid_defer] = "w_sleep"
        /\ (defer_thread_stop = 1 \/ \E t \in Registered : Items(t) # 0)
        => Waker
    BY Zenon, <2>1 DEF SleepInv
  <2> QED
    BY Zenon, <2>1, <2>2 DEF DeferThreadHasWaker, Waker
<1> QED
  BY <1>1, Invariant, PTL

(* An empty ring: all callbacks have been run. *)
Drained == \A t \in Threads : Items(t) = 0 => pending[t] = <<>>

(* The callbacks of a ring take at least a word each. *)
LEMMA EmptyRing == IInv => Drained
<1> SUFFICES ASSUME IInv, NEW t \in Threads, Items(t) = 0 PROVE pending[t] = <<>>
  BY Zenon DEF Drained
<1>1. pending[t] \in Seq(Callback)
  BY Zenon DEF IInv, TypeOK
<1>2. PICK pos \in Positions(t) : Layout(t, pos)
  BY Zenon DEF IInv, RingInv, Ring
<1>3. /\ Len(pending[t]) \in Nat /\ End(t) = Len(pending[t]) + 1
      /\ pos \in [1..End(t) -> Nat] /\ Minus(Cur(t), tail[t]) \in Index
      /\ Minus(Cur(t), tail[t]) + (pos[End(t)] - pos[1]) = 0
      /\ \A j, k \in 1..End(t) : j < k => pos[j] < pos[k]
  BY Zenon, <1>2, Span DEF Layout
<1>4. pos[1] \in Nat /\ pos[End(t)] \in Nat /\ Minus(Cur(t), tail[t]) \in Nat
  BY <1>3 DEF Index
<1>5. ~(pos[1] < pos[End(t)])
  BY <1>3, <1>4
<1>6. Len(pending[t]) = 0
  BY <1>3, <1>5
<1> QED
  BY <1>1, <1>6

(* A thread that returns from a barrier, or has unregistered, has none of  *)
(* its callbacks left.                                                     *)
THEOREM DrainedOnReturnHolds == Spec => DrainedOnReturn
<1> DEFINE Return(t) == /\ pc[t] \in {"b_empty", "b_lock", "bt_lock", "run"}
                        /\ pc'[t] = "idle"
           Leave(t) == pc[t] # "out" /\ pc'[t] = "out"
<1>1. ASSUME IInv, IInv', Drained', [Next]_vars
      PROVE  \A t \in Threads : Return(t) \/ Leave(t) => pending'[t] = <<>>
  <2> SUFFICES ASSUME NEW t \in Threads, Return(t) \/ Leave(t)
               PROVE  pending'[t] = <<>>
    OBVIOUS
  <2>t. /\ pc \in [Procs -> Pcs] /\ ret \in [Procs -> Pcs] /\ todo \in Seq(Threads)
        /\ t \in Procs
    BY Zenon, <1>1 DEF IInv, TypeOK, Procs
  <2>s. Items(t) \in Nat /\ Items(t)' \in Nat
    <3>1. /\ head[t] \in Index /\ tail[t] \in Index
          /\ head'[t] \in Index /\ tail'[t] \in Index
      BY Zenon, <1>1, TypeRing DEF IInv, TypeOK
    <3>2. Items(t) \in Index /\ Items(t)' \in Index
      BY Zenon, <3>1, Circle DEF Items
    <3> QED
      BY <3>2 DEF Index
  <2>1. CASE Leave(t)
    <3>1. OwnInv' /\ pc'[t] = "out"
      BY Zenon, <1>1, <2>1 DEF IInv
    <3>2. Items(t)' = 0
      BY Zenon, <3>1 DEF OwnInv, Own, Member, RunPc, WakePc, BarrierPc
    <3> QED
      BY Zenon, <1>1, <3>2 DEF Drained
  <2>2. CASE Return(t)
    <3>1. Items(t)' = 0 \/ Items(t) = 0
      <4>1. CASE BarrierEmpty(t)
        <5>1. ret[t] = "idle" /\ registry = <<>>
          BY Zenon, <1>1, <2>t, <2>2, <4>1 DEF BarrierEmpty
        <5>2. t \in Registered
          BY Zenon, <1>1, <4>1, <5>1
          DEF BarrierEmpty, IInv, RegistryInv, Member, BarrierPc
        <5> QED
          BY <5>1, <5>2 DEF Registered
      <4>2. CASE BarrierLock(t)
        <5>1. (\A o \in Registered : Items(o) = 0) /\ ret[t] = "idle"
          BY Zenon, <1>1, <2>t, <2>2, <4>2 DEF BarrierLock
        <5>2. t \in Registered
          BY Zenon, <1>1, <4>2, <5>1
          DEF BarrierLock, IInv, RegistryInv, Member, BarrierPc
        <5> QED
          BY Zenon, <5>1, <5>2
      <4>3. CASE BarrierThreadLock(t)
        BY Zenon, <2>t, <2>2, <4>3 DEF BarrierThreadLock
      <4>4. CASE QueueDone(t)
        <5>1. /\ Len(todo) = 1 /\ pc[t] \in RunPc /\ 1 \in 1..Len(todo)
          <6>1. Len(todo) = 1 /\ pc[t] \in RunPc
            BY Zenon, <2>t, <2>2, <4>4 DEF QueueDone, RunPc
          <6> QED
            BY <6>1
        <5>2. Items(t) = 0 \/ (todo[1] = t /\ upto = head[t])
          BY <1>1, <2>t, <5>1 DEF IInv, OwnInv, Own, Bound
        <5> QED
          BY Zenon, <1>1, <2>t, <4>4, <5>2, RingDone
      <4> QED
        BY Zenon, <1>1, <2>2, <4>1, <4>2, <4>3, <4>4, Returns
    <3>2. ~Enqueue(t)
      BY Zenon, <2>2 DEF Enqueue
    <3>3. Items(t)' = 0
      BY Zenon, <1>1, <3>1, <3>2, ItemsStep
    <3> QED
      BY Zenon, <1>1, <3>3 DEF Drained
  <2> QED
    BY Zenon, <2>1, <2>2
<1>2. IInv /\ IInv' /\ Drained' /\ [Next]_vars =>
        [\A t \in Threads :
           \/ /\ pc[t] \in {"b_empty", "b_lock", "bt_lock", "run"}
              /\ pc'[t] = "idle"
           \/ /\ pc[t] # "out"
              /\ pc'[t] = "out"
           => pending'[t] = <<>>]_vars
  BY Zenon, <1>1
<1> QED
  BY <1>2, Invariant, EmptyRing, PTL DEF Spec, DrainedOnReturn
=============================================================================
