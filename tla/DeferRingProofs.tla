-------------------------- MODULE DeferRingProofs ---------------------------
(***************************************************************************)
(* The rings of the queues: lemmas about indices and slots, the layout of  *)
(* a ring, and the steps that read and write words.  The steps of          *)
(* RingSteps touch what the ring invariant of DeferInvariant is about;     *)
(* RingKept deals with the others.                                         *)
(***************************************************************************)
EXTENDS DeferInvariant, TLAPS

(* Every step of the proofs sees what the steps of the code are made of. *)
USE DEF Goto, Move, StartRun, WaitDone

(* The rest of a sequence. *)
LEMMA TailOf ==
  ASSUME NEW S, NEW s \in Seq(S), s # <<>>
  PROVE  /\ Head(s) \in S
         /\ Tail(s) \in Seq(S)
         /\ Len(Tail(s)) = Len(s) - 1
         /\ \A k \in 1..Len(Tail(s)) : Tail(s)[k] = s[k + 1]
<1>1. Head(s) \in S
  OBVIOUS
<1>2. Tail(s) \in Seq(S)
  OBVIOUS
<1>3. Len(Tail(s)) = Len(s) - 1
  OBVIOUS
<1>4. \A k \in 1..Len(Tail(s)) : Tail(s)[k] = s[k + 1]
  OBVIOUS
<1> QED
  BY Zenon, <1>1, <1>2, <1>3, <1>4

(* A sequence and one more element. *)
LEMMA AppendOf ==
  ASSUME NEW S, NEW s \in Seq(S), NEW e \in S
  PROVE  /\ Append(s, e) \in Seq(S)
         /\ Len(Append(s, e)) = Len(s) + 1
         /\ \A k \in 1..Len(s) : Append(s, e)[k] = s[k]
         /\ Append(s, e)[Len(s) + 1] = e
<1>1. Append(s, e) \in Seq(S)
  OBVIOUS
<1>2. Len(Append(s, e)) = Len(s) + 1
  OBVIOUS
<1>3. \A k \in 1..Len(s) : Append(s, e)[k] = s[k]
  OBVIOUS
<1>4. Append(s, e)[Len(s) + 1] = e
  OBVIOUS
<1> QED
  BY Zenon, <1>1, <1>2, <1>3, <1>4
(* The mask has room for at least two laps of the ring. *)
LEMMA Sizes == /\ Size \in Nat /\ Size > 2 /\ Modulus \in Nat
               /\ 2 * Size <= Modulus
<1>1. PICK k \in 2..Modulus : Modulus = k * Size
  BY Zenon, DeferAssumption
<1>2. Modulus \in Int
  BY <1>1, DeferAssumption
<1>3. k \in Int /\ k >= 2 /\ Size \in Nat /\ Size > 2
  BY <1>1, <1>2, DeferAssumption
<1>4. (k - 2) * Size >= 0
  BY <1>3
<1>5. k * Size = (k - 2) * Size + 2 * Size
  BY <1>3
<1> QED
  BY <1>1, <1>2, <1>3, <1>4, <1>5

(* The empty list of queues *)
LEMMA EmptySeq == ASSUME NEW S PROVE <<>> \in Seq(S) /\ 1..Len(<<>>) = {}
  OBVIOUS

(* The index before one that is not the first *)
LEMMA Before ==
  ASSUME NEW m \in Nat, NEW k \in 1..(m + 1), k # 1 PROVE k - 1 \in 1..m
  OBVIOUS

(* An index ahead of a position, less than a lap away. *)
LEMMA PlusWrap ==
  ASSUME NEW a \in Nat, NEW b \in Nat, NEW n \in Nat, b + n <= a + Size, a < Modulus
  PROVE  Plus(Wrap(b), n) = Wrap(b + n)
<1>1. b + n < 2 * Modulus /\ Modulus \in Nat
  BY Sizes
<1>2. CASE b < Modulus
  BY <1>1, <1>2 DEF Plus, Wrap
<1>3. CASE ~(b < Modulus)
  BY <1>1, <1>3 DEF Plus, Wrap
<1> QED
  BY Zenon, <1>2, <1>3

(* The slot of an index, and the lap it is on. *)
LEMMA SlotOf ==
  ASSUME NEW x \in Nat
  PROVE  /\ Slot(x) \in 0..(Size - 1)
         /\ \E d \in Nat : x = Size * d + Slot(x)
<1>1. Size \in Nat /\ Size > 2
  BY Zenon, Sizes
<1>2. x % Size \in 0..(Size - 1)
  BY <1>1
<1>3. x = Size * (x \div Size) + (x % Size) /\ x \div Size \in Int
  BY <1>1
<1>4. x \div Size >= 0
  BY <1>1
<1> QED
  BY <1>2, <1>3, <1>4 DEF Slot

(* Indices less than a lap apart have different slots. *)
LEMMA SlotWindow ==
  ASSUME NEW x \in Nat, NEW y \in Nat, x < y, y < x + Size
  PROVE  Slot(x) # Slot(y)
<1> SUFFICES ASSUME Slot(x) = Slot(y) PROVE FALSE
  OBVIOUS
<1>1. PICK c \in Nat : x = Size * c + Slot(x)
  BY Zenon, SlotOf
<1>2. PICK d \in Nat : y = Size * d + Slot(y)
  BY Zenon, SlotOf
<1>3. Size \in Nat /\ Slot(x) \in Nat /\ Slot(y) \in Nat
  BY SlotOf, Sizes
<1>4. y - x = Size * (d - c)
  BY <1>1, <1>2, <1>3
<1>5. CASE d - c >= 1
  <2>1. Size * (d - c) = Size * (d - c - 1) + Size /\ Size * (d - c - 1) >= 0
    BY <1>3, <1>5
  <2> QED
    BY <1>3, <1>4, <2>1
<1>6. CASE d - c <= 0
  <2>1. Size * (d - c) <= 0
    BY <1>3, <1>6
  <2> QED
    BY <1>3, <1>4, <2>1
<1> QED
  BY <1>5, <1>6

(* An index that wraps around keeps its slot. *)
LEMMA SlotPeriod ==
  ASSUME NEW x \in Nat
  PROVE  Slot(x + Modulus) = Slot(x)
<1>1. PICK k \in 2..Modulus : Modulus = k * Size
  BY Zenon, DeferAssumption
<1>2. Size \in Nat /\ Modulus \in Nat /\ k \in Nat /\ Size > 2
  BY <1>1, Sizes
<1>3. PICK c \in Nat : x = Size * c + Slot(x)
  BY Zenon, SlotOf
<1>4. PICK d \in Nat : x + Modulus = Size * d + Slot(x + Modulus)
  <2>1. x + Modulus \in Nat
    BY <1>2
  <2> QED
    BY ZenonT(30), <2>1, SlotOf
<1>5. Slot(x) \in 0..(Size - 1) /\ Slot(x + Modulus) \in 0..(Size - 1)
  BY <1>2, SlotOf
<1>6. Slot(x + Modulus) - Slot(x) = Size * (c + k - d)
  <2>1. Size * (c + k - d) = Size * c + k * Size - Size * d
    BY <1>2
  <2>2. Size * c \in Int /\ Size * d \in Int
    BY <1>2
  <2> QED
    BY <1>1, <1>2, <1>3, <1>4, <1>5, <2>1, <2>2
<1> DEFINE e == c + k - d
<1>7. e \in Int
  BY <1>2
<1>8. CASE e >= 1
  <2>1. Size * e = Size * (e - 1) + Size /\ Size * (e - 1) >= 0
    BY <1>2, <1>7, <1>8
  <2> QED
    BY <1>2, <1>5, <1>6, <2>1
<1>9. CASE e <= -1
  <2>1. Size * e = Size * (e + 1) - Size /\ Size * (e + 1) <= 0
    BY <1>2, <1>7, <1>9
  <2> QED
    BY <1>2, <1>5, <1>6, <2>1
<1>10. CASE e = 0
  BY <1>2, <1>5, <1>6, <1>10
<1> QED
  BY <1>7, <1>8, <1>9, <1>10

(* The steps of the program, one by one. *)
LEMMA Steps ==
  ASSUME [Next]_vars
  PROVE  \/ \E r \in Readers : ReadLock(r) \/ ReadUnlock(r)
         \/ \E t \in Threads :
              \/ Register(t) \/ RegisterAdd(t) \/ defer_rcu(t) \/ Enqueue(t)
              \/ WakeLoad(t) \/ WakeStore(t) \/ WakeCall(t)
              \/ BarrierThread(t) \/ BarrierThreadLock(t) \/ rcu_defer_barrier(t)
              \/ Unregister(t) \/ UnregisterLock(t) \/ UnregisterFree(t)
              \/ StopStore(t) \/ Join(t)
         \/ \E x \in Procs : \/ BarrierEmpty(x) \/ BarrierLock(x) \/ SyncDone(x)
                             \/ RunCallback(x) \/ QueueDone(x)
         \/ WaitDec \/ WaitStop \/ WaitExit \/ WaitNum \/ WaitClear \/ WaitFutex
         \/ WaitSpurious
         \/ UNCHANGED vars
BY ZenonT(30) DEF Next, ThreadStep, DeferThreadStep, CallStep, RunStep, LockStep, Procs

(* The steps that touch a ring, or what is to be run of it. *)
RingSteps == \/ \E r \in Readers : ReadUnlock(r)
             \/ \E t \in Threads : \/ Enqueue(t) \/ BarrierThreadLock(t)
                                     \/ UnregisterLock(t)
             \/ \E x \in Procs : BarrierLock(x) \/ RunCallback(x) \/ QueueDone(x)

(* The other steps leave all of it alone. *)
LEMMA RingKept ==
  ASSUME [Next]_vars, ~RingSteps
  PROVE  /\ UNCHANGED <<queueVars, todo, i, upto, gpre, pending>>
         /\ cs \subseteq cs'
<1> DEFINE Kept == /\ UNCHANGED <<queueVars, todo, i, upto, gpre, pending>>
                   /\ cs \subseteq cs'
<1> USE DEF runVars, hist
<1>1. ASSUME NEW r \in Readers, ReadLock(r) PROVE Kept
  BY Zenon, <1>1 DEF ReadLock
<1>2. ASSUME NEW t \in Threads, Register(t) \/ RegisterAdd(t) \/ defer_rcu(t)
      PROVE  Kept
  BY Zenon, <1>2 DEF Register, RegisterAdd, defer_rcu
<1>3. ASSUME NEW t \in Threads, WakeLoad(t) \/ WakeStore(t) \/ WakeCall(t)
      PROVE  Kept
  BY Zenon, <1>3 DEF WakeLoad, WakeStore, WakeCall
<1>4. ASSUME NEW t \in Threads, BarrierThread(t) \/ rcu_defer_barrier(t)
      PROVE  Kept
  BY Zenon, <1>4 DEF BarrierThread, rcu_defer_barrier
<1>5. ASSUME NEW t \in Threads,
             Unregister(t) \/ UnregisterFree(t) \/ StopStore(t) \/ Join(t)
      PROVE  Kept
  BY Zenon, <1>5 DEF Unregister, UnregisterFree, StopStore, Join
<1>6. ASSUME NEW x \in Procs, BarrierEmpty(x) \/ SyncDone(x) PROVE Kept
  BY Zenon, <1>6 DEF BarrierEmpty, SyncDone
<1>7. CASE WaitDec \/ WaitStop \/ WaitExit \/ WaitNum
  BY Zenon, <1>7 DEF WaitDec, WaitStop, WaitExit, WaitNum
<1>8. CASE WaitClear \/ WaitFutex \/ WaitSpurious
  BY Zenon, <1>8 DEF WaitClear, WaitFutex, WaitSpurious
<1>9. CASE UNCHANGED vars
  BY Zenon, <1>9 DEF vars
<1> QED
  BY ZenonT(30), Steps, <1>1, <1>2, <1>3, <1>4, <1>5, <1>6, <1>7, <1>8, <1>9
  DEF RingSteps

(* No queue is to be run while the mutex is free. *)
LEMMA TodoFree == ASSUME IInv, rcu_defer_mutex = NoThread PROVE todo = <<>>
BY Zenon DEF IInv, TodoInv

(* Indices are counted modulo Modulus. *)
LEMMA Circle ==
  ASSUME NEW x \in Index, NEW y \in Index
  PROVE  Minus(x, y) \in Index /\ (Minus(x, y) = 0 <=> x = y)
BY Sizes DEF Index, Minus

(* n words past x. *)
LEMMA Ahead ==
  ASSUME NEW x \in Index, NEW n \in 0..(Modulus - 1)
  PROVE  /\ Wrap(x + n) \in Index /\ Wrap(x + n) = Plus(x, n)
         /\ Minus(Wrap(x + n), x) = n
BY Sizes DEF Index, Wrap, Minus, Plus

(* An index moved ahead by n words is n words further from y. *)
LEMMA MinusPlus ==
  ASSUME NEW x \in Index, NEW y \in Index, NEW n \in Nat,
         Minus(x, y) + n < Modulus
  PROVE  /\ Plus(x, n) \in Index
         /\ Minus(Plus(x, n), y) = Minus(x, y) + n
BY Sizes DEF Index, Minus, Plus

(* Where the callbacks of a ring lie. *)
LEMMA Span ==
  ASSUME IInv, NEW t \in Threads, NEW pos \in Positions(t), Layout(t, pos)
  PROVE  /\ Len(pending[t]) \in Nat /\ End(t) = Len(pending[t]) + 1
         /\ pos \in [1..End(t) -> Nat]
         /\ Cur(t) \in Index /\ pos[1] = Cur(t)
         /\ head[t] \in Index /\ tail[t] \in Index
         /\ Minus(Cur(t), tail[t]) \in Index
         /\ Items(t) \in Index /\ Items(t) <= Size
         /\ \A k \in 1..End(t) : pos[1] <= pos[k] /\ pos[k] <= pos[End(t)]
         /\ \A k \in 1..Len(pending[t]) : pos[k + 1] <= pos[End(t)]
         /\ Minus(Cur(t), tail[t]) + (pos[End(t)] - pos[1]) = Items(t)
         /\ pos[End(t)] - pos[1] \in 0..Size
<1>1. /\ Len(pending[t]) \in Nat /\ End(t) = Len(pending[t]) + 1
      /\ pos \in [1..End(t) -> Nat]
  BY DEF IInv, TypeOK, Positions, End
<1>2. Cur(t) \in Index /\ head[t] \in Index /\ tail[t] \in Index
  BY Zenon DEF IInv, TypeOK, Cur
<1>3. Minus(Cur(t), tail[t]) \in Index /\ Items(t) \in Index /\ Items(t) <= Size
  BY Zenon, <1>2, Circle DEF Items, IInv, RingInv, Ring
<1>4. \A k \in 1..End(t) : pos[1] <= pos[k] /\ pos[k] <= pos[End(t)]
  <2>1. \A j, k \in 1..End(t) : j < k => pos[j] < pos[k]
    BY Zenon DEF Layout
  <2>2. \A k \in 1..End(t) : pos[k] \in Nat
    BY Zenon, <1>1
  <2>3. 1 \in 1..End(t) /\ End(t) \in 1..End(t)
    BY <1>1
  <2>4. \A k \in 1..End(t) : (k = 1 \/ 1 < k) /\ (k = End(t) \/ k < End(t))
    BY <1>1
  <2>5. \A k \in 1..End(t) : pos[1] <= pos[k]
    BY <2>1, <2>2, <2>3, <2>4
  <2>6. \A k \in 1..End(t) : pos[k] <= pos[End(t)]
    BY <2>1, <2>2, <2>3, <2>4
  <2> QED
    BY Zenon, <2>5, <2>6
<1>5. \A k \in 1..Len(pending[t]) : pos[k + 1] <= pos[End(t)]
  BY <1>1, <1>4
<1>6. pos[1] \in Nat /\ pos[End(t)] \in Nat /\ pos[1] <= pos[End(t)]
  BY <1>1, <1>4
<1>7. /\ pos[1] = Cur(t)
      /\ Minus(Cur(t), tail[t]) + (pos[End(t)] - pos[1]) = Items(t)
  BY Zenon, <1>2, <1>3, <1>6 DEF Layout, Index
<1>8. pos[End(t)] - pos[1] \in 0..Size
  BY <1>3, <1>6, <1>7, Sizes DEF Index
<1> QED
  BY Zenon, <1>1, <1>2, <1>3, <1>4, <1>5, <1>7, <1>8

(* A layout depends on the words, not on the sections that are open. *)
LEMMA LayoutKept ==
  ASSUME NEW t \in Threads, NEW pos, Layout(t, pos),
         pending[t] \in Seq(Callback),
         head'[t] = head[t], tail'[t] = tail[t], q'[t] = q[t],
         last_fct_out'[t] = last_fct_out[t], Cur(t)' = Cur(t),
         Len(pending'[t]) = Len(pending[t]),
         \A k \in 1..Len(pending[t]) : /\ pending'[t][k].fct = pending[t][k].fct
                                       /\ pending'[t][k].p = pending[t][k].p
  PROVE  Layout(t, pos)' /\ End(t)' = End(t) /\ Items(t)' = Items(t)
<1>1. End(t)' = End(t) /\ Items(t)' = Items(t)
  BY Zenon DEF End, Items
<1>2. \A k \in 1..Len(pending[t]) : FctBefore(t, k)' = FctBefore(t, k)
  <2>1. \A k \in 1..Len(pending[t]) : k # 1 => k - 1 \in 1..Len(pending[t])
    OBVIOUS
  <2> QED
    BY Zenon, <2>1 DEF FctBefore
<1>3. \A l, x : DecodeAfter(l, t, x)' = DecodeAfter(l, t, x)
  BY Zenon DEF DecodeAfter
<1>4. \A k \in 1..Len(pending[t]) :
        DecodeAfter(FctBefore(t, k), t, pos[k])'
          = DecodeAfter(FctBefore(t, k), t, pos[k])
  BY Zenon, <1>2, <1>3
<1> QED
  BY ZenonT(60), <1>1, <1>2, <1>4 DEF Layout

(* A ring nothing has happened to. *)
LEMMA RingFrame ==
  ASSUME IInv, NEW t \in Threads, Cur(t)' = Cur(t),
         head'[t] = head[t], tail'[t] = tail[t], q'[t] = q[t],
         last_fct_in'[t] = last_fct_in[t], last_fct_out'[t] = last_fct_out[t],
         pending'[t] = pending[t],
         \A k \in 1..Len(todo') : todo'[k] = t =>
           /\ gpre' = gpre
           /\ \E j \in 1..Len(todo) : todo[j] = t /\ Bound(j) = Bound(k)'
  PROVE  Ring(t)'
<1>1. Ring(t) /\ pending[t] \in Seq(Callback)
  BY Zenon DEF IInv, RingInv, TypeOK
<1>2. PICK pos \in Positions(t) : Layout(t, pos) /\ Covered(t, pos)
  BY Zenon, <1>1 DEF Ring
<1>3. Layout(t, pos)' /\ End(t)' = End(t) /\ Items(t)' = Items(t)
  BY Zenon, <1>1, <1>2, LayoutKept
<1>4. FctBefore(t, End(t))' = FctBefore(t, End(t)) /\ Positions(t)' = Positions(t)
  BY Zenon, <1>3 DEF FctBefore, Positions
<1>5. Covered(t, pos)'
  BY Zenon, <1>2, <1>3 DEF Covered
<1> QED
  BY Zenon, <1>1, <1>2, <1>3, <1>4, <1>5 DEF Ring

(* A run starts: it is to run the queues in todo' to their present heads,  *)
(* after a grace period for the sections open now.                        *)
LEMMA RingStarted ==
  ASSUME IInv, todo = <<>>, todo' \in Seq(Threads),
         todo' # <<>> => i' = tail[todo'[1]] /\ gpre' = cs,
         \A k \in 1..Len(todo') : Bound(k)' = head[todo'[k]],
         UNCHANGED <<head, tail, last_fct_in, last_fct_out, q, pending>>
  PROVE  RingInv'
<1> SUFFICES ASSUME NEW t \in Threads PROVE Ring(t)'
  BY Zenon DEF RingInv
<1>1. Ring(t) /\ pending[t] \in Seq(Callback)
  BY Zenon DEF IInv, RingInv, TypeOK
<1>2. PICK pos \in Positions(t) : Layout(t, pos)
  BY Zenon, <1>1 DEF Ring
<1>3. Cur(t)' = Cur(t)
  BY Zenon DEF Cur
<1>4. Layout(t, pos)' /\ End(t)' = End(t) /\ Items(t)' = Items(t)
  BY Zenon, <1>1, <1>2, <1>3, LayoutKept
<1>5. FctBefore(t, End(t))' = FctBefore(t, End(t)) /\ Positions(t)' = Positions(t)
  BY Zenon, <1>4 DEF FctBefore, Positions
<1>6. End(t) \in Nat /\ End(t) \in 1..End(t) /\ End(t) - 1 = Len(pending[t])
  BY <1>1 DEF End
<1>7. \A j \in 1..(End(t) - 1) : pending[t][j].pre \subseteq cs
  BY Zenon, <1>6 DEF IInv, GraceInv
<1>8. Covered(t, pos)'
  <2> SUFFICES ASSUME NEW k \in 1..Len(todo'), todo'[k] = t
               PROVE  \E m \in 1..End(t)' :
                        /\ Wrap(pos[m]) = Bound(k)'
                        /\ \A j \in 1..(m - 1) : pending'[t][j].pre \subseteq gpre'
    BY Zenon DEF Covered, Wrap
  <2>1. Wrap(pos[End(t)]) = Bound(k)'
    BY Zenon, <1>2 DEF Layout
  <2>2. gpre' = cs
    OBVIOUS
  <2> QED
    BY Zenon, <1>4, <1>6, <1>7, <2>1, <2>2
<1> QED
  BY Zenon, <1>1, <1>2, <1>4, <1>5, <1>8 DEF Ring

(* The queue that has been run to its bound is left; the next one starts. *)
LEMMA TodoDone ==
  ASSUME IInv, NEW x \in Procs, QueueDone(x), NEW t \in Threads, t = todo[1]
  PROVE  /\ todo' \in Seq(Threads) /\ Len(todo') = Len(todo) - 1
         /\ \A k \in 1..Len(todo') : /\ todo'[k] = todo[k + 1]
                                     /\ k + 1 \in 1..Len(todo) /\ k + 1 # 1
                                     /\ todo'[k] # t
                                     /\ Bound(k)' = Bound(k + 1)
         /\ todo' # <<>> => i' = tail[todo'[1]]
         /\ tail' = [tail EXCEPT ![t] = i]
         /\ UNCHANGED <<head, last_fct_in, last_fct_out, last_head, q, pending, gpre>>
<1>1. /\ todo \in Seq(Threads) /\ todo # <<>> /\ tail \in [Threads -> Index]
  BY Zenon DEF IInv, TypeOK, TodoInv, QueueDone, RunPc
<1>2. /\ todo' \in Seq(Threads) /\ Len(todo') = Len(todo) - 1
      /\ \A k \in 1..Len(todo') : /\ todo'[k] = todo[k + 1]
                                  /\ k + 1 \in 1..Len(todo) /\ k + 1 # 1
                                  /\ todo'[k] # t
  <2>1. /\ todo' \in Seq(Threads) /\ Len(todo') = Len(todo) - 1
        /\ \A k \in 1..Len(todo') : todo'[k] = todo[k + 1]
    BY ZenonT(60), <1>1, TailOf DEF QueueDone
  <2>2. \A k \in 1..Len(todo') : k + 1 \in 1..Len(todo) /\ k + 1 # 1
    BY <1>1, <2>1
  <2>3. 1 \in 1..Len(todo) /\ \A j, k \in 1..Len(todo) : todo[j] = todo[k] => j = k
    BY <1>1 DEF IInv, TodoInv
  <2> QED
    BY Zenon, <2>1, <2>2, <2>3
<1>3. /\ tail' = [tail EXCEPT ![t] = i]
      /\ UNCHANGED <<head, last_fct_in, last_fct_out, last_head, q, pending, gpre>>
  BY Zenon DEF QueueDone, hist
<1>4. ASSUME todo' # <<>> PROVE i' = tail[todo'[1]] /\ upto' = last_head[todo'[1]]
  <2>1. Len(todo) > 1
    BY <1>1, <1>2, <1>4
  <2>2. i' = tail[todo[2]] /\ upto' = last_head[todo[2]]
    BY <2>1 DEF QueueDone
  <2>3. todo'[1] = todo[2]
    BY <1>1, <1>2, <2>1
  <2> QED
    BY Zenon, <2>2, <2>3
<1>5. \A k \in 1..Len(todo') : Bound(k)' = Bound(k + 1)
  <2>1. ASSUME NEW k \in 1..Len(todo') PROVE todo' # <<>>
    BY <1>2, <2>1
  <2> QED
    BY Zenon, <1>2, <1>3, <1>4, <2>1 DEF Bound
<1> QED
  BY Zenon, <1>2, <1>3, <1>4, <1>5

(* The queue that has been run no longer holds what has been run of it. *)
LEMMA RingDone ==
  ASSUME IInv, NEW x \in Procs, QueueDone(x)
  PROVE  /\ RingInv'
         /\ \A o \in Threads :
              IF o = todo[1] THEN /\ Items(o)' <= Items(o)
                                  /\ Items(o)' = 0 <=> head[o] = upto
                             ELSE Items(o)' = Items(o)
<1>1. /\ todo \in Seq(Threads) /\ todo # <<>> /\ tail \in [Threads -> Index]
      /\ i \in Index /\ i = upto
  BY Zenon DEF IInv, TypeOK, TodoInv, QueueDone, RunPc
<1>2. PICK t \in Threads : t = todo[1]
  BY <1>1
<1>3. /\ todo' \in Seq(Threads) /\ Len(todo') = Len(todo) - 1
      /\ \A k \in 1..Len(todo') : /\ todo'[k] = todo[k + 1]
                                  /\ k + 1 \in 1..Len(todo) /\ k + 1 # 1
                                  /\ todo'[k] # t
                                  /\ Bound(k)' = Bound(k + 1)
  BY Zenon, <1>2, TodoDone
<1>4. /\ tail' = [tail EXCEPT ![t] = i]
      /\ UNCHANGED <<head, last_fct_in, last_fct_out, last_head, q, pending, gpre>>
  BY Zenon, <1>2, TodoDone
<1>5. todo' # <<>> => i' = tail[todo'[1]]
  BY Zenon, <1>2, TodoDone
<1>6. ASSUME NEW o \in Threads, o # t PROVE Ring(o)' /\ Items(o)' = Items(o)
  <2>1. tail'[o] = tail[o]
    BY Zenon, <1>1, <1>4, <1>6
  <2>2. Cur(o)' = Cur(o)
    BY Zenon, <1>2, <1>5, <1>6, <2>1 DEF Cur
  <2>3. \A k \in 1..Len(todo') : todo'[k] = o =>
           /\ gpre' = gpre
           /\ \E j \in 1..Len(todo) : todo[j] = o /\ Bound(j) = Bound(k)'
    BY Zenon, <1>3, <1>4
  <2>4. Ring(o)'
    BY Zenon, <1>4, <2>1, <2>2, <2>3, RingFrame
  <2> QED
    BY Zenon, <1>4, <2>1, <2>4 DEF Items
<1>7. Ring(t) /\ pending[t] \in Seq(Callback)
  BY Zenon, <1>2 DEF IInv, RingInv, TypeOK
<1>8. PICK pos \in Positions(t) : Layout(t, pos)
  BY Zenon, <1>7 DEF Ring
<1>9. Cur(t) = i /\ tail'[t] = i
  BY Zenon, <1>1, <1>2, <1>4 DEF Cur
<1>10. Cur(t)' = i
  <2>1. todo' # <<>> => 1 \in 1..Len(todo')
    BY <1>3
  <2> QED
    BY Zenon, <1>3, <1>9, <2>1 DEF Cur
<1>11. /\ pos[End(t)] - pos[1] \in 0..Size /\ pos[1] = i
       /\ Items(t) \in Index /\ Minus(i, tail[t]) \in Index
       /\ Minus(i, tail[t]) + (pos[End(t)] - pos[1]) = Items(t)
       /\ pos[End(t)] \in Nat /\ Items(t) <= Size /\ End(t) = Len(pending[t]) + 1
  BY <1>8, <1>9, Span
<1>12. Items(t)' = pos[End(t)] - pos[1] /\ head[t] = Wrap(pos[End(t)])
  <2>1. head[t] = Wrap(pos[End(t)])
    BY Zenon, <1>8 DEF Layout
  <2>2. PICK n \in 0..(Modulus - 1) : n = pos[End(t)] - pos[1]
    BY <1>11, Sizes
  <2>3. i + n = pos[End(t)]
    <3>1. i \in 0..(Modulus - 1) /\ n = pos[End(t)] - i /\ pos[End(t)] \in Nat
      BY Zenon, <1>1, <1>11, <2>2 DEF Index
    <3> QED
      BY <2>2, <3>1
  <2>4. Minus(Wrap(i + n), i) = n
    BY Zenon, <1>1, Ahead
  <2> QED
    BY Zenon, <1>4, <1>9, <2>1, <2>2, <2>3, <2>4 DEF Items
<1>13. Items(t)' <= Items(t) /\ Items(t)' <= Size
  BY <1>11, <1>12 DEF Index
<1>14. FctBefore(t, End(t))' = FctBefore(t, End(t)) /\ Positions(t)' = Positions(t)
       /\ End(t)' = End(t)
  BY Zenon, <1>4 DEF FctBefore, Positions, End
<1>15. Layout(t, pos)'
  <2>1. \A k \in 1..Len(pending[t]) :
        DecodeAfter(FctBefore(t, k), t, pos[k])'
          = DecodeAfter(FctBefore(t, k), t, pos[k])
    BY Zenon, <1>4 DEF DecodeAfter, FctBefore
  <2>2. Items(t)' = Minus(Cur(t), tail[t])' + pos[End(t)'] - pos[1]
    <3>1. Minus(i, i) = 0
      BY Zenon, <1>1, Circle
    <3> QED
      BY <1>9, <1>10, <1>11, <1>12, <1>14, <3>1 DEF Minus
  <2> QED
    BY Zenon, <1>4, <1>8, <1>9, <1>10, <1>14, <2>1, <2>2 DEF Layout, Wrap
<1>16. Covered(t, pos)'
  BY Zenon, <1>3 DEF Covered
<1>17. Ring(t)'
  BY Zenon, <1>4, <1>7, <1>8, <1>13, <1>14, <1>15, <1>16 DEF Ring
<1>18. Items(t)' = 0 <=> head[t] = upto
  <2>1. head[t] \in Index /\ Items(t)' = Minus(head[t], i)
    BY Zenon, <1>2, <1>4, <1>9 DEF Items, IInv, TypeOK
  <2> QED
    BY Zenon, <1>1, <2>1, Circle
<1> QED
  BY Zenon, <1>2, <1>6, <1>13, <1>17, <1>18 DEF RingInv

(* A run that has not reached its bound decodes the oldest callback. *)
LEMMA NextCallback ==
  ASSUME IInv, NEW x \in Procs, pc[x] = "run", i # upto,
         NEW t \in Threads, t = todo[1],
         NEW pos \in Positions(t), Layout(t, pos), Covered(t, pos)
  PROVE  LET d == Decode(t, i)
         IN  /\ Len(pending[t]) >= 1
             /\ d.fct = pending[t][1].fct /\ d.p = pending[t][1].p
             /\ d.words \in 1..3 /\ pos[1] = i /\ pos[2] = i + d.words
             /\ \E m \in 2..End(t) :
                  /\ Wrap(pos[m]) = upto
                  /\ \A j \in 1..(m - 1) : pending[t][j].pre \subseteq gpre
<1>1. todo \in Seq(Threads) /\ todo # <<>> /\ i \in Index /\ Cur(t) = i
  BY Zenon DEF IInv, TypeOK, TodoInv, RunPc, Cur
<1>2. /\ Len(pending[t]) \in Nat /\ End(t) = Len(pending[t]) + 1 /\ pos[1] = i
  BY Zenon, <1>1, Span
<1>3. 1 \in 1..Len(todo)
  BY <1>1
<1>4. PICK m \in 1..End(t) :
        /\ Wrap(pos[m]) = upto
        /\ \A j \in 1..(m - 1) : pending[t][j].pre \subseteq gpre
  BY Zenon, <1>3 DEF Covered, Bound
<1>5. m # 1
  BY <1>1, <1>2, <1>4, Sizes DEF Wrap, Index
<1>6. m \in 2..End(t) /\ Len(pending[t]) >= 1 /\ 1 \in 1..Len(pending[t])
  BY <1>2, <1>4, <1>5
<1>7. LET d == DecodeAfter(FctBefore(t, 1), t, pos[1])
      IN  /\ d.fct = pending[t][1].fct
          /\ d.p = pending[t][1].p
          /\ pos[1 + 1] = pos[1] + d.words
  BY Zenon, <1>6 DEF Layout
<1>8. DecodeAfter(FctBefore(t, 1), t, pos[1]) = Decode(t, i)
  BY Zenon, <1>2 DEF DecodeAfter, Decode, FctBefore
<1>9. Decode(t, i).words \in 1..3
  BY DEF Decode
<1> QED
  BY <1>2, <1>4, <1>6, <1>7, <1>8, <1>9

(* The positions of the callbacks left, once the first has been run. *)
LEMMA RingRun ==
  ASSUME IInv, NEW x \in Procs, RunCallback(x)
  PROVE  RingInv' /\ \A o \in Threads : Items(o)' = Items(o)
<1>1. /\ todo \in Seq(Threads) /\ todo # <<>> /\ i \in Index
      /\ pc[x] = "run" /\ i # upto
  BY Zenon DEF IInv, TypeOK, TodoInv, RunCallback, RunPc
<1>2. PICK t \in Threads : t = todo[1]
  BY <1>1
<1> DEFINE d == Decode(t, i)
<1>3. /\ last_fct_out' = [last_fct_out EXCEPT ![t] = d.fct]
      /\ i' = Plus(i, d.words)
      /\ pending' = [pending EXCEPT ![t] = Tail(@)]
      /\ UNCHANGED <<head, tail, last_fct_in, last_head, q, todo, upto, gpre>>
  BY Zenon, <1>2 DEF RunCallback
<1>4. /\ pending \in [Threads -> Seq(Callback)] /\ last_fct_out \in [Threads -> Nat]
      /\ pending[t] \in Seq(Callback) /\ Ring(t)
  BY Zenon DEF IInv, TypeOK, RingInv
<1>5. \A o \in Threads : Items(o)' = Items(o)
  BY Zenon, <1>3 DEF Items
<1>6. ASSUME NEW o \in Threads, o # t PROVE Ring(o)'
  <2>1. Cur(o)' = Cur(o)
    BY Zenon, <1>2, <1>3, <1>6 DEF Cur
  <2>2. pending'[o] = pending[o] /\ last_fct_out'[o] = last_fct_out[o]
    BY Zenon, <1>3, <1>4, <1>6
  <2>3. \A k \in 1..Len(todo') : Bound(k)' = Bound(k)
    BY Zenon, <1>3 DEF Bound
  <2> QED
    BY Zenon, <1>3, <2>1, <2>2, <2>3, RingFrame
<1>7. PICK pos \in Positions(t) : Layout(t, pos) /\ Covered(t, pos)
  BY Zenon, <1>4 DEF Ring
<1>8. PICK m \in 2..End(t) :
        /\ Wrap(pos[m]) = upto
        /\ \A j \in 1..(m - 1) : pending[t][j].pre \subseteq gpre
  BY ZenonT(60), <1>1, <1>2, <1>7, NextCallback
<1>9. /\ Len(pending[t]) >= 1
      /\ d.fct = pending[t][1].fct /\ d.p = pending[t][1].p
      /\ d.words \in 1..3 /\ pos[1] = i /\ pos[2] = i + d.words
  BY Zenon, <1>1, <1>2, <1>7, NextCallback
<1> HIDE DEF d
<1>10. /\ Len(pending[t]) \in Nat /\ End(t) = Len(pending[t]) + 1
       /\ pos \in [1..End(t) -> Nat]
       /\ Items(t) \in Index /\ Items(t) <= Size
       /\ Minus(i, tail[t]) \in Index /\ tail[t] \in Index
       /\ \A k \in 1..End(t) : pos[1] <= pos[k] /\ pos[k] <= pos[End(t)]
       /\ Minus(i, tail[t]) + (pos[End(t)] - pos[1]) = Items(t)
       /\ pos[End(t)] - pos[1] \in 0..Size
  <2>1. Cur(t) = i
    BY Zenon, <1>1, <1>2 DEF Cur
  <2> QED
    BY Zenon, <1>7, <2>1, Span
<1>11. /\ Len(pending'[t]) = Len(pending[t]) - 1
       /\ \A k \in 1..Len(pending'[t]) : /\ pending'[t][k] = pending[t][k + 1]
                                         /\ k + 1 \in 1..Len(pending[t])
       /\ End(t)' = End(t) - 1 /\ End(t)' >= 1
  <2>1. pending'[t] = Tail(pending[t]) /\ pending[t] # <<>>
    BY <1>3, <1>4, <1>9
  <2>2. /\ Len(pending'[t]) = Len(pending[t]) - 1
        /\ \A k \in 1..Len(pending'[t]) : pending'[t][k] = pending[t][k + 1]
    BY <1>4, <2>1, TailOf
  <2> QED
    <3>1. Len(pending[t]) \in Nat /\ Len(pending[t]) >= 1
      BY <1>9, <1>10
    <3>2. \A k \in 1..Len(pending'[t]) : k + 1 \in 1..Len(pending[t])
      BY <2>2, <3>1
    <3>3. End(t)' = Len(pending'[t]) + 1 /\ End(t) = Len(pending[t]) + 1
      BY Zenon DEF End
    <3>4. End(t)' = End(t) - 1 /\ End(t)' >= 1
      BY <2>2, <3>1, <3>3
    <3> QED
      BY Zenon, <2>2, <3>2, <3>4
<1>a. PICK off : off = IF pos[2] < Modulus THEN 0 ELSE Modulus
  OBVIOUS
<1>b. PICK nxt : nxt = [k \in 1..Len(pending[t]) |-> pos[k + 1] - off]
  BY Zenon
<1>12. \A k \in 2..End(t) : /\ pos[k] \in Nat /\ pos[2] <= pos[k]
                            /\ pos[k] < 2 * Modulus
  <2>1. \A j, k \in 1..End(t) : j < k => pos[j] < pos[k]
    BY Zenon, <1>7 DEF Layout
  <2>a. /\ 2 \in 1..End(t) /\ End(t) \in 1..End(t)
        /\ \A k \in 2..End(t) : k \in 1..End(t) /\ (k = 2 \/ 2 < k)
    BY <1>9, <1>10
  <2>2. /\ \A k \in 2..End(t) : pos[k] \in Nat
        /\ pos[2] \in Nat /\ pos[End(t)] \in Nat
    BY Zenon, <1>10, <2>a
  <2>3. \A k \in 2..End(t) : pos[2] <= pos[k]
    BY <2>1, <2>2, <2>a
  <2>4. pos[End(t)] <= i + Size
    <3>1. pos[End(t)] - i \in 0..Size /\ i \in Nat
      BY <1>1, <1>9, <1>10 DEF Index
    <3> QED
      BY <2>2, <3>1, Sizes
  <2>5. \A k \in 2..End(t) : pos[k] <= pos[End(t)]
    BY Zenon, <1>10, <2>a
  <2>6. \A k \in 2..End(t) : pos[k] < 2 * Modulus
    BY <1>1, <2>2, <2>4, <2>5, Sizes DEF Index
  <2> QED
    BY Zenon, <2>2, <2>3, <2>6
<1>13. off \in Nat /\ \A k \in 2..End(t) : /\ pos[k] - off \in Nat
                                           /\ Wrap(pos[k] - off) = Wrap(pos[k])
  <2>1. off \in Nat
    BY Zenon, <1>a, Sizes
  <2>2. ASSUME NEW k \in 2..End(t)
        PROVE  pos[k] - off \in Nat /\ Wrap(pos[k] - off) = Wrap(pos[k])
    <3>1. /\ pos[k] \in Nat /\ pos[2] <= pos[k] /\ pos[k] < 2 * Modulus
          /\ pos[2] \in Nat
      BY <1>9, <1>10, <1>12
    <3> QED
      BY <1>a, <3>1, Sizes DEF Wrap
  <2> QED
    BY Zenon, <2>1, <2>2
<1>14. nxt \in Positions(t)'
  <2>1. \A k \in 1..Len(pending[t]) : pos[k + 1] - off \in Nat
    BY <1>10, <1>13
  <2> QED
    <3>1. PICK n \in Nat : n = Len(pending[t])
      BY Zenon, <1>10
    <3>2. 1..((n - 1) + 1) = 1..n
      OBVIOUS
    <3>3. Len(pending'[t]) = n - 1 /\ nxt \in [1..n -> Nat]
      BY Zenon, <1>b, <1>11, <2>1, <3>1
    <3> QED
      BY Zenon, <3>2, <3>3 DEF Positions
<1>15. \A k \in 1..End(t)' : nxt[k] = pos[k + 1] - off /\ k + 1 \in 2..End(t)
  BY <1>b, <1>10, <1>11
<1>16. Cur(t)' = i' /\ i' = Wrap(pos[2]) /\ nxt[1] = i' /\ i' \in Index
  <2>1. Cur(t)' = i'
    BY Zenon, <1>1, <1>2, <1>3 DEF Cur
  <2>2. i' = Wrap(pos[2]) /\ i' \in Index
    <3>1. d.words \in 0..(Modulus - 1)
      BY <1>9, Sizes
    <3> QED
      BY Zenon, <1>1, <1>3, <1>9, <3>1, Ahead
  <2>3. nxt[1] = pos[2] - off
    BY <1>11, <1>15
  <2>4. Wrap(pos[2]) = pos[2] - off
    <3>1. pos[2] \in Nat
      BY SMTT(30), <1>9, <1>10
    <3> QED
      BY <1>a, <3>1, Sizes DEF Wrap
  <2> QED
    BY Zenon, <2>1, <2>2, <2>3, <2>4
<1>17. head'[t] = Wrap(nxt[End(t)'])
  <2>1. nxt[End(t)'] = pos[End(t)] - off /\ End(t) \in 2..End(t)
    BY <1>9, <1>10, <1>11, <1>15
  <2> QED
    BY Zenon, <1>3, <1>7, <1>13, <2>1 DEF Layout
<1>18. Items(t)' = Minus(Cur(t), tail[t])' + nxt[End(t)'] - nxt[1]
  <2>1. /\ nxt[End(t)'] = pos[End(t)] - off /\ End(t) \in 2..End(t)
        /\ nxt[1] = pos[2] - off /\ pos[End(t)] \in Nat /\ pos[2] \in Nat
        /\ pos[2] <= pos[End(t)]
    <3>1. /\ End(t) \in 2..End(t) /\ 2 \in 2..End(t) /\ 1 \in 1..End(t)'
          /\ End(t)' \in 1..End(t)' /\ End(t)' + 1 = End(t)
      BY <1>9, <1>10, <1>11
    <3> QED
      BY SMTT(30), <1>12, <1>15, <3>1
  <2>2. Minus(i, tail[t]) + d.words < Modulus
    <3>1. /\ Minus(i, tail[t]) \in Nat /\ d.words \in Nat /\ i \in Nat
          /\ Items(t) \in Nat /\ Items(t) < Modulus
          /\ Minus(i, tail[t]) + (pos[End(t)] - i) = Items(t)
          /\ pos[2] = i + d.words
      <4>1. Minus(i, tail[t]) \in Nat /\ i \in Nat /\ Items(t) \in Nat
        BY SMTT(30), <1>1, <1>10 DEF Index
      <4>2. d.words \in Nat /\ Items(t) < Modulus
        <5>1. d.words \in 1..3 /\ Items(t) <= Size
          BY Zenon, <1>9, <1>10
        <5> QED
          BY <4>1, <5>1, Sizes
      <4> QED
        BY Zenon, <1>9, <1>10, <4>1, <4>2
    <3> QED
      BY <2>1, <3>1, Sizes
  <2>3. Minus(i', tail[t]) = Minus(i, tail[t]) + d.words
    BY <1>1, <1>3, <1>9, <1>10, <2>2, MinusPlus
  <2>4. Minus(Cur(t), tail[t])' = Minus(i', tail[t])
    BY Zenon, <1>3, <1>16 DEF Minus
  <2>5. /\ Minus(i, tail[t]) \in Nat /\ d.words \in Nat /\ i \in Nat
        /\ Minus(i, tail[t]) + (pos[End(t)] - i) = Items(t)
        /\ pos[2] = i + d.words /\ Items(t)' = Items(t) /\ off \in Nat
    <3>1. Minus(i, tail[t]) \in Nat /\ i \in Nat
      BY <1>1, <1>10 DEF Index
    <3>2. d.words \in Nat
      BY <1>9
    <3> QED
      BY Zenon, <1>5, <1>9, <1>10, <1>13, <3>1, <3>2
  <2> QED
    BY <2>1, <2>3, <2>4, <2>5
<1>19. \A j, k \in 1..End(t)' : j < k => nxt[j] < nxt[k]
  <2> SUFFICES ASSUME NEW j \in 1..End(t)', NEW k \in 1..End(t)', j < k
               PROVE  nxt[j] < nxt[k]
    BY Zenon
  <2>1. pos[j + 1] < pos[k + 1]
    BY <1>7, <1>10, <1>15 DEF Layout
  <2> QED
    <3>1. /\ nxt[j] = pos[j + 1] - off /\ nxt[k] = pos[k + 1] - off
          /\ pos[j + 1] \in Nat /\ pos[k + 1] \in Nat /\ off \in Nat
      BY Zenon, <1>12, <1>13, <1>15
    <3> QED
      BY <2>1, <3>1
<1>20. \A k \in 1..Len(pending'[t]) : FctBefore(t, k)' = FctBefore(t, k + 1)
  <2> SUFFICES ASSUME NEW k \in 1..Len(pending'[t])
               PROVE  FctBefore(t, k)' = FctBefore(t, k + 1)
    BY Zenon
  <2>1. CASE k = 1
    BY SMTT(30), <1>3, <1>4, <1>9, <2>1 DEF FctBefore
  <2>2. CASE k # 1
    <3>1. k - 1 \in 1..Len(pending'[t]) /\ (k - 1) + 1 = k /\ (k + 1) - 1 = k
          /\ k + 1 # 1
      BY SMTT(30), <1>10, <1>11, <2>2
    <3> QED
      BY Zenon, <1>11, <2>2, <3>1 DEF FctBefore
  <2> QED
    BY Zenon, <2>1, <2>2
<1>21. FctBefore(t, End(t))' = FctBefore(t, End(t))
  <2>1. CASE End(t)' = 1
    <3>1. End(t) = 2
      <4>1. PICK n \in Nat : End(t)' = End(t) - 1 /\ End(t) = n + 1
        BY Zenon, <1>10, <1>11
      <4> QED
        BY <2>1, <4>1
    <3> QED
      BY SMTT(30), <1>3, <1>4, <1>9, <2>1, <3>1 DEF FctBefore
  <2>2. CASE End(t)' # 1
    <3>1. End(t)' - 1 \in 1..Len(pending'[t]) /\ (End(t)' - 1) + 1 = End(t) - 1
          /\ End(t) # 1
      <4>1. /\ End(t) \in Nat /\ End(t) >= 2 /\ End(t)' = End(t) - 1
            /\ End(t)' # 1 /\ Len(pending'[t]) = End(t) - 2
        BY <1>9, <1>10, <1>11, <2>2
      <4> QED
        BY <4>1
    <3>2. pending'[t][End(t)' - 1] = pending[t][End(t) - 1]
      BY Zenon, <1>11, <3>1
    <3> QED
      BY Zenon, <2>2, <3>1, <3>2 DEF FctBefore
  <2> QED
    BY ZenonT(60), <2>1, <2>2
<1>22. \A y \in Nat : /\ Slot(y + Modulus) = Slot(y)
                      /\ Slot(y + Modulus + 1) = Slot(y + 1)
                      /\ Slot(y + Modulus + 2) = Slot(y + 2)
  <2> SUFFICES ASSUME NEW y \in Nat
               PROVE  /\ Slot(y + Modulus) = Slot(y)
                      /\ Slot(y + Modulus + 1) = Slot(y + 1)
                      /\ Slot(y + Modulus + 2) = Slot(y + 2)
    OBVIOUS
  <2>1. /\ y + Modulus + 1 = (y + 1) + Modulus /\ y + 1 \in Nat
        /\ y + Modulus + 2 = (y + 2) + Modulus /\ y + 2 \in Nat
    <3>1. Modulus \in Nat
      BY Zenon, Sizes
    <3> QED
      BY <3>1
  <2> QED
    BY Zenon, <2>1, SlotPeriod
<1>23. ASSUME NEW k \in 1..Len(pending'[t])
       PROVE  LET e == DecodeAfter(FctBefore(t, k), t, nxt[k])'
              IN  /\ e.fct = pending'[t][k].fct
                  /\ e.p = pending'[t][k].p
                  /\ nxt[k + 1] = nxt[k] + e.words
  <2>1. k + 1 \in 1..Len(pending[t]) /\ pending'[t][k] = pending[t][k + 1]
    BY Zenon, <1>11
  <2>2. LET e == DecodeAfter(FctBefore(t, k + 1), t, pos[k + 1])
        IN  /\ e.fct = pending[t][k + 1].fct
            /\ e.p = pending[t][k + 1].p
            /\ pos[(k + 1) + 1] = pos[k + 1] + e.words
    BY Zenon, <1>7, <2>1 DEF Layout
  <2>3. /\ nxt[k] = pos[k + 1] - off /\ nxt[k] \in Nat /\ pos[k + 1] \in Nat
        /\ nxt[k + 1] = pos[(k + 1) + 1] - off /\ pos[(k + 1) + 1] \in Nat
    <3>1. k \in 1..End(t)' /\ k + 1 \in 1..End(t)'
      BY SMTT(30), <1>10, <1>11
    <3> QED
      BY Zenon, <1>10, <1>12, <1>13, <1>15, <3>1
  <2>4. /\ Slot(nxt[k]) = Slot(pos[k + 1])
        /\ Slot(nxt[k] + 1) = Slot(pos[k + 1] + 1)
        /\ Slot(nxt[k] + 2) = Slot(pos[k + 1] + 2)
    <3>1. CASE off = 0
      <4>1. nxt[k] = pos[k + 1]
        BY <2>3, <3>1
      <4> QED
        BY <4>1
    <3>2. CASE off = Modulus
      <4>a. pos[k + 1] = nxt[k] + Modulus /\ Modulus \in Nat
        BY <2>3, <3>2, Sizes
      <4> QED
        BY Zenon, <1>22, <2>3, <4>a
    <3> QED
      BY Zenon, <1>a, <3>1, <3>2
  <2>5. DecodeAfter(FctBefore(t, k), t, nxt[k])'
          = DecodeAfter(FctBefore(t, k + 1), t, pos[k + 1])
    BY Zenon, <1>3, <1>20, <2>4 DEF DecodeAfter
  <2>6. DecodeAfter(FctBefore(t, k + 1), t, pos[k + 1]).words \in Nat
    BY Zenon DEF DecodeAfter
  <2> QED
    <3>1. PICK w \in Nat :
            w = DecodeAfter(FctBefore(t, k + 1), t, pos[k + 1]).words
      BY Zenon, <2>6
    <3>2. PICK a \in Nat, b \in Nat, o \in Nat :
            /\ a = pos[k + 1] /\ b = pos[(k + 1) + 1] /\ b = a + w /\ o = off
      BY Zenon, <1>13, <2>2, <2>3, <3>1
    <3>3. b - o = (a - o) + w
      BY <3>2
    <3> QED
      BY Zenon, <2>1, <2>2, <2>3, <2>5, <3>1, <3>2, <3>3
<1>24. Layout(t, nxt)'
  BY Zenon, <1>16, <1>17, <1>18, <1>19, <1>23 DEF Layout
<1>25. Covered(t, nxt)'
  <2> SUFFICES ASSUME NEW k \in 1..Len(todo'), todo'[k] = t
               PROVE  \E n \in 1..End(t)' :
                        /\ Wrap(nxt[n]) = Bound(k)'
                        /\ \A j \in 1..(n - 1) : pending'[t][j].pre \subseteq gpre'
    BY Zenon DEF Covered, Wrap
  <2>1. k = 1
    BY <1>1, <1>2, <1>3 DEF IInv, TodoInv
  <2>2. /\ m - 1 \in 1..End(t)' /\ Wrap(nxt[m - 1]) = upto
        /\ \A j \in 1..((m - 1) - 1) :
             /\ j + 1 \in 1..(m - 1) /\ pending'[t][j] = pending[t][j + 1]
    <3>1. m - 1 \in 1..End(t)' /\ (m - 1) + 1 = m
      BY <1>8, <1>10, <1>11
    <3>2. nxt[m - 1] = pos[m] - off
      BY Zenon, <1>15, <3>1
    <3>3. \A j \in 1..((m - 1) - 1) : j + 1 \in 1..(m - 1) /\ j \in 1..Len(pending'[t])
      BY <1>8, <1>10, <1>11
    <3> QED
      BY Zenon, <1>8, <1>11, <1>13, <3>1, <3>2, <3>3
  <2>3. \A j \in 1..((m - 1) - 1) : pending'[t][j].pre \subseteq gpre'
    BY Zenon, <1>3, <1>8, <2>2
  <2> QED
    BY Zenon, <1>3, <2>1, <2>2, <2>3 DEF Bound
<1>26. Ring(t)'
  BY Zenon, <1>3, <1>4, <1>5, <1>14, <1>21, <1>24, <1>25 DEF Ring
<1> QED
  BY Zenon, <1>5, <1>6, <1>26 DEF RingInv
-----------------------------------------------------------------------------
(* The writing end: a callback is stored; and every step of Defer keeps    *)
(* the ring invariant.                                                     *)

(* What a run makes of a sequence of words, after function last. *)
Read(last, words) ==
  IF DQ_IS_FCT_BIT(words[1])
  THEN [fct |-> DQ_CLEAR_FCT_BIT(words[1]), p |-> words[2], words |-> 2]
  ELSE IF words[1] = DQ_FCT_MARK
       THEN [fct |-> words[2], p |-> words[3], words |-> 3]
       ELSE [fct |-> last, p |-> words[1], words |-> 1]

(* rcu_defer_barrier_queue() reads back what _defer_rcu() has written,     *)
(* whichever of function and data are unaligned or equal to the marker.    *)
LEMMA EncodeRead ==
  ASSUME NEW last \in Nat, NEW f \in Nat, NEW p \in Nat
  PROVE  LET words == Encode(last, f, p)
         IN  /\ Len(words) \in 1..3
             /\ \A k \in 1..Len(words) : words[k] \in Nat
             /\ Read(last, words) = [fct |-> f, p |-> p, words |-> Len(words)]
<1> DEFINE words == Encode(last, f, p)
<1>1. CASE last = f /\ ~DQ_IS_FCT_BIT(p) /\ p # DQ_FCT_MARK
  BY <1>1 DEF Encode, Read
<1>2. CASE /\ ~(last = f /\ ~DQ_IS_FCT_BIT(p) /\ p # DQ_FCT_MARK)
           /\ DQ_IS_FCT_BIT(f) \/ f = DQ_FCT_MARK
  <2>1. words = <<DQ_FCT_MARK, f, p>>
    BY Zenon, <1>2 DEF Encode
  <2>2. DQ_FCT_MARK \in Nat /\ ~DQ_IS_FCT_BIT(DQ_FCT_MARK)
    BY DeferAssumption DEF DQ_IS_FCT_BIT
  <2> QED
    BY <2>1, <2>2 DEF Read
<1>3. CASE /\ ~(last = f /\ ~DQ_IS_FCT_BIT(p) /\ p # DQ_FCT_MARK)
           /\ ~(DQ_IS_FCT_BIT(f) \/ f = DQ_FCT_MARK)
  <2>1. words = <<f + 1, p>>
    BY Zenon, <1>3 DEF Encode, DQ_SET_FCT_BIT
  <2>2. DQ_IS_FCT_BIT(f + 1) /\ DQ_CLEAR_FCT_BIT(f + 1) = f /\ f + 1 \in Nat
    BY <1>3 DEF DQ_IS_FCT_BIT, DQ_CLEAR_FCT_BIT
  <2> QED
    BY <2>1, <2>2 DEF Read
<1> QED
  BY Zenon, <1>1, <1>2, <1>3

(* The words of the new callback are stored past the others. *)
LEMMA EnqueueWords ==
  ASSUME IInv, NEW t \in Threads, Enqueue(t),
         NEW pos \in Positions(t), Layout(t, pos)
  PROVE  LET words == Encode(last_fct_in[t], arg[t][1], arg[t][2])
         IN  /\ arg[t][1] \in Nat /\ arg[t][2] \in Nat
             /\ Len(words) \in 1..3
             /\ Items(t) + 3 <= Size
             /\ \A k \in 1..Len(words) :
                  q'[t][Slot(pos[End(t)] + (k - 1))] = words[k]
             /\ \A x \in Nat : pos[1] <= x /\ x < pos[End(t)] =>
                  q'[t][Slot(x)] = q[t][Slot(x)]
             /\ q'[t] \in [0..(Size - 1) -> Nat]
<1>1. arg[t][1] \in Nat /\ arg[t][2] \in Nat
  BY Zenon, DeferAssumption DEF IInv, ControlInv, Enqueue
<1> DEFINE w == Encode(last_fct_in[t], arg[t][1], arg[t][2])
<1>2. PICK words : words = w
  OBVIOUS
<1>3. /\ Len(words) \in 1..3 /\ \A k \in 1..Len(words) : words[k] \in Nat
  <2>1. last_fct_in[t] \in Nat
    BY Zenon DEF IInv, TypeOK
  <2> QED
    BY Zenon, <1>1, <1>2, <2>1, EncodeRead
<1>4. Items(t) \in Nat /\ Items(t) + 3 <= Size
  <2>1. Items(t) \in Nat
    BY Span DEF Index
  <2>2. Items(t) = 0 \/ Items(t) <= Size - 3
    BY <2>1 DEF IInv, OwnInv, Own, Enqueue
  <2> QED
    BY <2>1, <2>2, Sizes
<1>5. /\ pos[End(t)] \in Nat /\ pos[1] \in Nat /\ pos[1] \in Index
      /\ pos[End(t)] - pos[1] >= 0 /\ pos[End(t)] - pos[1] <= Items(t)
      /\ head[t] \in Index /\ head[t] = Wrap(pos[End(t)])
  <2>1. /\ Len(pending[t]) \in Nat /\ End(t) = Len(pending[t]) + 1
        /\ pos \in [1..End(t) -> Nat] /\ head[t] \in Index /\ pos[1] \in Index
        /\ pos[End(t)] - pos[1] \in 0..Size
        /\ Minus(Cur(t), tail[t]) \in Index
        /\ Minus(Cur(t), tail[t]) + (pos[End(t)] - pos[1]) = Items(t)
    BY Zenon, Span
  <2>2. pos[End(t)] \in Nat /\ pos[1] \in Nat /\ Minus(Cur(t), tail[t]) \in Nat
    BY <2>1 DEF Index
  <2>3. pos[End(t)] - pos[1] >= 0 /\ pos[End(t)] - pos[1] <= Items(t)
    <3>1. PICK a \in Nat, b \in Nat, m \in Nat :
            /\ a = pos[1] /\ b = pos[End(t)] /\ m = Minus(Cur(t), tail[t])
            /\ b - a \in 0..Size /\ m + (b - a) = Items(t)
      BY Zenon, <2>1, <2>2
    <3> QED
      BY <3>1, Sizes
  <2> QED
    BY Zenon, <2>1, <2>2, <2>3 DEF Layout
<1>6. PICK e \in Nat : e = pos[End(t)]
  BY Zenon, <1>5
<1>7. ASSUME NEW n \in 0..2 PROVE Slot(head[t] + n) = Slot(e + n)
  <2>1. CASE e < Modulus
    BY Zenon, <1>5, <1>6, <2>1 DEF Wrap
  <2>2. CASE e >= Modulus
    <3>1. head[t] + n \in Nat /\ (head[t] + n) + Modulus = e + n
      BY <1>5, <1>6, <2>2, Sizes DEF Wrap, Index
    <3> QED
      BY Zenon, <3>1, SlotPeriod
  <2> QED
    BY <1>6, <2>1, <2>2, Sizes
<1>8. \A k \in 1..Len(words) : /\ Slot(head[t] + k - 1) = Slot(e + (k - 1))
                               /\ e + (k - 1) \in Nat
                               /\ Slot(e + (k - 1)) \in 0..(Size - 1)
  <2> SUFFICES ASSUME NEW k \in 1..Len(words)
               PROVE  /\ Slot(head[t] + k - 1) = Slot(e + (k - 1))
                      /\ e + (k - 1) \in Nat
                      /\ Slot(e + (k - 1)) \in 0..(Size - 1)
    OBVIOUS
  <2>1. k - 1 \in 0..2 /\ e + (k - 1) \in Nat /\ head[t] \in Nat
    <3>1. PICK m \in 1..3 : k \in 1..m
      BY Zenon, <1>3
    <3>2. PICK h \in 0..(Modulus - 1) : h = head[t]
      BY Zenon, <1>5 DEF Index
    <3> QED
      BY <1>6, <3>1, <3>2
  <2>2. head[t] + k - 1 = head[t] + (k - 1)
    BY Zenon, <2>1
  <2>3. Slot(e + (k - 1)) \in 0..(Size - 1)
    BY Zenon, <2>1, SlotOf
  <2> QED
    BY Zenon, <1>7, <2>1, <2>2, <2>3
<1>9. q'[t] = [s \in 0..(Size - 1) |->
                 IF \E k \in 1..Len(words) : Slot(head[t] + k - 1) = s
                 THEN words[CHOOSE k \in 1..Len(words) : Slot(head[t] + k - 1) = s]
                 ELSE q[t][s]]
  BY Zenon, <1>2 DEF Enqueue, IInv, TypeOK
<1>10. \A j, k \in 1..Len(words) :
         Slot(head[t] + j - 1) = Slot(head[t] + k - 1) => j = k
  <2> SUFFICES ASSUME NEW j \in 1..Len(words), NEW k \in 1..Len(words), j < k
               PROVE  Slot(head[t] + j - 1) # Slot(head[t] + k - 1)
    BY <1>3
  <2>1. /\ e + (j - 1) \in Nat /\ e + (k - 1) \in Nat
        /\ e + (j - 1) < e + (k - 1) /\ e + (k - 1) < e + (j - 1) + Size
    <3>1. j \in 1..3 /\ k \in 1..3
      BY <1>3
    <3> QED
      BY <3>1, Sizes
  <2>2. Slot(e + (j - 1)) # Slot(e + (k - 1))
    BY Zenon, <2>1, SlotWindow
  <2> QED
    BY Zenon, <1>8, <2>2
<1>11. ASSUME NEW k \in 1..Len(words)
       PROVE  q'[t][Slot(e + (k - 1))] = words[k]
  <2>1. (CHOOSE j \in 1..Len(words) : Slot(head[t] + j - 1) = Slot(e + (k - 1))) = k
    BY Zenon, <1>8, <1>10
  <2> QED
    BY Zenon, <1>8, <1>9, <2>1
<1>12. ASSUME NEW x \in Nat, pos[1] <= x, x < e
       PROVE  q'[t][Slot(x)] = q[t][Slot(x)]
  <2>1. ASSUME NEW k \in 1..Len(words) PROVE Slot(head[t] + k - 1) # Slot(x)
    <3>1. e + (k - 1) \in Nat /\ x < e + (k - 1) /\ e + (k - 1) < x + Size
      <4>1. k \in 1..3
        BY <1>3
      <4>2. PICK a \in Nat, n \in Nat :
              a = pos[1] /\ n = Items(t) /\ n + 3 <= Size /\ e - a <= n
        BY Zenon, <1>4, <1>5, <1>6
      <4> QED
        BY SMTT(30), <1>12, <4>1, <4>2, Sizes
    <3>2. Slot(x) # Slot(e + (k - 1))
      BY Zenon, <3>1, SlotWindow
    <3> QED
      BY Zenon, <1>8, <3>2
  <2>2. Slot(x) \in 0..(Size - 1)
    BY Zenon, SlotOf
  <2> QED
    BY Zenon, <1>9, <2>1, <2>2
<1>13. q'[t] \in [0..(Size - 1) -> Nat]
  <2>1. q[t] \in [0..(Size - 1) -> Nat]
    BY Zenon DEF IInv, TypeOK
  <2> QED
    BY Zenon, <1>3, <1>9, <2>1
<1> QED
  BY Zenon, <1>1, <1>2, <1>3, <1>4, <1>6, <1>11, <1>12, <1>13

(* The new callback is the last of its ring. *)
LEMMA RingEnqueue ==
  ASSUME IInv, NEW t \in Threads, Enqueue(t)
  PROVE  /\ RingInv'
         /\ \A o \in Threads : o # t => Items(o)' = Items(o)
<1>1. Ring(t) /\ pending[t] \in Seq(Callback) /\ pending \in [Threads -> Seq(Callback)]
  BY Zenon DEF IInv, RingInv, TypeOK
<1>2. PICK pos \in Positions(t) : Layout(t, pos) /\ Covered(t, pos)
  BY Zenon, <1>1 DEF Ring
<1>3. PICK words, f, p : /\ words = Encode(last_fct_in[t], f, p)
                         /\ f = arg[t][1] /\ p = arg[t][2]
  OBVIOUS
<1>4. PICK e, n : e = End(t) /\ n = Len(words)
  BY Zenon
<1>5. /\ f \in Nat /\ p \in Nat /\ n \in 1..3 /\ Items(t) + 3 <= Size
      /\ \A k \in 1..n : q'[t][Slot(pos[e] + (k - 1))] = words[k]
      /\ \A x \in Nat : pos[1] <= x /\ x < pos[e] => q'[t][Slot(x)] = q[t][Slot(x)]
  BY Zenon, <1>2, <1>3, <1>4, EnqueueWords
<1>6. /\ last_fct_in' = [last_fct_in EXCEPT ![t] = f]
      /\ head' = [head EXCEPT ![t] = Plus(@, n)]
      /\ pending' = [pending EXCEPT ![t] =
                       Append(@, [fct |-> f, p |-> p, pre |-> cs])]
      /\ UNCHANGED <<tail, last_fct_out, last_head, todo, i, upto, gpre>>
  BY Zenon, <1>3, <1>4 DEF Enqueue, runVars
<1>7. /\ head \in [Threads -> Index] /\ last_fct_in \in [Threads -> Nat]
      /\ q \in [Threads -> [0..(Size - 1) -> Nat]]
  BY Zenon DEF IInv, TypeOK
<1>8. ASSUME NEW o \in Threads, o # t PROVE Ring(o)' /\ Items(o)' = Items(o)
  <2>1. /\ head'[o] = head[o] /\ last_fct_in'[o] = last_fct_in[o]
        /\ pending'[o] = pending[o]
    BY Zenon, <1>1, <1>6, <1>7, <1>8
  <2>2. q'[o] = q[o]
    BY Zenon, <1>7, <1>8 DEF Enqueue
  <2>3. Cur(o)' = Cur(o) /\ \A k \in 1..Len(todo') : Bound(k)' = Bound(k)
    BY Zenon, <1>6 DEF Cur, Bound
  <2>4. Ring(o)'
    BY Zenon, <1>6, <2>1, <2>2, <2>3, RingFrame
  <2> QED
    BY Zenon, <1>6, <2>1, <2>4 DEF Items
<1>9. /\ e = Len(pending[t]) + 1 /\ e \in Nat /\ pos \in [1..e -> Nat]
      /\ pos[1] \in Index /\ pos[1] = Cur(t)
      /\ head[t] \in Index /\ tail[t] \in Index
      /\ Items(t) \in Index /\ Minus(Cur(t), tail[t]) \in Index
      /\ \A k \in 1..e : pos[1] <= pos[k] /\ pos[k] <= pos[e]
      /\ Minus(Cur(t), tail[t]) + (pos[e] - pos[1]) = Items(t)
      /\ pos[e] - pos[1] \in 0..Size
  BY SMTT(30), <1>2, <1>4, Span
<1>10. pos[e] \in Nat /\ pos[1] \in Nat /\ e \in 1..e /\ 1 \in 1..e
  BY SMTT(30), <1>1, <1>9
<1>11. /\ Len(pending'[t]) = e /\ pending'[t][e] = [fct |-> f, p |-> p, pre |-> cs]
       /\ \A k \in 1..Len(pending[t]) : pending'[t][k] = pending[t][k]
       /\ End(t)' = e + 1
  <2>1. pending'[t] = Append(pending[t], [fct |-> f, p |-> p, pre |-> cs])
    BY Zenon, <1>1, <1>6
  <2>2. /\ Len(pending'[t]) = e /\ pending'[t][e] = [fct |-> f, p |-> p, pre |-> cs]
        /\ \A k \in 1..Len(pending[t]) : pending'[t][k] = pending[t][k]
    BY <1>1, <1>9, <2>1
  <2> QED
    BY Zenon, <2>2 DEF End
<1>12. PICK nxt : nxt = [k \in 1..(e + 1) |-> IF k = e + 1 THEN pos[e] + n ELSE pos[k]]
  BY Zenon
<1>13. /\ nxt \in Positions(t)' /\ nxt[e + 1] = pos[e] + n
       /\ \A k \in 1..e : nxt[k] = pos[k]
  <2>1. \A k \in 1..(e + 1) : k # e + 1 => k \in 1..e
    BY <1>9
  <2>2. pos[e] + n \in Nat
    BY <1>5, <1>10
  <2>3. nxt \in [1..(e + 1) -> Nat]
    BY Zenon, <1>9, <1>12, <2>1, <2>2
  <2>4. e + 1 \in 1..(e + 1) /\ \A k \in 1..e : k \in 1..(e + 1) /\ k # e + 1
    BY <1>9
  <2> QED
    BY Zenon, <1>11, <1>12, <2>3, <2>4 DEF Positions
<1>14. Cur(t)' = Cur(t) /\ head'[t] = Plus(head[t], n)
  BY Zenon, <1>6, <1>7 DEF Cur
<1>15. Items(t)' = Items(t) + n /\ Items(t)' <= Size
  <2>1. Items(t) \in Nat /\ n \in Nat /\ Minus(head[t], tail[t]) + n < Modulus
    BY SMTT(30), <1>5, <1>9, Sizes DEF Index, Items
  <2>2. Minus(Plus(head[t], n), tail[t]) = Minus(head[t], tail[t]) + n
    BY ZenonT(60), <1>9, <2>1, MinusPlus
  <2>3. Items(t)' = Items(t) + n
    BY Zenon, <1>6, <1>14, <2>2 DEF Items
  <2> QED
    BY <1>5, <2>1, <2>3, Sizes
<1>16. head'[t] = Wrap(nxt[End(t)'])
  <2>1. head[t] = Wrap(pos[e])
    BY Zenon, <1>2, <1>4 DEF Layout
  <2>2. pos[e] <= pos[1] + Size /\ pos[1] < Modulus /\ pos[e] + n <= pos[1] + Size
    <3>1. PICK a \in Nat, b \in Nat, m \in Nat, s \in Nat :
            /\ a = pos[1] /\ b = pos[e] /\ m = Minus(Cur(t), tail[t]) /\ s = Items(t)
            /\ m + (b - a) = s /\ s + 3 <= Size /\ a < Modulus
      <4>1. \A x \in Index : x \in Nat /\ x < Modulus
        BY Sizes DEF Index
      <4> QED
        BY Zenon, <1>5, <1>9, <1>10, <4>1
    <3> QED
      BY <1>5, <3>1, Sizes
  <2>3. Plus(Wrap(pos[e]), n) = Wrap(pos[e] + n)
    <3>1. PICK a \in Nat, b \in Nat : /\ a = pos[1] /\ b = pos[e]
      BY Zenon, <1>10
    <3>2. PICK k \in Nat : k = n /\ b + k <= a + Size /\ a < Modulus
      BY <1>5, <2>2, <3>1
    <3>3. Plus(Wrap(b), n) = Wrap(b + n)
      BY ZenonT(30), <3>2, PlusWrap
    <3> QED
      BY Zenon, <3>1, <3>3
  <2> QED
    BY Zenon, <1>11, <1>13, <1>14, <2>1, <2>3
<1>17. Items(t)' = Minus(Cur(t), tail[t])' + nxt[End(t)'] - nxt[1]
  <2>1. Minus(Cur(t), tail[t])' = Minus(Cur(t), tail[t])
    BY Zenon, <1>6, <1>14 DEF Minus
  <2>2. nxt[End(t)'] = pos[e] + n /\ nxt[1] = pos[1]
    BY Zenon, <1>10, <1>11, <1>13
  <2>3. Minus(Cur(t), tail[t]) \in Nat
    BY <1>9 DEF Index
  <2> QED
    <3>1. n \in Nat
      BY <1>5
    <3>2. PICK a \in Nat, b \in Nat, m \in Nat, s \in Nat :
            /\ a = pos[1] /\ b = pos[e] /\ m = Minus(Cur(t), tail[t]) /\ s = Items(t)
            /\ m + (b - a) = s
      <4>1. Items(t) \in Nat
        BY <1>9 DEF Index
      <4> QED
        BY Zenon, <1>9, <1>10, <2>3, <4>1
    <3>3. s + n = m + (b + n) - a
      BY <3>1, <3>2
    <3> QED
      BY Zenon, <1>15, <2>1, <2>2, <3>2, <3>3
<1>18. \A j, k \in 1..End(t)' : j < k => nxt[j] < nxt[k]
  <2> SUFFICES ASSUME NEW j \in 1..(e + 1), NEW k \in 1..(e + 1), j < k
               PROVE  nxt[j] < nxt[k]
    BY Zenon, <1>11
  <2>1. j \in 1..e /\ nxt[j] = pos[j] /\ pos[j] \in Nat /\ pos[j] <= pos[e]
    <3>1. j \in 1..e
      BY <1>9
    <3> QED
      BY Zenon, <1>9, <1>13, <3>1
  <2>2. CASE k = e + 1
    BY <1>5, <1>10, <1>13, <2>1, <2>2
  <2>3. CASE k # e + 1
    <3>1. k \in 1..e
      BY <1>9, <2>3
    <3>2. pos[j] < pos[k]
      BY Zenon, <1>2, <1>4, <2>1, <3>1 DEF Layout
    <3> QED
      BY Zenon, <1>13, <2>1, <3>1, <3>2
  <2> QED
    BY Zenon, <2>2, <2>3
<1>19. \A k \in 1..e : FctBefore(t, k)' = FctBefore(t, k)
  <2> SUFFICES ASSUME NEW k \in 1..e PROVE FctBefore(t, k)' = FctBefore(t, k)
    OBVIOUS
  <2>1. CASE k = 1
    BY Zenon, <1>6, <2>1 DEF FctBefore
  <2>2. CASE k # 1
    <3>1. Len(pending[t]) \in Nat /\ k \in 1..(Len(pending[t]) + 1)
      BY <1>9
    <3>2. k - 1 \in 1..Len(pending[t])
      BY Zenon, <2>2, <3>1, Before
    <3> QED
      BY Zenon, <1>11, <2>2, <3>2 DEF FctBefore
  <2> QED
    BY Zenon, <2>1, <2>2
<1>20. last_fct_in'[t] = FctBefore(t, End(t))'
  <2>1. last_fct_in'[t] = f
    BY Zenon, <1>6, <1>7
  <2>2. End(t)' # 1 /\ End(t)' - 1 = e
    BY <1>9, <1>11
  <2> QED
    BY <1>11, <2>1, <2>2 DEF FctBefore
<1>21. ASSUME NEW k \in 1..Len(pending[t])
       PROVE  LET d == DecodeAfter(FctBefore(t, k), t, nxt[k])'
              IN  /\ d.fct = pending'[t][k].fct
                  /\ d.p = pending'[t][k].p
                  /\ nxt[k + 1] = nxt[k] + d.words
  <2>1. k \in 1..e /\ k + 1 \in 1..e /\ k < k + 1
    BY <1>1, <1>9
  <2>2. PICK d : d = DecodeAfter(FctBefore(t, k), t, pos[k])
    OBVIOUS
  <2>3. /\ d.fct = pending[t][k].fct /\ d.p = pending[t][k].p
        /\ pos[k + 1] = pos[k] + d.words
    BY Zenon, <1>2, <2>2 DEF Layout
  <2>4. PICK a \in Nat, b \in Nat, c \in Nat :
          /\ a = pos[1] /\ b = pos[k] /\ c = pos[e] /\ a <= b
          /\ b + d.words <= c /\ d.words \in 1..3
    <3>1. d.words \in 1..3
      BY <2>2 DEF DecodeAfter
    <3> QED
      BY Zenon, <1>9, <1>10, <2>1, <2>3, <3>1
  <2>5. \A x \in Nat : a <= x /\ x < c => q'[t][Slot(x)] = q[t][Slot(x)]
    BY Zenon, <1>5, <2>4
  <2>6. q'[t][Slot(b)] = q[t][Slot(b)]
    BY <2>4, <2>5
  <2>7. d.words >= 2 => q'[t][Slot(b + 1)] = q[t][Slot(b + 1)]
    <3>1. d.words >= 2 => b + 1 \in Nat /\ a <= b + 1 /\ b + 1 < c
      <4>1. a <= b /\ b + d.words <= c /\ d.words \in 1..3
        BY Zenon, <2>4
      <4> QED
        BY <4>1
    <3> QED
      BY Zenon, <2>5, <3>1
  <2>8. d.words = 3 => q'[t][Slot(b + 2)] = q[t][Slot(b + 2)]
    <3>1. d.words = 3 => b + 2 \in Nat /\ a <= b + 2 /\ b + 2 < c
      <4>1. a <= b /\ b + d.words <= c /\ d.words \in 1..3
        BY Zenon, <2>4
      <4> QED
        BY <4>1
    <3> QED
      BY Zenon, <2>5, <3>1
  <2>9. nxt[k] = b /\ FctBefore(t, k)' = FctBefore(t, k)
    BY Zenon, <1>13, <1>19, <2>1, <2>4
  <2>a. 2 >= 2 /\ 3 >= 2 /\ 1 # 2 /\ 1 # 3 /\ 2 # 3
    OBVIOUS
  <2>10. DecodeAfter(FctBefore(t, k), t, nxt[k])' = d
    <3>1. d = DecodeAfter(FctBefore(t, k), t, b)
      BY Zenon, <2>2, <2>4
    <3>2. CASE d.words = 1
      BY Zenon, <2>6, <2>9, <2>a, <3>1, <3>2 DEF DecodeAfter
    <3>3. CASE d.words = 2
      BY Zenon, <2>6, <2>7, <2>9, <2>a, <3>1, <3>3 DEF DecodeAfter
    <3>4. CASE d.words = 3
      BY ZenonT(30), <2>6, <2>7, <2>8, <2>9, <2>a, <3>1, <3>4 DEF DecodeAfter
    <3> QED
      BY <2>4, <3>2, <3>3, <3>4
  <2> QED
    BY Zenon, <1>11, <1>13, <2>1, <2>3, <2>4, <2>10
<1>22. LET d == DecodeAfter(FctBefore(t, e), t, nxt[e])'
       IN  /\ d.fct = pending'[t][e].fct
           /\ d.p = pending'[t][e].p
           /\ nxt[e + 1] = nxt[e] + d.words
  <2>1. PICK l : l = last_fct_in[t]
    OBVIOUS
  <2>2. FctBefore(t, e)' = l /\ l \in Nat
    BY Zenon, <1>1, <1>4, <1>7, <1>10, <1>19, <2>1 DEF Ring
  <2>3. Read(l, words) = [fct |-> f, p |-> p, words |-> n]
    <3>1. words = Encode(l, f, p) /\ n = Len(words) /\ f \in Nat /\ p \in Nat
      BY Zenon, <1>3, <1>4, <1>5, <2>1
    <3>2. /\ Len(Encode(l, f, p)) \in 1..3
          /\ Read(l, Encode(l, f, p))
               = [fct |-> f, p |-> p, words |-> Len(Encode(l, f, p))]
      BY Zenon, <2>2, <3>1, EncodeRead
    <3> QED
      BY Zenon, <3>1, <3>2
  <2>4. PICK c \in Nat : c = pos[e] /\ nxt[e] = c
    BY Zenon, <1>10, <1>13
  <2>5. /\ q'[t][Slot(c)] = words[1]
        /\ n >= 2 => q'[t][Slot(c + 1)] = words[2]
        /\ n = 3 => q'[t][Slot(c + 2)] = words[3]
    <3>1. /\ 1 \in 1..n /\ c + (1 - 1) = c
          /\ n >= 2 => 2 \in 1..n /\ c + (2 - 1) = c + 1
          /\ n = 3 => 3 \in 1..n /\ c + (3 - 1) = c + 2
      BY SMTT(30), <1>5, <2>4
    <3>2. \A k \in 1..n : q'[t][Slot(c + (k - 1))] = words[k]
      BY Zenon, <1>5, <2>4
    <3>3. q'[t][Slot(c)] = words[1]
      BY Zenon, <3>1, <3>2
    <3>4. n >= 2 => q'[t][Slot(c + 1)] = words[2]
      BY Zenon, <3>1, <3>2
    <3>5. n = 3 => q'[t][Slot(c + 2)] = words[3]
      BY Zenon, <3>1, <3>2
    <3> QED
      BY Zenon, <3>3, <3>4, <3>5
  <2>6. DecodeAfter(FctBefore(t, e), t, nxt[e])' = Read(l, words)
    <3>a. 2 >= 2 /\ 3 >= 2 /\ 1 # 2 /\ 1 # 3 /\ 2 # 3
      OBVIOUS
    <3>0. Read(l, words).words = n
      <4>1. PICK d : d = Read(l, words)
        BY Zenon
      <4>2. d = [fct |-> f, p |-> p, words |-> n]
        BY Zenon, <2>3, <4>1
      <4>3. d.words = n
        BY Zenon, <4>2
      <4> QED
        BY Zenon, <4>1, <4>3
    <3>1. CASE n = 1
      BY Zenon, <2>2, <2>4, <2>5, <3>0, <3>a, <3>1 DEF DecodeAfter, Read
    <3>2. CASE n = 2
      BY Zenon, <2>2, <2>4, <2>5, <3>0, <3>a, <3>2 DEF DecodeAfter, Read
    <3>3. CASE n = 3
      BY Zenon, <2>2, <2>4, <2>5, <3>0, <3>a, <3>3 DEF DecodeAfter, Read
    <3>4. n = 1 \/ n = 2 \/ n = 3
      BY SMTT(30), <1>5
    <3> QED
      BY Zenon, <3>1, <3>2, <3>3, <3>4
  <2>7. PICK d : d = DecodeAfter(FctBefore(t, e), t, nxt[e])'
    OBVIOUS
  <2>8. d = [fct |-> f, p |-> p, words |-> n]
    BY Zenon, <2>3, <2>6, <2>7
  <2>9. nxt[e + 1] = nxt[e] + n
    BY Zenon, <1>13, <2>4
  <2>10. pending'[t][e].fct = f /\ pending'[t][e].p = p
    BY <1>11
  <2> QED
    <3>1. d.fct = f /\ d.p = p /\ d.words = n
      BY Zenon, <2>8
    <3> QED
      BY Zenon, <2>7, <2>9, <2>10, <3>1
<1>23. Layout(t, nxt)'
  <2>1. \A k \in 1..Len(pending'[t]) : k = e \/ k \in 1..Len(pending[t])
    BY SMTT(30), <1>9, <1>11
  <2>2. nxt[1] = Cur(t)'
    BY Zenon, <1>9, <1>10, <1>13, <1>14
  <2> QED
    BY Zenon, <1>16, <1>17, <1>18, <1>21, <1>22, <2>1, <2>2 DEF Layout
<1>24. Covered(t, nxt)'
  <2> SUFFICES ASSUME NEW k \in 1..Len(todo'), todo'[k] = t
               PROVE  \E m \in 1..(e + 1) :
                        /\ Wrap(nxt[m]) = Bound(k)'
                        /\ \A j \in 1..(m - 1) : pending'[t][j].pre \subseteq gpre'
    BY Zenon, <1>11 DEF Covered, Wrap
  <2>1. PICK m \in 1..e : /\ Wrap(pos[m]) = Bound(k)
                          /\ \A j \in 1..(m - 1) : pending[t][j].pre \subseteq gpre
    BY Zenon, <1>2, <1>4, <1>6 DEF Covered
  <2>2. m \in 1..(e + 1) /\ nxt[m] = pos[m] /\ Bound(k)' = Bound(k)
    BY SMTT(30), <1>6, <1>9, <1>13 DEF Bound
  <2>3. \A j \in 1..(m - 1) : j \in 1..Len(pending[t])
    BY SMTT(30), <1>9
  <2> QED
    BY ZenonT(60), <1>6, <1>11, <2>1, <2>2, <2>3
<1>25. Ring(t)'
  BY Zenon, <1>13, <1>15, <1>20, <1>23, <1>24 DEF Ring
<1> QED
  BY Zenon, <1>8, <1>25 DEF RingInv

(* A section ends: nothing but the sections to outlast changes. *)
LEMMA RingUnlock ==
  ASSUME IInv, NEW r \in Readers, ReadUnlock(r)
  PROVE  RingInv' /\ \A o \in Threads : Items(o)' = Items(o)
<1>1. /\ gpre' = gpre \ {r}
      /\ UNCHANGED <<head, tail, last_fct_in, last_fct_out, last_head, q, todo, i, upto>>
  BY Zenon DEF ReadUnlock, queueVars, runVars
<1>2. \A o \in Threads : Items(o)' = Items(o)
  BY Zenon, <1>1 DEF Items
<1>3. ASSUME NEW t \in Threads PROVE Ring(t)'
  <2>1. Ring(t) /\ pending[t] \in Seq(Callback)
    BY Zenon DEF IInv, RingInv, TypeOK
  <2>2. PICK pos \in Positions(t) : Layout(t, pos) /\ Covered(t, pos)
    BY Zenon, <2>1 DEF Ring
  <2>3. pending'[t] = [k \in 1..Len(pending[t]) |->
                         [pending[t][k] EXCEPT !.pre = @ \ {r}]]
    BY Zenon DEF ReadUnlock
  <2>4. Len(pending'[t]) = Len(pending[t])
    BY <2>1, <2>3
  <2>5. ASSUME NEW k \in 1..Len(pending[t])
        PROVE  /\ pending'[t][k].fct = pending[t][k].fct
               /\ pending'[t][k].p = pending[t][k].p
               /\ pending'[t][k].pre = pending[t][k].pre \ {r}
    <3>1. pending[t][k] \in Callback
      BY <2>1
    <3>2. pending'[t][k] = [pending[t][k] EXCEPT !.pre = @ \ {r}]
      BY Zenon, <2>3
    <3> QED
      BY Zenon, <3>1, <3>2 DEF Callback
  <2>6. Cur(t)' = Cur(t) /\ \A k \in 1..Len(todo) : Bound(k)' = Bound(k)
    BY Zenon, <1>1 DEF Cur, Bound
  <2>7. Layout(t, pos)' /\ End(t)' = End(t) /\ Items(t)' = Items(t)
    BY Zenon, <1>1, <2>1, <2>2, <2>4, <2>5, <2>6, LayoutKept
  <2>8. End(t) = Len(pending[t]) + 1 /\ Len(pending[t]) \in Nat
    BY <2>1 DEF End
  <2>9. FctBefore(t, End(t))' = FctBefore(t, End(t)) /\ Positions(t)' = Positions(t)
    <3>1. End(t) # 1 => End(t) - 1 \in 1..Len(pending[t])
      BY <2>8
    <3> QED
      BY Zenon, <1>1, <2>4, <2>5, <2>7, <3>1 DEF FctBefore, Positions
  <2>10. Covered(t, pos)'
    <3> SUFFICES ASSUME NEW k \in 1..Len(todo), todo[k] = t
                 PROVE  \E m \in 1..End(t) :
                          /\ Wrap(pos[m]) = Bound(k)
                          /\ \A j \in 1..(m - 1) : pending'[t][j].pre \subseteq gpre'
      BY Zenon, <1>1, <2>6, <2>7 DEF Covered, Wrap
    <3>1. PICK m \in 1..End(t) :
            /\ Wrap(pos[m]) = Bound(k)
            /\ \A j \in 1..(m - 1) : pending[t][j].pre \subseteq gpre
      BY Zenon, <2>2 DEF Covered
    <3>2. \A j \in 1..(m - 1) : j \in 1..Len(pending[t])
      BY <2>8
    <3> QED
      BY <1>1, <2>5, <3>1, <3>2
  <2> QED
    BY Zenon, <1>1, <2>1, <2>2, <2>7, <2>9, <2>10 DEF Ring
<1> QED
  BY Zenon, <1>2, <1>3 DEF RingInv

(* Starting a run, by whichever of the barriers. *)
LEMMA RingStart ==
  ASSUME IInv, \/ \E t \in Threads : BarrierThreadLock(t) \/ UnregisterLock(t)
               \/ \E x \in Procs : BarrierLock(x)
  PROVE  /\ RingInv' /\ \A o \in Threads : Items(o)' = Items(o)
         /\ todo = <<>> /\ todo' \in Seq(Threads)
         /\ \A k \in 1..Len(todo') : Bound(k)' = head[todo'[k]]
         /\ UNCHANGED <<head, tail, last_fct_in, last_fct_out, q, pending>>
<1>1. todo = <<>> /\ registry \in Seq(Threads)
  BY Zenon, TodoFree DEF BarrierThreadLock, UnregisterLock, BarrierLock, IInv, TypeOK
<1>2. UNCHANGED <<head, tail, last_fct_in, last_fct_out, q, pending>>
  BY Zenon DEF BarrierThreadLock, UnregisterLock, BarrierLock, queueVars, hist
<1>3. ASSUME NEW t \in Threads, BarrierThreadLock(t) \/ UnregisterLock(t)
      PROVE  /\ \/ todo' = <<>>
                \/ todo' = <<t>> /\ i' = tail[t] /\ gpre' = cs
             /\ todo' # <<>> => upto' = head[t]
  <2>1. CASE Items(t) = 0
    <3>1. todo' = todo
      BY Zenon, <1>3, <2>1 DEF BarrierThreadLock, UnregisterLock, runVars
    <3> QED
      BY Zenon, <1>1, <3>1
  <2>2. CASE Items(t) # 0
    BY Zenon, <1>1, <1>3, <2>2 DEF BarrierThreadLock, UnregisterLock, runVars
  <2> QED
    BY <2>1, <2>2
<1>4. ASSUME NEW x \in Procs, BarrierLock(x)
      PROVE  /\ \/ todo' = <<>>
                \/ todo' = registry /\ i' = tail[registry[1]] /\ gpre' = cs
             /\ todo' # <<>> => upto' = head[registry[1]]
             /\ \A t \in Registered : last_head'[t] = head[t]
  <2>1. \A t \in Registered : last_head'[t] = head[t]
    BY <1>1, <1>4 DEF BarrierLock, Registered
  <2>2. CASE \A t \in Registered : Items(t) = 0
    BY Zenon, <1>1, <1>4, <2>1, <2>2 DEF BarrierLock, runVars
  <2>3. CASE ~\A t \in Registered : Items(t) = 0
    BY Zenon, <1>1, <1>4, <2>1, <2>3 DEF BarrierLock, runVars
  <2> QED
    BY Zenon, <2>2, <2>3
<1> DEFINE Started == /\ todo' \in Seq(Threads)
                      /\ todo' # <<>> => i' = tail[todo'[1]] /\ gpre' = cs
                      /\ \A k \in 1..Len(todo') : Bound(k)' = head[todo'[k]]
<1>5. Started
  <2>1. CASE todo' = <<>>
    <3>1. <<>> \in Seq(Threads) /\ 1..Len(<<>>) = {}
      BY Zenon, EmptySeq
    <3> QED
      BY Zenon, <2>1, <3>1
  <2>2. ASSUME NEW t \in Threads, BarrierThreadLock(t) \/ UnregisterLock(t),
               todo' # <<>>
        PROVE  Started
    <3>1. todo' = <<t>> /\ i' = tail[t] /\ gpre' = cs /\ upto' = head[t]
      BY Zenon, <1>3, <2>2
    <3>2. \A k \in 1..Len(todo') : k = 1 /\ todo'[k] = t
      BY SMTT(30), <3>1
    <3> QED
      BY SMTT(30), <3>1, <3>2 DEF Bound
  <2>3. ASSUME NEW x \in Procs, BarrierLock(x), todo' # <<>> PROVE Started
    <3>1. /\ todo' = registry /\ i' = tail[registry[1]] /\ gpre' = cs
          /\ upto' = head[registry[1]]
      BY Zenon, <1>4, <2>3
    <3>2. \A k \in 1..Len(todo') : last_head'[todo'[k]] = head[todo'[k]]
      BY Zenon, <1>4, <2>3, <3>1 DEF Registered
    <3> QED
      BY Zenon, <1>1, <3>1, <3>2 DEF Bound
  <2> QED
    BY Zenon, <2>1, <2>2, <2>3
<1>6. RingInv'
  BY Zenon, <1>1, <1>2, <1>5, RingStarted
<1>7. \A o \in Threads : Items(o)' = Items(o)
  BY Zenon, <1>2 DEF Items
<1> QED
  BY Zenon, <1>1, <1>2, <1>5, <1>6, <1>7

(* Rings hold their callbacks, in order. *)
LEMMA RingStep == IInv /\ [Next]_vars => RingInv'
<1> SUFFICES ASSUME IInv, [Next]_vars PROVE RingInv'
  OBVIOUS
<1>1. CASE ~RingSteps
  <2> SUFFICES ASSUME NEW t \in Threads PROVE Ring(t)'
    BY Zenon DEF RingInv
  <2>1. UNCHANGED <<queueVars, todo, i, upto, gpre, pending>>
    BY Zenon, <1>1, RingKept
  <2>2. Cur(t)' = Cur(t) /\ \A k \in 1..Len(todo) : Bound(k)' = Bound(k)
    BY Zenon, <2>1 DEF Cur, Bound, queueVars
  <2> QED
    BY Zenon, <2>1, <2>2, RingFrame DEF queueVars
<1> QED
  BY Zenon, <1>1, RingUnlock, RingEnqueue, RingStart, RingRun, RingDone DEF RingSteps

(* A ring fills only when its own thread stores a callback. *)
LEMMA ItemsStep ==
  ASSUME IInv, [Next]_vars, NEW o \in Threads, ~Enqueue(o), Items(o)' # 0
  PROVE  Items(o) # 0
<1>1. CASE ~RingSteps
  BY Zenon, <1>1, RingKept DEF Items, queueVars
<1>2. ASSUME NEW t \in Threads, Enqueue(t) PROVE Items(o)' = Items(o)
  BY Zenon, <1>2, RingEnqueue
<1>3. ASSUME NEW x \in Procs, QueueDone(x) PROVE Items(o) # 0
  <2>1. Items(o)' \in Nat /\ Items(o) \in Nat
    <3>1. /\ head[o] \in Index /\ tail[o] \in Index /\ head'[o] = head[o]
          /\ tail'[o] \in Index
      BY Zenon, <1>3 DEF QueueDone, IInv, TypeOK
    <3> QED
      <4>1. Items(o) \in Index /\ Items(o)' \in Index
        BY Zenon, <3>1, Circle DEF Items
      <4> QED
        BY <4>1 DEF Index
  <2> QED
    BY <1>3, <2>1, RingDone
<1> QED
  BY Zenon, <1>1, <1>2, <1>3, RingUnlock, RingStart, RingRun DEF RingSteps

(* Types of the rings and of what is to be run. *)
LEMMA TypeRing ==
  ASSUME IInv, [Next]_vars
  PROVE  /\ head' \in [Threads -> Index] /\ tail' \in [Threads -> Index]
         /\ last_head' \in [Threads -> Index]
         /\ last_fct_in' \in [Threads -> Nat] /\ last_fct_out' \in [Threads -> Nat]
         /\ q' \in [Threads -> [0..(Size - 1) -> Nat]]
         /\ todo' \in Seq(Threads) /\ i' \in Index /\ upto' \in Index
         /\ gpre' \in SUBSET Readers
         /\ pending' \in [Threads -> Seq(Callback)]
<1> DEFINE Type == /\ head \in [Threads -> Index] /\ tail \in [Threads -> Index]
                   /\ last_head \in [Threads -> Index]
                   /\ last_fct_in \in [Threads -> Nat]
                   /\ last_fct_out \in [Threads -> Nat]
                   /\ q \in [Threads -> [0..(Size - 1) -> Nat]]
                   /\ todo \in Seq(Threads) /\ i \in Index /\ upto \in Index
                   /\ gpre \in SUBSET Readers
                   /\ pending \in [Threads -> Seq(Callback)]
<1>t. Type /\ registry \in Seq(Threads) /\ cs \in SUBSET Readers
  BY Zenon DEF IInv, TypeOK
<1>1. CASE ~RingSteps
  BY Zenon, <1>t, <1>1, RingKept DEF queueVars
<1>2. ASSUME NEW r \in Readers, ReadUnlock(r) PROVE Type'
  <2>1. pending' \in [Threads -> Seq(Callback)]
    <3> SUFFICES ASSUME NEW t \in Threads PROVE pending'[t] \in Seq(Callback)
      BY Zenon, <1>2 DEF ReadUnlock
    <3>1. pending[t] \in Seq(Callback)
      BY Zenon, <1>t
    <3>2. \A k \in 1..Len(pending[t]) :
            [pending[t][k] EXCEPT !.pre = @ \ {r}] \in Callback
      <4>1. \A k \in 1..Len(pending[t]) : pending[t][k] \in Callback
        BY <3>1
      <4> QED
        BY Zenon, <4>1 DEF Callback
    <3>3. pending'[t] = [k \in 1..Len(pending[t]) |->
                           [pending[t][k] EXCEPT !.pre = @ \ {r}]]
      BY Zenon, <1>2 DEF ReadUnlock
    <3> QED
      BY <3>1, <3>2, <3>3
  <2> QED
    BY Zenon, <1>t, <1>2, <2>1 DEF ReadUnlock, queueVars, runVars
<1>3. ASSUME NEW t \in Threads, Enqueue(t) PROVE Type'
  <2>1. PICK pos \in Positions(t) : Layout(t, pos)
    BY Zenon DEF IInv, RingInv, Ring
  <2>2. PICK words : words = Encode(last_fct_in[t], arg[t][1], arg[t][2])
    OBVIOUS
  <2>3. /\ arg[t][1] \in Nat /\ arg[t][2] \in Nat /\ Len(words) \in 1..3
        /\ Items(t) + 3 <= Size
        /\ q'[t] \in [0..(Size - 1) -> Nat]
    BY Zenon, <1>3, <2>1, <2>2, EnqueueWords
  <2>4. Plus(head[t], Len(words)) \in Index
    <3>1. Len(words) \in 0..(Modulus - 1)
      <4>1. PICK n \in 1..3 : n = Len(words)
        BY Zenon, <2>3
      <4>2. n \in 0..(Modulus - 1)
        BY Sizes
      <4> QED
        BY Zenon, <4>1, <4>2
    <3> QED
      BY ZenonT(60), <1>t, <3>1, Ahead
  <2>5. head' \in [Threads -> Index]
    BY Zenon, <1>t, <1>3, <2>2, <2>4 DEF Enqueue
  <2>6. q' \in [Threads -> [0..(Size - 1) -> Nat]]
    <3>1. \E y : q' = [q EXCEPT ![t] = y]
      BY Zenon, <1>3 DEF Enqueue
    <3> QED
      BY Zenon, <1>t, <2>3, <3>1
  <2>7. last_fct_in' \in [Threads -> Nat]
    BY Zenon, <1>t, <1>3, <2>3 DEF Enqueue
  <2>8. pending' \in [Threads -> Seq(Callback)]
    <3>1. [fct |-> arg[t][1], p |-> arg[t][2], pre |-> cs] \in Callback
      BY Zenon, <1>t, <2>3 DEF Callback
    <3>2. Append(pending[t], [fct |-> arg[t][1], p |-> arg[t][2], pre |-> cs])
            \in Seq(Callback)
      BY Zenon, <1>t, <3>1, AppendOf
    <3> QED
      BY Zenon, <1>t, <1>3, <3>2 DEF Enqueue
  <2> QED
    BY Zenon, <1>t, <1>3, <2>5, <2>6, <2>7, <2>8 DEF Enqueue, runVars
<1>4. CASE \/ \E t \in Threads : BarrierThreadLock(t) \/ UnregisterLock(t)
           \/ \E x \in Procs : BarrierLock(x)
  <2>1. /\ todo' \in Seq(Threads)
        /\ UNCHANGED <<head, tail, last_fct_in, last_fct_out, q, pending>>
    BY Zenon, <1>4, RingStart
  <2>2. last_head' \in [Threads -> Index]
    BY Zenon, <1>t, <1>4 DEF BarrierThreadLock, UnregisterLock, BarrierLock, queueVars
  <2>3. gpre' \in SUBSET Readers
    BY Zenon, <1>t, <1>4 DEF BarrierThreadLock, UnregisterLock, BarrierLock
  <2>4. i' \in Index /\ upto' \in Index
    <3>1. ASSUME NEW t \in Threads, BarrierThreadLock(t) \/ UnregisterLock(t)
          PROVE  i' \in Index /\ upto' \in Index
      BY <1>t, <3>1 DEF BarrierThreadLock, UnregisterLock, runVars
    <3>2. ASSUME NEW x \in Procs, BarrierLock(x)
          PROVE  i' \in Index /\ upto' \in Index
      <4>1. CASE \A t \in Registered : Items(t) = 0
        BY Zenon, <1>t, <3>2, <4>1 DEF BarrierLock, runVars
      <4>2. CASE ~\A t \in Registered : Items(t) = 0
        <5>1. registry \in Seq(Threads)
          BY Zenon, <1>t
        <5>2. registry # <<>>
          BY <4>2 DEF Registered
        <5>3. registry[1] \in Threads
          BY <5>1, <5>2
        <5> QED
          BY <1>t, <3>2, <4>2, <5>3 DEF BarrierLock
      <4> QED
        BY Zenon, <4>1, <4>2
    <3> QED
      BY Zenon, <1>4, <3>1, <3>2
  <2> QED
    BY Zenon, <1>t, <2>1, <2>2, <2>3, <2>4
<1>5. ASSUME NEW x \in Procs, RunCallback(x) PROVE Type'
  <2>1. PICK t \in Threads : t = todo[1]
    <3>1. pc[x] \in RunPc
      BY Zenon, <1>5 DEF RunCallback, RunPc
    <3>2. todo \in Seq(Threads) /\ todo # <<>>
      BY Zenon, <1>t, <3>1 DEF IInv, TodoInv
    <3>3. todo[1] \in Threads
      BY <3>2
    <3> QED
      BY Zenon, <3>3
  <2>2. PICK pos \in Positions(t) : Layout(t, pos) /\ Covered(t, pos)
    BY Zenon DEF IInv, RingInv, Ring
  <2>3. PICK d : d = Decode(t, i)
    OBVIOUS
  <2>4. /\ Len(pending[t]) >= 1 /\ d.fct = pending[t][1].fct /\ d.words \in 1..3
    BY Zenon, <1>5, <2>1, <2>2, <2>3, NextCallback DEF RunCallback
  <2>5. d.fct \in Nat /\ pending[t] # <<>>
    <3>1. pending[t] \in Seq(Callback)
      BY Zenon, <1>t
    <3>2. pending[t][1] \in Callback /\ pending[t] # <<>>
      BY <2>4, <3>1
    <3> QED
      BY <2>4, <3>2 DEF Callback
  <2>6. Tail(pending[t]) \in Seq(Callback)
    BY Zenon, <1>t, <2>5, TailOf
  <2>7. Plus(i, d.words) \in Index
    <3>1. d.words \in 0..(Modulus - 1)
      BY <2>4, Sizes
    <3> QED
      BY Zenon, <1>t, <3>1, Ahead
  <2> QED
    <3>1. /\ last_fct_out' = [last_fct_out EXCEPT ![t] = d.fct]
          /\ pending' = [pending EXCEPT ![t] = Tail(@)] /\ i' = Plus(i, d.words)
          /\ UNCHANGED <<head, tail, last_fct_in, last_head, q, todo, upto, gpre>>
      BY Zenon, <1>5, <2>1, <2>3 DEF RunCallback
    <3>2. last_fct_out' \in [Threads -> Nat]
      BY Zenon, <1>t, <2>5, <3>1
    <3>3. pending' \in [Threads -> Seq(Callback)]
      BY Zenon, <1>t, <2>6, <3>1
    <3> QED
      BY Zenon, <1>t, <2>7, <3>1, <3>2, <3>3
<1>6. ASSUME NEW x \in Procs, QueueDone(x) PROVE Type'
  <2>1. PICK t \in Threads : t = todo[1]
    <3>1. pc[x] \in RunPc
      BY Zenon, <1>6 DEF QueueDone, RunPc
    <3>2. todo \in Seq(Threads) /\ todo # <<>>
      BY Zenon, <1>t, <3>1 DEF IInv, TodoInv
    <3>3. todo[1] \in Threads
      BY <3>2
    <3> QED
      BY Zenon, <3>3
  <2>2. /\ todo' \in Seq(Threads) /\ tail' = [tail EXCEPT ![t] = i]
        /\ UNCHANGED <<head, last_fct_in, last_fct_out, last_head, q, pending, gpre>>
    BY Zenon, <1>6, <2>1, TodoDone
  <2>3. i' \in Index /\ upto' \in Index
    <3>1. CASE Len(todo) > 1
      <4>1. todo[2] \in Threads
        BY <1>t, <3>1
      <4> QED
        BY Zenon, <1>t, <1>6, <3>1, <4>1 DEF QueueDone
    <3>2. CASE ~(Len(todo) > 1)
      BY Zenon, <1>t, <1>6, <3>2 DEF QueueDone
    <3> QED
      BY Zenon, <3>1, <3>2
  <2> QED
    BY Zenon, <1>t, <2>2, <2>3
<1> QED
  BY Zenon, <1>1, <1>2, <1>3, <1>4, <1>5, <1>6 DEF RingSteps
=============================================================================
