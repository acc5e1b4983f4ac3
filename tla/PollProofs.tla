----------------------------- MODULE PollProofs -----------------------------
(* Grace-period polling is sound for every width of the identifiers. *)
EXTENDS PollInvariant, TLAPS

(* Arithmetic of the identifiers: one step of grace_period_id brings every *)
(* other identifier one closer, and takes the current one out of reach.    *)
LEMMA StepAhead ==
  ASSUME NEW x \in Id, NEW y \in Id
  PROVE  /\ Succ(y) \in Id
         /\ Minus(x, y) \in Id
         /\ Minus(y, y) = 0
         /\ Minus(Succ(y), y) = 1
         /\ Minus(x, y) >= 1 => Minus(x, Succ(y)) = Minus(x, y) - 1
         /\ x = y => Signed(Minus(x, Succ(y))) < 0
         /\ Minus(x, y) = 0 => x = y
         /\ Minus(x, y) = 1 => x = Succ(y)
         /\ y # Succ(y)
         /\ Minus(y, x) < 2 * Half - 1 => Minus(Succ(y), x) = Minus(y, x) + 1
         /\ x # y => Minus(x, y) = 2 * Half - Minus(y, x)
BY PollAssumption DEF Id, Succ, Minus, Signed

(* Initially nobody holds a handle. *)
LEMMA InitInv == Init => IInv
<1> SUFFICES ASSUME Init PROVE IInv
  OBVIOUS
<1>1. TypeOK
  <2>1. 0 \in Id /\ 0 \in 0..Window
    BY PollAssumption DEF Id, Window
  <2>2. active \in BOOLEAN
    BY Zenon DEF Init
  <2> QED
    BY Zenon, <2>1, <2>2 DEF Init, TypeOK
<1>2. WorkerInv /\ HandleInv /\ AgeInv
  BY Zenon DEF Init, WorkerInv, HandleInv, AgeInv
<1> QED
  BY Zenon, <1>1, <1>2 DEF IInv

(* Entering and leaving sections only shrinks what has to be outlasted. *)
LEMMA ReaderStep ==
  ASSUME IInv, NEW r \in Readers, ReadLock(r) \/ ReadUnlock(r)
  PROVE  IInv'
<1>1. CASE ReadLock(r)
  BY Zenon, <1>1 DEF IInv, TypeOK, WorkerInv, HandleInv, AgeInv, Ahead, ReadLock
<1>2. CASE ReadUnlock(r)
  <2>1. TypeOK'
    BY Zenon, <1>2 DEF IInv, TypeOK, ReadUnlock
  <2>2. WorkerInv' /\ AgeInv'
    BY Zenon, <1>2 DEF IInv, WorkerInv, AgeInv, Ahead, ReadUnlock
  <2>3. HandleInv'
    BY Zenon, <1>2 DEF IInv, TypeOK, HandleInv, Ahead, ReadUnlock
  <2> QED
    BY Zenon, <2>1, <2>2, <2>3 DEF IInv
<1> QED
  BY Zenon, <1>1, <1>2

(* A new handle is served by the callback it queues, or by the one after   *)
(* the callback that is queued already.                                    *)
LEMMA StartStep ==
  ASSUME IInv, NEW v \in Users, start_poll_synchronize_rcu(v)
  PROVE  IInv'
<1> USE DEF start_poll_synchronize_rcu
<1>1. NewTarget \in Id /\ current_state \in Id
  BY Zenon, StepAhead DEF IInv, TypeOK, NewTarget
<1>2. TypeOK'
  BY <1>1, PollAssumption DEF IInv, TypeOK, Window
<1>3. Minus(NewTarget, current_state) = IF active THEN 1 ELSE 0
  BY Zenon, <1>1, StepAhead DEF NewTarget
<1>4. WorkerInv'
  BY Zenon, <1>3 DEF IInv, WorkerInv, Ahead
<1>5. HandleInv'
  <2> SUFFICES ASSUME NEW u \in Users
               PROVE  /\ pre'[u] \subseteq cs
                      /\ handle'[u] = "none" => pre'[u] = {}
                      /\ pre'[u] # {} =>
                           /\ handle'[u] = "held"
                           /\ Minus(target'[u], current_state) \in {0, 1}
                           /\ Minus(target'[u], current_state) <=
                                Minus(NewTarget, current_state)
                           /\ Minus(target'[u], current_state) = 0 =>
                                pre'[u] \subseteq cbpre'
    BY Zenon DEF HandleInv, Ahead
  <2>1. CASE u = v
    BY <2>1, <1>3 DEF IInv, TypeOK
  <2>2. CASE u # v
    BY <2>2, <1>3 DEF IInv, TypeOK, HandleInv, Ahead
  <2> QED
    BY Zenon, <2>1, <2>2
<1>6. AgeInv'
  <2> SUFFICES ASSUME NEW u \in Users, handle'[u] = "held"
               PROVE  \/ /\ age'[u] = 0
                         /\ Minus(target'[u], current_state) \in {0, 1}
                         /\ Minus(target'[u], current_state) <=
                              Minus(NewTarget, current_state)
                      \/ /\ age'[u] > 0
                         /\ Minus(current_state, target'[u])
                              \in {age'[u], age'[u] - 1}
                         /\ target'[u] = current_state =>
                              NewTarget \in {current_state,
                                             Succ(current_state)}
    BY Zenon DEF AgeInv, Ahead
  <2>1. CASE u = v
    BY <2>1, <1>3 DEF IInv, TypeOK
  <2>2. CASE u # v
    BY <2>2, <1>3 DEF IInv, TypeOK, AgeInv, Ahead, NewTarget
  <2> QED
    BY Zenon, <2>1, <2>2
<1> QED
  BY Zenon, <1>2, <1>4, <1>5, <1>6 DEF IInv

(* A handle polls true only when its target lies behind, and then nothing  *)
(* is left of what it had to outlast.                                      *)
LEMMA PollStep ==
  ASSUME IInv, NEW v \in Users, poll_state_synchronize_rcu(v)
  PROVE  IInv'
<1> USE DEF poll_state_synchronize_rcu
<1>1. TypeOK' /\ WorkerInv' /\ AgeInv'
  BY Zenon DEF IInv, TypeOK, WorkerInv, AgeInv, Ahead
<1>2. ASSUME pre[v] # {} PROVE ~Reached(target[v])
  BY <1>2, PollAssumption DEF IInv, HandleInv, Ahead, Reached, Signed
<1>3. HandleInv'
  BY Zenon, <1>2 DEF IInv, TypeOK, HandleInv, Ahead
<1> QED
  BY Zenon, <1>1, <1>3 DEF IInv

(* The callback: handles that named the current identifier have nothing    *)
(* left to outlast, and those that named the next keep the worker going.   *)
LEMMA WorkerStep ==
  ASSUME IInv, urcu_poll_worker_cb
  PROVE  IInv'
<1> USE DEF urcu_poll_worker_cb
<1> DEFINE c == current_state
<1>1. c \in Id /\ latest_target \in Id /\ \A u \in Users : target[u] \in Id
  BY Zenon DEF IInv, TypeOK
<1>2. /\ Minus(latest_target, c) = 1 =>
           active' /\ Minus(latest_target, Succ(c)) = 0
      /\ Minus(latest_target, c) = 0 => ~active'
      /\ Minus(latest_target, c) \in {0, 1}
  <2>1. Minus(latest_target, c) \in {0, 1}
    BY Zenon DEF IInv, WorkerInv, Ahead
  <2> DEFINE d == Minus(latest_target, Succ(c))
  <2>4. d \in Int /\ (active' <=> Signed(d) >= 0)
    <3>1. Succ(c) \in Id
      BY Zenon, <1>1, StepAhead
    <3>2. d \in Id
      BY Zenon, <1>1, <3>1, StepAhead
    <3>3. Id \subseteq Int
      BY DEF Id
    <3> QED
      BY Zenon, <3>2, <3>3 DEF Requeue
  <2>2. ASSUME Minus(latest_target, c) = 1
        PROVE  active' /\ Minus(latest_target, Succ(c)) = 0
    <3>1. Minus(latest_target, Succ(c)) = 0
      BY Zenon, <1>1, <2>2, StepAhead
    <3> QED
      BY <3>1, <2>4, PollAssumption DEF Signed
  <2>3. ASSUME Minus(latest_target, c) = 0
        PROVE  ~active'
    <3>1. latest_target = c /\ Signed(d) < 0
      BY Zenon, <1>1, <2>3, StepAhead
    <3>2. Signed(d) \in Int
      BY <2>4, PollAssumption DEF Signed
    <3> QED
      BY <3>1, <3>2, <2>4
  <2> QED
    BY Zenon, <2>1, <2>2, <2>3
<1>3. TypeOK'
  <2>1. current_state' \in Id
    BY Zenon, <1>1, StepAhead
  <2>2. active' \in BOOLEAN
    BY DEF Requeue
  <2>3. age' \in [Users -> 0..Window]
    BY PollAssumption DEF IInv, TypeOK, Window
  <2> QED
    BY Zenon, <2>1, <2>2, <2>3 DEF IInv, TypeOK
<1>4. WorkerInv'
  BY Zenon, <1>2 DEF IInv, WorkerInv, Ahead
<1>5. ASSUME NEW u \in Users, handle[u] = "held"
      PROVE  /\ pre[u] # {} => /\ Minus(target[u], c) = 1
                               /\ Minus(latest_target, c) = 1
             /\ Minus(target[u], c) = 1 => Minus(target[u], Succ(c)) = 0
  <2>1. pre[u] # {} => Minus(target[u], c) # 0
    BY Zenon DEF IInv, HandleInv, Ahead
  <2>2. pre[u] # {} => /\ Minus(target[u], c) \in {0, 1}
                       /\ Minus(target[u], c) <= Minus(latest_target, c)
    BY Zenon DEF IInv, HandleInv, Ahead
  <2>3. Minus(target[u], c) = 1 => Minus(target[u], Succ(c)) = 0
    <3>1. target[u] \in Id /\ c \in Id
      BY Zenon DEF IInv, TypeOK
    <3>2. Minus(target[u], c) >= 1
            => Minus(target[u], Succ(c)) = Minus(target[u], c) - 1
      BY Zenon, <3>1, StepAhead
    <3> QED
      BY <3>2
  <2> QED
    BY <1>2, <2>1, <2>2, <2>3
<1>6. HandleInv'
  <2> SUFFICES ASSUME NEW u \in Users
               PROVE  /\ pre[u] \subseteq cs
                      /\ handle[u] = "none" => pre[u] = {}
                      /\ pre[u] # {} =>
                           /\ handle[u] = "held"
                           /\ active'
                           /\ Minus(target[u], Succ(c)) = 0
                           /\ Minus(latest_target, Succ(c)) = 0
    BY DEF HandleInv, Ahead
  <2> QED
    BY Zenon, <1>2, <1>5 DEF IInv, HandleInv
<1>7. AgeInv'
  <2> SUFFICES ASSUME NEW u \in Users, handle[u] = "held"
               PROVE  /\ Minus(Succ(c), target[u]) \in {age[u] + 1, age[u]}
                      /\ target[u] = Succ(c) =>
                           active' /\ latest_target = Succ(c)
    BY <1>1 DEF IInv, TypeOK, AgeInv, Window
  <2>1. age[u] \in 0..(Half - 1)
    BY PollAssumption DEF IInv, TypeOK, Window
  <2>2. CASE age[u] = 0
    <3>1. Minus(target[u], c) \in {0, 1}
          /\ Minus(target[u], c) <= Minus(latest_target, c)
      BY <2>2 DEF IInv, AgeInv, Ahead
    <3>2. target[u] = c \/ target[u] = Succ(c)
      BY Zenon, <3>1, <1>1, StepAhead
    <3>3. Succ(c) \in Id
      BY Zenon, <1>1, StepAhead
    <3>4. CASE target[u] = c
      BY <3>4, <2>2, <1>1, StepAhead
    <3>5. CASE target[u] = Succ(c)
      <4>1. Minus(Succ(c), target[u]) = 0 /\ Minus(target[u], c) = 1
        BY <3>3, <3>5, <1>1, StepAhead
      <4>2. Minus(latest_target, c) = 1
        BY <4>1, <3>1, <1>2
      <4>3. latest_target = Succ(c)
        BY Zenon, <4>2, <1>1, StepAhead
      <4> QED
        BY Zenon, <4>1, <4>2, <4>3, <1>2, <2>2
    <3> QED
      BY Zenon, <3>2, <3>4, <3>5
  <2>3. CASE age[u] > 0
    <3>1. Minus(c, target[u]) \in {age[u], age[u] - 1}
      BY <2>3 DEF IInv, AgeInv
    <3>2. Minus(Succ(c), target[u]) = Minus(c, target[u]) + 1
      <4>1. Minus(c, target[u]) < 2 * Half - 1
        BY <3>1, <2>1, <2>3, PollAssumption
      <4> QED
        BY Zenon, <4>1, <1>1, StepAhead
    <3>3. target[u] # Succ(c)
      <4>1. Minus(Succ(c), target[u]) # 0
        BY <3>1, <3>2, <2>1, <2>3
      <4>2. Succ(c) \in Id
        BY Zenon, <1>1, StepAhead
      <4> QED
        BY Zenon, <4>1, <4>2, StepAhead
    <3> QED
      BY <3>1, <3>2, <3>3, <2>1
  <2> QED
    BY <2>1, <2>2, <2>3
<1> QED
  BY Zenon, <1>3, <1>4, <1>6, <1>7 DEF IInv

(* Every step of the polling code preserves the invariant. *)
LEMMA InvStep == IInv /\ [Next]_vars => IInv'
<1> SUFFICES ASSUME IInv, [Next]_vars PROVE IInv'
  OBVIOUS
<1>1. CASE UNCHANGED vars
  BY Zenon, <1>1 DEF IInv, TypeOK, WorkerInv, HandleInv, AgeInv, Ahead, vars
<1> QED
  BY Zenon, <1>1, ReaderStep, StartStep, PollStep, WorkerStep DEF Next

(* The identifiers stay in their width and the invariant holds throughout. *)
THEOREM Invariance == Spec => []IInv
BY InitInv, InvStep, PTL DEF Spec

(* poll_state_synchronize_rcu() returns true only after every section open *)
(* at start_poll_synchronize_rcu() has ended, for any number of users and  *)
(* readers, any width of the identifiers and across their wraparound.      *)
THEOREM Sound == Spec => []PollSound
<1>1. IInv => PollSound
  BY Zenon DEF IInv, HandleInv, PollSound
<1> QED
  BY <1>1, Invariance, PTL

(* The worker callback stays queued as long as some handle is not reached. *)
THEOREM NobodyStranded == Spec => []NoHandleStranded
<1>1. IInv => NoHandleStranded
  <2> SUFFICES ASSUME IInv, NEW u \in Users, handle[u] = "held",
                      ~Reached(target[u]), ~active
               PROVE  FALSE
    BY Zenon DEF NoHandleStranded
  <2>1. /\ age[u] \in 1..Half
        /\ Minus(current_state, target[u]) \in {age[u], age[u] - 1}
        /\ target[u] # current_state
    BY PollAssumption DEF IInv, TypeOK, AgeInv, Window
  <2>2. target[u] \in Id /\ current_state \in Id
    BY Zenon DEF IInv, TypeOK
  <2>3. Minus(target[u], current_state)
          = 2 * Half - Minus(current_state, target[u])
    BY Zenon, <2>1, <2>2, StepAhead
  <2>4. Minus(current_state, target[u]) # 0
    BY Zenon, <2>1, <2>2, StepAhead
  <2>5. Minus(target[u], current_state) \in Half..(2 * Half - 1)
    BY <2>1, <2>3, <2>4, PollAssumption
  <2> QED
    BY <2>5, PollAssumption DEF Reached, Signed
<1> QED
  BY <1>1, Invariance, PTL
=============================================================================
