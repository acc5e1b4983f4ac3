------------------------------- MODULE Futex -------------------------------
(***************************************************************************)
(* The futex calls every sleeping protocol of the library is built on,     *)
(* include/urcu/futex.h and src/compat_futex.c.  A waiter arms its word    *)
(* and calls FUTEX_WAIT on it; a waker changes a word and calls FUTEX_WAKE *)
(* on it, for one waiter.  Which code runs depends on the platform:        *)
(*   linux    the system call, which may fail with ENOSYS in FUTEX_WAIT    *)
(*            even where the kernel has it; the call then polls;           *)
(*   noasync  a mutex and one condition variable shared by all addresses;  *)
(*   async    polling, and a FUTEX_WAKE that does nothing.                 *)
(* Each waiter has a word of its own; the words of the library that have   *)
(* several waiters are polled or woken until their state changes.          *)
(***************************************************************************)
EXTENDS FiniteSets

CONSTANTS Waiters, Wakers, Platforms, NULL

VARIABLES platform,
          armed,    \* the waiters whose word still is the value to wait on
          lock,     \* owner of __urcu_compat_futex_lock
          asleep,   \* waiters in the condition's or the kernel's queue
          pc,
          target    \* the waiter whose word a waker has changed
vars == <<platform, armed, lock, asleep, pc, target>>

Threads == Waiters \cup Wakers
Goto(t, l) == pc' = [pc EXCEPT ![t] = l]

Init == /\ platform \in Platforms
        /\ armed = {} /\ lock = NULL /\ asleep = {}
        /\ pc = [t \in Threads |-> "idle"]
        /\ target = [k \in Wakers |-> NULL]

(* The caller's side of the protocol *)
Arm(w) ==
  /\ pc[w] = "idle"
  /\ armed' = armed \cup {w}
  /\ Goto(w, "armed")
  /\ UNCHANGED <<platform, lock, asleep, target>>

Change(k) ==
  /\ pc[k] = "idle"
  /\ \E w \in armed : target' = [target EXCEPT ![k] = w] /\ armed' = armed \ {w}
  /\ Goto(k, "wake")
  /\ UNCHANGED <<platform, lock, asleep>>

(* futex(): the kernel compares and queues in one step, or refuses; the    *)
(* refusal with ENOSYS is turned into polling.                             *)
SysWait(w) ==
  /\ platform = "linux" /\ pc[w] = "armed"
  /\ \/ w \in armed /\ asleep' = asleep \cup {w} /\ Goto(w, "sleeping")
     \/ w \notin armed /\ Goto(w, "idle") /\ UNCHANGED asleep
     \/ Goto(w, "polling") /\ UNCHANGED asleep
  /\ UNCHANGED <<platform, armed, lock, target>>

SysWake(k) ==
  /\ platform = "linux" /\ pc[k] = "wake"
  /\ asleep' = asleep \ {target[k]}
  /\ target' = [target EXCEPT ![k] = NULL]
  /\ Goto(k, "idle")
  /\ UNCHANGED <<platform, armed, lock>>

(* It returns when woken, or with EINTR; the caller looks at its word and  *)
(* calls again.                                                            *)
SysReturn(w) ==
  /\ platform = "linux" /\ pc[w] = "sleeping"
  /\ asleep' = asleep \ {w}
  /\ Goto(w, IF w \in armed THEN "armed" ELSE "idle")
  /\ UNCHANGED <<platform, armed, lock, target>>

(* compat_futex_async() *)
AsyncCall(t) ==
  /\ platform = "async" /\ pc[t] \in {"armed", "wake"}
  /\ Goto(t, IF t \in Waiters THEN "polling" ELSE "idle")
  /\ target' = IF t \in Wakers THEN [target EXCEPT ![t] = NULL] ELSE target
  /\ UNCHANGED <<platform, armed, lock, asleep>>

(* The loop: the word has changed, or poll() was interrupted (the caller   *)
(* calls again), or it has slept.                                          *)
Poll(w) ==
  /\ pc[w] = "polling"
  /\ \/ w \notin armed /\ Goto(w, "idle")
     \/ w \in armed /\ pc' \in {pc, [pc EXCEPT ![w] = "armed"]}
  /\ UNCHANGED <<platform, armed, lock, asleep, target>>

(* compat_futex_noasync() *)
Lock(t) ==
  /\ platform = "noasync" /\ pc[t] \in {"armed", "wake"} /\ lock = NULL
  /\ lock' = t
  /\ Goto(t, IF t \in Waiters THEN "check" ELSE "broadcast")
  /\ UNCHANGED <<platform, armed, asleep, target>>

(* Variant: the word is looked at before the wait, in a step of its own.   *)
CheckThenWait(w) ==
  \/ /\ pc[w] = "check" /\ lock' = NULL
     /\ Goto(w, IF w \in armed THEN "cond_wait" ELSE "idle")
     /\ UNCHANGED <<platform, armed, asleep, target>>
  \/ /\ pc[w] = "cond_wait"
     /\ asleep' = asleep \cup {w}
     /\ Goto(w, "cond")
     /\ UNCHANGED <<platform, armed, lock, target>>

(* while (uatomic_load(uaddr) == val) pthread_cond_wait(): the mutex is    *)
(* released as the thread is queued.                                       *)
Check(w) ==
  /\ pc[w] = "check"
  /\ lock' = NULL
  /\ \/ w \in armed /\ asleep' = asleep \cup {w} /\ Goto(w, "cond")
     \/ w \notin armed /\ Goto(w, "idle") /\ UNCHANGED asleep
  /\ UNCHANGED <<platform, armed, target>>

(* pthread_cond_wait() returns, when woken or spuriously, with the mutex.  *)
CondReturn(w) ==
  /\ pc[w] = "cond" /\ lock = NULL
  /\ asleep' = asleep \ {w}
  /\ lock' = w
  /\ Goto(w, "check")
  /\ UNCHANGED <<platform, armed, target>>

Broadcast(k) ==
  /\ pc[k] = "broadcast"
  /\ asleep' = {}
  /\ lock' = NULL
  /\ target' = [target EXCEPT ![k] = NULL]
  /\ Goto(k, "idle")
  /\ UNCHANGED <<platform, armed>>

Next ==
  \/ \E w \in Waiters : \/ Arm(w) \/ SysWait(w) \/ SysReturn(w) \/ Poll(w)
                        \/ Check(w) \/ CondReturn(w)
  \/ \E k \in Wakers : Change(k) \/ SysWake(k) \/ Broadcast(k)
  \/ \E t \in Threads : AsyncCall(t) \/ Lock(t)

Spec == Init /\ [][Next]_vars

-----------------------------------------------------------------------------
(* No lost wakeup: a waiter that sleeps although its word has changed is   *)
(* one a waker is still about to wake.                                     *)
SleepersGetWoken ==
  \A w \in asleep : w \notin armed => \E k \in Wakers : target[k] = w
=============================================================================
