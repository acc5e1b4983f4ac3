------------------------------- MODULE Defer -------------------------------
(***************************************************************************)
(* Batch memory reclamation: src/urcu-defer-impl.h.  Each thread queues    *)
(* callbacks in a ring of its own; one defer thread, or any thread that    *)
(* calls a barrier, runs them after a grace period.                        *)
(*                                                                         *)
(* synchronize_rcu() is known by its promise only: it returns once the     *)
(* sections open when it was called have ended.                            *)
(***************************************************************************)
EXTENDS Integers, Sequences

CONSTANTS Threads,     \* threads that may register and call defer_rcu()
          tid_defer,   \* the defer thread
          NoThread,    \* "no owner" of a mutex
          Callers,     \* bound: threads that call the barriers themselves
          MaxHead,     \* bound: a thread whose head is past it defers no more
          Readers,     \* threads with read-side critical sections
          Callbacks,   \* pairs <<fct, p>> given to defer_rcu()
          Size,        \* DEFER_QUEUE_SIZE
          Modulus,     \* 2^w, for queue indices of w bits
          DQ_FCT_MARK  \* the word ~DQ_FCT_BIT; a word is odd if the bit is set

ASSUME DeferAssumption ==
  /\ Size \in Nat /\ Size > 2
  /\ \E k \in 2..Modulus : Modulus = k * Size
  /\ DQ_FCT_MARK \in Nat /\ DQ_FCT_MARK % 2 = 0
  /\ Callbacks \subseteq Nat \X Nat
  /\ Callers \subseteq Threads
  /\ MaxHead \in Nat
  /\ tid_defer \notin Threads
  /\ NoThread \notin Threads \cup {tid_defer}

VARIABLES
  head, tail,            \* indices of each thread's ring
  last_fct_in, last_fct_out,
  last_head,             \* head that rcu_defer_barrier() has read
  q,                     \* the words of the ring
  registry,              \* registry_defer, a sequence of threads
  rcu_defer_mutex, defer_thread_mutex,   \* owners
  defer_thread_futex, defer_thread_stop,
  pc, ret,               \* control point, and where a call returns to
  arg,                   \* argument of each thread's defer_rcu()
  todo,                  \* queues the barrier in progress has yet to run
  i, upto,               \* index, and bound, of rcu_defer_barrier_queue()
  cs,                    \* readers inside a critical section
  gpre,                  \* sections synchronize_rcu() has to outlast
  pending,               \* history: callbacks of each thread not run yet
  must                   \* history: those an rcu_defer_barrier() must run

queueVars == <<head, tail, last_fct_in, last_fct_out, last_head, q>>
lockVars == <<rcu_defer_mutex, defer_thread_mutex>>
threadVars == <<defer_thread_futex, defer_thread_stop>>
runVars == <<todo, i, upto>>
hist == <<pending, must>>
vars == <<queueVars, registry, lockVars, threadVars, pc, ret, arg, runVars,
          cs, gpre, hist>>

Procs == Threads \cup {tid_defer}
Goto(x, l) == pc' = [pc EXCEPT ![x] = l]

(* A step of x that changes nothing but its control point. *)
Move(x, l) ==
  /\ Goto(x, l)
  /\ UNCHANGED <<queueVars, registry, lockVars, threadVars, ret, arg, runVars,
                 cs, gpre, hist>>

(* Unsigned arithmetic on indices, for n of at most Modulus. *)
Plus(x, n) == IF x + n < Modulus THEN x + n ELSE x + n - Modulus
Minus(x, y) == IF y <= x THEN x - y ELSE x - y + Modulus
Items(t) == Minus(head[t], tail[t])
Slot(x) == x % Size

DQ_IS_FCT_BIT(x) == x % 2 = 1
DQ_SET_FCT_BIT(x) == x + 1
DQ_CLEAR_FCT_BIT(x) == x - 1

(* Variant: data equal to the marker gets no special treatment. *)
EncodeNoMark(last, f, p) ==
  IF last = f /\ ~DQ_IS_FCT_BIT(p) THEN <<p>>
  ELSE IF DQ_IS_FCT_BIT(f) \/ f = DQ_FCT_MARK
       THEN <<DQ_FCT_MARK, f, p>> ELSE <<DQ_SET_FCT_BIT(f), p>>

(* The words _defer_rcu() stores for callback f(p), after function last. *)
Encode(last, f, p) ==
  IF last = f /\ ~DQ_IS_FCT_BIT(p) /\ p # DQ_FCT_MARK THEN <<p>>
  ELSE IF DQ_IS_FCT_BIT(f) \/ f = DQ_FCT_MARK
       THEN <<DQ_FCT_MARK, f, p>> ELSE <<DQ_SET_FCT_BIT(f), p>>

(* What rcu_defer_barrier_queue() makes of the words at index x. *)
Decode(t, x) ==
  LET w == q[t][Slot(x)]
      w1 == q[t][Slot(x + 1)]
      w2 == q[t][Slot(x + 2)]
  IN  IF DQ_IS_FCT_BIT(w)
      THEN [fct |-> DQ_CLEAR_FCT_BIT(w), p |-> w1, words |-> 2]
      ELSE IF w = DQ_FCT_MARK
           THEN [fct |-> w1, p |-> w2, words |-> 3]
           ELSE [fct |-> last_fct_out[t], p |-> w, words |-> 1]

Init ==
  /\ head = [t \in Threads |-> 0]
  /\ tail = [t \in Threads |-> 0]
  /\ last_fct_in = [t \in Threads |-> 0]
  /\ last_fct_out = [t \in Threads |-> 0]
  /\ last_head = [t \in Threads |-> 0]
  /\ q = [t \in Threads |-> [s \in 0..(Size - 1) |-> 0]]
  /\ registry = <<>>
  /\ rcu_defer_mutex = NoThread
  /\ defer_thread_mutex = NoThread
  /\ defer_thread_futex = 0
  /\ defer_thread_stop = 0
  /\ pc = [x \in Procs |-> IF x = tid_defer THEN "none" ELSE "out"]
  /\ ret = [x \in Procs |-> "none"]
  /\ arg = [t \in Threads |-> <<>>]
  /\ todo = <<>>
  /\ i = 0
  /\ upto = 0
  /\ cs = {}
  /\ gpre = {}
  /\ pending = [t \in Threads |-> <<>>]
  /\ must = [t \in Threads |-> [o \in Threads |-> 0]]

-----------------------------------------------------------------------------
(* Readers *)

ReadLock(r) ==
  /\ r \notin cs
  /\ cs' = cs \cup {r}
  /\ UNCHANGED <<queueVars, registry, lockVars, threadVars, pc, ret, arg,
                 runVars, gpre, hist>>

ReadUnlock(r) ==
  /\ r \in cs
  /\ cs' = cs \ {r}
  /\ gpre' = gpre \ {r}
  /\ pending' = [t \in Threads |->
                   [k \in 1..Len(pending[t]) |->
                      [pending[t][k] EXCEPT !.pre = @ \ {r}]]]
  /\ UNCHANGED <<queueVars, registry, lockVars, threadVars, pc, ret, arg,
                 runVars, must>>

-----------------------------------------------------------------------------
(* rcu_defer_register_thread() *)

Register(t) ==
  /\ pc[t] = "out"
  /\ defer_thread_mutex = NoThread
  /\ defer_thread_mutex' = t
  /\ Goto(t, "reg")
  /\ UNCHANGED <<queueVars, registry, rcu_defer_mutex, threadVars, ret, arg,
                 runVars, cs, gpre, hist>>

(* The first queue on the list starts the defer thread. *)
RegisterAdd(t) ==
  /\ pc[t] = "reg"
  /\ rcu_defer_mutex = NoThread
  /\ registry' = <<t>> \o registry
  /\ pc' = [pc EXCEPT ![t] = "idle",
                      ![tid_defer] = IF registry = <<>> THEN "w_dec" ELSE @]
  /\ defer_thread_mutex' = NoThread
  /\ UNCHANGED <<queueVars, rcu_defer_mutex, threadVars, ret, arg, runVars, cs,
                 gpre, hist>>

-----------------------------------------------------------------------------
(* defer_rcu() *)

(* Variant: the queue is emptied only when not one word is left. *)
FullLate(t) == Items(t) >= Size

Full(t) == Items(t) >= Size - 2

defer_rcu(t) ==
  /\ pc[t] = "idle"
  /\ head[t] <= MaxHead
  /\ \E c \in Callbacks : arg' = [arg EXCEPT ![t] = c]
  /\ ret' = [ret EXCEPT ![t] = IF Full(t) THEN "enq" ELSE "idle"]
  /\ Goto(t, IF Full(t) THEN "bt_lock" ELSE "enq")
  /\ UNCHANGED <<queueVars, registry, lockVars, threadVars, runVars, cs, gpre,
                 hist>>

(* Nobody reads the new words before head is published. *)
Enqueue(t) ==
  LET words == Encode(last_fct_in[t], arg[t][1], arg[t][2])
      At(k) == Slot(head[t] + k - 1)
  IN /\ pc[t] = "enq"
     /\ q' = [q EXCEPT ![t] =
                [s \in 0..(Size - 1) |->
                   IF \E k \in 1..Len(words) : At(k) = s
                   THEN words[CHOOSE k \in 1..Len(words) : At(k) = s]
                   ELSE @[s]]]
     /\ last_fct_in' = [last_fct_in EXCEPT ![t] = arg[t][1]]
     /\ head' = [head EXCEPT ![t] = Plus(@, Len(words))]
     /\ pending' = [pending EXCEPT ![t] =
                      Append(@, [fct |-> arg[t][1], p |-> arg[t][2],
                                 pre |-> cs])]
     /\ arg' = [arg EXCEPT ![t] = <<>>]
     /\ ret' = [ret EXCEPT ![t] = "idle"]
     /\ Goto(t, "wake_load")
     /\ UNCHANGED <<tail, last_fct_out, last_head, registry, lockVars,
                    threadVars, runVars, cs, gpre, must>>

(* wake_up_defer() *)
WakeLoad(t) ==
  /\ pc[t] = "wake_load"
  /\ Move(t, IF defer_thread_futex = -1 THEN "wake_store" ELSE ret[t])

WakeStore(t) ==
  /\ pc[t] = "wake_store"
  /\ defer_thread_futex' = 0
  /\ Goto(t, "wake_call")
  /\ UNCHANGED <<queueVars, registry, lockVars, defer_thread_stop, ret, arg,
                 runVars, cs, gpre, hist>>

(* Variant: FUTEX_WAKE is never called. *)
WakeCallNoFutex(t) ==
  /\ pc[t] = "wake_call"
  /\ Move(t, ret[t])

WakeCall(t) ==
  /\ pc[t] = "wake_call"
  /\ pc' = [pc EXCEPT ![t] = ret[t],
                      ![tid_defer] = IF @ = "w_sleep" THEN "w_futex" ELSE @]
  /\ UNCHANGED <<queueVars, registry, lockVars, threadVars, ret, arg, runVars,
                 cs, gpre, hist>>

-----------------------------------------------------------------------------
(* Running callbacks, with rcu_defer_mutex held *)

(* synchronize_rcu() is called; the queues in s will be run after it. *)
StartRun(x, s, bound, to) ==
  /\ gpre' = cs
  /\ todo' = s
  /\ i' = tail[s[1]]
  /\ upto' = bound
  /\ rcu_defer_mutex' = x
  /\ ret' = [ret EXCEPT ![x] = to]
  /\ Goto(x, "sync")

(* rcu_defer_barrier_thread(), called by itself. *)
BarrierThread(t) ==
  /\ t \in Callers
  /\ pc[t] = "idle"
  /\ ret' = [ret EXCEPT ![t] = "idle"]
  /\ Goto(t, "bt_lock")
  /\ UNCHANGED <<queueVars, registry, lockVars, threadVars, arg, runVars, cs,
                 gpre, hist>>

BarrierThreadLock(t) ==
  /\ pc[t] = "bt_lock"
  /\ rcu_defer_mutex = NoThread
  /\ \/ /\ Items(t) = 0
        /\ Goto(t, ret[t])
        /\ UNCHANGED <<rcu_defer_mutex, ret, runVars, gpre>>
     \/ /\ Items(t) # 0
        /\ StartRun(t, <<t>>, head[t], ret[t])
  /\ UNCHANGED <<queueVars, registry, defer_thread_mutex, threadVars, arg, cs,
                 hist>>

(* Callbacks of o whose defer_rcu() has returned. *)
Queued(o) == Len(pending[o])
               - (IF pc[o] \in {"wake_load", "wake_store", "wake_call"}
                     /\ ret[o] = "idle" THEN 1 ELSE 0)

(* rcu_defer_barrier(), by a thread that need not be registered. *)
rcu_defer_barrier(t) ==
  /\ t \in Callers
  /\ pc[t] \in {"idle", "out"}
  /\ ret' = [ret EXCEPT ![t] = pc[t]]
  /\ must' = [must EXCEPT ![t] = [o \in Threads |-> Queued(o)]]
  /\ Goto(t, "b_empty")
  /\ UNCHANGED <<queueVars, registry, lockVars, threadVars, arg, runVars, cs,
                 gpre, pending>>

(* The list is tested without the mutex. *)
BarrierEmpty(x) ==
  /\ pc[x] = "b_empty"
  /\ Move(x, IF registry = <<>> THEN ret[x] ELSE "b_lock")

Registered == {registry[k] : k \in 1..Len(registry)}

BarrierLock(x) ==
  /\ pc[x] = "b_lock"
  /\ rcu_defer_mutex = NoThread
  /\ last_head' = [t \in Threads |-> IF t \in Registered THEN head[t]
                                                         ELSE last_head[t]]
  /\ \/ /\ \A t \in Registered : Items(t) = 0
        /\ Goto(x, ret[x])
        /\ UNCHANGED <<rcu_defer_mutex, ret, runVars, gpre>>
     \/ /\ \E t \in Registered : Items(t) # 0
        /\ StartRun(x, registry, head[registry[1]], ret[x])
  /\ UNCHANGED <<head, tail, last_fct_in, last_fct_out, q, registry,
                 defer_thread_mutex, threadVars, arg, cs, hist>>

SyncDone(x) ==
  /\ pc[x] = "sync"
  /\ gpre = {}
  /\ Move(x, "run")

(* One turn of the loop of rcu_defer_barrier_queue(). *)
RunCallback(x) ==
  LET t == todo[1]
      d == Decode(t, i)
  IN /\ pc[x] = "run"
     /\ i # upto
     /\ last_fct_out' = [last_fct_out EXCEPT ![t] = d.fct]
     /\ i' = Plus(i, d.words)
     /\ pending' = [pending EXCEPT ![t] = Tail(@)]
     /\ must' = [c \in Threads |->
                   [must[c] EXCEPT ![t] = IF @ > 0 THEN @ - 1 ELSE 0]]
     /\ UNCHANGED <<head, tail, last_fct_in, last_head, q, registry, lockVars,
                    threadVars, pc, ret, arg, todo, upto, cs, gpre>>

QueueDone(x) ==
  /\ pc[x] = "run"
  /\ i = upto
  /\ tail' = [tail EXCEPT ![todo[1]] = i]
  /\ todo' = Tail(todo)
  /\ \/ /\ Len(todo) > 1
        /\ i' = tail[todo[2]]
        /\ upto' = last_head[todo[2]]
        /\ UNCHANGED <<pc, rcu_defer_mutex>>
     \/ /\ Len(todo) = 1
        /\ Goto(x, ret[x])
        /\ rcu_defer_mutex' = IF ret[x] = "un_free" THEN x ELSE NoThread
        /\ UNCHANGED <<i, upto>>
  /\ UNCHANGED <<head, last_fct_in, last_fct_out, last_head, q, registry,
                 defer_thread_mutex, threadVars, ret, arg, cs, gpre, hist>>

-----------------------------------------------------------------------------
(* rcu_defer_unregister_thread(), stop_defer_thread() *)

Unregister(t) ==
  /\ pc[t] = "idle"
  /\ defer_thread_mutex = NoThread
  /\ defer_thread_mutex' = t
  /\ Goto(t, "un_lock")
  /\ UNCHANGED <<queueVars, registry, rcu_defer_mutex, threadVars, ret, arg,
                 runVars, cs, gpre, hist>>

(* cds_list_del() of the thread's own queue. *)
Others(t) ==
  LET at == CHOOSE k \in 1..Len(registry) : registry[k] = t
  IN  [k \in 1..(Len(registry) - 1) |-> registry[IF k < at THEN k ELSE k + 1]]

(* Variant: the queue is freed with its callbacks. *)
UnregisterNoBarrier(t) ==
  /\ pc[t] = "un_lock"
  /\ rcu_defer_mutex = NoThread
  /\ rcu_defer_mutex' = t
  /\ registry' = Others(t)
  /\ Goto(t, "un_free")
  /\ UNCHANGED <<queueVars, defer_thread_mutex, threadVars, ret, arg, runVars,
                 cs, gpre, hist>>

(* Off the list first, then _rcu_defer_barrier_thread(). *)
UnregisterLock(t) ==
  /\ pc[t] = "un_lock"
  /\ rcu_defer_mutex = NoThread
  /\ registry' = Others(t)
  /\ \/ /\ Items(t) = 0
        /\ rcu_defer_mutex' = t
        /\ Goto(t, "un_free")
        /\ UNCHANGED <<ret, runVars, gpre>>
     \/ /\ Items(t) # 0
        /\ StartRun(t, <<t>>, head[t], "un_free")
  /\ UNCHANGED <<queueVars, defer_thread_mutex, threadVars, arg, cs, hist>>

UnregisterFree(t) ==
  /\ pc[t] = "un_free"
  /\ rcu_defer_mutex' = NoThread
  /\ Goto(t, IF registry = <<>> THEN "stop" ELSE "out")
  /\ defer_thread_mutex' = IF registry = <<>> THEN t ELSE NoThread
  /\ UNCHANGED <<queueVars, registry, threadVars, ret, arg, runVars, cs, gpre,
                 hist>>

StopStore(t) ==
  /\ pc[t] = "stop"
  /\ defer_thread_stop' = 1
  /\ ret' = [ret EXCEPT ![t] = "join"]
  /\ Goto(t, "wake_load")
  /\ UNCHANGED <<queueVars, registry, lockVars, defer_thread_futex, arg,
                 runVars, cs, gpre, hist>>

Join(t) ==
  /\ pc[t] = "join"
  /\ pc[tid_defer] = "none"
  /\ defer_thread_stop' = 0
  /\ defer_thread_mutex' = NoThread
  /\ Goto(t, "out")
  /\ UNCHANGED <<queueVars, registry, rcu_defer_mutex, defer_thread_futex, ret,
                 arg, runVars, cs, gpre, hist>>

-----------------------------------------------------------------------------
(* thr_defer(), wait_defer() *)

WaitDec ==
  /\ pc[tid_defer] = "w_dec"
  /\ defer_thread_futex' = defer_thread_futex - 1
  /\ Goto(tid_defer, "w_stop")
  /\ UNCHANGED <<queueVars, registry, lockVars, defer_thread_stop, ret, arg,
                 runVars, cs, gpre, hist>>

WaitStop ==
  /\ pc[tid_defer] = "w_stop"
  /\ Move(tid_defer, IF defer_thread_stop = 1 THEN "w_exit" ELSE "w_num")

WaitExit ==
  /\ pc[tid_defer] = "w_exit"
  /\ defer_thread_futex' = 0
  /\ Goto(tid_defer, "none")
  /\ UNCHANGED <<queueVars, registry, lockVars, defer_thread_stop, ret, arg,
                 runVars, cs, gpre, hist>>

(* Variant: the thread goes to sleep without looking at the queues. *)
WaitNumSkipped ==
  /\ pc[tid_defer] = "w_num"
  /\ Move(tid_defer, "w_futex")

(* rcu_defer_num_callbacks() *)
WaitNum ==
  /\ pc[tid_defer] = "w_num"
  /\ rcu_defer_mutex = NoThread
  /\ Move(tid_defer, IF \E t \in Registered : Items(t) # 0 THEN "w_clear"
                                                           ELSE "w_futex")

(* rcu_defer_barrier() comes next, and wait_defer() after it. *)
WaitDone == /\ ret' = [ret EXCEPT ![tid_defer] = "w_dec"]
            /\ Goto(tid_defer, "b_empty")

WaitClear ==
  /\ pc[tid_defer] = "w_clear"
  /\ defer_thread_futex' = 0
  /\ WaitDone
  /\ UNCHANGED <<queueVars, registry, lockVars, defer_thread_stop, arg,
                 runVars, cs, gpre, hist>>

WaitFutex ==
  /\ pc[tid_defer] = "w_futex"
  /\ \/ /\ defer_thread_futex = -1
        /\ Goto(tid_defer, "w_sleep")
        /\ UNCHANGED ret
     \/ /\ defer_thread_futex # -1
        /\ WaitDone
  /\ UNCHANGED <<queueVars, registry, lockVars, threadVars, arg, runVars, cs,
                 gpre, hist>>

(* EINTR, or a wakeup meant for other code on the same address. *)
WaitSpurious ==
  /\ pc[tid_defer] = "w_sleep"
  /\ Move(tid_defer, "w_futex")

-----------------------------------------------------------------------------
(* The mutexes are taken in these steps. *)
LockStep(x) == BarrierThreadLock(x) \/ BarrierLock(x) \/ UnregisterLock(x)
                 \/ RegisterAdd(x)

RunStep(x) == BarrierEmpty(x) \/ SyncDone(x) \/ RunCallback(x) \/ QueueDone(x)

CallStep(t) == \/ Enqueue(t) \/ WakeLoad(t) \/ WakeStore(t) \/ WakeCall(t)
               \/ UnregisterFree(t) \/ StopStore(t) \/ Join(t)

ThreadStep(t) == \/ Register(t) \/ defer_rcu(t) \/ BarrierThread(t)
                 \/ rcu_defer_barrier(t) \/ Unregister(t) \/ CallStep(t)
                 \/ RunStep(t) \/ LockStep(t)

DeferThreadStep == \/ WaitDec \/ WaitStop \/ WaitExit \/ WaitNum \/ WaitClear
                   \/ WaitFutex \/ RunStep(tid_defer)

Next == \/ \E r \in Readers : ReadLock(r) \/ ReadUnlock(r)
        \/ \E t \in Threads : ThreadStep(t)
        \/ DeferThreadStep \/ BarrierLock(tid_defer) \/ WaitSpurious

Spec == Init /\ [][Next]_vars

(***************************************************************************)
(* Fairness: a thread inside a library call and the defer thread keep      *)
(* running, a mutex released again and again is eventually obtained, and   *)
(* sections end.  Nothing is said of starting a call.                      *)
(***************************************************************************)
Fairness ==
  /\ \A r \in Readers : WF_vars(ReadUnlock(r))
  /\ \A t \in Threads : /\ WF_vars(CallStep(t) \/ RunStep(t))
                        /\ SF_vars(LockStep(t))
  /\ WF_vars(DeferThreadStep)
  /\ SF_vars(WaitNum)
  /\ SF_vars(BarrierLock(tid_defer))

FairSpec == Spec /\ Fairness
-----------------------------------------------------------------------------
(* Properties *)

(* Whoever runs a callback decodes the oldest one its thread has deferred  *)
(* and not run yet, function and argument, whatever mix of aligned and     *)
(* unaligned functions and data the ring holds and wherever it wraps; and  *)
(* the sections open when it was deferred are over.                        *)
RunsOldest ==
  \A x \in Procs :
    pc[x] = "run" /\ i # upto =>
      LET t == todo[1]
          d == Decode(t, i)
      IN  /\ pending[t] # <<>>
          /\ pending[t][1] = [fct |-> d.fct, p |-> d.p, pre |-> {}]

(* The assertions of _defer_rcu(): a ring never holds more words than it   *)
(* has slots, and it is empty once the caller has run a full ring itself;  *)
(* and of stop_defer_thread(): "defer thread should always exit when futex *)
(* value is 0".                                                            *)
Asserts ==
  \A t \in Threads :
    /\ Items(t) <= Size
    /\ pc[t] = "enq" /\ ret[t] = "enq" => Items(t) = 0
    /\ pc[t] = "join" /\ pc[tid_defer] = "none" => defer_thread_futex = 0

(* The defer thread never sleeps through work: when it is asleep and a     *)
(* registered queue holds callbacks, or it has been told to stop, a thread *)
(* is on its way to wake it up.  The futex is 0 or -1: wait_defer() must   *)
(* not return while it is -1, or the next decrement takes it to a value    *)
(* that no waker recognises.                                               *)
DeferThreadHasWaker ==
  /\ defer_thread_futex \in {-1, 0}
  /\ /\ pc[tid_defer] = "w_sleep"
     /\ (defer_thread_stop = 1 \/ \E t \in Registered : Items(t) # 0)
     => \E t \in Threads : \/ /\ pc[t] = "wake_load"
                               /\ defer_thread_futex = -1
                            \/ pc[t] = "wake_store"
                            \/ /\ pc[t] = "wake_call"
                               /\ defer_thread_futex = 0

(* A thread that returns from either barrier, or has unregistered, has     *)
(* none of its callbacks left: "All callbacks queued on the local thread   *)
(* prior to a rcu_defer_barrier() call are guaranteed to be executed."     *)
DrainedOnReturn ==
  [][\A t \in Threads :
       \/ /\ pc[t] \in {"b_empty", "b_lock", "bt_lock", "run"}
          /\ pc'[t] = "idle"
       \/ /\ pc[t] # "out"
          /\ pc'[t] = "out"
       => pending'[t] = <<>>]_vars

(* "These callbacks queued by other threads are only guaranteed to be      *)
(* executed if there is explicit synchronization": a callback whose        *)
(* defer_rcu() had returned when rcu_defer_barrier() was called has run    *)
(* when rcu_defer_barrier() returns, whoever deferred it.                  *)
BarrierExecutesQueued ==
  \A t \in Threads : pc[t] \in {"idle", "out"} =>
                       \A o \in Threads : must[t][o] = 0

(* The assertion of rcu_defer_register_thread(): last_head is 0 when a     *)
(* thread registers.                                                       *)
RegistersClean == \A t \in Threads : pc[t] = "reg" => last_head[t] = 0

(* Every deferred callback is run: the oldest one of each thread is        *)
(* eventually next in somebody's run, with nobody calling a barrier.       *)
CallbacksRun ==
  \A t \in Threads :
    pending[t] # <<>> ~> \E x \in Procs : /\ pc[x] = "run"
                                           /\ i # upto
                                           /\ todo[1] = t

(* rcu_defer_unregister_thread() returns: joining the defer thread with    *)
(* defer_thread_mutex held does not deadlock with the runs it may be in.   *)
UnregisterReturns ==
  \A t \in Threads : pc[t] = "un_lock" ~> pc[t] = "out"
=============================================================================
