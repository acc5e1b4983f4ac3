---------------------------- MODULE DeferInvariant ----------------------------
(* The inductive invariant behind the theorems of DeferProofs. *)
EXTENDS Defer

WakePc == {"wake_load", "wake_store", "wake_call"}
RunPc == {"sync", "run"}
BarrierPc == {"b_empty", "b_lock"} \cup RunPc
WaitPc == {"w_stop", "w_exit", "w_num", "w_clear", "w_futex", "w_sleep"}
ThreadPc == {"out", "reg", "idle", "enq", "bt_lock", "un_lock", "un_free", "stop",
             "join"} \cup WakePc \cup BarrierPc
Pcs == {"none", "w_dec"} \cup WaitPc \cup ThreadPc
Index == 0..(Modulus - 1)
Callback == [fct : Nat, p : Nat, pre : SUBSET Readers]

TypeOK ==
  /\ head \in [Threads -> Index] /\ tail \in [Threads -> Index]
  /\ last_head \in [Threads -> Index]
  /\ last_fct_in \in [Threads -> Nat] /\ last_fct_out \in [Threads -> Nat]
  /\ q \in [Threads -> [0..(Size - 1) -> Nat]]
  /\ registry \in Seq(Threads) /\ todo \in Seq(Threads)
  /\ i \in Index /\ upto \in Index
  /\ rcu_defer_mutex \in Procs \cup {NoThread}
  /\ defer_thread_mutex \in Threads \cup {NoThread}
  /\ defer_thread_futex \in {-1, 0} /\ defer_thread_stop \in {0, 1}
  /\ pc \in [Procs -> Pcs] /\ ret \in [Procs -> Pcs]
  /\ arg \in [Threads -> {<<>>} \cup Callbacks]
  /\ cs \in SUBSET Readers /\ gpre \in SUBSET Readers
  /\ pending \in [Threads -> Seq(Callback)]

(* Where threads are, and where their calls may return to. *)
ControlInv ==
  /\ \A t \in Threads :
       /\ pc[t] \in ThreadPc
       /\ pc[t] \in WakePc => ret[t] \in {"idle", "join"}
       /\ pc[t] \in {"enq", "bt_lock"} => ret[t] \in {"idle", "enq"}
       /\ pc[t] \in {"b_empty", "b_lock"} => ret[t] \in {"idle", "out"}
       /\ pc[t] \in RunPc => ret[t] \in {"idle", "out", "enq", "un_free"}
       /\ pc[t] = "enq" => arg[t] \in Callbacks
       /\ pc[t] \in {"bt_lock"} \cup RunPc /\ ret[t] = "enq" => arg[t] \in Callbacks
  /\ pc[tid_defer] \in {"none", "w_dec"} \cup WaitPc \cup BarrierPc
  /\ pc[tid_defer] \in BarrierPc => ret[tid_defer] = "w_dec"

(* t is between rcu_defer_register_thread() and ..._unregister_thread(). *)
Member(t) == \/ pc[t] \in {"idle", "enq", "bt_lock", "un_lock"}
             \/ pc[t] \in WakePc \cup BarrierPc /\ ret[t] \in {"idle", "enq"}

(* t unregisters and has left the list. *)
Leaving(t) == \/ pc[t] \in {"un_free", "stop", "join"}
              \/ pc[t] \in RunPc /\ ret[t] = "un_free"
              \/ pc[t] \in WakePc /\ ret[t] = "join"

MutexInv ==
  /\ \A x \in Procs : rcu_defer_mutex = x <=> pc[x] \in RunPc \cup {"un_free"}
  /\ \A t \in Threads :
       defer_thread_mutex = t <=> pc[t] \in {"reg", "un_lock"} \/ Leaving(t)

(* The list holds each registered thread once. *)
RegistryInv ==
  /\ \A t \in Threads : t \in Registered <=> Member(t)
  /\ \A j, k \in 1..Len(registry) : registry[j] = registry[k] => j = k

(* Who runs callbacks has queues to run: registered ones, or its own. *)
TodoInv ==
  /\ \A x \in Procs : pc[x] \in RunPc =>
       /\ todo # <<>>
       /\ ret[x] \in {"enq", "un_free"} => todo = <<x>>
  /\ todo # <<>> => rcu_defer_mutex # NoThread /\ pc[rcu_defer_mutex] \in RunPc
  /\ \A k \in 1..Len(todo) :
       \/ todo[k] \in Registered
       \/ todo[k] = rcu_defer_mutex /\ ret[todo[k]] = "un_free"
  /\ \A j, k \in 1..Len(todo) : todo[j] = todo[k] => j = k

(* The index of the oldest callback of t that has not been run, and where  *)
(* the run in progress will stop in the k-th of its queues.                *)
Cur(t) == IF todo # <<>> /\ todo[1] = t THEN i ELSE tail[t]
Bound(k) == IF k = 1 THEN upto ELSE last_head[todo[k]]

Wrap(x) == IF x < Modulus THEN x ELSE x - Modulus

DecodeAfter(last, t, x) ==
  LET w == q[t][Slot(x)]
      w1 == q[t][Slot(x + 1)]
      w2 == q[t][Slot(x + 2)]
  IN  IF DQ_IS_FCT_BIT(w)
      THEN [fct |-> DQ_CLEAR_FCT_BIT(w), p |-> w1, words |-> 2]
      ELSE IF w = DQ_FCT_MARK
           THEN [fct |-> w1, p |-> w2, words |-> 3]
           ELSE [fct |-> last, p |-> w, words |-> 1]

FctBefore(t, k) == IF k = 1 THEN last_fct_out[t] ELSE pending[t][k - 1].fct

(* pos gives the index of each pending callback of t, not reduced modulo   *)
(* Modulus, and of the end of the last one.                                *)
Positions(t) == [1..(Len(pending[t]) + 1) -> Nat]
End(t) == Len(pending[t]) + 1

(* The words at those positions decode to the callbacks, in order. *)
Layout(t, pos) ==
  /\ pos[1] = Cur(t)
  /\ head[t] = Wrap(pos[End(t)])
  /\ Items(t) = Minus(Cur(t), tail[t]) + pos[End(t)] - pos[1]
  /\ \A j, k \in 1..End(t) : j < k => pos[j] < pos[k]
  /\ \A k \in 1..Len(pending[t]) :
       LET d == DecodeAfter(FctBefore(t, k), t, pos[k])
       IN  /\ d.fct = pending[t][k].fct
           /\ d.p = pending[t][k].p
           /\ pos[k + 1] = pos[k] + d.words

(* The run in progress stops between two callbacks, and the grace period   *)
(* it waits for covers the sections open when the ones before were queued. *)
Covered(t, pos) ==
  \A k \in 1..Len(todo) :
    todo[k] = t =>
      \E m \in 1..End(t) : /\ Wrap(pos[m]) = Bound(k)
                           /\ \A j \in 1..(m - 1) : pending[t][j].pre \subseteq gpre

(* The ring of t holds exactly its pending callbacks. *)
Ring(t) ==
  /\ Items(t) <= Size
  /\ last_fct_in[t] = FctBefore(t, End(t))
  /\ \E pos \in Positions(t) : Layout(t, pos) /\ Covered(t, pos)

RingInv == \A t \in Threads : Ring(t)

(* A queue is empty outside registration, has room for the callback that   *)
(* is about to be stored, and is run to its end when its owner runs it.    *)
Own(t) ==
  /\ ~Member(t) /\ ~(pc[t] \in RunPc /\ ret[t] = "un_free") => Items(t) = 0
  /\ pc[t] = "enq" => Items(t) <= (IF ret[t] = "enq" THEN 0 ELSE Size - 3)
  /\ pc[t] \in RunPc => /\ \A k \in 1..Len(todo) : todo[k] = t => Bound(k) = head[t]
                        /\ Items(t) = 0 \/ \E k \in 1..Len(todo) : todo[k] = t

OwnInv == \A t \in Threads : Own(t)

(* The grace period of a run is over when it runs callbacks. *)
GraceInv ==
  /\ \A x \in Procs : pc[x] = "run" => gpre = {}
  /\ gpre \subseteq cs
  /\ \A t \in Threads : \A k \in 1..Len(pending[t]) : pending[t][k].pre \subseteq cs

Waker == \E t \in Threads : \/ pc[t] = "wake_load" /\ defer_thread_futex = -1
                            \/ pc[t] = "wake_store"
                            \/ pc[t] = "wake_call" /\ defer_thread_futex = 0

(* The defer thread lives while there are queues, or one is being taken    *)
(* off the list; the futex is armed only by it, and it goes to sleep only  *)
(* if nobody is to be waited for or a waker is on its way.                 *)
SleepInv ==
  /\ pc[tid_defer] # "none" => registry # <<>> \/ \E t \in Threads : Leaving(t)
  /\ pc[tid_defer] \notin WaitPc => defer_thread_futex = 0
  /\ defer_thread_stop = 1 =>
       \E t \in Threads : \/ pc[t] = "join"
                          \/ pc[t] \in WakePc /\ ret[t] = "join"
  /\ pc[tid_defer] = "w_sleep" /\ defer_thread_futex = 0 => Waker
  /\ pc[tid_defer] \in {"w_num", "w_futex", "w_sleep"} /\ defer_thread_stop = 1
       => Waker \/ defer_thread_futex = 0
  /\ /\ pc[tid_defer] \in {"w_futex", "w_sleep"}
     /\ \E t \in Registered : Items(t) # 0
     => Waker \/ defer_thread_futex = 0

IInv == /\ TypeOK /\ ControlInv /\ MutexInv /\ RegistryInv /\ TodoInv
        /\ RingInv /\ OwnInv /\ GraceInv /\ SleepInv
=============================================================================
