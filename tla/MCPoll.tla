------------------------------- MODULE MCPoll -------------------------------
(***************************************************************************)
(* Instances for TLC of what must happen in the end: polled handles, and   *)
(* callbacks deferred by a thread that may unregister.  subject says which *)
(* one a behaviour is about; the variables of the other keep their initial *)
(* values.                                                                 *)
(***************************************************************************)
EXTENDS PollInvariant, Sequences

CONSTANTS r1, r2, a, b, c, t1, tid_defer, NoThread

VARIABLES subject, head, tail, last_fct_in, last_fct_out, last_head, q, registry,
          rcu_defer_mutex, defer_thread_mutex, defer_thread_futex,
          defer_thread_stop, pc, ret, arg, todo, i, upto, dcs, gpre, pending, must

TwoReaders == {r1, r2}
ThreeUsers == {a, b, c}

D == INSTANCE Defer WITH Threads <- {t1}, Callers <- {t1}, Readers <- {r1},
       MaxHead <- 4, Callbacks <- {<<2, 4>>}, Size <- 4, Modulus <- 8,
       DQ_FCT_MARK <- 6, cs <- dcs

deferVars == <<head, tail, last_fct_in, last_fct_out, last_head, q, registry,
               rcu_defer_mutex, defer_thread_mutex, defer_thread_futex,
               defer_thread_stop, pc, ret, arg, todo, i, upto, dcs, gpre,
               pending, must>>
allVars == <<subject, vars, deferVars>>

BothInit == subject \in {"poll", "defer"} /\ Init /\ D!Init

BothNext ==
  \/ subject = "poll" /\ Next /\ UNCHANGED <<subject, deferVars>>
  \/ subject = "defer" /\ D!Next /\ UNCHANGED <<subject, vars>>

BothSpec == BothInit /\ [][BothNext]_allVars /\ Fairness /\ D!Fairness

(* Every deferred callback is run in the end, with nobody calling a        *)
(* barrier, and rcu_defer_unregister_thread() returns: joining the defer   *)
(* thread with defer_thread_mutex held does not deadlock.                  *)
DeferProgress == D!CallbacksRun /\ D!UnregisterReturns
=============================================================================
