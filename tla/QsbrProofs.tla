----------------------------- MODULE QsbrProofs -----------------------------
(***************************************************************************)
(* Proofs about Qsbr: its inductive invariant, one lemma for the steps of  *)
(* readers and one for each action of a grace period, and from it that     *)
(* qsbr implements Rcu, loses no wakeup and no reader.                     *)
(***************************************************************************)
EXTENDS QsbrInvariant, TLAPS

USE DEF Gp, Goto

(* The types of the fields of the two records. *)
LEMMA Fields ==
  ASSUME TypeOK
  PROVE  /\ gp.ctr \in Nat /\ gp.futex \in {-1, 0} /\ gp.loops \in Nat
         /\ gp.lock \in Updaters \cup {NoThread}
         /\ gp.reg \in Updaters \cup {NoThread}
         /\ gp.waiters \subseteq Updaters /\ gp.pass \in {1, 2}
         /\ gp.todo \subseteq Readers
         /\ \A r \in Readers :
              /\ rd[r].ctr \in Nat /\ rd[r].gctr \in Nat
              /\ rd[r].waiting \in BOOLEAN
              /\ rd[r].list \in {"none", "registry", "cur_snap", "qs"}
              /\ rd[r].after \in {"idle", "unregister", "push"}
<1>1. gp \in GpRecord /\ \A r \in Readers : rd[r] \in ReaderRecord
  BY Zenon DEF TypeOK
<1> QED
  BY <1>1 DEF GpRecord, ReaderRecord

(* A call that holds back no section of r holds back none if r ends one. *)
LEMMA PreKept ==
  ASSUME pre \in [Updaters -> SUBSET Readers], NEW r \in Readers, ~InCS(r),
         \A u \in Updaters : \A x \in pre[u] : InCS(x)
  PROVE  pre = [u \in Updaters |-> pre[u] \ {r}]
<1>1. \A u \in Updaters : pre[u] = pre[u] \ {r}
  BY Zenon
<1> QED
  BY Zenon, <1>1

(* How a scan sorts a reader that is offline, and one nothing changes for. *)
LEMMA ScanOffline ==
  ASSUME NEW r \in Readers, gp.ctr # 0, rd[r].ctr = 0 PROVE ScanTo(r) = "qs"
BY DEF ScanTo

(* The sorting looks at the counter, the list and the pass. *)
LEMMA ScanKept ==
  ASSUME NEW r \in Readers, wide' = wide, gp'.ctr = gp.ctr, gp'.pass = gp.pass,
         rd'[r].ctr = rd[r].ctr, rd'[r].list = rd[r].list
  PROVE  ScanTo(r)' = ScanTo(r)
<1>1. CASE rd[r].ctr = 0
  BY <1>1 DEF ScanTo
<1>2. CASE rd[r].ctr # 0 /\ rd[r].ctr = gp.ctr
  BY <1>2 DEF ScanTo
<1>3. CASE rd[r].ctr # 0 /\ rd[r].ctr # gp.ctr
  BY <1>3 DEF ScanTo
<1> QED
  BY Zenon, <1>1, <1>2, <1>3

-----------------------------------------------------------------------------
(* What a step of a reader does that touches nothing but its own record    *)
(* and the sections it ends.  Turn is what matters to a sleeping leader.   *)
Turn(r) ==
  /\ \/ rd'[r].list = rd[r].list
     \/ /\ gp.reg = NoThread
        /\ \/ rd[r].list = "none" /\ rd'[r].list = "registry"
           \/ rd'[r].list = "none"
  /\ gp.futex = -1 /\ pc'[r] # "wake_store" =>
       /\ Told(r) => Told(r)'
       /\ r \in Input /\ Asked(r) => r \in Input' /\ Asked(r)'

Local(r) ==
  /\ wide' = wide /\ gp' = gp /\ batch' = batch
  /\ rd' = [rd EXCEPT ![r] = rd'[r]] /\ rd'[r] \in ReaderRecord
  /\ pc' = [pc EXCEPT ![r] = pc'[r]]
  /\ pc[r] \in {"idle"} \cup ReaderPc /\ pc[r] \notin {"wake_store", "wake_call"}
  /\ pc'[r] \in {"idle", "push"} \cup ReaderPc
  /\ pre' = [u \in Updaters |-> pre[u] \ {r}]
  /\ Role(r)' /\ CounterOf(r)'
  /\ Turn(r)

(* Every step of a reader is local, but the two that end a wakeup, and so  *)
(* is the start of a call of synchronize_rcu() by a reader.                *)
LEMMA ReaderLocal ==
  ASSUME IInv, wide' = wide, NEW r \in Readers,
         ReaderStep(r) \/ Sync(r), ~WakeStore(r), ~WakeCall(r)
  PROVE  Local(r)
<1>t. /\ rd \in [Readers -> ReaderRecord] /\ pc \in [Threads -> Pcs] /\ r \in Threads
      /\ Role(r) /\ CounterOf(r) /\ gp.ctr # 0 /\ (wide \/ gp.ctr \in {1, 3})
      /\ pre \in [Updaters -> SUBSET Readers]
      /\ \A u \in Updaters : \A x \in pre[u] : InCS(x)
      /\ rd[r].after \in {"idle", "unregister", "push"} /\ gp.pass \in {1, 2}
      /\ rd[r].list \in {"none", "registry", "cur_snap", "qs"}
      /\ gp.ctr <= gp.ctr /\ gp.ctr \in Nat /\ 0 \in Nat
  <2>1. /\ TypeOK /\ Role(r) /\ CounterOf(r) /\ gp.ctr # 0 /\ (wide \/ gp.ctr \in {1, 3})
        /\ \A u \in Updaters : \A x \in pre[u] : InCS(x)
    BY Zenon DEF IInv, RoleInv, CounterInv, GraceInv
  <2>2. /\ rd[r].after \in {"idle", "unregister", "push"} /\ gp.pass \in {1, 2}
        /\ rd[r].list \in {"none", "registry", "cur_snap", "qs"} /\ gp.ctr \in Nat
    BY Zenon, <2>1, Fields
  <2>3. gp.ctr <= gp.ctr /\ 0 \in Nat
    BY <2>2
  <2> QED
    BY Zenon, <2>1, <2>2, <2>3 DEF TypeOK, Threads
<1>1. CASE Register(r)
  <2>1. /\ rd' = [rd EXCEPT ![r] = rd'[r]] /\ rd'[r] \in ReaderRecord
        /\ rd'[r].ctr = rd[r].ctr /\ rd'[r].gctr = rd[r].gctr /\ rd'[r].waiting = rd[r].waiting
        /\ rd'[r].list = "registry" /\ rd'[r].after = rd[r].after
    <3>1. rd'[r] = [rd[r] EXCEPT !.list = "registry"] /\ rd' = [rd EXCEPT ![r] = rd'[r]]
      BY Zenon, <1>1, <1>t DEF Register
    <3>2. rd[r] \in ReaderRecord
      BY Zenon, <1>t
    <3> QED
      BY Zenon, <1>t, <3>1, <3>2 DEF ReaderRecord
  <2>2. /\ gp' = gp /\ batch' = batch /\ pc' = [pc EXCEPT ![r] = pc'[r]]
        /\ pc'[r] = "on_load"
        /\ rd[r].list = "none" /\ gp.reg = NoThread /\ pc[r] = "idle"
    BY Zenon, <1>1, <1>t DEF Register
  <2>3. pre' = [u \in Updaters |-> pre[u] \ {r}]
    <3>1. pre' = pre /\ ~InCS(r)
      BY Zenon, <1>1, <1>t, <2>2 DEF Register, InCS, Role
    <3> QED
      BY Zenon, <1>t, <3>1, PreKept
  <2>4. pc'[r] \in {"idle", "push"} \cup ReaderPc
    BY Zenon, <1>t, <2>2 DEF ReaderPc
  <2>5. Role(r)' /\ CounterOf(r)'
    BY Zenon, <1>t, <2>1, <2>2 DEF Role, CounterOf, Seen, ReaderPc, SyncPc, WakePc
  <2>6. Turn(r)
    BY Zenon, <1>t, <2>1, <2>2, ScanOffline, ScanKept DEF Turn, Told, Asked, Role, Input, OnList
  <2> QED
    BY Zenon, <1>t, <2>1, <2>2, <2>3, <2>4, <2>5, <2>6 DEF Local, ReaderPc
<1>2. CASE Online(r)
  <2>1. /\ rd' = [rd EXCEPT ![r] = rd'[r]] /\ rd'[r] \in ReaderRecord
        /\ rd'[r].ctr = rd[r].ctr /\ rd'[r].gctr = rd[r].gctr /\ rd'[r].waiting = rd[r].waiting
        /\ rd'[r].list = rd[r].list /\ rd'[r].after = rd[r].after
    BY Zenon, <1>2, <1>t DEF Online
  <2>2. /\ gp' = gp /\ batch' = batch /\ pc' = [pc EXCEPT ![r] = pc'[r]]
        /\ pc'[r] = "on_load"
        /\ pc[r] = "idle" /\ rd[r].list # "none" /\ rd[r].ctr = 0
    BY Zenon, <1>2, <1>t DEF Online
  <2>3. pre' = [u \in Updaters |-> pre[u] \ {r}]
    <3>1. pre' = pre /\ ~InCS(r)
      BY Zenon, <1>2, <1>t, <2>2 DEF Online, InCS, Role
    <3> QED
      BY Zenon, <1>t, <3>1, PreKept
  <2>4. pc'[r] \in {"idle", "push"} \cup ReaderPc
    BY Zenon, <1>t, <2>2 DEF ReaderPc
  <2>5. Role(r)' /\ CounterOf(r)'
    BY Zenon, <1>t, <2>1, <2>2 DEF Role, CounterOf, Seen, ReaderPc, SyncPc, WakePc
  <2>6. Turn(r)
    BY Zenon, <1>t, <2>1, <2>2, ScanOffline, ScanKept DEF Turn, Told, Asked, Role, Input, OnList
  <2> QED
    BY Zenon, <1>t, <2>1, <2>2, <2>3, <2>4, <2>5, <2>6 DEF Local, ReaderPc
<1>3. CASE OnlineLoad(r)
  <2>1. /\ rd' = [rd EXCEPT ![r] = rd'[r]] /\ rd'[r] \in ReaderRecord
        /\ rd'[r].ctr = rd[r].ctr /\ rd'[r].gctr = gp.ctr /\ rd'[r].waiting = rd[r].waiting
        /\ rd'[r].list = rd[r].list /\ rd'[r].after = rd[r].after
    <3>1. rd'[r] = [rd[r] EXCEPT !.gctr = gp.ctr] /\ rd' = [rd EXCEPT ![r] = rd'[r]]
      BY Zenon, <1>3, <1>t DEF OnlineLoad
    <3>2. rd[r] \in ReaderRecord
      BY Zenon, <1>t
    <3> QED
      BY Zenon, <1>t, <3>1, <3>2 DEF ReaderRecord
  <2>2. /\ gp' = gp /\ batch' = batch /\ pc' = [pc EXCEPT ![r] = pc'[r]]
        /\ pc'[r] = "on_store"
        /\ pc[r] = "on_load"
    BY Zenon, <1>3, <1>t DEF OnlineLoad
  <2>3. pre' = [u \in Updaters |-> pre[u] \ {r}]
    <3>1. pre' = pre /\ ~InCS(r)
      BY Zenon, <1>3, <1>t, <2>2 DEF OnlineLoad, InCS, Role
    <3> QED
      BY Zenon, <1>t, <3>1, PreKept
  <2>4. pc'[r] \in {"idle", "push"} \cup ReaderPc
    BY Zenon, <1>t, <2>2 DEF ReaderPc
  <2>5. Role(r)' /\ CounterOf(r)'
    BY Zenon, <1>t, <2>1, <2>2 DEF Role, CounterOf, Seen, ReaderPc, SyncPc, WakePc
  <2>6. Turn(r)
    BY Zenon, <1>t, <2>1, <2>2, ScanOffline, ScanKept DEF Turn, Told, Asked, Role, Input, OnList
  <2> QED
    BY Zenon, <1>t, <2>1, <2>2, <2>3, <2>4, <2>5, <2>6 DEF Local, ReaderPc
<1>4. CASE OnlineStore(r)
  <2>1. /\ rd' = [rd EXCEPT ![r] = rd'[r]] /\ rd'[r] \in ReaderRecord
        /\ rd'[r].ctr = rd[r].gctr /\ rd'[r].gctr = rd[r].gctr /\ rd'[r].waiting = rd[r].waiting
        /\ rd'[r].list = rd[r].list /\ rd'[r].after = rd[r].after
    <3>1. rd'[r] = [rd[r] EXCEPT !.ctr = rd[r].gctr] /\ rd' = [rd EXCEPT ![r] = rd'[r]]
      BY Zenon, <1>4, <1>t DEF OnlineStore
    <3>2. rd[r] \in ReaderRecord
      BY Zenon, <1>t
    <3> QED
      BY Zenon, <1>t, <3>1, <3>2 DEF ReaderRecord
  <2>2. /\ gp' = gp /\ batch' = batch /\ pc' = [pc EXCEPT ![r] = pc'[r]]
        /\ pc'[r] = "idle"
        /\ pc[r] = "on_store"
    BY Zenon, <1>4, <1>t DEF OnlineStore
  <2>3. pre' = [u \in Updaters |-> pre[u] \ {r}]
    <3>1. pre' = pre /\ ~InCS(r)
      BY Zenon, <1>4, <1>t, <2>2 DEF OnlineStore, InCS, Role
    <3> QED
      BY Zenon, <1>t, <3>1, PreKept
  <2>4. pc'[r] \in {"idle", "push"} \cup ReaderPc
    BY Zenon, <1>t, <2>2 DEF ReaderPc
  <2>5. Role(r)' /\ CounterOf(r)'
    BY Zenon, <1>t, <2>1, <2>2 DEF Role, CounterOf, Seen, ReaderPc, SyncPc, WakePc
  <2>6. Turn(r)
    BY Zenon, <1>t, <2>1, <2>2, ScanOffline, ScanKept DEF Turn, Told, Asked, Role, Input, OnList
  <2> QED
    BY Zenon, <1>t, <2>1, <2>2, <2>3, <2>4, <2>5, <2>6 DEF Local, ReaderPc
<1>5. CASE Quiescent(r)
  <2>1. /\ rd' = [rd EXCEPT ![r] = rd'[r]] /\ rd'[r] \in ReaderRecord
        /\ rd'[r].ctr = rd[r].ctr /\ rd'[r].gctr = gp.ctr /\ rd'[r].waiting = rd[r].waiting
        /\ rd'[r].list = rd[r].list /\ rd'[r].after = rd[r].after
    <3>1. rd'[r] = [rd[r] EXCEPT !.gctr = gp.ctr] /\ rd' = [rd EXCEPT ![r] = rd'[r]]
      BY Zenon, <1>5, <1>t DEF Quiescent, InCS
    <3>2. rd[r] \in ReaderRecord
      BY Zenon, <1>t
    <3> QED
      BY Zenon, <1>t, <3>1, <3>2 DEF ReaderRecord
  <2>2. /\ gp' = gp /\ batch' = batch /\ pc' = [pc EXCEPT ![r] = pc'[r]]
        /\ gp.ctr = rd[r].ctr => pc'[r] = "qs_skip"
        /\ ~(gp.ctr = rd[r].ctr) => pc'[r] = "qs_store"
        /\ pc[r] = "idle" /\ rd[r].ctr # 0
    BY <1>5, <1>t DEF Quiescent, InCS
  <2>3. pre' = [u \in Updaters |-> pre[u] \ {r}]
    BY Zenon, <1>5 DEF Quiescent, InCS, Ended
  <2>4. pc'[r] \in {"idle", "push"} \cup ReaderPc
    BY Zenon, <1>t, <2>2 DEF ReaderPc
  <2>5. Role(r)' /\ CounterOf(r)'
    BY Zenon, <1>t, <2>1, <2>2 DEF Role, CounterOf, Seen, ReaderPc, SyncPc, WakePc
  <2>6. Turn(r)
    BY Zenon, <1>t, <2>1, <2>2, ScanOffline, ScanKept DEF Turn, Told, Asked, Role, Input, OnList
  <2> QED
    BY Zenon, <1>t, <2>1, <2>2, <2>3, <2>4, <2>5, <2>6 DEF Local, ReaderPc
<1>6. CASE QuiescentSkip(r)
  <2>1. /\ rd' = [rd EXCEPT ![r] = rd'[r]] /\ rd'[r] \in ReaderRecord
        /\ rd'[r].ctr = rd[r].ctr /\ rd'[r].gctr = rd[r].gctr /\ rd'[r].waiting = rd[r].waiting
        /\ rd'[r].list = rd[r].list /\ rd'[r].after = rd[r].after
    BY Zenon, <1>6, <1>t DEF QuiescentSkip
  <2>2. /\ gp' = gp /\ batch' = batch /\ pc' = [pc EXCEPT ![r] = pc'[r]]
        /\ pc'[r] = "idle"
        /\ pc[r] = "qs_skip"
    BY Zenon, <1>6, <1>t DEF QuiescentSkip
  <2>3. pre' = [u \in Updaters |-> pre[u] \ {r}]
    <3>1. pre' = pre /\ ~InCS(r)
      BY Zenon, <1>6, <1>t, <2>2 DEF QuiescentSkip, InCS, Role
    <3> QED
      BY Zenon, <1>t, <3>1, PreKept
  <2>4. pc'[r] \in {"idle", "push"} \cup ReaderPc
    BY Zenon, <1>t, <2>2 DEF ReaderPc
  <2>5. Role(r)' /\ CounterOf(r)'
    BY Zenon, <1>t, <2>1, <2>2 DEF Role, CounterOf, Seen, ReaderPc, SyncPc, WakePc
  <2>6. Turn(r)
    BY Zenon, <1>t, <2>1, <2>2, ScanOffline, ScanKept DEF Turn, Told, Asked, Role, Input, OnList
  <2> QED
    BY Zenon, <1>t, <2>1, <2>2, <2>3, <2>4, <2>5, <2>6 DEF Local, ReaderPc
<1>7. CASE QuiescentStore(r)
  <2>1. /\ rd' = [rd EXCEPT ![r] = rd'[r]] /\ rd'[r] \in ReaderRecord
        /\ rd'[r].ctr = rd[r].gctr /\ rd'[r].gctr = rd[r].gctr /\ rd'[r].waiting = rd[r].waiting
        /\ rd'[r].list = rd[r].list /\ rd'[r].after = "idle"
    <3>1. /\ rd'[r] = [rd[r] EXCEPT !.ctr = rd[r].gctr, !.after = "idle"]
          /\ rd' = [rd EXCEPT ![r] = rd'[r]]
      BY Zenon, <1>7, <1>t DEF QuiescentStore
    <3>2. rd[r] \in ReaderRecord
      BY Zenon, <1>t
    <3> QED
      BY Zenon, <1>t, <3>1, <3>2 DEF ReaderRecord
  <2>2. /\ gp' = gp /\ batch' = batch /\ pc' = [pc EXCEPT ![r] = pc'[r]]
        /\ pc'[r] = "wake"
        /\ pc[r] = "qs_store"
    BY Zenon, <1>7, <1>t DEF QuiescentStore
  <2>3. pre' = [u \in Updaters |-> pre[u] \ {r}]
    <3>1. pre' = pre /\ ~InCS(r)
      BY Zenon, <1>7, <1>t, <2>2 DEF QuiescentStore, InCS, Role
    <3> QED
      BY Zenon, <1>t, <3>1, PreKept
  <2>4. pc'[r] \in {"idle", "push"} \cup ReaderPc
    BY Zenon, <1>t, <2>2 DEF ReaderPc
  <2>5. Role(r)' /\ CounterOf(r)'
    BY Zenon, <1>t, <2>1, <2>2 DEF Role, CounterOf, Seen, ReaderPc, SyncPc, WakePc
  <2>6. Turn(r)
    BY Zenon, <1>t, <2>1, <2>2, ScanOffline, ScanKept DEF Turn, Told, Asked, Role, Input, OnList
  <2> QED
    BY Zenon, <1>t, <2>1, <2>2, <2>3, <2>4, <2>5, <2>6 DEF Local, ReaderPc
<1>8. CASE UnregisterDel(r)
  <2>1. /\ rd' = [rd EXCEPT ![r] = rd'[r]] /\ rd'[r] \in ReaderRecord
        /\ rd'[r].ctr = rd[r].ctr /\ rd'[r].gctr = rd[r].gctr /\ rd'[r].waiting = rd[r].waiting
        /\ rd'[r].list = "none" /\ rd'[r].after = rd[r].after
    <3>1. rd'[r] = [rd[r] EXCEPT !.list = "none"] /\ rd' = [rd EXCEPT ![r] = rd'[r]]
      BY Zenon, <1>8, <1>t DEF UnregisterDel
    <3>2. rd[r] \in ReaderRecord
      BY Zenon, <1>t
    <3> QED
      BY Zenon, <1>t, <3>1, <3>2 DEF ReaderRecord
  <2>2. /\ gp' = gp /\ batch' = batch /\ pc' = [pc EXCEPT ![r] = pc'[r]]
        /\ pc'[r] = "idle"
        /\ pc[r] = "unregister" /\ gp.reg = NoThread
    BY Zenon, <1>8, <1>t DEF UnregisterDel
  <2>3. pre' = [u \in Updaters |-> pre[u] \ {r}]
    <3>1. pre' = pre /\ ~InCS(r)
      BY Zenon, <1>8, <1>t, <2>2 DEF UnregisterDel, InCS, Role
    <3> QED
      BY Zenon, <1>t, <3>1, PreKept
  <2>4. pc'[r] \in {"idle", "push"} \cup ReaderPc
    BY Zenon, <1>t, <2>2 DEF ReaderPc
  <2>5. Role(r)' /\ CounterOf(r)'
    BY Zenon, <1>t, <2>1, <2>2 DEF Role, CounterOf, Seen, ReaderPc, SyncPc, WakePc
  <2>6. Turn(r)
    BY Zenon, <1>t, <2>1, <2>2, ScanOffline, ScanKept DEF Turn, Told, Asked, Role, Input, OnList
  <2> QED
    BY Zenon, <1>t, <2>1, <2>2, <2>3, <2>4, <2>5, <2>6 DEF Local, ReaderPc
<1>9. CASE Wake(r)
  <2>1. /\ rd' = [rd EXCEPT ![r] = rd'[r]] /\ rd'[r] \in ReaderRecord
        /\ rd'[r].ctr = rd[r].ctr /\ rd'[r].gctr = rd[r].gctr /\ rd'[r].waiting = rd[r].waiting
        /\ rd'[r].list = rd[r].list /\ rd'[r].after = rd[r].after
    BY Zenon, <1>9, <1>t DEF Wake
  <2>2. /\ gp' = gp /\ batch' = batch /\ pc' = [pc EXCEPT ![r] = pc'[r]]
        /\ (rd[r].waiting => pc'[r] = "wake_clear") /\ (~(rd[r].waiting) => pc'[r] = rd[r].after)
        /\ pc[r] = "wake"
    BY <1>9, <1>t DEF Wake
  <2>3. pre' = [u \in Updaters |-> pre[u] \ {r}]
    <3>1. pre' = pre /\ ~InCS(r)
      BY Zenon, <1>9, <1>t, <2>2 DEF Wake, InCS, Role
    <3> QED
      BY Zenon, <1>t, <3>1, PreKept
  <2>4. pc'[r] \in {"idle", "push"} \cup ReaderPc
    BY Zenon, <1>t, <2>2 DEF ReaderPc
  <2>5. Role(r)' /\ CounterOf(r)'
    BY Zenon, <1>t, <2>1, <2>2 DEF Role, CounterOf, Seen, ReaderPc, SyncPc, WakePc
  <2>6. Turn(r)
    BY Zenon, <1>t, <2>1, <2>2, ScanOffline, ScanKept DEF Turn, Told, Asked, Role, Input, OnList
  <2> QED
    BY Zenon, <1>t, <2>1, <2>2, <2>3, <2>4, <2>5, <2>6 DEF Local, ReaderPc
<1>10. CASE WakeClear(r)
  <2>1. /\ rd' = [rd EXCEPT ![r] = rd'[r]] /\ rd'[r] \in ReaderRecord
        /\ rd'[r].ctr = rd[r].ctr /\ rd'[r].gctr = rd[r].gctr /\ rd'[r].waiting = FALSE
        /\ rd'[r].list = rd[r].list /\ rd'[r].after = rd[r].after
    <3>1. rd'[r] = [rd[r] EXCEPT !.waiting = FALSE] /\ rd' = [rd EXCEPT ![r] = rd'[r]]
      BY Zenon, <1>10, <1>t DEF WakeClear
    <3>2. rd[r] \in ReaderRecord
      BY Zenon, <1>t
    <3> QED
      BY Zenon, <1>t, <3>1, <3>2 DEF ReaderRecord
  <2>2. /\ gp' = gp /\ batch' = batch /\ pc' = [pc EXCEPT ![r] = pc'[r]]
        /\ pc'[r] = "wake_futex"
        /\ pc[r] = "wake_clear"
    BY Zenon, <1>10, <1>t DEF WakeClear
  <2>3. pre' = [u \in Updaters |-> pre[u] \ {r}]
    <3>1. pre' = pre /\ ~InCS(r)
      BY Zenon, <1>10, <1>t, <2>2 DEF WakeClear, InCS, Role
    <3> QED
      BY Zenon, <1>t, <3>1, PreKept
  <2>4. pc'[r] \in {"idle", "push"} \cup ReaderPc
    BY Zenon, <1>t, <2>2 DEF ReaderPc
  <2>5. Role(r)' /\ CounterOf(r)'
    BY Zenon, <1>t, <2>1, <2>2 DEF Role, CounterOf, Seen, ReaderPc, SyncPc, WakePc
  <2>6. Turn(r)
    BY Zenon, <1>t, <2>1, <2>2, ScanOffline, ScanKept DEF Turn, Told, Asked, Role, Input, OnList
  <2> QED
    BY Zenon, <1>t, <2>1, <2>2, <2>3, <2>4, <2>5, <2>6 DEF Local, ReaderPc
<1>11. CASE WakeFutex(r)
  <2>1. /\ rd' = [rd EXCEPT ![r] = rd'[r]] /\ rd'[r] \in ReaderRecord
        /\ rd'[r].ctr = rd[r].ctr /\ rd'[r].gctr = rd[r].gctr /\ rd'[r].waiting = rd[r].waiting
        /\ rd'[r].list = rd[r].list /\ rd'[r].after = rd[r].after
    BY Zenon, <1>11, <1>t DEF WakeFutex
  <2>2. /\ gp' = gp /\ batch' = batch /\ pc' = [pc EXCEPT ![r] = pc'[r]]
        /\ (gp.futex = -1 => pc'[r] = "wake_store") /\ (~(gp.futex = -1) => pc'[r] = rd[r].after)
        /\ pc[r] = "wake_futex"
    BY <1>11, <1>t DEF WakeFutex
  <2>3. pre' = [u \in Updaters |-> pre[u] \ {r}]
    <3>1. pre' = pre /\ ~InCS(r)
      BY Zenon, <1>11, <1>t, <2>2 DEF WakeFutex, InCS, Role
    <3> QED
      BY Zenon, <1>t, <3>1, PreKept
  <2>4. pc'[r] \in {"idle", "push"} \cup ReaderPc
    BY Zenon, <1>t, <2>2 DEF ReaderPc
  <2>5. Role(r)' /\ CounterOf(r)'
    BY Zenon, <1>t, <2>1, <2>2 DEF Role, CounterOf, Seen, ReaderPc, SyncPc, WakePc
  <2>6. Turn(r)
    BY Zenon, <1>t, <2>1, <2>2, ScanOffline, ScanKept DEF Turn, Told, Asked, Role, Input, OnList
  <2> QED
    BY Zenon, <1>t, <2>1, <2>2, <2>3, <2>4, <2>5, <2>6 DEF Local, ReaderPc
<1>12. ASSUME NEW next \in {"idle", "unregister", "push"}, GoOffline(r, next) PROVE Local(r)
  <2>1. /\ rd' = [rd EXCEPT ![r] = rd'[r]] /\ rd'[r] \in ReaderRecord
        /\ rd'[r].ctr = 0 /\ rd'[r].gctr = rd[r].gctr /\ rd'[r].waiting = rd[r].waiting
        /\ rd'[r].list = rd[r].list /\ rd'[r].after = next
    <3>1. rd'[r] = [rd[r] EXCEPT !.ctr = 0, !.after = next] /\ rd' = [rd EXCEPT ![r] = rd'[r]]
      BY Zenon, <1>12, <1>t DEF GoOffline
    <3>2. rd[r] \in ReaderRecord
      BY Zenon, <1>t
    <3> QED
      BY Zenon, <1>t, <3>1, <3>2 DEF ReaderRecord
  <2>2. /\ gp' = gp /\ batch' = batch /\ pc' = [pc EXCEPT ![r] = pc'[r]]
        /\ pc'[r] = "wake"
        /\ pc[r] = "idle" /\ rd[r].list # "none"
    BY Zenon, <1>12, <1>t DEF GoOffline
  <2>3. pre' = [u \in Updaters |-> pre[u] \ {r}]
    BY Zenon, <1>12 DEF GoOffline, Ended
  <2>4. pc'[r] \in {"idle", "push"} \cup ReaderPc
    BY Zenon, <1>t, <2>2 DEF ReaderPc
  <2>5. Role(r)' /\ CounterOf(r)'
    BY Zenon, <1>t, <2>1, <2>2 DEF Role, CounterOf, Seen, ReaderPc, SyncPc, WakePc
  <2>6. Turn(r)
    BY Zenon, <1>t, <2>1, <2>2, ScanOffline, ScanKept DEF Turn, Told, Asked, Role, Input, OnList
  <2> QED
    BY Zenon, <1>t, <2>1, <2>2, <2>3, <2>4, <2>5, <2>6 DEF Local, ReaderPc
<1>13. CASE Offline(r) \/ Unregister(r)
  BY Zenon, <1>12, <1>13 DEF Offline, Unregister
<1>14. CASE Sync(r) /\ rd[r].ctr # 0
  BY Zenon, <1>12, <1>14 DEF Sync
<1>15. CASE Sync(r) /\ rd[r].ctr = 0
  <2>1. /\ rd' = [rd EXCEPT ![r] = rd'[r]] /\ rd'[r] \in ReaderRecord
        /\ rd'[r].ctr = rd[r].ctr /\ rd'[r].gctr = rd[r].gctr /\ rd'[r].waiting = rd[r].waiting
        /\ rd'[r].list = rd[r].list /\ rd'[r].after = "idle"
    <3>1. rd'[r] = [rd[r] EXCEPT !.after = "idle"] /\ rd' = [rd EXCEPT ![r] = rd'[r]]
      BY Zenon, <1>15, <1>t DEF Sync
    <3>2. rd[r] \in ReaderRecord
      BY Zenon, <1>t
    <3> QED
      BY Zenon, <1>t, <3>1, <3>2 DEF ReaderRecord
  <2>2. /\ gp' = gp /\ batch' = batch /\ pc' = [pc EXCEPT ![r] = pc'[r]]
        /\ pc'[r] = "push"
        /\ pc[r] = "idle" /\ rd[r].ctr = 0
    BY Zenon, <1>15, <1>t DEF Sync
  <2>3. pre' = [u \in Updaters |-> pre[u] \ {r}]
    <3>1. pre' = pre /\ ~InCS(r)
      BY Zenon, <1>15, <1>t, <2>2 DEF Sync, InCS, Role
    <3> QED
      BY Zenon, <1>t, <3>1, PreKept
  <2>4. pc'[r] \in {"idle", "push"} \cup ReaderPc
    BY Zenon, <1>t, <2>2 DEF ReaderPc
  <2>5. Role(r)' /\ CounterOf(r)'
    BY Zenon, <1>t, <2>1, <2>2 DEF Role, CounterOf, Seen, ReaderPc, SyncPc, WakePc
  <2>6. Turn(r)
    BY Zenon, <1>t, <2>1, <2>2, ScanOffline, ScanKept DEF Turn, Told, Asked, Role, Input, OnList
  <2> QED
    BY Zenon, <1>t, <2>1, <2>2, <2>3, <2>4, <2>5, <2>6 DEF Local, ReaderPc
<1> QED
  BY Zenon, <1>1, <1>2, <1>3, <1>4, <1>5, <1>6, <1>7, <1>8, <1>9, <1>10, <1>11, <1>13,
     <1>14, <1>15
  DEF ReaderStep, ReaderCall

(* A local step of a reader keeps the invariant. *)
LEMMA LocalInv ==
  ASSUME IInv, QsbrAssumption, NEW r \in Readers, Local(r) PROVE IInv'
<1>t. TypeOK /\ r \in Threads /\ \A u \in Updaters : u \in Threads
  BY Zenon DEF IInv, Threads
<1>f. /\ wide' = wide /\ gp' = gp /\ batch' = batch /\ rd' \in [Readers -> ReaderRecord]
      /\ pc' \in [Threads -> Pcs] /\ pre' \in [Updaters -> SUBSET Readers]
      /\ \A q \in Readers : q # r => rd'[q] = rd[q] /\ pc'[q] = pc[q]
      /\ \A t \in Threads : t # r => pc'[t] = pc[t]
      /\ \A u \in Updaters : pre'[u] = pre[u] \ {r}
  <2>1. pc'[r] \in Pcs
    BY Zenon DEF Local, Pcs
  <2>2. /\ wide' = wide /\ gp' = gp /\ batch' = batch /\ rd' \in [Readers -> ReaderRecord]
        /\ \A q \in Readers : q # r => rd'[q] = rd[q]
    BY Zenon, <1>t DEF Local, TypeOK
  <2>3. /\ pc' \in [Threads -> Pcs] /\ \A t \in Threads : t # r => pc'[t] = pc[t]
    BY Zenon, <1>t, <2>1 DEF Local, TypeOK
  <2>4. /\ pre' \in [Updaters -> SUBSET Readers]
        /\ \A u \in Updaters : pre'[u] = pre[u] \ {r}
    BY Zenon, <1>t DEF Local, TypeOK
  <2> QED
    BY Zenon, <2>2, <2>3, <2>4 DEF Threads
<1>g. /\ pc[r] \notin SyncPc /\ pc'[r] \notin SyncPc
      /\ GpPc \subseteq SyncPc /\ RegPc \subseteq GpPc /\ BatchPc \subseteq SyncPc
      /\ {"lock", "waiting", "gp_end"} \subseteq SyncPc
  BY Zenon DEF Local, ReaderPc, SyncPc, GpPc, RegPc, BatchPc
<1>q. ASSUME NEW q \in Readers, q # r
      PROVE  /\ Role(q)' <=> Role(q)
             /\ CounterOf(q)' <=> CounterOf(q)
             /\ InCS(q)' <=> InCS(q)
             /\ Tracked(q)' <=> Tracked(q)
             /\ Told(q)' <=> Told(q)
             /\ Asked(q)' <=> Asked(q)
             /\ q \in Input' <=> q \in Input
  <2>1. ScanTo(q)' = ScanTo(q)
    BY Zenon, <1>f, <1>q, ScanKept
  <2> QED
    BY Zenon, <1>f, <1>q, <2>1
    DEF Role, CounterOf, Seen, InCS, Tracked, Told, Asked, Input, OnList
<1>1. TypeOK'
  BY Zenon, <1>t, <1>f DEF TypeOK
<1>2. LockInv'
  BY Zenon, <1>f, <1>g DEF IInv, LockInv
<1>i. rd'[r].list = rd[r].list => Input' = Input
  BY Zenon, <1>f, <1>q DEF Input, OnList
<1>3. CounterInv'
  <2>1. gp'.ctr # 0 /\ (wide' \/ gp'.ctr \in {1, 3})
    BY Zenon, <1>f DEF IInv, CounterInv
  <2>2. \A q \in Readers : CounterOf(q)'
    BY Zenon, <1>q DEF IInv, CounterInv, Local
  <2> QED
    BY Zenon, <2>1, <2>2 DEF CounterInv
<1>4. RoleInv'
  BY Zenon, <1>q DEF IInv, RoleInv, Local
<1>5. BatchInv'
  <2>1. \A u \in Updaters : \/ pc'[u] = pc[u]
                            \/ pc'[u] \notin SyncPc /\ pc[u] \notin SyncPc
    BY Zenon, <1>t, <1>f, <1>g
  <2>2. \A u \in Updaters :
          /\ pc'[u] \in BatchPc <=> pc[u] \in BatchPc
          /\ pc'[u] = "lock" <=> pc[u] = "lock"
          /\ pc'[u] = "waiting" <=> pc[u] = "waiting"
    BY Zenon, <1>g, <2>1
  <2> QED
    BY Zenon, <1>f, <2>2 DEF IInv, BatchInv
<1>6. ListInv'
  <2>1. \/ rd'[r].list = rd[r].list
        \/ /\ gp.reg = NoThread
           /\ rd'[r].list \in {"none", "registry"}
    BY Zenon DEF Local, Turn
  <2>2. \A u \in Updaters : pc[u] \in {"passed", "ask", "scan"} => gp.reg # NoThread
    BY Zenon, <1>t DEF IInv, LockInv, RegPc, QsbrAssumption
  <2>4. \A q \in Readers : rd'[q].list = rd[q].list \/ rd'[q].list \in {"none", "registry"}
    BY Zenon, <1>f, <2>1
  <2>5. /\ \A u \in Updaters : pc'[u] = "passed" => Input' = {}
        /\ \A u \in Updaters : pc'[u] \in {"ask", "scan"} => gp'.todo \subseteq Input'
    BY Zenon, <1>t, <1>f, <1>g, <1>i, <2>1, <2>2 DEF IInv, ListInv, SyncPc
  <2> QED
    BY Zenon, <1>t, <1>f, <1>g, <2>4, <2>5 DEF IInv, ListInv, GpPc, RegPc, SyncPc
<1>7. GraceInv'
  <2>1. \A u \in Updaters : \A q \in pre'[u] : q \in pre[u] /\ q # r /\ q \in Readers
    BY Zenon, <1>t, <1>f DEF TypeOK
  <2>2. \A u \in Updaters : \A q \in pre'[u] : InCS(q)'
    BY Zenon, <1>q, <2>1 DEF IInv, GraceInv
  <2>3. \A u \in Updaters : pre[u] = {} => pre'[u] = {}
    BY Zenon, <1>f
  <2>4. \A u \in Updaters : \/ pc'[u] = pc[u]
                            \/ pc'[u] \notin SyncPc /\ pc[u] \notin SyncPc
    BY Zenon, <1>t, <1>f, <1>g
  <2>5. \A u \in Updaters :
          /\ pc'[u] \in GpPc \ {"reg_lock", "out"} => pc[u] \in GpPc \ {"reg_lock", "out"}
          /\ pc'[u] \in {"out", "release"} => pc[u] \in {"out", "release"}
          /\ pc'[u] = "gp_end" => pc[u] = "gp_end"
    BY Zenon, <1>g, <2>4 DEF SyncPc
  <2>6. ASSUME NEW u \in Updaters, NEW v \in Updaters, u \in batch'[v]
        PROVE  /\ pc'[v] \in GpPc \ {"reg_lock", "out"} =>
                    \A q \in pre'[u] : Tracked(q)'
               /\ pc'[v] \in {"out", "release"} => pre'[u] = {}
    <3>1. u \in batch[v]
      BY Zenon, <1>f, <2>6
    <3> QED
      BY Zenon, <1>q, <2>1, <2>3, <2>5, <3>1 DEF IInv, GraceInv
  <2> QED
    BY Zenon, <2>2, <2>3, <2>5, <2>6 DEF IInv, GraceInv
<1>8. SleepInv'
  <2>1. Armed' => Armed /\ gp.futex = -1 /\ pc'[r] # "wake_store"
    BY Zenon, <1>f DEF Armed, Local
  <2>2. ASSUME Armed'
        PROVE  /\ \A q \in Readers : Told(q) => Told(q)'
               /\ \A q \in Input : Asked(q) => q \in Input' /\ Asked(q)'
    BY Zenon, <1>q, <2>1, <2>2 DEF Local, Turn, Input, OnList
  <2>3. ASSUME NEW u \in Updaters, pc'[u] \in {"ask", "scan"}
        PROVE  /\ Input' = Input
               /\ \A q \in Input : q \in Readers
    <3>1. gp.reg # NoThread
      <4>1. pc[u] \in RegPc
        BY Zenon, <1>t, <1>f, <1>g, <2>3 DEF RegPc, SyncPc
      <4> QED
        BY Zenon, <1>t, <4>1 DEF IInv, LockInv, QsbrAssumption
    <3>2. rd'[r].list = rd[r].list
      BY Zenon, <3>1 DEF Local, Turn
    <3> QED
      BY Zenon, <1>i, <3>2 DEF Input, OnList
  <2>4. Sleepy' <=> Sleepy
    BY Zenon, <1>f DEF Sleepy
  <2>5. ASSUME NEW u \in Updaters
        PROVE  /\ pc'[u] \in {"ask", "scan", "wait_gp", "asleep"} => pc'[u] = pc[u]
    BY Zenon, <1>t, <1>f, <1>g DEF SyncPc
  <2>6. ASSUME NEW u \in Updaters, pc[u] = "asleep", gp.futex = 0
        PROVE  \E q \in Readers : pc'[q] \in {"wake_store", "wake_call"}
    <3>1. PICK q \in Readers : pc[q] \in {"wake_store", "wake_call"}
      BY Zenon, <2>6 DEF IInv, SleepInv
    <3>2. pc[r] \notin {"wake_store", "wake_call"}
      BY Zenon DEF Local
    <3> QED
      BY Zenon, <1>f, <3>1, <3>2
  <2> SUFFICES ASSUME NEW u \in Updaters
               PROVE  /\ pc'[u] \in {"ask", "wait_gp", "asleep"} => Sleepy'
                      /\ pc'[u] = "ask" /\ Armed' =>
                           \A q \in Input' \ gp'.todo : Told(q)'
                      /\ pc'[u] = "scan" /\ Sleepy' /\ Armed' =>
                           /\ \A q \in Input' : Told(q)'
                           /\ \A q \in Input' \ gp'.todo : Asked(q)'
                      /\ pc'[u] \in {"wait_gp", "asleep"} /\ Armed' =>
                           \E q \in Input' : Asked(q)'
                      /\ pc'[u] = "asleep" /\ gp'.futex = 0 =>
                           \E q \in Readers : pc'[q] \in {"wake_store", "wake_call"}
    BY Zenon DEF SleepInv
  <2>7. pc'[u] \in {"ask", "wait_gp", "asleep"} => Sleepy'
    BY Zenon, <2>4, <2>5 DEF IInv, SleepInv
  <2>8. pc'[u] = "ask" /\ Armed' => \A q \in Input' \ gp'.todo : Told(q)'
    BY Zenon, <1>f, <2>1, <2>2, <2>3, <2>5 DEF IInv, SleepInv
  <2>9. pc'[u] = "scan" /\ Sleepy' /\ Armed' =>
          /\ \A q \in Input' : Told(q)'
          /\ \A q \in Input' \ gp'.todo : Asked(q)'
    BY Zenon, <1>f, <2>1, <2>2, <2>3, <2>4, <2>5 DEF IInv, SleepInv
  <2>10. pc'[u] \in {"wait_gp", "asleep"} /\ Armed' => \E q \in Input' : Asked(q)'
    BY Zenon, <2>1, <2>2, <2>5 DEF IInv, SleepInv
  <2> QED
    BY Zenon, <1>f, <2>5, <2>6, <2>7, <2>8, <2>9, <2>10
<1> QED
  BY Zenon, <1>1, <1>2, <1>3, <1>4, <1>5, <1>6, <1>7, <1>8 DEF IInv

-----------------------------------------------------------------------------
(* The other steps: what changes of the two records, and who may hold the  *)
(* mutex of a grace period.                                                *)

(* Only one thread is in a grace period. *)
LEMMA Leader ==
  ASSUME IInv, QsbrAssumption, NEW u \in Updaters, pc[u] \in GpPc
  PROVE  \A t \in Threads : pc[t] \in GpPc => t = u
<1>1. \A t \in Threads : gp.lock = t <=> pc[t] \in GpPc
  BY Zenon DEF IInv, LockInv
<1>2. gp.lock = u
  BY Zenon, <1>1 DEF Threads
<1> QED
  BY Zenon, <1>1, <1>2

(* A reader resets the futex: the leader it may strand is woken next. *)
LEMMA WakeStoreInv ==
  ASSUME IInv, wide' = wide, NEW r \in Readers, WakeStore(r) PROVE IInv'
<1>t. TypeOK /\ r \in Threads /\ pc[r] = "wake_store"
  BY Zenon DEF IInv, Threads, WakeStore
<1>f. /\ gp' = [gp EXCEPT !.futex = 0] /\ rd' = rd /\ batch' = batch /\ pre' = pre
      /\ pc' = [pc EXCEPT ![r] = "wake_call"] /\ gp \in GpRecord
  BY Zenon, <1>t DEF WakeStore, TypeOK
<1>g. /\ gp'.futex = 0 /\ gp'.ctr = gp.ctr /\ gp'.lock = gp.lock /\ gp'.reg = gp.reg
      /\ gp'.waiters = gp.waiters /\ gp'.pass = gp.pass /\ gp'.loops = gp.loops
      /\ gp'.todo = gp.todo /\ gp' \in GpRecord
  BY <1>f DEF GpRecord
<1>p. /\ pc'[r] = "wake_call" /\ \A t \in Threads : t # r => pc'[t] = pc[t]
      /\ \A t \in Updaters : t \in Threads
      /\ \A q \in Readers : q \in Threads
      /\ pc' \in [Threads -> Pcs]
  BY Zenon, <1>t, <1>f DEF TypeOK, Threads, Pcs, ReaderPc
<1>i. Input' = Input /\ \A q \in Readers : Tracked(q)' <=> Tracked(q)
  BY Zenon, <1>f, <1>g DEF Input, OnList, Tracked
<1>1. TypeOK'
  BY Zenon, <1>t, <1>f, <1>g, <1>p DEF TypeOK
<1>2. LockInv'
  BY Zenon, <1>t, <1>g, <1>p DEF IInv, LockInv, GpPc, RegPc
<1>3. CounterInv'
  BY Zenon, <1>t, <1>f, <1>g, <1>p DEF IInv, CounterInv, CounterOf, Seen
<1>4. RoleInv'
  <2>1. Role(r)'
    BY Zenon, <1>t, <1>f, <1>p DEF IInv, RoleInv, Role, ReaderPc, SyncPc, WakePc
  <2>2. \A q \in Readers : q # r => (Role(q)' <=> Role(q))
    BY Zenon, <1>f, <1>p DEF Role
  <2> QED
    BY Zenon, <2>1, <2>2 DEF IInv, RoleInv
<1>5. BatchInv'
  <2>1. \A u \in Updaters :
          /\ pc'[u] \in BatchPc <=> pc[u] \in BatchPc
          /\ pc'[u] = "lock" <=> pc[u] = "lock"
          /\ pc'[u] = "waiting" <=> pc[u] = "waiting"
    BY Zenon, <1>t, <1>p DEF BatchPc, GpPc, RegPc
  <2>2. batch' = batch /\ gp'.waiters = gp.waiters
    BY Zenon, <1>f, <1>g
  <2> QED
    BY Zenon, <2>1, <2>2 DEF IInv, BatchInv
<1>6. ListInv'
  <2>1. \A u \in Updaters : pc'[u] \in GpPc => pc'[u] = pc[u]
    BY Zenon, <1>p DEF GpPc, RegPc
  <2> QED
    BY Zenon, <1>f, <1>g, <1>i, <2>1 DEF IInv, ListInv, GpPc, RegPc
<1>7. GraceInv'
  <2>1. \A q \in Readers : InCS(q) => InCS(q)'
    BY Zenon, <1>t, <1>f, <1>p DEF InCS
  <2>2. \A u \in Updaters :
          /\ pc'[u] \in {"out", "release", "gp_end"} => pc'[u] = pc[u]
          /\ pc'[u] \in GpPc \ {"reg_lock", "out"} => pc[u] \in GpPc \ {"reg_lock", "out"}
    BY Zenon, <1>p DEF GpPc, RegPc
  <2>3. \A u \in Updaters : pre[u] \subseteq Readers
    BY Zenon, <1>t DEF TypeOK
  <2> QED
    BY Zenon, <1>f, <1>i, <2>1, <2>2, <2>3 DEF IInv, GraceInv
<1>8. SleepInv'
  <2>1. ~Armed' /\ Sleepy' = Sleepy
    BY <1>g DEF Armed, Sleepy
  <2>2. \A u \in Updaters : pc'[u] \in {"ask", "wait_gp", "asleep"} => pc'[u] = pc[u]
    BY Zenon, <1>p
  <2> QED
    BY Zenon, <1>p, <2>1, <2>2 DEF IInv, SleepInv
<1> QED
  BY Zenon, <1>1, <1>2, <1>3, <1>4, <1>5, <1>6, <1>7, <1>8 DEF IInv

(* FUTEX_WAKE. *)
LEMMA WakeCallInv ==
  ASSUME IInv, wide' = wide, NEW r \in Readers, WakeCall(r) PROVE IInv'
<1>t. TypeOK /\ r \in Threads /\ pc[r] = "wake_call" /\ Role(r)
  BY Zenon DEF IInv, RoleInv, Threads, WakeCall
<1>f. /\ gp' = gp /\ rd' = rd /\ batch' = batch /\ pre' = pre
      /\ pc'[r] = rd[r].after
      /\ \A t \in Threads : t # r =>
           pc'[t] = pc[t] \/ (pc[t] = "asleep" /\ pc'[t] = "wait_gp")
      /\ \A t \in Threads : pc'[t] # "asleep"
  <2>1. rd[r].after # "asleep"
    BY Zenon, <1>t, Fields
  <2> QED
    BY Zenon, <1>t, <2>1 DEF WakeCall
<1>a. rd[r].after \in {"idle", "unregister", "push"}
  BY Zenon, <1>t, Fields
<1>p. /\ \A t \in Updaters : t \in Threads
      /\ \A q \in Readers : q \in Threads
      /\ pc' \in [Threads -> Pcs]
  <2>1. \A t \in Threads : pc'[t] \in Pcs
    BY Zenon, <1>t, <1>f, <1>a DEF TypeOK, Pcs, SyncPc, ReaderPc
  <2>2. pc' = [t \in Threads |-> pc'[t]]
    BY Zenon DEF WakeCall
  <2> QED
    BY Zenon, <2>1, <2>2 DEF Threads
<1>i. Input' = Input /\ \A q \in Readers : Tracked(q)' <=> Tracked(q)
  BY Zenon, <1>f DEF Input, OnList, Tracked
<1>1. TypeOK'
  BY Zenon, <1>t, <1>f, <1>p DEF TypeOK
<1>2. LockInv'
  <2>1. \A t \in Threads : /\ pc'[t] \in GpPc <=> pc[t] \in GpPc
                           /\ pc'[t] \in RegPc <=> pc[t] \in RegPc
    BY Zenon, <1>t, <1>f, <1>a DEF GpPc, RegPc
  <2> QED
    BY Zenon, <1>f, <2>1 DEF IInv, LockInv
<1>3. CounterInv'
  <2>1. \A q \in Readers : /\ pc'[q] \in {"on_store", "qs_store"} => pc'[q] = pc[q]
    BY Zenon, <1>p, <1>f, <1>a
  <2> QED
    BY Zenon, <1>f, <2>1 DEF IInv, CounterInv, CounterOf, Seen
<1>4. RoleInv'
  <2>1. Role(r)'
    BY Zenon, <1>t, <1>f, <1>a DEF Role, ReaderPc, SyncPc, WakePc
  <2>2. ASSUME NEW q \in Readers, q # r PROVE Role(q)'
    BY Zenon, <1>p, <1>f, <2>2 DEF IInv, RoleInv, Role, ReaderPc, SyncPc, WakePc
  <2> QED
    BY Zenon, <2>1, <2>2 DEF RoleInv
<1>5. BatchInv'
  <2>1. \A u \in Updaters :
          /\ pc'[u] \in BatchPc <=> pc[u] \in BatchPc
          /\ pc'[u] = "lock" <=> pc[u] = "lock"
          /\ pc'[u] = "waiting" <=> pc[u] = "waiting"
    BY Zenon, <1>t, <1>p, <1>f, <1>a DEF BatchPc, GpPc, RegPc
  <2>2. batch' = batch /\ gp'.waiters = gp.waiters
    BY Zenon, <1>f
  <2> QED
    BY Zenon, <2>1, <2>2 DEF IInv, BatchInv
<1>6. ListInv'
  <2>1. \A u \in Updaters :
          /\ pc'[u] \in {"reg_lock", "out", "passed", "ask", "scan"} => pc'[u] = pc[u]
          /\ pc'[u] \in GpPc \ {"reg_lock", "out"} => pc[u] \in GpPc \ {"reg_lock", "out"}
    BY Zenon, <1>p, <1>f, <1>a DEF GpPc, RegPc
  <2> QED
    BY Zenon, <1>f, <1>i, <2>1 DEF IInv, ListInv
<1>7. GraceInv'
  <2>1. \A q \in Readers : InCS(q) => InCS(q)'
    BY Zenon, <1>t, <1>p, <1>f DEF InCS
  <2>2. \A u \in Updaters :
          /\ pc'[u] \in {"out", "release", "gp_end"} => pc'[u] = pc[u]
          /\ pc'[u] \in GpPc \ {"reg_lock", "out"} => pc[u] \in GpPc \ {"reg_lock", "out"}
    BY Zenon, <1>p, <1>f, <1>a DEF GpPc, RegPc
  <2>3. \A u \in Updaters : pre[u] \subseteq Readers
    BY Zenon, <1>t DEF TypeOK
  <2> QED
    BY Zenon, <1>f, <1>i, <2>1, <2>2, <2>3 DEF IInv, GraceInv
<1>8. SleepInv'
  <2>1. (Armed' => Armed) /\ (Sleepy' <=> Sleepy)
    BY Zenon, <1>t, <1>p, <1>f DEF Armed, Sleepy
  <2>2. ASSUME NEW q \in Readers
        PROVE  (Told(q) => Told(q)') /\ (Asked(q) => Asked(q)')
    <3>1. ScanTo(q)' = ScanTo(q)
      BY Zenon, <1>f, ScanKept
    <3>2. pc[q] \in {"wake", "wake_clear", "wake_futex"} => pc'[q] = pc[q]
      BY Zenon, <1>t, <1>p, <1>f
    <3> QED
      BY Zenon, <1>f, <3>1, <3>2 DEF Told, Asked
  <2>3. \A u \in Updaters :
          /\ pc'[u] \in {"ask", "scan"} => pc'[u] = pc[u]
          /\ pc'[u] = "wait_gp" => pc[u] \in {"wait_gp", "asleep"}
          /\ pc'[u] # "asleep"
    BY Zenon, <1>p, <1>f, <1>a
  <2>4. \A q \in Input : q \in Readers
    BY Zenon DEF Input, OnList
  <2> QED
    BY Zenon, <1>f, <1>i, <2>1, <2>2, <2>3, <2>4 DEF IInv, SleepInv
<1> QED
  BY Zenon, <1>1, <1>2, <1>3, <1>4, <1>5, <1>6, <1>7, <1>8 DEF IInv

-----------------------------------------------------------------------------
(* A step inside synchronize_rcu(): it moves no reader's counter, registers *)
(* none, and takes back no request to be woken.                             *)
Quiet(u) ==
  /\ wide' = wide /\ pre' = pre /\ gp' \in GpRecord
  /\ pc' = [pc EXCEPT ![u] = pc'[u]] /\ pc[u] \in SyncPc /\ pc'[u] \in SyncPc
  /\ rd' \in [Readers -> ReaderRecord]
  /\ \A r \in Readers :
       /\ rd'[r].ctr = rd[r].ctr /\ rd'[r].gctr = rd[r].gctr
       /\ rd'[r].after = rd[r].after
       /\ rd[r].waiting => rd'[r].waiting
       /\ rd'[r].list = "none" <=> rd[r].list = "none"
  /\ \/ gp'.ctr = gp.ctr
     \/ wide /\ gp'.ctr = gp.ctr + 2
     \/ ~wide /\ gp'.ctr \in {1, 3}

(* Such a step keeps what the invariant says of counters and roles, and    *)
(* every open section.                                                     *)
LEMMA QuietInv ==
  ASSUME IInv, NEW u \in Updaters, Quiet(u)
  PROVE  /\ CounterInv' /\ RoleInv'
         /\ \A v \in Updaters : \A r \in pre'[v] : InCS(r)'
         /\ pc' \in [Threads -> Pcs] /\ pre' \in [Updaters -> SUBSET Readers]
         /\ \A t \in Threads : t # u => pc'[t] = pc[t]
<1>t. TypeOK /\ u \in Threads /\ \A r \in Readers : r \in Threads
  BY Zenon DEF IInv, Threads
<1>p. /\ pc' \in [Threads -> Pcs] /\ pre' \in [Updaters -> SUBSET Readers]
      /\ \A t \in Threads : t # u => pc'[t] = pc[t]
  <2>1. pc'[u] \in Pcs
    BY Zenon DEF Quiet, Pcs
  <2> QED
    BY Zenon, <1>t, <2>1 DEF Quiet, TypeOK
<1>q. \A r \in Readers : pc'[r] = pc[r] \/ (pc'[r] \in SyncPc /\ pc[r] \in SyncPc)
  BY Zenon, <1>t, <1>p DEF Quiet
<1>1. CounterInv'
  <2>1. gp'.ctr # 0 /\ (wide' \/ gp'.ctr \in {1, 3}) /\ \A c \in Nat : Seen(c) => Seen(c)'
    <3>1. gp.ctr \in Nat /\ gp.ctr # 0 /\ (wide \/ gp.ctr \in {1, 3}) /\ wide' = wide
      BY Zenon, <1>t, Fields DEF IInv, CounterInv, Quiet
    <3>2. PICK a \in Nat, b \in Nat : a = gp.ctr /\ b = gp'.ctr
      BY <3>1 DEF Quiet, GpRecord
    <3>3. b = a \/ (wide /\ b = a + 2) \/ (~wide /\ b \in {1, 3})
      BY Zenon, <3>2 DEF Quiet
    <3>4. /\ b # 0 /\ (wide \/ b \in {1, 3})
          /\ \A c \in Nat : (IF wide THEN c <= a ELSE c \in {1, 3})
                              => (IF wide THEN c <= b ELSE c \in {1, 3})
      BY <3>1, <3>2, <3>3
    <3> QED
      BY Zenon, <3>1, <3>2, <3>4 DEF Seen
  <2>2. ASSUME NEW r \in Readers PROVE CounterOf(r)'
    <3>1. rd[r].ctr \in Nat /\ rd[r].gctr \in Nat /\ CounterOf(r)
      BY Zenon, <1>t, Fields DEF IInv, CounterInv
    <3>2. pc'[r] \in {"on_store", "qs_store"} => pc'[r] = pc[r]
      BY Zenon, <1>q DEF SyncPc
    <3>3. rd'[r].ctr = rd[r].ctr /\ rd'[r].gctr = rd[r].gctr
      BY Zenon DEF Quiet
    <3>4. (Seen(rd[r].ctr) => Seen(rd[r].ctr)') /\ (Seen(rd[r].gctr) => Seen(rd[r].gctr)')
      <4>1. /\ Seen(rd[r].ctr) => IF wide' THEN rd[r].ctr <= gp'.ctr ELSE rd[r].ctr \in {1, 3}
            /\ Seen(rd[r].gctr) => IF wide' THEN rd[r].gctr <= gp'.ctr ELSE rd[r].gctr \in {1, 3}
        BY Zenon, <2>1, <3>1 DEF Seen
      <4> QED
        BY Zenon, <3>3, <4>1 DEF Seen
    <3> QED
      BY Zenon, <3>1, <3>2, <3>3, <3>4 DEF CounterOf
  <2> QED
    BY Zenon, <2>1, <2>2 DEF CounterInv
<1>2. RoleInv'
  <2>1. ASSUME NEW r \in Readers PROVE Role(r)'
    <3>1. /\ rd'[r].ctr = rd[r].ctr /\ rd'[r].after = rd[r].after
          /\ rd[r].waiting => rd'[r].waiting
          /\ rd'[r].list = "none" <=> rd[r].list = "none"
          /\ Role(r)
      BY Zenon DEF Quiet, IInv, RoleInv
    <3>2. CASE pc'[r] = pc[r]
      BY Zenon, <3>1, <3>2 DEF Role
    <3>3. CASE pc'[r] \in SyncPc /\ pc[r] \in SyncPc
      <4>1. /\ pc'[r] \notin ReaderPc
            /\ pc'[r] \notin {"on_load", "on_store", "unregister", "qs_skip", "qs_store"}
            /\ pc'[r] \notin WakePc
        BY Zenon, <3>3 DEF SyncPc, ReaderPc, WakePc
      <4> QED
        BY Zenon, <3>1, <3>3, <4>1 DEF Role, WakePc
    <3> QED
      BY Zenon, <1>q, <3>2, <3>3
  <2> QED
    BY Zenon, <2>1 DEF RoleInv
<1>3. ASSUME NEW v \in Updaters, NEW r \in pre'[v] PROVE InCS(r)'
  <2>1. r \in Readers /\ InCS(r)
    BY Zenon, <1>t, <1>3 DEF Quiet, IInv, GraceInv, TypeOK
  <2>2. pc'[r] = pc[r] /\ rd'[r].ctr = rd[r].ctr
    BY Zenon, <1>q, <2>1 DEF InCS, SyncPc, Quiet
  <2> QED
    BY Zenon, <2>1, <2>2 DEF InCS
<1> QED
  BY Zenon, <1>p, <1>1, <1>2, <1>3

(* A step of the leader between taking and releasing rcu_gp_lock. *)
Lead(u) ==
  /\ Quiet(u)
  /\ batch' = batch /\ gp'.lock = gp.lock /\ gp'.waiters = gp.waiters
  /\ pc[u] \in GpPc /\ pc'[u] \in GpPc /\ pc'[u] # "reg_lock"
  /\ \/ gp'.reg = gp.reg /\ pc[u] \in RegPc /\ pc'[u] \in RegPc
     \/ gp'.reg = gp.reg /\ pc[u] \notin RegPc /\ pc'[u] \notin RegPc
     \/ gp.reg = NoThread /\ gp'.reg = u /\ pc'[u] \in RegPc
     \/ gp'.reg = NoThread /\ pc[u] \in RegPc /\ pc'[u] \notin RegPc

(* What such a step owes the lists, the calls it serves, and its sleep. *)
Lists(u) ==
  /\ pc'[u] = "out" => \A r \in Readers : rd'[r].list \in {"none", "registry"}
  /\ wide => \A r \in Readers : rd'[r].list # "cur_snap"
  /\ pc'[u] # "out" /\ wide => gp'.pass = 1
  /\ pc'[u] = "passed" => Input' = {}
  /\ pc'[u] \in {"ask", "scan"} => gp'.todo \subseteq Input'

Serves(u) ==
  \A v \in Updaters : v \in batch[u] =>
    /\ pc'[u] # "out" => \A r \in pre[v] : Tracked(r)'
    /\ pc'[u] = "out" => pre[v] = {}

Sleeps(u) ==
  /\ pc'[u] \in {"ask", "wait_gp", "asleep"} => Sleepy'
  /\ pc'[u] = "ask" /\ Armed' => \A r \in Input' \ gp'.todo : Told(r)'
  /\ pc'[u] = "scan" /\ Sleepy' /\ Armed' =>
       /\ \A r \in Input' : Told(r)'
       /\ \A r \in Input' \ gp'.todo : Asked(r)'
  /\ pc'[u] \in {"wait_gp", "asleep"} /\ Armed' => \E r \in Input' : Asked(r)'
  /\ pc'[u] = "asleep" /\ gp'.futex = 0 =>
       \E r \in Readers : pc'[r] \in {"wake_store", "wake_call"}

(* Together they keep the invariant. *)
LEMMA LeadInv ==
  ASSUME IInv, QsbrAssumption, NEW u \in Updaters, Lead(u), Lists(u), Serves(u), Sleeps(u)
  PROVE  IInv'
<1>t. TypeOK /\ u \in Threads /\ Quiet(u) /\ NoThread # u
      /\ \A v \in Updaters : v \in Threads
  BY Zenon DEF IInv, Threads, Lead, QsbrAssumption
<1>q. /\ CounterInv' /\ RoleInv'
      /\ \A v \in Updaters : \A r \in pre'[v] : InCS(r)'
      /\ pc' \in [Threads -> Pcs] /\ pre' \in [Updaters -> SUBSET Readers]
      /\ \A t \in Threads : t # u => pc'[t] = pc[t]
  BY Zenon, <1>t, QuietInv
<1>l. \A t \in Threads : t # u => pc[t] \notin GpPc /\ pc'[t] \notin GpPc
  <2>1. pc[u] \in GpPc
    BY Zenon DEF Lead
  <2> QED
    BY Zenon, <1>q, <2>1, Leader
<1>c. /\ RegPc \subseteq GpPc /\ {"ask", "wait_gp", "asleep", "scan", "passed"} \subseteq GpPc
      /\ {"reg_lock", "out"} \subseteq GpPc
      /\ BatchPc = GpPc \cup {"release"} /\ "lock" \notin BatchPc /\ "waiting" \notin BatchPc
      /\ "release" \notin GpPc /\ "gp_end" \notin GpPc
  BY Zenon DEF GpPc, RegPc, BatchPc
<1>1. TypeOK'
  BY Zenon, <1>t, <1>q DEF TypeOK, Quiet, Lead
<1>2. LockInv'
  <2>0. /\ \A t \in Threads : gp.lock = t <=> pc[t] \in GpPc
        /\ \A t \in Threads : gp.reg = t <=> pc[t] \in RegPc
    BY Zenon DEF IInv, LockInv
  <2>1. \A t \in Threads : gp'.lock = t <=> pc'[t] \in GpPc
    <3>1. gp.lock = u /\ gp'.lock = u /\ pc'[u] \in GpPc
      BY Zenon, <1>t, <2>0 DEF Lead
    <3> QED
      BY Zenon, <1>l, <3>1
  <2>2. \A t \in Threads : t # u => pc'[t] \notin RegPc /\ gp.reg # t
    BY Zenon, <1>l, <1>c, <2>0
  <2>3. gp'.reg = u <=> pc'[u] \in RegPc
    BY Zenon, <1>t, <2>0 DEF Lead
  <2>4. \A t \in Threads : t # u => gp'.reg # t
    BY Zenon, <2>2 DEF Lead, QsbrAssumption
  <2> QED
    BY Zenon, <2>1, <2>2, <2>3, <2>4 DEF LockInv
<1>5. BatchInv'
  <2>1. \A v \in Updaters :
          /\ pc'[v] \in BatchPc <=> pc[v] \in BatchPc
          /\ pc'[v] = "lock" <=> pc[v] = "lock"
          /\ pc'[v] = "waiting" <=> pc[v] = "waiting"
    BY Zenon, <1>t, <1>q, <1>c DEF Lead
  <2>2. batch' = batch /\ gp'.waiters = gp.waiters
    BY Zenon DEF Lead
  <2> QED
    BY Zenon, <2>1, <2>2 DEF IInv, BatchInv
<1>6. ListInv'
  <2>1. gp'.lock # NoThread
    BY Zenon, <1>t DEF Lead, IInv, LockInv
  <2>2. \A v \in Updaters : pc'[v] \in GpPc => v = u
    BY Zenon, <1>t, <1>l
  <2>3. pc'[u] # "reg_lock" /\ wide' = wide
    BY Zenon, <1>t DEF Lead, Quiet
  <2> QED
    BY Zenon, <1>c, <2>1, <2>2, <2>3 DEF ListInv, Lists
<1>7. GraceInv'
  <2>1. /\ \A v \in Updaters : pc'[v] \in GpPc => v = u
        /\ \A v \in Updaters : pc'[v] \in {"release", "gp_end"} => pc[v] = pc'[v]
    BY Zenon, <1>t, <1>l, <1>q, <1>c DEF Lead
  <2>2. batch' = batch /\ pre' = pre
    BY Zenon, <1>t DEF Lead, Quiet
  <2> QED
    BY Zenon, <1>q, <1>c, <2>1, <2>2 DEF IInv, GraceInv, Serves
<1>8. SleepInv'
  <2>2. \A v \in Updaters : pc'[v] \in {"ask", "wait_gp", "asleep", "scan"} => v = u
    BY Zenon, <1>t, <1>l, <1>c
  <2> QED
    BY Zenon, <2>2 DEF SleepInv, Sleeps
<1> QED
  BY Zenon, <1>q, <1>1, <1>2, <1>5, <1>6, <1>7, <1>8 DEF IInv

-----------------------------------------------------------------------------
(* The steps of the leader.                                                *)

(* A request to wake the leader outlives a step of the leader. *)
LEMMA QuietTold ==
  ASSUME IInv, NEW u \in Updaters, Quiet(u)
  PROVE  /\ \A r \in Readers : Told(r) => Told(r)'
         /\ gp'.ctr = gp.ctr /\ gp'.pass = gp.pass =>
              \A r \in Readers : rd'[r].list = rd[r].list /\ Asked(r) => Asked(r)'
         /\ gp'.futex = gp.futex /\ Armed' => Armed
         /\ \A r \in Readers : \/ pc'[r] = pc[r]
                               \/ pc[r] \in SyncPc /\ pc'[r] \in SyncPc
<1>1. ASSUME NEW r \in Readers
      PROVE  pc'[r] = pc[r] \/ (pc[r] \in SyncPc /\ pc'[r] \in SyncPc)
  <2>1. \A t \in Threads : t # u => pc'[t] = pc[t]
    BY Zenon, QuietInv
  <2> QED
    BY Zenon, <2>1 DEF Threads, Quiet
<1>2. ASSUME NEW r \in Readers
      PROVE  /\ pc[r] \in {"wake", "wake_clear", "wake_futex", "wake_store"} => pc'[r] = pc[r]
             /\ rd[r].waiting => rd'[r].waiting
             /\ rd'[r].ctr = rd[r].ctr
  BY Zenon, <1>1 DEF Quiet, SyncPc
<1>3. \A r \in Readers : Told(r) => Told(r)'
  BY Zenon, <1>2 DEF Told
<1>4. ASSUME gp'.ctr = gp.ctr, gp'.pass = gp.pass, NEW r \in Readers,
             rd'[r].list = rd[r].list, Asked(r)
      PROVE  Asked(r)'
  <2>1. ScanTo(r)' = ScanTo(r)
    BY Zenon, <1>2, <1>4, ScanKept DEF Quiet
  <2> QED
    BY Zenon, <1>2, <1>4, <2>1 DEF Asked
<1>5. gp'.futex = gp.futex /\ Armed' => Armed
  BY Zenon, <1>2 DEF Armed
<1> QED
  BY Zenon, <1>1, <1>3, <1>4, <1>5

(* A step that moves no reader between lists and no counter. *)
LEMMA Unmoved ==
  ASSUME IInv, NEW u \in Updaters, Quiet(u), pc[u] \in GpPc \ {"reg_lock", "out"},
         gp'.ctr = gp.ctr, gp'.pass = gp.pass, pc'[u] # "out",
         \A r \in Readers : rd'[r].list = rd[r].list
  PROVE  /\ Input' = Input /\ Input \subseteq Readers /\ Serves(u)
         /\ wide => \A r \in Readers : rd'[r].list # "cur_snap"
         /\ wide => gp'.pass = 1
<1>1. Input' = Input /\ Input \subseteq Readers
  BY Zenon DEF Input, OnList
<1>2. \A r \in Readers : Tracked(r) => Tracked(r)'
  BY Zenon DEF Tracked, Quiet
<1>3. \A v \in Updaters : pre[v] \subseteq Readers
  BY Zenon DEF IInv, TypeOK
<1>4. Serves(u)
  BY Zenon, <1>2, <1>3 DEF Serves, IInv, GraceInv
<1> QED
  BY Zenon, <1>1, <1>4 DEF IInv, ListInv

(* futex_noasync() returns or sleeps. *)
LEMMA WaitGpInv ==
  ASSUME IInv, QsbrAssumption, wide' = wide, NEW u \in Updaters, WaitGp(u) \/ Spurious(u)
  PROVE  IInv' /\ Quiet(u)
<1>f. /\ gp' = gp /\ rd' = rd /\ batch' = batch /\ pre' = pre
      /\ pc[u] \in {"wait_gp", "asleep"} /\ pc'[u] \in {"wait_gp", "asleep", "relock"}
      /\ pc'[u] = "asleep" => gp.futex = -1
      /\ pc' = [pc EXCEPT ![u] = pc'[u]]
  <2>1. TypeOK /\ u \in Threads
    BY Zenon DEF IInv, Threads
  <2>2. CASE WaitGp(u)
    <3>1. /\ gp.futex = -1 => pc'[u] = "asleep" 
          /\ gp.futex # -1 => pc'[u] = "relock"
          /\ pc' = [pc EXCEPT ![u] = pc'[u]]
      BY <2>1, <2>2 DEF WaitGp, TypeOK
    <3> QED
      BY Zenon, <2>2, <3>1 DEF WaitGp
  <2>3. CASE Spurious(u)
    BY Zenon, <2>1, <2>3 DEF Spurious, TypeOK
  <2> QED
    BY Zenon, <2>2, <2>3
<1>c. /\ pc[u] \in SyncPc /\ pc'[u] \in SyncPc /\ pc[u] \in GpPc \ {"reg_lock", "out"}
      /\ pc'[u] \in GpPc /\ pc'[u] # "reg_lock" /\ pc'[u] # "out"
      /\ pc[u] \notin RegPc /\ pc'[u] \notin RegPc
      /\ pc'[u] \notin {"passed", "ask", "scan"}
  BY Zenon, <1>f DEF SyncPc, GpPc, RegPc
<1>1. Quiet(u) /\ Lead(u)
  BY Zenon, <1>f, <1>c DEF Quiet, Lead, IInv, TypeOK
<1>2. Serves(u) /\ Lists(u) /\ Input' = Input /\ Input \subseteq Readers
  BY Zenon, <1>f, <1>c, <1>1, Unmoved DEF Lists
<1>3. Sleeps(u)
  <2>1. Sleepy' /\ (Armed' => \E r \in Input : Asked(r))
    BY Zenon, <1>f, <1>1, QuietTold DEF Sleepy, IInv, SleepInv
  <2>2. Armed' => \E r \in Input' : Asked(r)'
    BY Zenon, <1>f, <1>1, <1>2, <2>1, QuietTold
  <2>3. pc'[u] = "asleep" => gp'.futex # 0
    BY <1>f
  <2> QED
    BY Zenon, <1>c, <2>1, <2>2, <2>3 DEF Sleeps
<1> QED
  BY Zenon, <1>1, <1>2, <1>3, LeadInv

(* wait_for_readers() takes the registry mutex again. *)
LEMMA RelockInv ==
  ASSUME IInv, QsbrAssumption, wide' = wide, NEW u \in Updaters, Relock(u) PROVE IInv' /\ Quiet(u)
<1>f. /\ gp' = [gp EXCEPT !.reg = u] /\ rd' = rd /\ batch' = batch /\ pre' = pre
      /\ pc[u] = "relock" /\ pc'[u] = "loop" /\ gp.reg = NoThread /\ gp \in GpRecord
      /\ pc' = [pc EXCEPT ![u] = pc'[u]]
  BY Zenon DEF IInv, TypeOK, Threads, Relock
<1>g. /\ gp'.futex = gp.futex /\ gp'.ctr = gp.ctr /\ gp'.lock = gp.lock /\ gp'.reg = u
      /\ gp'.waiters = gp.waiters /\ gp'.pass = gp.pass /\ gp'.loops = gp.loops
      /\ gp'.todo = gp.todo /\ gp' \in GpRecord
  BY <1>f DEF GpRecord
<1>c. /\ pc[u] \in SyncPc /\ pc'[u] \in SyncPc /\ pc[u] \in GpPc \ {"reg_lock", "out"}
      /\ pc'[u] \in GpPc /\ pc'[u] # "reg_lock" /\ pc'[u] # "out"
      /\ pc'[u] \in RegPc
      /\ pc'[u] \notin {"passed", "ask", "scan", "wait_gp", "asleep"}
  BY Zenon, <1>f DEF SyncPc, GpPc, RegPc
<1>1. Quiet(u) /\ Lead(u)
  BY Zenon, <1>f, <1>g, <1>c DEF Quiet, Lead, IInv, TypeOK
<1>2. Serves(u) /\ Lists(u)
  BY Zenon, <1>f, <1>g, <1>c, <1>1, Unmoved DEF Lists
<1>3. Sleeps(u)
  BY Zenon, <1>c DEF Sleeps
<1> QED
  BY Zenon, <1>1, <1>2, <1>3, LeadInv

(* The head of the loop of wait_for_readers(): arm the futex, or spin. *)
LEMMA LoopInv ==
  ASSUME IInv, QsbrAssumption, wide' = wide, NEW u \in Updaters, Loop(u) PROVE IInv' /\ Quiet(u)
<1>a. /\ TypeOK /\ u \in Threads /\ gp \in GpRecord /\ gp.loops \in Nat /\ Attempts \in Nat
      /\ Input \subseteq Readers /\ gp.futex \in {-1, 0}
  BY Zenon, Fields DEF IInv, TypeOK, Threads, QsbrAssumption, Input, OnList
<1>n. PICK n \in Nat, x \in {-1, 0} :
        /\ gp' = [gp EXCEPT !.loops = n, !.todo = Input, !.futex = x]
        /\ \/ n >= Attempts /\ x = -1 /\ pc' = [pc EXCEPT ![u] = "ask"]
           \/ ~(n >= Attempts) /\ pc' = [pc EXCEPT ![u] = "scan"]
  <2> DEFINE m == IF gp.loops < Attempts THEN gp.loops + 1 ELSE gp.loops
             y == IF m >= Attempts THEN -1 ELSE gp.futex
  <2>1. m \in Nat /\ y \in {-1, 0}
    BY <1>a
  <2>2. /\ gp' = [gp EXCEPT !.loops = m, !.todo = Input, !.futex = y]
        /\ pc' = [pc EXCEPT ![u] = IF m >= Attempts THEN "ask" ELSE "scan"]
    BY Zenon DEF Loop
  <2>3. \/ m >= Attempts /\ y = -1 /\ pc' = [pc EXCEPT ![u] = "ask"]
        \/ ~(m >= Attempts) /\ pc' = [pc EXCEPT ![u] = "scan"]
    BY Zenon, <2>2
  <2> HIDE DEF m, y
  <2> QED
    BY Zenon, <2>1, <2>2, <2>3
<1>f. /\ rd' = rd /\ batch' = batch /\ pre' = pre /\ pc[u] = "loop"
      /\ pc' = [pc EXCEPT ![u] = pc'[u]]
      /\ (n >= Attempts /\ pc'[u] = "ask") \/ (~(n >= Attempts) /\ pc'[u] = "scan")
  <2>1. pc \in [Threads -> Pcs]
    BY Zenon, <1>a DEF TypeOK
  <2>2. /\ pc' = [pc EXCEPT ![u] = pc'[u]]
        /\ (n >= Attempts /\ pc'[u] = "ask") \/ (~(n >= Attempts) /\ pc'[u] = "scan")
    BY Zenon, <1>a, <1>n, <2>1
  <2> QED
    BY Zenon, <2>2 DEF Loop
<1>g. /\ gp'.ctr = gp.ctr /\ gp'.lock = gp.lock /\ gp'.reg = gp.reg
      /\ gp'.waiters = gp.waiters /\ gp'.pass = gp.pass /\ gp'.loops = n
      /\ gp'.todo = Input /\ gp' \in GpRecord
  BY Zenon, <1>a, <1>n DEF GpRecord
<1>c. /\ pc[u] \in SyncPc /\ pc'[u] \in SyncPc /\ pc[u] \in GpPc \ {"reg_lock", "out"}
      /\ pc'[u] \in GpPc /\ pc'[u] # "reg_lock" /\ pc'[u] # "out"
      /\ pc[u] \in RegPc /\ pc'[u] \in RegPc
      /\ pc'[u] \notin {"passed", "wait_gp", "asleep"}
  BY Zenon, <1>f DEF SyncPc, GpPc, RegPc
<1>1. Quiet(u) /\ Lead(u)
  BY Zenon, <1>f, <1>g, <1>c DEF Quiet, Lead, IInv, TypeOK
<1>2. Serves(u) /\ Lists(u) /\ Input' = Input
  BY Zenon, <1>f, <1>g, <1>c, <1>1, Unmoved DEF Lists
<1>3. Sleeps(u)
  <2>1. Sleepy' <=> n >= Attempts
    BY Zenon, <1>g DEF Sleepy
  <2> QED
    BY Zenon, <1>f, <1>g, <1>c, <1>2, <2>1 DEF Sleeps
<1> QED
  BY Zenon, <1>1, <1>2, <1>3, LeadInv

(* The leader asks the readers it waits for, one by one. *)
LEMMA AskInv ==
  ASSUME IInv, QsbrAssumption, wide' = wide, NEW u \in Updaters, Ask(u) PROVE IInv' /\ Quiet(u)
<1>a. /\ TypeOK /\ u \in Threads /\ gp \in GpRecord /\ pc[u] = "ask"
      /\ rd \in [Readers -> ReaderRecord] /\ pc \in [Threads -> Pcs]
      /\ batch' = batch /\ pre' = pre /\ Sleepy
      /\ Input \subseteq Readers /\ gp.todo \subseteq Input /\ gp.todo \subseteq Readers
      /\ Armed => \A q \in Input \ gp.todo : Told(q)
  BY Zenon, Fields DEF IInv, TypeOK, Threads, Ask, ListInv, SleepInv, Input, OnList
<1>1. CASE \E r \in gp.todo : /\ rd' = [rd EXCEPT ![r].waiting = TRUE]
                              /\ Gp([gp EXCEPT !.todo = @ \ {r}])
                              /\ UNCHANGED pc
  <2>r. PICK r \in gp.todo : /\ rd' = [rd EXCEPT ![r].waiting = TRUE]
                             /\ gp' = [gp EXCEPT !.todo = @ \ {r}]
                             /\ pc' = pc
    BY Zenon, <1>1
  <2>f. /\ pc'[u] = "ask" /\ pc' = [pc EXCEPT ![u] = pc'[u]] /\ r \in Readers
    BY Zenon, <1>a, <2>r
  <2>d. /\ rd' \in [Readers -> ReaderRecord]
        /\ rd'[r].ctr = rd[r].ctr /\ rd'[r].gctr = rd[r].gctr /\ rd'[r].waiting = TRUE
        /\ rd'[r].list = rd[r].list /\ rd'[r].after = rd[r].after
        /\ \A q \in Readers : q # r => rd'[q] = rd[q]
    <3>1. /\ rd'[r] = [rd[r] EXCEPT !.waiting = TRUE] /\ rd[r] \in ReaderRecord
          /\ \A q \in Readers : q # r => rd'[q] = rd[q]
          /\ rd' = [rd EXCEPT ![r] = rd'[r]]
      BY Zenon, <1>a, <2>r, <2>f
    <3>2. /\ rd'[r].ctr = rd[r].ctr /\ rd'[r].gctr = rd[r].gctr /\ rd'[r].waiting = TRUE
          /\ rd'[r].list = rd[r].list /\ rd'[r].after = rd[r].after
          /\ rd'[r] \in ReaderRecord
      BY Zenon, <3>1 DEF ReaderRecord
    <3> QED
      BY Zenon, <1>a, <2>f, <3>1, <3>2
  <2>g. /\ gp'.futex = gp.futex /\ gp'.ctr = gp.ctr /\ gp'.lock = gp.lock /\ gp'.reg = gp.reg
        /\ gp'.waiters = gp.waiters /\ gp'.pass = gp.pass /\ gp'.loops = gp.loops
        /\ gp'.todo = gp.todo \ {r} /\ gp' \in GpRecord
    BY <1>a, <2>r DEF GpRecord
  <2>c. /\ pc[u] \in SyncPc /\ pc'[u] \in SyncPc /\ pc[u] \in GpPc \ {"reg_lock", "out"}
        /\ pc'[u] \in GpPc /\ pc'[u] # "reg_lock" /\ pc'[u] # "out"
        /\ pc[u] \in RegPc /\ pc'[u] \in RegPc
    BY Zenon, <1>a, <2>f DEF SyncPc, GpPc, RegPc
  <2>l. \A q \in Readers : /\ rd'[q].ctr = rd[q].ctr /\ rd'[q].gctr = rd[q].gctr
                           /\ rd'[q].after = rd[q].after /\ rd'[q].list = rd[q].list
                           /\ rd[q].waiting => rd'[q].waiting
    BY Zenon, <2>d
  <2>1. Quiet(u) /\ Lead(u)
    BY Zenon, <1>a, <2>f, <2>d, <2>l, <2>g, <2>c DEF Quiet, Lead
  <2>2. Serves(u) /\ Lists(u) /\ Input' = Input
    BY Zenon, <1>a, <2>f, <2>l, <2>g, <2>c, <2>1, Unmoved DEF Lists
  <2>3. Sleeps(u)
    <3>1. Sleepy'
      BY Zenon, <1>a, <2>g DEF Sleepy
    <3>2. Told(r)'
      BY Zenon, <2>d DEF Told
    <3>3. Armed' => \A q \in Input' \ gp'.todo : Told(q)'
      BY Zenon, <1>a, <2>g, <2>1, <2>2, <3>2, QuietTold
    <3> QED
      BY Zenon, <2>f, <3>1, <3>3 DEF Sleeps
  <2> QED
    BY Zenon, <2>1, <2>2, <2>3, LeadInv
<1>2. CASE gp.todo = {} /\ Gp([gp EXCEPT !.todo = Input]) /\ Goto(u, "scan") /\ UNCHANGED rd
  <2>f. /\ pc'[u] = "scan" /\ pc' = [pc EXCEPT ![u] = pc'[u]] /\ rd' = rd
        /\ gp' = [gp EXCEPT !.todo = Input]
    BY Zenon, <1>a, <1>2
  <2>g. /\ gp'.futex = gp.futex /\ gp'.ctr = gp.ctr /\ gp'.lock = gp.lock /\ gp'.reg = gp.reg
        /\ gp'.waiters = gp.waiters /\ gp'.pass = gp.pass /\ gp'.loops = gp.loops
        /\ gp'.todo = Input /\ gp' \in GpRecord
    BY <1>a, <2>f DEF GpRecord
  <2>c. /\ pc[u] \in SyncPc /\ pc'[u] \in SyncPc /\ pc[u] \in GpPc \ {"reg_lock", "out"}
        /\ pc'[u] \in GpPc /\ pc'[u] # "reg_lock" /\ pc'[u] # "out"
        /\ pc[u] \in RegPc /\ pc'[u] \in RegPc
    BY Zenon, <1>a, <2>f DEF SyncPc, GpPc, RegPc
  <2>1. Quiet(u) /\ Lead(u)
    BY Zenon, <1>a, <2>f, <2>g, <2>c DEF Quiet, Lead
  <2>2. Serves(u) /\ Lists(u) /\ Input' = Input
    BY Zenon, <1>a, <2>f, <2>g, <2>c, <2>1, Unmoved DEF Lists
  <2>3. Sleeps(u)
    <3>1. Armed' => \A q \in Input' : Told(q)'
      BY Zenon, <1>a, <1>2, <2>g, <2>1, <2>2, QuietTold
    <3> QED
      BY Zenon, <2>f, <2>g, <2>2, <3>1 DEF Sleeps
  <2> QED
    BY Zenon, <2>1, <2>2, <2>3, LeadInv
<1> QED
  BY Zenon, <1>1, <1>2 DEF Ask

(* What urcu_qsbr_reader_state() makes of a reader. *)
LEMMA ScanSorts ==
  ASSUME gp.ctr # 0, NEW r \in Readers
  PROVE  /\ \/ ScanTo(r) = "qs"
            \/ ScanTo(r) = "cur_snap" /\ ~wide /\ gp.pass = 1
            \/ ScanTo(r) = rd[r].list
         /\ rd[r].ctr # 0 /\ rd[r].ctr # gp.ctr => ScanTo(r) = rd[r].list
         /\ rd[r].ctr # 0 /\ rd[r].ctr = gp.ctr /\ ~wide /\ gp.pass = 1 =>
              ScanTo(r) = "cur_snap"
<1>1. CASE rd[r].ctr = 0
  BY <1>1 DEF ScanTo
<1>2. CASE rd[r].ctr # 0 /\ rd[r].ctr = gp.ctr
  BY <1>2 DEF ScanTo
<1>3. CASE rd[r].ctr # 0 /\ rd[r].ctr # gp.ctr
  BY <1>3 DEF ScanTo
<1> QED
  BY Zenon, <1>1, <1>2, <1>3

(* A reader is sorted. *)
LEMMA ScanInv ==
  ASSUME IInv, QsbrAssumption, wide' = wide, NEW u \in Updaters, Scan(u) PROVE IInv' /\ Quiet(u)
<1>a. /\ TypeOK /\ u \in Threads /\ gp \in GpRecord /\ pc[u] = "scan" /\ gp.ctr # 0
      /\ rd \in [Readers -> ReaderRecord] /\ pc \in [Threads -> Pcs]
      /\ batch' = batch /\ pre' = pre /\ pc' = pc
      /\ Input \subseteq Readers /\ gp.todo \subseteq Input /\ gp.todo \subseteq Readers
      /\ wide => \A q \in Readers : rd[q].list # "cur_snap"
      /\ wide => gp.pass = 1
      /\ Sleepy /\ Armed => /\ \A q \in Input : Told(q)
                            /\ \A q \in Input \ gp.todo : Asked(q)
  <2>1. "scan" \in GpPc \ {"reg_lock", "out"}
    BY Zenon DEF GpPc, RegPc
  <2> QED
    BY Zenon, Fields, <2>1
    DEF IInv, TypeOK, Threads, Scan, ListInv, SleepInv, Input, OnList, CounterInv
<1>r. PICK r \in gp.todo : /\ rd' = [rd EXCEPT ![r].list = ScanTo(r)]
                           /\ gp' = [gp EXCEPT !.todo = @ \ {r}]
  BY Zenon DEF Scan
<1>s. /\ r \in Readers /\ r \in Input /\ rd[r].list \in {"none", "registry", "cur_snap", "qs"}
      /\ gp.pass \in {1, 2}
      /\ gp.pass = 1 => rd[r].list = "registry"
      /\ gp.pass = 2 => rd[r].list = "cur_snap"
  <2>1. r \in Readers /\ r \in Input
    BY Zenon, <1>a
  <2>2. gp.pass \in {1, 2} /\ rd[r].list \in {"none", "registry", "cur_snap", "qs"}
    BY Zenon, <1>a, <2>1, Fields
  <2>3. (gp.pass = 1 => rd[r].list = "registry") /\ (gp.pass = 2 => rd[r].list = "cur_snap")
    BY <2>1, <2>2 DEF Input, OnList
  <2> QED
    BY Zenon, <2>1, <2>2, <2>3
<1>k. ScanTo(r) \in {"registry", "cur_snap", "qs"} /\ (wide => ScanTo(r) # "cur_snap")
  BY Zenon, <1>a, <1>s, ScanSorts
<1>f. pc'[u] = "scan" /\ pc' = [pc EXCEPT ![u] = pc'[u]]
  BY Zenon, <1>a
<1>d. /\ rd' \in [Readers -> ReaderRecord]
      /\ rd'[r].ctr = rd[r].ctr /\ rd'[r].gctr = rd[r].gctr /\ rd'[r].waiting = rd[r].waiting
      /\ rd'[r].list = ScanTo(r) /\ rd'[r].after = rd[r].after
      /\ \A q \in Readers : q # r => rd'[q] = rd[q]
  <2>1. /\ rd'[r] = [rd[r] EXCEPT !.list = ScanTo(r)] /\ rd[r] \in ReaderRecord
        /\ \A q \in Readers : q # r => rd'[q] = rd[q]
        /\ rd' = [rd EXCEPT ![r] = rd'[r]]
    BY Zenon, <1>a, <1>r, <1>s
  <2>2. /\ rd'[r].ctr = rd[r].ctr /\ rd'[r].gctr = rd[r].gctr
        /\ rd'[r].waiting = rd[r].waiting
        /\ rd'[r].list = ScanTo(r) /\ rd'[r].after = rd[r].after
        /\ rd'[r] \in ReaderRecord
    BY Zenon, <1>k, <2>1 DEF ReaderRecord
  <2> QED
    BY Zenon, <1>a, <1>s, <2>1, <2>2
<1>g. /\ gp'.futex = gp.futex /\ gp'.ctr = gp.ctr /\ gp'.lock = gp.lock /\ gp'.reg = gp.reg
      /\ gp'.waiters = gp.waiters /\ gp'.pass = gp.pass /\ gp'.loops = gp.loops
      /\ gp'.todo = gp.todo \ {r} /\ gp' \in GpRecord
  BY <1>a, <1>r DEF GpRecord
<1>c. /\ pc[u] \in SyncPc /\ pc[u] \in GpPc \ {"reg_lock", "out"} /\ pc[u] \in RegPc
      /\ pc[u] # "passed"
  BY Zenon, <1>a DEF SyncPc, GpPc, RegPc
<1>l. \A q \in Readers : /\ rd'[q].ctr = rd[q].ctr /\ rd'[q].gctr = rd[q].gctr
                         /\ rd'[q].after = rd[q].after
                         /\ rd[q].waiting => rd'[q].waiting
                         /\ rd'[q].list = "none" <=> rd[q].list = "none"
  <2>1. rd[r].list # "none" /\ rd'[r].list # "none"
    BY Zenon, <1>s, <1>k, <1>d
  <2> QED
    BY Zenon, <1>d, <2>1
<1>1. Quiet(u) /\ Lead(u)
  BY Zenon, <1>a, <1>f, <1>d, <1>l, <1>g, <1>c DEF Quiet, Lead
<1>i. /\ \A q \in Input' : q \in Input /\ (q = r => rd'[r].list = rd[r].list)
      /\ \A q \in Input : q # r => q \in Input'
  <2>1. \A q \in Readers : q # r => (q \in Input' <=> q \in Input)
    BY Zenon, <1>d, <1>g DEF Input, OnList
  <2>2. r \in Input' => rd'[r].list = rd[r].list
    <3>1. rd[r].list = IF gp.pass = 1 THEN "registry" ELSE "cur_snap"
      BY Zenon, <1>s DEF Input, OnList
    <3>2. r \in Input' => rd'[r].list = IF gp'.pass = 1 THEN "registry" ELSE "cur_snap"
      BY Zenon DEF Input, OnList
    <3> QED
      BY Zenon, <1>g, <3>1, <3>2
  <2>3. Input' \subseteq Readers
    BY Zenon DEF Input, OnList
  <2> QED
    BY Zenon, <1>a, <1>s, <2>1, <2>2, <2>3
<1>2. Lists(u)
  <2>1. wide => \A q \in Readers : rd'[q].list # "cur_snap"
    BY Zenon, <1>a, <1>k, <1>d
  <2>2. gp'.todo \subseteq Input'
    BY Zenon, <1>a, <1>g, <1>i
  <2> QED
    BY Zenon, <1>a, <1>c, <1>g, <2>1, <2>2 DEF Lists
<1>3. Serves(u)
  <2>1. ASSUME NEW v \in Updaters, v \in batch[u], NEW q \in pre[v] PROVE Tracked(q)'
    <3>1. q \in Readers /\ Tracked(q) /\ rd[q].ctr # 0
      BY Zenon, <1>a, <1>c, <2>1 DEF IInv, GraceInv, TypeOK, InCS
    <3>2. CASE q # r
      BY Zenon, <1>d, <1>g, <3>1, <3>2 DEF Tracked
    <3>3. CASE q = r
      <4>1. CASE wide
        <5>1. rd[r].list = "registry" /\ rd[r].ctr # gp.ctr
          BY Zenon, <3>1, <3>3, <4>1 DEF Tracked
        <5> QED
          BY Zenon, <1>a, <1>s, <1>d, <1>g, <3>1, <3>3, <4>1, <5>1, ScanSorts DEF Tracked
      <4>2. CASE ~wide /\ gp.pass = 1
        <5>1. CASE rd[r].ctr = gp.ctr
          BY Zenon, <1>a, <1>s, <1>d, <1>g, <3>1, <3>3, <4>2, <5>1, ScanSorts DEF Tracked
        <5>2. CASE rd[r].ctr # gp.ctr
          BY Zenon, <1>a, <1>s, <1>d, <1>g, <3>1, <3>3, <4>2, <5>2, ScanSorts DEF Tracked
        <5> QED
          BY Zenon, <5>1, <5>2
      <4>3. CASE ~wide /\ gp.pass = 2
        <5>1. rd[r].ctr # gp.ctr
          BY <3>1, <3>3, <4>3 DEF Tracked
        <5> QED
          BY Zenon, <1>a, <1>s, <1>d, <1>g, <3>1, <3>3, <4>3, <5>1, ScanSorts DEF Tracked
      <4> QED
        BY Zenon, <1>s, <4>1, <4>2, <4>3
    <3> QED
      BY Zenon, <3>2, <3>3
  <2>2. pc'[u] # "out"
    BY Zenon, <1>a, <1>c
  <2> QED
    BY Zenon, <2>1, <2>2 DEF Serves
<1>4. Sleeps(u)
  <2>1. ASSUME Sleepy', Armed'
        PROVE  /\ \A q \in Input' : Told(q)'
               /\ \A q \in Input' \ gp'.todo : Asked(q)'
    <3>1. Sleepy /\ Armed
      BY Zenon, <1>g, <1>1, <2>1, QuietTold DEF Sleepy
    <3>2. \A q \in Input' : Told(q) /\ Told(q)'
      BY Zenon, <1>a, <1>i, <1>1, <3>1, QuietTold
    <3>3. ASSUME NEW q \in Input' \ gp'.todo PROVE Asked(q)'
      <4>1. CASE q # r
        <5>1. q \in Readers /\ Asked(q) /\ rd'[q].list = rd[q].list
          BY Zenon, <1>a, <1>i, <1>g, <1>d, <3>1, <3>3, <4>1
        <5> QED
          BY Zenon, <1>g, <1>1, <5>1, QuietTold
      <4>2. CASE q = r
        <5>1. rd'[r].list = rd[r].list
          BY Zenon, <1>i, <3>3, <4>2
        <5>2. ScanTo(r)' = ScanTo(r)
          BY Zenon, <1>s, <1>g, <1>d, <5>1, ScanKept
        <5> QED
          BY Zenon, <1>d, <3>2, <3>3, <4>2, <5>1, <5>2 DEF Told, Asked
      <4> QED
        BY Zenon, <4>1, <4>2
    <3> QED
      BY Zenon, <3>2, <3>3
  <2> QED
    BY Zenon, <1>f, <2>1 DEF Sleeps
<1> QED
  BY Zenon, <1>1, <1>2, <1>3, <1>4, LeadInv

(* A pass ends, or the leader waits before it looks again. *)
LEMMA ScanDoneInv ==
  ASSUME IInv, QsbrAssumption, wide' = wide, NEW u \in Updaters, ScanDone(u) PROVE IInv' /\ Quiet(u)
<1>a. /\ TypeOK /\ u \in Threads /\ gp \in GpRecord /\ pc[u] = "scan"
      /\ rd \in [Readers -> ReaderRecord] /\ pc \in [Threads -> Pcs]
      /\ batch' = batch /\ pre' = pre /\ rd' = rd /\ gp.todo = {} /\ gp.futex \in {-1, 0}
      /\ Input \subseteq Readers
      /\ Sleepy /\ Armed => \A q \in Input \ gp.todo : Asked(q)
  BY Zenon, Fields DEF IInv, TypeOK, Threads, ScanDone, SleepInv, Input, OnList
<1>1. CASE Input = {} /\ Gp([gp EXCEPT !.futex = IF Sleepy THEN 0 ELSE @]) /\ Goto(u, "passed")
  <2>f. PICK x \in {-1, 0} : gp' = [gp EXCEPT !.futex = x]
    BY Zenon, <1>a, <1>1
  <2>g. /\ gp'.ctr = gp.ctr /\ gp'.lock = gp.lock /\ gp'.reg = gp.reg
        /\ gp'.waiters = gp.waiters /\ gp'.pass = gp.pass /\ gp'.loops = gp.loops
        /\ gp'.todo = gp.todo /\ gp' \in GpRecord
    BY Zenon, <1>a, <2>f DEF GpRecord
  <2>p. pc'[u] = "passed" /\ pc' = [pc EXCEPT ![u] = pc'[u]]
    BY Zenon, <1>a, <1>1
  <2>c. /\ pc[u] \in SyncPc /\ pc'[u] \in SyncPc /\ pc[u] \in GpPc \ {"reg_lock", "out"}
        /\ pc'[u] \in GpPc /\ pc'[u] # "reg_lock" /\ pc'[u] # "out"
        /\ pc[u] \in RegPc /\ pc'[u] \in RegPc
        /\ pc'[u] \notin {"ask", "scan", "wait_gp", "asleep"}
    BY Zenon, <1>a, <2>p DEF SyncPc, GpPc, RegPc
  <2>1. Quiet(u) /\ Lead(u)
    BY Zenon, <1>a, <2>g, <2>p, <2>c DEF Quiet, Lead
  <2>2. Serves(u) /\ Lists(u)
    BY Zenon, <1>a, <1>1, <2>g, <2>c, <2>1, Unmoved DEF Lists
  <2>3. Sleeps(u)
    BY Zenon, <2>c DEF Sleeps
  <2> QED
    BY Zenon, <2>1, <2>2, <2>3, LeadInv
<1>2. CASE /\ Input # {} /\ Gp([gp EXCEPT !.reg = NoThread])
           /\ Goto(u, IF Sleepy THEN "wait_gp" ELSE "relock")
  <2>p. /\ pc' = [pc EXCEPT ![u] = pc'[u]]
        /\ (Sleepy /\ pc'[u] = "wait_gp") \/ (~Sleepy /\ pc'[u] = "relock")
    BY Zenon, <1>a, <1>2
  <2>f. gp' = [gp EXCEPT !.reg = NoThread]
    BY Zenon, <1>2
  <2>g. /\ gp'.futex = gp.futex /\ gp'.ctr = gp.ctr /\ gp'.lock = gp.lock
        /\ gp'.reg = NoThread /\ gp'.todo = gp.todo
        /\ gp'.waiters = gp.waiters /\ gp'.pass = gp.pass /\ gp'.loops = gp.loops
        /\ gp' \in GpRecord
    BY <1>a, <2>f DEF GpRecord
  <2>c. /\ pc[u] \in SyncPc /\ pc'[u] \in SyncPc /\ pc[u] \in GpPc \ {"reg_lock", "out"}
        /\ pc'[u] \in GpPc /\ pc'[u] # "reg_lock" /\ pc'[u] # "out"
        /\ pc[u] \in RegPc /\ pc'[u] \notin RegPc
        /\ pc'[u] \notin {"ask", "scan", "passed", "asleep"}
    BY Zenon, <1>a, <2>p DEF SyncPc, GpPc, RegPc
  <2>1. Quiet(u) /\ Lead(u)
    BY Zenon, <1>a, <2>g, <2>p, <2>c DEF Quiet, Lead
  <2>2. Serves(u) /\ Lists(u) /\ Input' = Input
    BY Zenon, <1>a, <2>g, <2>c, <2>1, Unmoved DEF Lists
  <2>3. Sleeps(u)
    <3>1. Sleepy' <=> Sleepy
      BY Zenon, <2>g DEF Sleepy
    <3>2. PICK q \in Input : TRUE
      BY Zenon, <1>2
    <3>3. Sleepy /\ Armed' => Asked(q)'
      BY Zenon, <1>a, <2>g, <2>1, <3>2, QuietTold
    <3> QED
      BY Zenon, <2>p, <2>c, <2>2, <3>1, <3>2, <3>3 DEF Sleeps
  <2> QED
    BY Zenon, <2>1, <2>2, <2>3, LeadInv
<1> QED
  BY Zenon, <1>1, <1>2 DEF ScanDone

(* The parity changes, or the readers return to the registry. *)
LEMMA PassedInv ==
  ASSUME IInv, QsbrAssumption, wide' = wide, NEW u \in Updaters, Passed(u) PROVE IInv' /\ Quiet(u)
<1>a. /\ TypeOK /\ u \in Threads /\ gp \in GpRecord /\ pc[u] = "passed"
      /\ rd \in [Readers -> ReaderRecord] /\ pc \in [Threads -> Pcs]
      /\ batch' = batch /\ pre' = pre /\ gp.pass \in {1, 2} /\ gp.ctr \in Nat
      /\ Input = {} /\ (wide \/ gp.ctr \in {1, 3})
      /\ wide => \A q \in Readers : rd[q].list # "cur_snap"
      /\ \A q \in Readers : rd[q].list \in {"none", "registry", "cur_snap", "qs"}
  BY Zenon, Fields DEF IInv, TypeOK, Threads, Passed, ListInv, CounterInv
<1>b. pc[u] \in SyncPc /\ pc[u] \in GpPc \ {"reg_lock", "out"} /\ pc[u] \in RegPc
  BY Zenon, <1>a DEF SyncPc, GpPc, RegPc
<1>w. wide => gp.pass = 1
  BY Zenon, <1>b DEF IInv, ListInv
<1>i. /\ gp.pass = 1 => \A q \in Readers : rd[q].list # "registry"
      /\ gp.pass = 2 => \A q \in Readers : rd[q].list # "cur_snap"
  BY <1>a DEF Input, OnList
<1>s. \A v \in Updaters : v \in batch[u] =>
        \A r \in pre[v] : r \in Readers /\ Tracked(r)
  BY Zenon, <1>a, <1>b DEF IInv, GraceInv, TypeOK
<1>1. CASE /\ ~wide /\ gp.pass = 1
           /\ Gp([gp EXCEPT !.pass = 2, !.loops = 0,
                            !.ctr = IF @ = ONLINE THEN ONLINE + GP_CTR ELSE ONLINE])
           /\ Goto(u, "loop")
           /\ UNCHANGED rd
  <2>f. PICK c \in Nat : /\ gp' = [gp EXCEPT !.pass = 2, !.loops = 0, !.ctr = c]
                         /\ c \in {1, 3} /\ c # gp.ctr
    <3> DEFINE d == IF gp.ctr = ONLINE THEN ONLINE + GP_CTR ELSE ONLINE
    <3>1. d \in Nat /\ d \in {1, 3} /\ d # gp.ctr
      BY <1>a, <1>1 DEF ONLINE, GP_CTR
    <3>2. gp' = [gp EXCEPT !.pass = 2, !.loops = 0, !.ctr = d]
      BY Zenon, <1>1
    <3> HIDE DEF d
    <3> QED
      BY Zenon, <3>1, <3>2
  <2>0. 0 \in Nat
    OBVIOUS
  <2>g. /\ gp'.futex = gp.futex /\ gp'.ctr = c /\ gp'.lock = gp.lock /\ gp'.reg = gp.reg
        /\ gp'.waiters = gp.waiters /\ gp'.pass = 2 /\ gp' \in GpRecord
    BY Zenon, <1>a, <2>f, <2>0 DEF GpRecord
  <2>p. pc'[u] = "loop" /\ pc' = [pc EXCEPT ![u] = pc'[u]] /\ rd' = rd
    BY Zenon, <1>a, <1>1
  <2>c. /\ pc'[u] \in SyncPc
        /\ pc'[u] \in GpPc /\ pc'[u] # "reg_lock" /\ pc'[u] # "out" /\ pc'[u] \in RegPc
        /\ pc'[u] \notin {"ask", "scan", "passed", "wait_gp", "asleep"}
    BY Zenon, <2>p DEF SyncPc, GpPc, RegPc
  <2>1. Quiet(u) /\ Lead(u)
    BY Zenon, <1>a, <1>b, <1>1, <2>f, <2>g, <2>p, <2>c DEF Quiet, Lead
  <2>2. Lists(u) /\ Sleeps(u)
    BY Zenon, <1>1, <2>c DEF Lists, Sleeps
  <2>3. Serves(u)
    <3>1. ASSUME NEW v \in Updaters, v \in batch[u], NEW r \in pre[v] PROVE Tracked(r)'
      <4>1. r \in Readers /\ rd[r].list = "cur_snap" /\ rd[r].ctr = gp.ctr
        BY <1>s, <1>i, <1>1, <3>1 DEF Tracked
      <4> QED
        BY Zenon, <1>1, <2>f, <2>g, <2>p, <4>1 DEF Tracked
    <3> QED
      BY Zenon, <2>c, <3>1 DEF Serves
  <2> QED
    BY Zenon, <2>1, <2>2, <2>3, LeadInv
<1>2. CASE /\ wide \/ gp.pass = 2
           /\ rd' = [r \in Readers |-> IF rd[r].list = "qs"
                                       THEN [rd[r] EXCEPT !.list = "registry"]
                                       ELSE rd[r]]
           /\ Goto(u, "out")
           /\ UNCHANGED gp
  <2>p. pc'[u] = "out" /\ pc' = [pc EXCEPT ![u] = pc'[u]] /\ gp' = gp
    BY Zenon, <1>a, <1>2
  <2>d. ASSUME NEW r \in Readers
        PROVE  /\ rd'[r] \in ReaderRecord
               /\ rd'[r].ctr = rd[r].ctr /\ rd'[r].gctr = rd[r].gctr
               /\ rd'[r].waiting = rd[r].waiting /\ rd'[r].after = rd[r].after
               /\ rd[r].list = "qs" => rd'[r].list = "registry"
               /\ rd[r].list # "qs" => rd'[r].list = rd[r].list
    <3>1. rd[r] \in ReaderRecord
      BY Zenon, <1>a
    <3>2. CASE rd[r].list = "qs"
      <4>1. rd'[r] = [rd[r] EXCEPT !.list = "registry"]
        BY Zenon, <1>2, <3>2
      <4> QED
        BY Zenon, <3>1, <3>2, <4>1 DEF ReaderRecord
    <3>3. CASE rd[r].list # "qs"
      BY Zenon, <1>2, <3>1, <3>3
    <3> QED
      BY Zenon, <3>2, <3>3
  <2>l. /\ rd' \in [Readers -> ReaderRecord]
        /\ \A r \in Readers : rd'[r].list = "none" <=> rd[r].list = "none"
        /\ \A r \in Readers : rd'[r].list \in {"none", "registry"}
    <3>1. \A r \in Readers : rd[r].list \in {"none", "registry", "qs"}
      BY Zenon, <1>a, <1>i, <1>w, <1>2
    <3>2. rd' = [r \in Readers |-> rd'[r]]
      BY Zenon, <1>2
    <3>3. \A r \in Readers : rd'[r] \in ReaderRecord
      BY Zenon, <2>d
    <3>4. rd' \in [Readers -> ReaderRecord]
      BY Zenon, <3>2, <3>3
    <3> QED
      BY Zenon, <2>d, <3>1, <3>4
  <2>c. /\ pc'[u] \in SyncPc
        /\ pc'[u] \in GpPc /\ pc'[u] # "reg_lock" /\ pc'[u] \in RegPc
        /\ pc'[u] \notin {"ask", "scan", "passed", "wait_gp", "asleep"}
    BY Zenon, <2>p DEF SyncPc, GpPc, RegPc
  <2>1. Quiet(u) /\ Lead(u)
    BY Zenon, <1>a, <1>b, <2>p, <2>d, <2>l, <2>c DEF Quiet, Lead
  <2>2. Lists(u) /\ Sleeps(u)
    <3>1. \A r \in Readers : rd'[r].list # "cur_snap"
      BY Zenon, <2>l
    <3> QED
      BY Zenon, <2>p, <2>l, <2>c, <3>1 DEF Lists, Sleeps
  <2>3. Serves(u)
    <3>1. \A r \in Readers : ~Tracked(r)
      BY <1>i, <1>w, <1>2 DEF Tracked
    <3> QED
      BY Zenon, <1>s, <2>p, <3>1 DEF Serves
  <2> QED
    BY Zenon, <2>1, <2>2, <2>3, LeadInv
<1> QED
  BY Zenon, <1>1, <1>2 DEF Passed

(* The leader takes the registry mutex: nobody to wait for, or a new count. *)
LEMMA RegLockInv ==
  ASSUME IInv, QsbrAssumption, wide' = wide, NEW u \in Updaters, RegLock(u) PROVE IInv' /\ Quiet(u)
<1>a. /\ TypeOK /\ u \in Threads /\ gp \in GpRecord /\ pc[u] = "reg_lock"
      /\ rd \in [Readers -> ReaderRecord] /\ pc \in [Threads -> Pcs]
      /\ batch' = batch /\ pre' = pre /\ rd' = rd /\ gp.reg = NoThread
      /\ gp.ctr \in Nat /\ 0 \in Nat /\ 1 \in {1, 2}
  BY Zenon, Fields DEF IInv, TypeOK, Threads, RegLock
<1>b. pc[u] \in SyncPc /\ pc[u] \in GpPc
  BY Zenon, <1>a DEF SyncPc, GpPc
<1>l. \A q \in Readers : rd[q].list \in {"none", "registry"}
  BY Zenon, <1>a DEF IInv, ListInv
<1>s. \A v \in Updaters : \A r \in pre[v] :
        r \in Readers /\ rd[r].list = "registry" /\ rd[r].ctr # 0
  BY Zenon, <1>a, <1>l DEF IInv, GraceInv, TypeOK, RoleInv, Role, InCS
<1>1. CASE OnList("registry") = {} /\ Gp([gp EXCEPT !.reg = u]) /\ Goto(u, "out")
  <2>f. gp' = [gp EXCEPT !.reg = u]
    BY Zenon, <1>1
  <2>g. /\ gp'.futex = gp.futex /\ gp'.ctr = gp.ctr /\ gp'.lock = gp.lock /\ gp'.reg = u
        /\ gp'.waiters = gp.waiters /\ gp' \in GpRecord
    BY <1>a, <2>f DEF GpRecord
  <2>p. pc'[u] = "out" /\ pc' = [pc EXCEPT ![u] = pc'[u]]
    BY Zenon, <1>a, <1>1
  <2>c. /\ pc'[u] \in SyncPc
        /\ pc'[u] \in GpPc /\ pc'[u] # "reg_lock" /\ pc'[u] \in RegPc
        /\ pc'[u] \notin {"ask", "scan", "passed", "wait_gp", "asleep"}
    BY Zenon, <2>p DEF SyncPc, GpPc, RegPc
  <2>1. Quiet(u) /\ Lead(u)
    BY Zenon, <1>a, <1>b, <2>g, <2>p, <2>c DEF Quiet, Lead
  <2>2. Lists(u) /\ Sleeps(u)
    BY Zenon, <1>a, <1>l, <2>p, <2>c DEF Lists, Sleeps
  <2>3. Serves(u)
    BY Zenon, <1>s, <1>1, <2>p DEF Serves, OnList
  <2> QED
    BY Zenon, <2>1, <2>2, <2>3, LeadInv
<1>2. CASE /\ OnList("registry") # {}
           /\ Gp([gp EXCEPT !.reg = u, !.loops = 0, !.pass = 1,
                            !.ctr = IF wide THEN @ + GP_CTR ELSE @])
           /\ Goto(u, "loop")
  <2>f. PICK c \in Nat :
          /\ gp' = [gp EXCEPT !.reg = u, !.loops = 0, !.pass = 1, !.ctr = c]
          /\ (wide /\ c = gp.ctr + 2) \/ (~wide /\ c = gp.ctr)
    <3> DEFINE d == IF wide THEN gp.ctr + GP_CTR ELSE gp.ctr
    <3>1. d \in Nat /\ ((wide /\ d = gp.ctr + 2) \/ (~wide /\ d = gp.ctr))
      BY <1>a DEF GP_CTR
    <3>2. gp' = [gp EXCEPT !.reg = u, !.loops = 0, !.pass = 1, !.ctr = d]
      BY Zenon, <1>2
    <3> HIDE DEF d
    <3> QED
      BY Zenon, <3>1, <3>2
  <2>g. /\ gp'.futex = gp.futex /\ gp'.ctr = c /\ gp'.lock = gp.lock /\ gp'.reg = u
        /\ gp'.waiters = gp.waiters /\ gp'.pass = 1 /\ gp' \in GpRecord
    BY Zenon, <1>a, <2>f DEF GpRecord
  <2>p. pc'[u] = "loop" /\ pc' = [pc EXCEPT ![u] = pc'[u]]
    BY Zenon, <1>a, <1>2
  <2>c. /\ pc'[u] \in SyncPc
        /\ pc'[u] \in GpPc /\ pc'[u] # "reg_lock" /\ pc'[u] # "out" /\ pc'[u] \in RegPc
        /\ pc'[u] \notin {"ask", "scan", "passed", "wait_gp", "asleep"}
    BY Zenon, <2>p DEF SyncPc, GpPc, RegPc
  <2>1. Quiet(u) /\ Lead(u)
    BY Zenon, <1>a, <1>b, <2>f, <2>g, <2>p, <2>c DEF Quiet, Lead
  <2>2. Lists(u) /\ Sleeps(u)
    <3>1. \A q \in Readers : rd'[q].list # "cur_snap"
      BY Zenon, <1>a, <1>l
    <3> QED
      BY Zenon, <2>g, <2>c, <3>1 DEF Lists, Sleeps
  <2>3. Serves(u)
    <3>1. ASSUME NEW v \in Updaters, NEW r \in pre[v] PROVE Tracked(r)'
      <4>1. r \in Readers /\ rd[r].list = "registry" /\ rd[r].ctr # 0
        BY Zenon, <1>s, <3>1
      <4>2. wide => rd[r].ctr # c
        <5>1. rd[r].ctr \in Nat /\ (wide => rd[r].ctr <= gp.ctr)
          BY Zenon, <1>a, <4>1, Fields DEF IInv, CounterInv, CounterOf, Seen
        <5>2. PICK a \in Nat, b \in Nat : a = rd[r].ctr /\ b = gp.ctr
          BY Zenon, <1>a, <5>1
        <5> QED
          BY <2>f, <5>1, <5>2
      <4> QED
        BY Zenon, <1>a, <2>g, <4>1, <4>2 DEF Tracked
    <3> QED
      BY Zenon, <2>c, <3>1 DEF Serves
  <2> QED
    BY Zenon, <2>1, <2>2, <2>3, LeadInv
<1> QED
  BY Zenon, <1>1, <1>2 DEF RegLock

-----------------------------------------------------------------------------
(* The steps at the two ends of a call.                                    *)

(* The leader takes rcu_gp_lock and empties gp_waiters. *)
LEMMA GpLockInv ==
  ASSUME IInv, QsbrAssumption, wide' = wide, NEW u \in Updaters, GpLock(u) PROVE IInv' /\ Quiet(u)
<1>a. /\ TypeOK /\ u \in Threads /\ \A v \in Updaters : v \in Threads
      /\ gp \in GpRecord /\ pc[u] = "lock"
      /\ rd \in [Readers -> ReaderRecord] /\ pc \in [Threads -> Pcs]
      /\ batch \in [Updaters -> SUBSET Updaters] /\ gp.waiters \subseteq Updaters
      /\ batch' = [batch EXCEPT ![u] = gp.waiters]
      /\ gp' = [gp EXCEPT !.lock = u, !.waiters = {}]
      /\ pre' = pre /\ rd' = rd /\ gp.lock = NoThread
      /\ pc'[u] = "reg_lock" /\ pc' = [pc EXCEPT ![u] = pc'[u]]
  BY Zenon, Fields DEF IInv, TypeOK, Threads, GpLock
<1>g. /\ gp'.futex = gp.futex /\ gp'.ctr = gp.ctr /\ gp'.lock = u /\ gp'.reg = gp.reg
      /\ gp'.waiters = {} /\ gp'.pass = gp.pass /\ gp' \in GpRecord
  BY Zenon, <1>a DEF GpRecord
<1>c. /\ pc[u] \in SyncPc /\ pc'[u] \in SyncPc
      /\ pc[u] \notin GpPc /\ pc[u] \notin RegPc /\ pc'[u] \notin RegPc /\ pc'[u] \in GpPc
  BY Zenon, <1>a DEF SyncPc, GpPc, RegPc
<1>k. Quiet(u)
  BY Zenon, <1>a, <1>g, <1>c DEF Quiet
<1>q. /\ CounterInv' /\ RoleInv'
      /\ \A v \in Updaters : \A r \in pre'[v] : InCS(r)'
      /\ pc' \in [Threads -> Pcs] /\ pre' \in [Updaters -> SUBSET Readers]
      /\ \A t \in Threads : t # u => pc'[t] = pc[t]
  BY Zenon, <1>k, QuietInv
<1>l. \A t \in Threads : pc[t] \notin GpPc
  BY Zenon, <1>a DEF IInv, LockInv, QsbrAssumption
<1>m. \A v \in Updaters : pc'[v] \in GpPc => v = u
  BY Zenon, <1>a, <1>q, <1>l
<1>1. TypeOK'
  BY Zenon, <1>a, <1>g, <1>q DEF TypeOK
<1>2. LockInv'
  <2>1. \A t \in Threads : pc'[t] \in RegPc <=> pc[t] \in RegPc
    BY Zenon, <1>q, <1>c
  <2> QED
    BY Zenon, <1>a, <1>g, <1>c, <1>q, <1>l, <2>1 DEF IInv, LockInv
<1>5. BatchInv'
  <2>0. BatchInv
    BY Zenon DEF IInv
  <2>1. batch'[u] = gp.waiters /\ \A v \in Updaters : v # u => batch'[v] = batch[v]
    BY Zenon, <1>a
  <2>2. /\ \A v \in Updaters : v # u => pc'[v] = pc[v]
        /\ pc'[u] \in BatchPc /\ pc'[u] # "lock" /\ pc[u] \notin BatchPc
    BY Zenon, <1>a, <1>q DEF BatchPc, GpPc, RegPc
  <2>3. \A v \in Updaters : v \in gp.waiters => v = u \/ pc[v] = "waiting"
    BY Zenon, <1>a, <2>0 DEF BatchInv
  <2>4. \A v, w \in Updaters : v \in batch[w] => w # u /\ v # u /\ v \notin gp.waiters
    BY Zenon, <1>a, <2>0, <2>2 DEF BatchInv
  <2>5. \A v, w \in Updaters : v \in batch'[w] =>
          /\ pc'[w] \in BatchPc
          /\ v = w \/ pc'[v] = "waiting"
          /\ v \notin gp'.waiters
    <3>1. ASSUME NEW v \in Updaters, v \in batch'[u] PROVE v = u \/ pc'[v] = "waiting"
      BY Zenon, <2>1, <2>2, <2>3, <3>1
    <3>2. ASSUME NEW v \in Updaters, NEW w \in Updaters, w # u, v \in batch'[w]
          PROVE  pc'[w] \in BatchPc /\ (v = w \/ pc'[v] = "waiting")
      <4>1. v \in batch[w] /\ v # u
        BY Zenon, <2>1, <2>4, <3>2
      <4>2. pc[w] \in BatchPc /\ (v = w \/ pc[v] = "waiting")
        BY Zenon, <2>0, <4>1 DEF BatchInv
      <4> QED
        BY Zenon, <2>2, <3>2, <4>1, <4>2
    <3> QED
      BY Zenon, <1>g, <2>2, <3>1, <3>2
  <2>6. \A v, w, x \in Updaters : v \in batch'[w] /\ v \in batch'[x] => w = x
    BY Zenon, <2>0, <2>1, <2>4 DEF BatchInv
  <2>7. \A v \in Updaters : pc'[v] \in BatchPc => v \in batch'[v]
    BY Zenon, <1>a, <2>0, <2>1, <2>2 DEF BatchInv
  <2>8. \A v \in Updaters : pc'[v] # "lock"
    BY Zenon, <1>a, <2>0, <2>2 DEF BatchInv
  <2> QED
    BY Zenon, <1>g, <2>5, <2>6, <2>7, <2>8 DEF BatchInv
<1>6. ListInv'
  <2>1. \A r \in Readers : rd'[r].list \in {"none", "registry"}
    BY Zenon, <1>a DEF IInv, ListInv
  <2>2. \A v \in Updaters : pc'[v] \notin {"passed", "ask", "scan"}
                            /\ pc'[v] \notin GpPc \ {"reg_lock", "out"}
    BY Zenon, <1>a, <1>m DEF GpPc, RegPc
  <2>3. \A r \in Readers : rd'[r].list # "cur_snap"
    BY Zenon, <2>1
  <2> QED
    BY Zenon, <2>1, <2>2, <2>3 DEF ListInv
<1>7. GraceInv'
  <2>1. \A v \in Updaters :
          /\ pc'[v] \notin GpPc \ {"reg_lock", "out"} /\ pc'[v] # "out"
          /\ pc'[v] \in {"release", "gp_end"} => pc'[v] = pc[v] /\ v # u
    BY Zenon, <1>a, <1>q, <1>m DEF GpPc, RegPc
  <2>2. \A v \in Updaters : v # u => batch'[v] = batch[v]
    BY Zenon, <1>a
  <2>3. pre' = pre
    BY Zenon, <1>a
  <2> QED
    BY Zenon, <1>q, <2>1, <2>2, <2>3 DEF IInv, GraceInv
<1>8. SleepInv'
  <2>1. \A v \in Updaters : pc'[v] \notin {"ask", "scan", "wait_gp", "asleep"}
    BY Zenon, <1>a, <1>m DEF GpPc, RegPc
  <2> QED
    BY Zenon, <2>1 DEF SleepInv
<1> QED
  BY Zenon, <1>k, <1>q, <1>1, <1>2, <1>5, <1>6, <1>7, <1>8 DEF IInv

(* The leader releases both mutexes. *)
LEMMA OutInv ==
  ASSUME IInv, QsbrAssumption, wide' = wide, NEW u \in Updaters, Out(u) PROVE IInv' /\ Quiet(u)
<1>a. /\ TypeOK /\ u \in Threads /\ \A v \in Updaters : v \in Threads
      /\ gp \in GpRecord /\ pc[u] = "out"
      /\ rd \in [Readers -> ReaderRecord] /\ pc \in [Threads -> Pcs]
      /\ gp' = [gp EXCEPT !.reg = NoThread, !.lock = NoThread]
      /\ batch' = batch /\ pre' = pre /\ rd' = rd
      /\ pc'[u] = "release" /\ pc' = [pc EXCEPT ![u] = pc'[u]]
  BY Zenon DEF IInv, TypeOK, Threads, Out
<1>g. /\ gp'.futex = gp.futex /\ gp'.ctr = gp.ctr /\ gp'.lock = NoThread
      /\ gp'.reg = NoThread
      /\ gp'.waiters = gp.waiters /\ gp'.pass = gp.pass /\ gp' \in GpRecord
  BY Zenon, <1>a DEF GpRecord
<1>c. /\ pc[u] \in SyncPc /\ pc'[u] \in SyncPc /\ RegPc \subseteq GpPc
      /\ pc[u] \in GpPc /\ pc[u] \in RegPc /\ pc'[u] \notin RegPc /\ pc'[u] \notin GpPc
  BY Zenon, <1>a DEF SyncPc, GpPc, RegPc
<1>k. Quiet(u)
  BY Zenon, <1>a, <1>g, <1>c DEF Quiet
<1>q. /\ CounterInv' /\ RoleInv'
      /\ \A v \in Updaters : \A r \in pre'[v] : InCS(r)'
      /\ pc' \in [Threads -> Pcs] /\ pre' \in [Updaters -> SUBSET Readers]
      /\ \A t \in Threads : t # u => pc'[t] = pc[t]
  BY Zenon, <1>k, QuietInv
<1>l. \A t \in Threads : pc'[t] \notin GpPc /\ pc'[t] \notin RegPc
  BY Zenon, <1>c, <1>q, Leader
<1>m. \A v \in Updaters : pc'[v] \notin GpPc
  BY Zenon, <1>a, <1>l
<1>1. TypeOK'
  BY Zenon, <1>a, <1>g, <1>q DEF TypeOK
<1>2. LockInv'
  BY Zenon, <1>g, <1>l DEF LockInv, QsbrAssumption
<1>5. BatchInv'
  <2>1. \A v \in Updaters :
          /\ pc'[v] \in BatchPc <=> pc[v] \in BatchPc
          /\ pc'[v] = "lock" <=> pc[v] = "lock"
          /\ pc'[v] = "waiting" <=> pc[v] = "waiting"
    BY Zenon, <1>a, <1>c, <1>q DEF BatchPc
  <2>2. batch' = batch /\ gp'.waiters = gp.waiters
    BY Zenon, <1>a, <1>g
  <2> QED
    BY Zenon, <2>1, <2>2 DEF IInv, BatchInv
<1>6. ListInv'
  <2>1. \A r \in Readers : rd'[r].list \in {"none", "registry"}
    BY Zenon, <1>a DEF IInv, ListInv
  <2>2. \A v \in Updaters : pc'[v] \notin {"passed", "ask", "scan"}
    BY Zenon, <1>m DEF GpPc, RegPc
  <2>3. \A r \in Readers : rd'[r].list # "cur_snap"
    BY Zenon, <2>1
  <2> QED
    BY Zenon, <1>m, <2>1, <2>2, <2>3 DEF ListInv
<1>7. GraceInv'
  <2>1. \A v \in Updaters :
          /\ pc'[v] \in {"out", "release"} => pc[v] \in {"out", "release"}
          /\ pc'[v] = "gp_end" => pc[v] = "gp_end"
    BY Zenon, <1>a, <1>q
  <2> QED
    BY Zenon, <1>a, <1>q, <1>m, <2>1 DEF IInv, GraceInv
<1>8. SleepInv'
  <2>1. \A v \in Updaters : pc'[v] \notin {"ask", "scan", "wait_gp", "asleep"}
    BY Zenon, <1>m DEF GpPc, RegPc
  <2> QED
    BY Zenon, <2>1 DEF SleepInv
<1> QED
  BY Zenon, <1>k, <1>q, <1>1, <1>2, <1>5, <1>6, <1>7, <1>8 DEF IInv

(* The control points around a grace period, and a step among them. *)
Ends == {"idle", "push", "lock", "waiting", "release", "gp_end", "on_load"}

Edge ==
  /\ wide' = wide /\ rd' = rd /\ gp' \in GpRecord
  /\ gp'.ctr = gp.ctr /\ gp'.futex = gp.futex /\ gp'.lock = gp.lock
  /\ gp'.reg = gp.reg /\ gp'.pass = gp.pass /\ gp'.loops = gp.loops
  /\ gp'.todo = gp.todo
  /\ pc' \in [Threads -> Pcs]
  /\ \A t \in Threads : pc'[t] = pc[t] \/ (pc[t] \in Ends /\ pc'[t] \in Ends)

(* Such a step keeps what the invariant says of locks, counters, lists and *)
(* the sleep of the leader.                                                *)
LEMMA EdgeInv ==
  ASSUME IInv, Edge, batch' \in [Updaters -> SUBSET Updaters],
         pre' \in [Updaters -> SUBSET Readers], RoleInv', BatchInv', GraceInv'
  PROVE  IInv'
<1>t. /\ \A v \in Updaters : v \in Threads
      /\ \A r \in Readers : r \in Threads
  BY Zenon DEF Threads
<1>p. \A t \in Threads : pc'[t] = pc[t] \/ (pc[t] \in Ends /\ pc'[t] \in Ends)
  BY Zenon DEF Edge
<1>e. /\ \A l \in Ends : l \notin GpPc /\ l \notin RegPc
      /\ \A l \in Ends : l \notin {"on_store", "qs_store", "wake", "wake_clear",
                                   "wake_futex", "wake_store", "wake_call"}
      /\ {"reg_lock", "out", "passed", "ask", "scan", "wait_gp", "asleep"} \subseteq GpPc
  BY Zenon DEF Ends, GpPc, RegPc
<1>u. \A v \in Updaters : pc'[v] \in GpPc => pc'[v] = pc[v]
  BY Zenon, <1>t, <1>p, <1>e
<1>1. TypeOK'
  BY Zenon DEF Edge, IInv, TypeOK
<1>2. LockInv'
  <2>1. \A t \in Threads : /\ pc'[t] \in GpPc <=> pc[t] \in GpPc
                           /\ pc'[t] \in RegPc <=> pc[t] \in RegPc
    BY Zenon, <1>p, <1>e
  <2>2. gp'.lock = gp.lock /\ gp'.reg = gp.reg
    BY Zenon DEF Edge
  <2> QED
    BY Zenon, <2>1, <2>2 DEF IInv, LockInv
<1>3. CounterInv'
  <2>1. \A r \in Readers : pc'[r] \in {"on_store", "qs_store"} => pc'[r] = pc[r]
    BY Zenon, <1>t, <1>p, <1>e
  <2>2. wide' = wide /\ rd' = rd /\ gp'.ctr = gp.ctr
    BY Zenon DEF Edge
  <2> QED
    BY Zenon, <2>1, <2>2 DEF IInv, CounterInv, CounterOf, Seen
<1>i. /\ Input' = Input /\ Input \subseteq Readers /\ rd' = rd /\ wide' = wide
      /\ gp'.todo = gp.todo /\ gp'.pass = gp.pass /\ gp'.lock = gp.lock
      /\ gp'.futex = gp.futex /\ gp'.ctr = gp.ctr
  BY Zenon DEF Input, OnList, Edge
<1>6. ListInv'
  <2>1. ListInv
    BY Zenon DEF IInv
  <2> QED
    BY Zenon, <1>u, <1>e, <1>i, <2>1 DEF ListInv
<1>8. SleepInv'
  <2>1. \A r \in Readers : pc'[r] = pc[r]
          \/ (/\ pc[r] \notin {"wake", "wake_clear", "wake_futex", "wake_store", "wake_call"}
              /\ pc'[r] \notin {"wake", "wake_clear", "wake_futex", "wake_store", "wake_call"})
    BY Zenon, <1>t, <1>p, <1>e
  <2>2. ASSUME NEW r \in Readers PROVE (Told(r)' <=> Told(r)) /\ (Asked(r)' <=> Asked(r))
    <3>1. ScanTo(r)' = ScanTo(r)
      BY Zenon, <1>i, ScanKept
    <3>2. /\ pc'[r] = "wake" <=> pc[r] = "wake"
          /\ pc'[r] = "wake_clear" <=> pc[r] = "wake_clear"
          /\ pc'[r] = "wake_futex" <=> pc[r] = "wake_futex"
      BY Zenon, <2>1
    <3> QED
      BY Zenon, <1>i, <3>1, <3>2 DEF Told, Asked
  <2>3. (Armed' <=> Armed) /\ (Sleepy' <=> Sleepy)
    <3>1. \A r \in Readers : pc'[r] = "wake_store" <=> pc[r] = "wake_store"
      BY Zenon, <2>1
    <3> QED
      BY Zenon, <1>i, <3>1 DEF Armed, Sleepy, Edge
  <2>4. \A r \in Readers : pc[r] \in {"wake_store", "wake_call"}
                             => pc'[r] \in {"wake_store", "wake_call"}
    BY Zenon, <2>1
  <2>5. SleepInv
    BY Zenon DEF IInv
  <2> SUFFICES ASSUME NEW u \in Updaters
               PROVE  /\ pc'[u] \in {"ask", "wait_gp", "asleep"} => Sleepy'
                      /\ pc'[u] = "ask" /\ Armed' =>
                           \A q \in Input' \ gp'.todo : Told(q)'
                      /\ pc'[u] = "scan" /\ Sleepy' /\ Armed' =>
                           /\ \A q \in Input' : Told(q)'
                           /\ \A q \in Input' \ gp'.todo : Asked(q)'
                      /\ pc'[u] \in {"wait_gp", "asleep"} /\ Armed' =>
                           \E q \in Input' : Asked(q)'
                      /\ pc'[u] = "asleep" /\ gp'.futex = 0 =>
                           \E q \in Readers : pc'[q] \in {"wake_store", "wake_call"}
    BY Zenon DEF SleepInv
  <2>6. pc'[u] \in {"ask", "scan", "wait_gp", "asleep"} => pc'[u] = pc[u]
    BY Zenon, <1>u, <1>e
  <2>7. pc'[u] \in {"ask", "wait_gp", "asleep"} => Sleepy'
    BY Zenon, <2>3, <2>5, <2>6 DEF SleepInv
  <2>8. pc'[u] = "ask" /\ Armed' => \A q \in Input' \ gp'.todo : Told(q)'
    BY Zenon, <1>i, <2>2, <2>3, <2>5, <2>6 DEF SleepInv
  <2>9. pc'[u] = "scan" /\ Sleepy' /\ Armed' =>
          /\ \A q \in Input' : Told(q)'
          /\ \A q \in Input' \ gp'.todo : Asked(q)'
    BY Zenon, <1>i, <2>2, <2>3, <2>5, <2>6 DEF SleepInv
  <2>10. pc'[u] \in {"wait_gp", "asleep"} /\ Armed' => \E q \in Input' : Asked(q)'
    BY Zenon, <1>i, <2>2, <2>3, <2>5, <2>6 DEF SleepInv
  <2>11. pc'[u] = "asleep" /\ gp'.futex = 0 =>
           \E q \in Readers : pc'[q] \in {"wake_store", "wake_call"}
    BY Zenon, <1>i, <2>4, <2>5, <2>6 DEF SleepInv
  <2> QED
    BY Zenon, <2>7, <2>8, <2>9, <2>10, <2>11
<1> QED
  BY Zenon, <1>1, <1>2, <1>3, <1>6, <1>8 DEF IInv

(* The start of a call by a thread that is no reader. *)
LEMMA SyncInv ==
  ASSUME IInv, wide' = wide, NEW u \in Updaters, u \notin Readers, Sync(u) PROVE IInv'
<1>a. /\ TypeOK /\ u \in Threads /\ \A v \in Updaters : v \in Threads
      /\ pc[u] = "idle" /\ gp' = gp /\ rd' = rd /\ batch' = batch /\ pre' = pre
      /\ pc' = [pc EXCEPT ![u] = "push"]
  <2>1. u \in Threads /\ \A v \in Updaters : v \in Threads
    BY Zenon DEF Threads
  <2> QED
    BY Zenon, <2>1 DEF Sync, IInv
<1>p. /\ pc' \in [Threads -> Pcs] /\ pc'[u] = "push"
      /\ \A t \in Threads : t # u => pc'[t] = pc[t]
      /\ \A r \in Readers : pc'[r] = pc[r]
  BY Zenon, <1>a DEF TypeOK, Pcs, Threads
<1>1. Edge
  BY Zenon, <1>a, <1>p DEF Edge, Ends, TypeOK
<1>2. RoleInv'
  BY Zenon, <1>a, <1>p DEF IInv, RoleInv, Role
<1>3. BatchInv'
  <2>1. \A v \in Updaters :
          /\ pc'[v] \in BatchPc <=> pc[v] \in BatchPc
          /\ pc'[v] = "lock" <=> pc[v] = "lock"
          /\ pc'[v] = "waiting" <=> pc[v] = "waiting"
    BY Zenon, <1>a, <1>p DEF BatchPc, GpPc, RegPc
  <2>2. batch' = batch /\ gp'.waiters = gp.waiters
    BY Zenon, <1>a
  <2> QED
    BY Zenon, <2>1, <2>2 DEF IInv, BatchInv
<1>4. GraceInv'
  <2>1. \A v \in Updaters : pc'[v] = pc[v] \/ pc'[v] = "push"
    BY Zenon, <1>a, <1>p
  <2>2. "push" \notin GpPc
    BY Zenon DEF GpPc, RegPc
  <2>3. \A r \in Readers : (InCS(r) => InCS(r)') /\ (Tracked(r) => Tracked(r)')
    BY Zenon, <1>a, <1>p DEF InCS, Tracked
  <2>4. pre' = pre /\ batch' = batch /\ \A v \in Updaters : pre[v] \subseteq Readers
    BY Zenon, <1>a DEF TypeOK
  <2> QED
    BY Zenon, <2>1, <2>2, <2>3, <2>4 DEF IInv, GraceInv
<1> QED
  BY Zenon, <1>a, <1>1, <1>2, <1>3, <1>4, EdgeInv DEF TypeOK

(* urcu_wait_add(). *)
LEMMA SyncPushInv ==
  ASSUME IInv, wide' = wide, NEW u \in Updaters, SyncPush(u) PROVE IInv'
<1>a. /\ TypeOK /\ u \in Threads /\ \A v \in Updaters : v \in Threads
      /\ gp \in GpRecord /\ pc \in [Threads -> Pcs]
      /\ pre \in [Updaters -> SUBSET Readers]
      /\ pc[u] = "push" /\ rd' = rd /\ batch' = batch
      /\ gp' = [gp EXCEPT !.waiters = @ \cup {u}]
      /\ pre' = [pre EXCEPT ![u] = {r \in Readers : InCS(r)}]
      /\ pc' = [pc EXCEPT ![u] = IF gp.waiters = {} THEN "lock" ELSE "waiting"]
  BY Zenon DEF Threads, SyncPush, IInv, TypeOK
<1>g. /\ gp'.futex = gp.futex /\ gp'.ctr = gp.ctr /\ gp'.lock = gp.lock /\ gp'.reg = gp.reg
      /\ gp'.waiters = gp.waiters \cup {u} /\ gp'.pass = gp.pass /\ gp'.loops = gp.loops
      /\ gp'.todo = gp.todo /\ gp' \in GpRecord
  <2>1. gp.waiters \cup {u} \in SUBSET Updaters
    BY Zenon, <1>a, Fields
  <2> QED
    BY Zenon, <1>a, <2>1 DEF GpRecord
<1>p. /\ pc' \in [Threads -> Pcs] /\ pc'[u] \in {"lock", "waiting"}
      /\ pc'[u] = "lock" => gp.waiters = {}
      /\ \A t \in Threads : t # u => pc'[t] = pc[t]
      /\ pre' \in [Updaters -> SUBSET Readers]
      /\ pre'[u] = {r \in Readers : InCS(r)}
      /\ \A v \in Updaters : v # u => pre'[v] = pre[v]
  <2>1. pc'[u] \in {"lock", "waiting"} /\ (pc'[u] = "lock" => gp.waiters = {})
    BY Zenon, <1>a
  <2>2. {r \in Readers : InCS(r)} \in SUBSET Readers
    BY Zenon
  <2> QED
    BY Zenon, <1>a, <2>1, <2>2 DEF Pcs, SyncPc
<1>1. Edge
  BY Zenon, <1>a, <1>g, <1>p DEF Edge, Ends
<1>2. RoleInv'
  <2>1. ASSUME NEW r \in Readers PROVE Role(r)'
    <3>1. Role(r) /\ r \in Threads
      BY Zenon DEF IInv, RoleInv, Threads
    <3>2. CASE r # u
      BY Zenon, <1>a, <1>p, <3>1, <3>2 DEF Role
    <3>3. CASE r = u
      BY Zenon, <1>a, <1>p, <3>1, <3>3 DEF Role, ReaderPc, SyncPc, WakePc
    <3> QED
      BY Zenon, <3>2, <3>3
  <2> QED
    BY Zenon, <2>1 DEF RoleInv
<1>b. BatchInv
  BY Zenon DEF IInv
<1>x. /\ \A v, w \in Updaters : v \in batch[w] => v # u /\ w # u
      /\ u \notin gp.waiters
  BY Zenon, <1>a, <1>b DEF BatchInv, BatchPc, GpPc, RegPc
<1>3. BatchInv'
  <2>1. /\ \A v \in Updaters : v # u => pc'[v] = pc[v]
        /\ pc'[u] \notin BatchPc
    BY Zenon, <1>a, <1>p DEF BatchPc, GpPc, RegPc
  <2>2. ASSUME NEW v \in Updaters, NEW w \in Updaters, v \in batch'[w]
        PROVE  pc'[w] \in BatchPc /\ (v = w \/ pc'[v] = "waiting") /\ v \notin gp'.waiters
    <3>1. v \in batch[w] /\ v # u /\ w # u
      BY Zenon, <1>a, <1>x, <2>2
    <3>2. pc[w] \in BatchPc /\ (v = w \/ pc[v] = "waiting") /\ v \notin gp.waiters
      BY Zenon, <1>b, <3>1 DEF BatchInv
    <3>3. v \notin gp'.waiters
      BY Zenon, <1>g, <3>1, <3>2
    <3> QED
      BY Zenon, <2>1, <3>1, <3>2, <3>3
  <2>3. \A v, w, x \in Updaters : v \in batch'[w] /\ v \in batch'[x] => w = x
    BY Zenon, <1>a, <1>b DEF BatchInv
  <2>4. \A v \in Updaters : pc'[v] \in BatchPc => v \in batch'[v]
    BY Zenon, <1>a, <1>b, <2>1 DEF BatchInv
  <2>5. \A v \in Updaters : /\ v \in gp'.waiters => pc'[v] \in {"lock", "waiting"}
                            /\ pc'[v] = "lock" => v \in gp'.waiters
    <3>1. \A v \in Updaters : v \in gp'.waiters <=> v \in gp.waiters \/ v = u
      BY Zenon, <1>g
    <3>2. \A v \in Updaters : /\ v \in gp.waiters => pc[v] \in {"lock", "waiting"}
                              /\ pc[v] = "lock" => v \in gp.waiters
      BY Zenon, <1>b DEF BatchInv
    <3> QED
      BY Zenon, <1>p, <2>1, <3>1, <3>2
  <2>6. \A v, w \in Updaters : pc'[v] = "lock" /\ pc'[w] = "lock" => v = w
    <3>1. /\ \A v \in Updaters : pc[v] = "lock" => v \in gp.waiters
          /\ \A v, w \in Updaters : pc[v] = "lock" /\ pc[w] = "lock" => v = w
      BY Zenon, <1>b DEF BatchInv
    <3>2. pc'[u] = "lock" => \A v \in Updaters : v # u => pc'[v] # "lock"
      BY Zenon, <1>p, <2>1, <3>1
    <3> QED
      BY Zenon, <2>1, <3>1, <3>2
  <2> QED
    BY Zenon, <2>2, <2>3, <2>4, <2>5, <2>6 DEF BatchInv
<1>4. GraceInv'
  <2>0. GraceInv /\ \A v \in Updaters : pre[v] \subseteq Readers
    BY Zenon, <1>a DEF IInv
  <2>1. ASSUME NEW r \in Readers PROVE (InCS(r) => InCS(r)') /\ (Tracked(r) => Tracked(r)')
    <3>1. pc[r] = "idle" => pc'[r] = pc[r]
      BY Zenon, <1>a, <1>p DEF Threads
    <3>2. Tracked(r) => Tracked(r)'
      BY Zenon, <1>a, <1>g DEF Tracked
    <3> QED
      BY Zenon, <1>a, <3>1, <3>2 DEF InCS
  <2>2. \A v \in Updaters : \A r \in pre'[v] : InCS(r)'
    BY Zenon, <1>p, <2>0, <2>1 DEF GraceInv
  <2>3. ASSUME NEW v \in Updaters, NEW w \in Updaters, v \in batch'[w]
        PROVE  /\ pc'[w] \in GpPc \ {"reg_lock", "out"} => \A r \in pre'[v] : Tracked(r)'
               /\ pc'[w] \in {"out", "release"} => pre'[v] = {}
    <3>1. v \in batch[w] /\ pre'[v] = pre[v] /\ pc'[w] = pc[w]
      BY Zenon, <1>a, <1>p, <1>x, <2>3
    <3> QED
      BY Zenon, <2>0, <2>1, <3>1 DEF GraceInv
  <2>4. \A v \in Updaters : pc'[v] = "gp_end" => pre'[v] = {}
    BY Zenon, <1>a, <1>p, <2>0 DEF GraceInv
  <2> QED
    BY Zenon, <2>2, <2>3, <2>4 DEF GraceInv
<1> QED
  BY Zenon, <1>a, <1>p, <1>1, <1>2, <1>3, <1>4, EdgeInv DEF TypeOK

(* The leader releases its batch. *)
LEMMA ReleaseInv ==
  ASSUME IInv, wide' = wide, NEW u \in Updaters, Release(u) PROVE IInv'
<1>a. /\ TypeOK /\ u \in Threads /\ \A v \in Updaters : v \in Threads
      /\ gp \in GpRecord /\ pc \in [Threads -> Pcs]
      /\ batch \in [Updaters -> SUBSET Updaters]
      /\ pre \in [Updaters -> SUBSET Readers]
      /\ pc[u] = "release" /\ rd' = rd /\ gp' = gp /\ pre' = pre
      /\ pc' = [t \in Threads |-> IF t \in batch[u] THEN "gp_end" ELSE pc[t]]
      /\ batch' = [batch EXCEPT ![u] = {}]
  BY Zenon DEF Threads, Release, IInv, TypeOK
<1>b. BatchInv
  BY Zenon DEF IInv
<1>x. /\ u \in batch[u] /\ batch[u] \subseteq Updaters
      /\ \A v \in Updaters : v \in batch[u] =>
           (v = u \/ pc[v] = "waiting") /\ v \notin gp.waiters
      /\ \A v, w \in Updaters : v \in batch[u] /\ v \in batch[w] => w = u
  <2>1. pc[u] \in BatchPc
    BY Zenon, <1>a DEF BatchPc
  <2> QED
    BY Zenon, <1>a, <1>b, <2>1 DEF BatchInv
<1>p. /\ \A t \in Threads : t \in batch[u] => pc'[t] = "gp_end"
      /\ \A t \in Threads : t \notin batch[u] => pc'[t] = pc[t]
  BY Zenon, <1>a
<1>y. \A t \in Threads : pc'[t] = pc[t]
                         \/ (pc[t] \in {"release", "waiting"} /\ pc'[t] = "gp_end")
  BY Zenon, <1>a, <1>x, <1>p
<1>z. /\ pc' \in [Threads -> Pcs] /\ batch' \in [Updaters -> SUBSET Updaters]
      /\ batch'[u] = {} /\ \A v \in Updaters : v # u => batch'[v] = batch[v]
  <2>1. "gp_end" \in Pcs
    BY Zenon DEF Pcs, SyncPc
  <2>2. \A t \in Threads : pc'[t] \in Pcs
    BY Zenon, <1>a, <1>y, <2>1
  <2>3. pc' = [t \in Threads |-> pc'[t]]
    BY Zenon, <1>a
  <2>4. pc' \in [Threads -> Pcs]
    BY Zenon, <2>2, <2>3
  <2> QED
    BY Zenon, <1>a, <2>4
<1>1. Edge
  BY Zenon, <1>a, <1>y, <1>z DEF Edge, Ends
<1>2. RoleInv'
  <2>1. ASSUME NEW r \in Readers PROVE Role(r)'
    <3>1. Role(r) /\ r \in Threads
      BY Zenon DEF IInv, RoleInv, Threads
    <3>2. CASE pc'[r] = pc[r]
      BY Zenon, <1>a, <3>1, <3>2 DEF Role
    <3>3. CASE pc[r] \in {"release", "waiting"} /\ pc'[r] = "gp_end"
      BY Zenon, <1>a, <3>1, <3>3 DEF Role, ReaderPc, SyncPc, WakePc
    <3> QED
      BY Zenon, <1>y, <3>1, <3>2, <3>3
  <2> QED
    BY Zenon, <2>1 DEF RoleInv
<1>3. BatchInv'
  <2>1. \A v \in Updaters : pc'[v] \in BatchPc \cup {"lock", "waiting"} =>
                              v \notin batch[u] /\ v # u /\ pc'[v] = pc[v]
    BY Zenon, <1>a, <1>x, <1>p DEF BatchPc, GpPc, RegPc
  <2>2. ASSUME NEW v \in Updaters, NEW w \in Updaters, v \in batch'[w]
        PROVE  pc'[w] \in BatchPc /\ (v = w \/ pc'[v] = "waiting") /\ v \notin gp'.waiters
    <3>1. v \in batch[w] /\ w # u
      BY Zenon, <1>z, <2>2
    <3>2. pc[w] \in BatchPc /\ (v = w \/ pc[v] = "waiting") /\ v \notin gp.waiters
      BY Zenon, <1>b, <3>1 DEF BatchInv
    <3>3. pc'[v] = pc[v]
      BY Zenon, <1>a, <1>x, <1>p, <3>1
    <3>4. w \notin batch[u]
      <4>1. pc[w] # "waiting"
        BY Zenon, <3>2 DEF BatchPc, GpPc, RegPc
      <4> QED
        BY Zenon, <1>x, <3>1, <4>1
    <3> QED
      BY Zenon, <1>a, <1>p, <3>2, <3>3, <3>4
  <2>3. \A v, w, x \in Updaters : v \in batch'[w] /\ v \in batch'[x] => w = x
    BY Zenon, <1>b, <1>z DEF BatchInv
  <2>4. \A v \in Updaters : pc'[v] \in BatchPc => v \in batch'[v]
    BY Zenon, <1>b, <1>z, <2>1 DEF BatchInv
  <2>5. \A v \in Updaters : v \in gp'.waiters => pc'[v] \in {"lock", "waiting"}
    BY Zenon, <1>a, <1>b, <1>x, <1>p DEF BatchInv
  <2>6. \A v \in Updaters : pc'[v] = "lock" => pc[v] = "lock"
    BY Zenon, <2>1
  <2>7. /\ \A v \in Updaters : pc'[v] = "lock" => v \in gp'.waiters
        /\ \A v, w \in Updaters : pc'[v] = "lock" /\ pc'[w] = "lock" => v = w
    BY Zenon, <1>a, <1>b, <2>6 DEF BatchInv
  <2> QED
    BY Zenon, <2>2, <2>3, <2>4, <2>5, <2>7 DEF BatchInv
<1>4. GraceInv'
  <2>0. GraceInv /\ \A v \in Updaters : pre[v] \subseteq Readers
    BY Zenon, <1>a DEF IInv
  <2>1. ASSUME NEW r \in Readers PROVE (InCS(r) => InCS(r)') /\ (Tracked(r) => Tracked(r)')
    <3>1. pc[r] = "idle" => pc'[r] = pc[r]
      BY Zenon, <1>a, <1>y DEF Threads
    <3>2. Tracked(r) => Tracked(r)'
      BY Zenon, <1>a DEF Tracked
    <3> QED
      BY Zenon, <1>a, <3>1, <3>2 DEF InCS
  <2>2. \A v \in Updaters : \A r \in pre'[v] : InCS(r)'
    BY Zenon, <1>a, <2>0, <2>1 DEF GraceInv
  <2>3. ASSUME NEW v \in Updaters, NEW w \in Updaters, v \in batch'[w]
        PROVE  /\ pc'[w] \in GpPc \ {"reg_lock", "out"} => \A r \in pre'[v] : Tracked(r)'
               /\ pc'[w] \in {"out", "release"} => pre'[v] = {}
    <3>1. v \in batch[w]
      BY Zenon, <1>z, <2>3
    <3>2. pc'[w] # "gp_end" => pc'[w] = pc[w]
      BY Zenon, <1>a, <1>y
    <3>3. "gp_end" \notin GpPc
      BY Zenon DEF GpPc, RegPc
    <3> QED
      BY Zenon, <1>a, <2>0, <2>1, <3>1, <3>2, <3>3 DEF GraceInv
  <2>4. ASSUME NEW v \in Updaters, pc'[v] = "gp_end" PROVE pre'[v] = {}
    BY Zenon, <1>a, <1>p, <2>0, <2>4 DEF GraceInv
  <2> QED
    BY Zenon, <2>2, <2>3, <2>4 DEF GraceInv
<1> QED
  BY Zenon, <1>a, <1>z, <1>1, <1>2, <1>3, <1>4, EdgeInv DEF TypeOK

(* The call returns. *)
LEMMA SyncReturnInv ==
  ASSUME IInv, wide' = wide, NEW u \in Updaters, SyncReturn(u) PROVE IInv'
<1>a. /\ TypeOK /\ u \in Threads /\ \A v \in Updaters : v \in Threads
      /\ pc \in [Threads -> Pcs]
      /\ pc[u] = "gp_end" /\ rd' = rd /\ gp' = gp /\ pre' = pre /\ batch' = batch
      /\ pc' = [pc EXCEPT ![u] = IF u \in Readers /\ rd[u].after = "push"
                                 THEN "on_load" ELSE "idle"]
  BY Zenon DEF Threads, SyncReturn, IInv, TypeOK
<1>p. /\ pc' \in [Threads -> Pcs] /\ pc'[u] \in {"on_load", "idle"}
      /\ pc'[u] = "on_load" => u \in Readers /\ rd[u].after = "push"
      /\ \A t \in Threads : t # u => pc'[t] = pc[t]
  <2>1. /\ pc'[u] \in {"on_load", "idle"}
        /\ pc'[u] = "on_load" => u \in Readers /\ rd[u].after = "push"
    BY Zenon, <1>a
  <2> QED
    BY Zenon, <1>a, <2>1 DEF Pcs, ReaderPc
<1>1. Edge
  BY Zenon, <1>a, <1>p DEF Edge, Ends, TypeOK
<1>2. RoleInv'
  <2>1. ASSUME NEW r \in Readers PROVE Role(r)'
    <3>1. Role(r) /\ r \in Threads
      BY Zenon DEF IInv, RoleInv, Threads
    <3>2. CASE r # u
      BY Zenon, <1>a, <1>p, <3>1, <3>2 DEF Role
    <3>3. CASE r = u
      <4>1. pc[r] \in SyncPc
        BY Zenon, <1>a, <3>3 DEF SyncPc
      <4>2. /\ rd[r].ctr = 0 /\ (rd[r].list = "none" => rd[r].ctr = 0)
            /\ rd[r].after = "push" => rd[r].list # "none"
        BY Zenon, <3>1, <4>1 DEF Role
      <4> QED
        BY Zenon, <1>a, <1>p, <3>3, <4>2 DEF Role, ReaderPc, SyncPc, WakePc
    <3> QED
      BY Zenon, <3>2, <3>3
  <2> QED
    BY Zenon, <2>1 DEF RoleInv
<1>3. BatchInv'
  <2>1. \A v \in Updaters :
          /\ pc'[v] \in BatchPc <=> pc[v] \in BatchPc
          /\ pc'[v] = "lock" <=> pc[v] = "lock"
          /\ pc'[v] = "waiting" <=> pc[v] = "waiting"
    BY Zenon, <1>a, <1>p DEF BatchPc, GpPc, RegPc
  <2>2. batch' = batch /\ gp'.waiters = gp.waiters
    BY Zenon, <1>a
  <2> QED
    BY Zenon, <2>1, <2>2 DEF IInv, BatchInv
<1>4. GraceInv'
  <2>0. GraceInv /\ (\A v \in Updaters : pre[v] \subseteq Readers)
        /\ pre' = pre /\ batch' = batch
    BY Zenon, <1>a DEF IInv, TypeOK
  <2>1. ASSUME NEW r \in Readers PROVE (InCS(r) => InCS(r)') /\ (Tracked(r) => Tracked(r)')
    <3>1. pc[r] = "idle" => pc'[r] = pc[r]
      BY Zenon, <1>a, <1>p DEF Threads
    <3>2. Tracked(r) => Tracked(r)'
      BY Zenon, <1>a DEF Tracked
    <3> QED
      BY Zenon, <1>a, <3>1, <3>2 DEF InCS
  <2>2. \A v \in Updaters : pc'[v] \in GpPc \cup {"release", "gp_end"} => pc'[v] = pc[v]
    BY Zenon, <1>a, <1>p DEF GpPc, RegPc
  <2>3. "out" \in GpPc
    BY Zenon DEF GpPc, RegPc
  <2> QED
    BY Zenon, <2>0, <2>1, <2>2, <2>3 DEF GraceInv
<1> QED
  BY Zenon, <1>a, <1>p, <1>1, <1>2, <1>3, <1>4, EdgeInv DEF TypeOK

-----------------------------------------------------------------------------
(* The invariant.                                                          *)

(* It holds when the library is loaded ... *)
LEMMA InitInv == QsbrAssumption /\ Init => IInv
<1> SUFFICES ASSUME QsbrAssumption, Init PROVE IInv
  BY Zenon
<1>g. /\ gp = [ctr |-> 1, futex |-> 0, lock |-> NoThread, reg |-> NoThread,
               waiters |-> {}, pass |-> 1, loops |-> 0, todo |-> {}]
      /\ 1 \in Nat /\ 0 \in Nat /\ 1 # 0 /\ wide \in BOOLEAN
  BY DEF Init, ONLINE
<1>h. /\ gp.ctr = 1 /\ gp.futex = 0 /\ gp.lock = NoThread /\ gp.reg = NoThread
      /\ gp.waiters = {} /\ gp.pass = 1 /\ gp \in GpRecord
  BY Zenon, <1>g DEF GpRecord
<1>r. /\ rd \in [Readers -> ReaderRecord]
      /\ \A r \in Readers : rd[r].ctr = 0 /\ rd[r].list = "none"
  <2>1. rd = [r \in Readers |-> [ctr |-> 0, gctr |-> 0, waiting |-> FALSE,
                                 list |-> "none", after |-> "idle"]]
    BY Zenon DEF Init
  <2>2. [ctr |-> 0, gctr |-> 0, waiting |-> FALSE, list |-> "none", after |-> "idle"]
          \in ReaderRecord
    BY Zenon, <1>g DEF ReaderRecord
  <2> QED
    BY Zenon, <2>1, <2>2
<1>p. /\ pc \in [Threads -> Pcs] /\ \A t \in Threads : pc[t] = "idle"
      /\ \A u \in Updaters : u \in Threads
      /\ \A r \in Readers : r \in Threads
  BY Zenon DEF Init, Pcs, Threads
<1>b. /\ batch \in [Updaters -> SUBSET Updaters] /\ pre \in [Updaters -> SUBSET Readers]
      /\ \A u \in Updaters : batch[u] = {} /\ pre[u] = {}
  BY Zenon DEF Init
<1>c. "idle" \notin BatchPc /\ "idle" \notin GpPc /\ "idle" \notin RegPc
  BY Zenon DEF BatchPc, GpPc, RegPc
<1>1. TypeOK
  BY Zenon, <1>g, <1>h, <1>r, <1>p, <1>b DEF TypeOK
<1>2. LockInv
  BY Zenon, <1>h, <1>p, <1>c DEF LockInv, QsbrAssumption
<1>3. CounterInv
  BY Zenon, <1>g, <1>h, <1>r, <1>p DEF CounterInv, CounterOf
<1>4. RoleInv
  BY Zenon, <1>r, <1>p DEF RoleInv, Role, ReaderPc, SyncPc, WakePc
<1>5. BatchInv
  BY Zenon, <1>h, <1>p, <1>b, <1>c DEF BatchInv
<1>6. ListInv
  <2>1. \A r \in Readers : rd[r].list \in {"none", "registry"} /\ rd[r].list # "cur_snap"
    BY Zenon, <1>r
  <2> QED
    BY Zenon, <1>p, <1>c, <2>1 DEF ListInv
<1>7. GraceInv
  BY Zenon, <1>p, <1>b DEF GraceInv
<1>8. SleepInv
  BY Zenon, <1>p DEF SleepInv
<1> QED
  BY Zenon, <1>1, <1>2, <1>3, <1>4, <1>5, <1>6, <1>7, <1>8 DEF IInv

(* ... and after every step. *)
LEMMA StepInv == QsbrAssumption /\ IInv /\ [Next]_vars => IInv'
<1> SUFFICES ASSUME QsbrAssumption, IInv, [Next]_vars PROVE IInv'
  BY Zenon
<1>1. CASE UNCHANGED vars
  <2>1. wide' = wide /\ gp' = gp /\ rd' = rd /\ batch' = batch /\ pc' = pc /\ pre' = pre
    BY Zenon, <1>1 DEF vars
  <2>2. TypeOK' /\ LockInv' /\ CounterInv' /\ RoleInv' /\ BatchInv'
    BY Zenon, <2>1
    DEF IInv, TypeOK, LockInv, CounterInv, CounterOf, Seen, RoleInv, Role, BatchInv
  <2>3. Edge
    BY Zenon, <2>1 DEF Edge, IInv, TypeOK
  <2>4. GraceInv'
    <3>1. \A r \in Readers : (InCS(r) => InCS(r)') /\ (Tracked(r) => Tracked(r)')
      BY Zenon, <2>1 DEF InCS, Tracked
    <3>2. \A u \in Updaters : pre[u] \subseteq Readers
      BY Zenon DEF IInv, TypeOK
    <3> QED
      BY Zenon, <2>1, <3>1, <3>2 DEF IInv, GraceInv
  <2> QED
    BY Zenon, <2>2, <2>3, <2>4, EdgeInv DEF TypeOK
<1>2. ASSUME NEW r \in Readers, ReaderStep(r) \/ Sync(r), wide' = wide PROVE IInv'
  BY Zenon, <1>2, ReaderLocal, LocalInv, WakeStoreInv, WakeCallInv
<1>3. ASSUME NEW u \in Updaters, GpStep(u) \/ LockStep(u) \/ Spurious(u), wide' = wide
      PROVE  IInv'
  BY Zenon, <1>3, SyncPushInv, LoopInv, AskInv, ScanInv, ScanDoneInv, WaitGpInv,
     PassedInv, OutInv, ReleaseInv, SyncReturnInv, GpLockInv, RegLockInv, RelockInv
  DEF GpStep, LockStep
<1>4. ASSUME NEW u \in Updaters, Sync(u), wide' = wide PROVE IInv'
  BY Zenon, <1>2, <1>4, SyncInv
<1> QED
  BY Zenon, <1>1, <1>2, <1>3, <1>4 DEF Next

(* The inductive invariant holds in every reachable state. *)
THEOREM Invariance == ASSUME QsbrAssumption PROVE Spec => []IInv
<1>1. Init => IInv
  BY Zenon, InitInv
<1>2. IInv /\ [Next]_vars => IInv'
  BY Zenon, StepInv
<1> QED
  BY <1>1, <1>2, PTL DEF Spec

(* The updater asleep on the futex has a waker: no wakeup of                *)
(* urcu_qsbr_wake_up_gp() is lost, whatever the number of readers.          *)
THEOREM SleeperHasWakerHolds == ASSUME QsbrAssumption PROVE Spec => []SleeperHasWaker
<1>1. IInv => SleeperHasWaker
  <2> SUFFICES ASSUME IInv, NEW u \in Updaters, pc[u] = "asleep"
               PROVE  \/ \E r \in Readers : pc[r] = "wake_store"
                      \/ gp.futex = 0 /\ \E r \in Readers : pc[r] = "wake_call"
                      \/ /\ gp.futex = -1
                         /\ \E r \in Input :
                              \/ /\ rd[r].waiting
                                 /\ ScanTo(r) = rd[r].list \/ pc[r] = "wake"
                              \/ pc[r] \in {"wake_clear", "wake_futex"}
    BY Zenon DEF SleeperHasWaker
  <2>1. gp.futex \in {-1, 0}
    BY Zenon, Fields DEF IInv
  <2>2. CASE gp.futex = 0
    BY Zenon, <2>2 DEF IInv, SleepInv
  <2>3. CASE gp.futex = -1 /\ \A r \in Readers : pc[r] # "wake_store"
    BY Zenon, <2>3 DEF IInv, SleepInv, Armed, Asked
  <2> QED
    BY Zenon, <2>1, <2>2, <2>3
<1> QED
  BY <1>1, Invariance, PTL

(* No reader is left on a list head of a frame that has been left. *)
THEOREM ListsRestoredHolds == ASSUME QsbrAssumption PROVE Spec => []ListsRestored
<1>1. IInv => ListsRestored
  BY Zenon DEF IInv, ListInv, ListsRestored
<1> QED
  BY <1>1, Invariance, PTL

-----------------------------------------------------------------------------
(* The refinement.                                                         *)

(* Every step of a reader inside a section ends the section. *)
LEMMA SectionEnds ==
  ASSUME IInv, NEW r \in Readers, ReaderStep(r) \/ Sync(r), InCS(r) PROVE ~InCS(r)'
<1>1. pc[r] = "idle" /\ rd[r].ctr # 0 /\ rd[r].list # "none"
  BY Zenon DEF IInv, RoleInv, Role, InCS
<1>2. pc \in [Threads -> Pcs] /\ r \in Threads
  BY Zenon DEF IInv, TypeOK, Threads
<1>3. Quiescent(r) \/ \E n \in {"idle", "unregister", "push"} : GoOffline(r, n)
  BY Zenon, <1>1
  DEF ReaderStep, ReaderCall, Register, Online, OnlineLoad, OnlineStore, QuiescentSkip,
      QuiescentStore, Offline, Unregister, UnregisterDel, Wake, WakeClear, WakeFutex,
      WakeStore, WakeCall, Sync
<1>4. CASE Quiescent(r)
  <2>1. pc'[r] = IF gp.ctr = rd[r].ctr THEN "qs_skip" ELSE "qs_store"
    BY Zenon, <1>2, <1>4 DEF Quiescent
  <2> QED
    BY <2>1 DEF InCS
<1>5. CASE \E n \in {"idle", "unregister", "push"} : GoOffline(r, n)
  <2>1. pc'[r] = "wake"
    BY Zenon, <1>2, <1>5 DEF GoOffline
  <2> QED
    BY Zenon, <2>1 DEF InCS
<1> QED
  BY Zenon, <1>3, <1>4, <1>5

(* Every step is one of the abstract grace period, or leaves what callers *)
(* see alone.                                                            *)
LEMMA StepRefines ==
  ASSUME QsbrAssumption, IInv, [Next]_vars PROVE RcuStep
<1> DEFINE CS == {r \in Readers : InCS(r)}
           SY == {u \in Updaters : pc[u] \in SyncPc}
<1>t. /\ TypeOK /\ GraceInv
      /\ \A r \in Readers : r \in Threads
      /\ \A u \in Updaters : u \in Threads
  BY Zenon DEF IInv, Threads
<1>s. ASSUME CS' = CS, SY' = SY, pre' = pre PROVE RcuStep
  BY Zenon, <1>s DEF RcuStep, R!vars
<1>r. ASSUME NEW q \in Readers, SY' = SY,
             \A r \in Readers : r # q => (InCS(r)' <=> InCS(r)),
             pre' = [u \in Updaters |-> pre[u] \ {q}], InCS(q) => ~InCS(q)'
      PROVE  RcuStep
  <2>1. CASE InCS(q)
    <3>1. q \in CS /\ CS' = CS \ {q}
      BY Zenon, <1>r, <2>1
    <3>2. R!ReadUnlock(q)
      BY Zenon, <1>r, <3>1 DEF R!ReadUnlock
    <3> QED
      BY Zenon, <3>2 DEF RcuStep, R!Next
  <2>2. CASE ~InCS(q)
    <3>1. pre' = pre
      BY Zenon, <1>t, <1>r, <2>2, PreKept DEF TypeOK, GraceInv
    <3>2. CASE InCS(q)'
      <4>1. q \notin CS /\ CS' = CS \cup {q}
        BY Zenon, <1>r, <2>2, <3>2
      <4>2. R!ReadLock(q)
        BY Zenon, <1>r, <3>1, <4>1 DEF R!ReadLock
      <4> QED
        BY Zenon, <4>2 DEF RcuStep, R!Next
    <3>3. CASE ~InCS(q)'
      <4>1. CS' = CS
        BY Zenon, <1>r, <2>2, <3>3
      <4> QED
        BY Zenon, <1>s, <1>r, <3>1, <4>1
    <3> QED
      BY Zenon, <3>2, <3>3
  <2> QED
    BY Zenon, <2>1, <2>2
<1>1. CASE UNCHANGED vars
  BY Zenon, <1>1, <1>s DEF vars, InCS
<1>2. ASSUME NEW q \in Readers, ReaderStep(q) \/ Sync(q), wide' = wide,
             ~WakeStore(q), ~WakeCall(q)
      PROVE  RcuStep
  <2>1. Local(q) /\ pc \in [Threads -> Pcs]
    BY Zenon, <1>t, <1>2, ReaderLocal DEF TypeOK
  <2>2. /\ \A t \in Threads : t # q => pc'[t] = pc[t]
        /\ \A r \in Readers : r # q => rd'[r] = rd[r]
        /\ pc[q] \notin SyncPc /\ pc'[q] \notin SyncPc
        /\ pre' = [u \in Updaters |-> pre[u] \ {q}]
    BY Zenon, <1>t, <2>1 DEF Local, TypeOK, SyncPc, ReaderPc
  <2>3. SY' = SY
    <3>1. \A u \in Updaters : pc'[u] \in SyncPc <=> pc[u] \in SyncPc
      BY Zenon, <1>t, <2>2
    <3> QED
      BY Zenon, <3>1
  <2>4. \A r \in Readers : r # q => (InCS(r)' <=> InCS(r))
    BY Zenon, <1>t, <2>2 DEF InCS
  <2> QED
    BY Zenon, <1>r, <1>2, <2>2, <2>3, <2>4, SectionEnds
<1>3. ASSUME NEW q \in Readers, WakeStore(q) \/ WakeCall(q), wide' = wide PROVE RcuStep
  <2>1. /\ pc[q] \in {"wake_store", "wake_call"} /\ rd' = rd /\ pre' = pre
        /\ pc'[q] \in {"wake_call"} \cup {"idle", "unregister", "push"}
        /\ \A t \in Threads : t # q =>
             pc'[t] = pc[t] \/ (pc[t] = "asleep" /\ pc'[t] = "wait_gp")
    BY Zenon, <1>t, <1>3, Fields DEF WakeStore, WakeCall, TypeOK
  <2>2. SY' = SY
    <3>1. \A u \in Updaters : pc'[u] \in SyncPc <=> pc[u] \in SyncPc
      BY Zenon, <1>t, <2>1 DEF SyncPc
    <3> QED
      BY Zenon, <3>1
  <2>3. \A r \in Readers : r # q => (InCS(r)' <=> InCS(r))
    BY Zenon, <1>t, <2>1 DEF InCS
  <2>4. ~InCS(q)
    BY Zenon, <2>1 DEF InCS
  <2>5. pre' = [u \in Updaters |-> pre[u] \ {q}]
    BY Zenon, <1>t, <2>1, <2>4, PreKept DEF TypeOK, GraceInv
  <2> QED
    BY Zenon, <1>r, <2>2, <2>3, <2>4, <2>5
<1>4. ASSUME NEW u \in Updaters, Quiet(u) PROVE RcuStep
  <2>1. \A r \in Readers : InCS(r)' <=> InCS(r)
    <3>1. \A r \in Readers : \/ pc'[r] = pc[r]
                             \/ pc[r] \in SyncPc /\ pc'[r] \in SyncPc
      BY Zenon, <1>4, QuietTold
    <3>2. \A r \in Readers : pc'[r] = "idle" <=> pc[r] = "idle"
      BY Zenon, <3>1 DEF SyncPc
    <3> QED
      BY Zenon, <1>4, <3>2 DEF InCS, Quiet
  <2>2. \A v \in Updaters : pc'[v] \in SyncPc <=> pc[v] \in SyncPc
    <3>1. \A t \in Threads : t # u => pc'[t] = pc[t]
      BY Zenon, <1>4, QuietInv
    <3> QED
      BY Zenon, <1>t, <1>4, <3>1 DEF Quiet
  <2>3. CS' = CS /\ SY' = SY /\ pre' = pre
    BY Zenon, <1>4, <2>1, <2>2 DEF Quiet
  <2> QED
    BY Zenon, <1>s, <2>3
<1>5. ASSUME NEW u \in Updaters, u \notin Readers, Sync(u) PROVE RcuStep
  <2>1. /\ pc[u] = "idle" /\ pc'[u] = "push" /\ rd' = rd /\ pre' = pre
        /\ \A t \in Threads : t # u => pc'[t] = pc[t]
        /\ \A r \in Readers : pc'[r] = pc[r]
    BY Zenon, <1>t, <1>5 DEF Sync, TypeOK
  <2>2. \A v \in Updaters : pc'[v] \in SyncPc <=> pc[v] \in SyncPc
    BY Zenon, <1>t, <2>1 DEF SyncPc
  <2>3. CS' = CS /\ SY' = SY
    BY Zenon, <2>1, <2>2 DEF InCS
  <2> QED
    BY Zenon, <1>s, <2>1, <2>3
<1>6. ASSUME NEW u \in Updaters, SyncPush(u) PROVE RcuStep
  <2>1. /\ pc[u] = "push" /\ pc'[u] \in {"lock", "waiting"} /\ rd' = rd
        /\ \A t \in Threads : t # u => pc'[t] = pc[t]
        /\ pre' = [pre EXCEPT ![u] = CS]
    BY Zenon, <1>t, <1>6 DEF SyncPush, TypeOK
  <2>2. u \notin SY /\ SY' = SY \cup {u}
    BY Zenon, <1>t, <2>1 DEF SyncPc
  <2>3. CS' = CS
    <3>1. \A r \in Readers : InCS(r)' <=> InCS(r)
      BY Zenon, <1>t, <2>1 DEF InCS
    <3> QED
      BY Zenon, <3>1
  <2>4. R!SyncStart(u)
    BY Zenon, <2>1, <2>2, <2>3 DEF R!SyncStart
  <2> QED
    BY Zenon, <2>4 DEF RcuStep, R!Next
<1>7. ASSUME NEW u \in Updaters, Release(u) PROVE RcuStep
  <2>0. pc[u] \in BatchPc /\ u \in batch[u]
    BY Zenon, <1>7 DEF Release, BatchPc, IInv, BatchInv
  <2>1. /\ rd' = rd /\ pre' = pre
        /\ \A t \in Threads :
             pc'[t] = pc[t] \/ (pc[t] \in {"release", "waiting"} /\ pc'[t] = "gp_end")
    <3>1. \A t \in Threads : t \in batch[u] => t \in Updaters
      BY Zenon, <1>t, <1>7 DEF TypeOK
    <3>2. \A t \in Threads : t \in batch[u] => pc[t] \in {"release", "waiting"}
      BY Zenon, <1>7, <3>1 DEF IInv, BatchInv, Release
    <3> QED
      BY Zenon, <1>7, <3>2 DEF Release
  <2>2. \A v \in Updaters : pc'[v] \in SyncPc <=> pc[v] \in SyncPc
    BY Zenon, <1>t, <2>1 DEF SyncPc
  <2>3. \A r \in Readers : InCS(r)' <=> InCS(r)
    BY Zenon, <1>t, <2>1 DEF InCS
  <2>4. CS' = CS /\ SY' = SY
    BY Zenon, <2>2, <2>3
  <2> QED
    BY Zenon, <1>s, <2>1, <2>4
<1>8. ASSUME NEW u \in Updaters, SyncReturn(u) PROVE RcuStep
  <2>1. /\ pc[u] = "gp_end" /\ pc'[u] \in {"on_load", "idle"} /\ rd' = rd /\ pre' = pre
        /\ \A t \in Threads : t # u => pc'[t] = pc[t]
    BY Zenon, <1>t, <1>8 DEF SyncReturn, TypeOK
  <2>2. u \in SY /\ SY' = SY \ {u} /\ pre[u] = {}
    BY Zenon, <1>t, <2>1 DEF SyncPc, GraceInv
  <2>3. ASSUME NEW r \in Readers PROVE InCS(r)' <=> InCS(r)
    <3>1. r = u => rd[r].ctr = 0
      BY Zenon, <2>1 DEF IInv, RoleInv, Role, SyncPc
    <3> QED
      BY Zenon, <1>t, <2>1, <3>1 DEF InCS
  <2>4. CS' = CS
    BY Zenon, <2>3
  <2>5. R!SyncReturn(u)
    BY Zenon, <2>1, <2>2, <2>4 DEF R!SyncReturn
  <2> QED
    BY Zenon, <2>5 DEF RcuStep, R!Next
<1>9. ASSUME NEW u \in Updaters, wide' = wide,
             \/ Loop(u) \/ Ask(u) \/ Scan(u) \/ ScanDone(u) \/ WaitGp(u) \/ Passed(u)
             \/ Out(u) \/ LockStep(u) \/ Spurious(u)
      PROVE  RcuStep
  <2>1. Quiet(u)
    BY Zenon, <1>9, LoopInv, AskInv, ScanInv, ScanDoneInv, WaitGpInv, PassedInv, OutInv,
       GpLockInv, RegLockInv, RelockInv
    DEF LockStep
  <2> QED
    BY Zenon, <1>4, <2>1
<1>a. ASSUME NEW u \in Updaters, wide' = wide,
             Sync(u) \/ GpStep(u) \/ LockStep(u) \/ Spurious(u)
      PROVE  RcuStep
  <2>1. CASE Sync(u)
    <3>1. CASE u \in Readers
      BY Zenon, <1>a, <1>2, <1>3, <2>1, <3>1
    <3> QED
      BY Zenon, <1>5, <2>1, <3>1
  <2>2. CASE GpStep(u)
    BY Zenon, <1>a, <1>6, <1>7, <1>8, <1>9, <2>2 DEF GpStep
  <2> QED
    BY Zenon, <1>a, <1>9, <2>1, <2>2
<1> QED
  BY Zenon, <1>1, <1>2, <1>3, <1>a DEF Next

(* The quiescent-state flavour implements the abstract grace period, on 64  *)
(* and on 32 bits, for any number of readers and of callers, readers among  *)
(* them: synchronize_rcu() returns only when every reader that was online   *)
(* at its call has announced a quiescent state or gone offline.             *)
THEOREM Refinement == ASSUME QsbrAssumption PROVE Spec => R!Spec
<1>1. Init => R!Init
  <2> SUFFICES ASSUME Init PROVE R!Init
    BY Zenon
  <2>1. {r \in Readers : InCS(r)} = {}
    <3>1. \A r \in Readers : rd[r].ctr = 0
      BY Zenon DEF Init
    <3> QED
      BY Zenon, <3>1 DEF InCS
  <2>2. {u \in Updaters : pc[u] \in SyncPc} = {}
    BY Zenon DEF Init, Threads, SyncPc
  <2> QED
    BY Zenon, <2>1, <2>2 DEF R!Init, Init
<1>2. IInv /\ [Next]_vars => [R!Next]_(R!vars)
  BY Zenon, StepRefines DEF RcuStep
<1> QED
  BY <1>1, <1>2, Invariance, PTL DEF Spec, R!Spec
=============================================================================
