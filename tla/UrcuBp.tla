------------------------------- MODULE UrcuBp -------------------------------
(***************************************************************************)
(* The bulletproof flavour: src/urcu-bp.c and static/urcu-bp.h.  Threads   *)
(* register themselves at their first read-side section, in a slot of an   *)
(* arena that grows and never moves, and leave when they exit; a process   *)
(* may fork.  Barriers are those of module Urcu and not repeated here: a   *)
(* step is a load or a store, in program order.                            *)
(***************************************************************************)
EXTENDS Integers, Sequences, FiniteSets

CONSTANTS Threads,
          NULL,        \* no slot, no owner
          InitCount,   \* INIT_READER_COUNT
          MaxCapacity, \* bound: mremap() does not grow a chunk beyond it
          MaxChunks,   \* bound: chunks
          MaxNest,     \* bound: nesting depth of critical sections
          MaxRef       \* bound: urcu_bp_refcount

VARIABLES
  arena,      \* registry_arena: chunks, each the readers in it and used
  tls,        \* URCU_TLS(urcu_bp_reader): the slot <<chunk, index>>, or NULL
  lib,        \* urcu_bp_refcount, and whether the library is new, loaded or
              \*   unloaded: constructor and destructor have run or not
  gp,         \* rcu_gp.ctr; the mutexes; and the locals of the grace period
  gctr,       \* the counter _urcu_bp_read_lock() has loaded
  pc,         \* control point of each thread
  pre         \* history: sections each synchronize_rcu() must outlast

vars == <<arena, tls, lib, gp, gctr, pc, pre>>

Reader == [alloc |-> FALSE, tid |-> NULL, phase |-> 0, nest |-> 0, list |-> "none"]
Slots == UNION {{<<c, i>> : i \in DOMAIN arena[c].readers} : c \in DOMAIN arena}
At(s) == arena[s[1]].readers[s[2]]
Put(s, r) == [arena EXCEPT ![s[1]].readers[s[2]] = r]
OnList(l) == {s \in Slots : At(s).list = l}

Goto(t, l) == pc' = [pc EXCEPT ![t] = l]
Nest(t) == IF tls[t] = NULL THEN 0 ELSE At(tls[t]).nest
InCS(t) == Nest(t) > 0

Init ==
  /\ arena = <<>>
  /\ tls = [t \in Threads |-> NULL]
  /\ lib = [refcount |-> 0, state |-> "new"]
  /\ gp = [ctr |-> 0, lock |-> NULL, reg |-> NULL, pass |-> 1, todo |-> {}]
  /\ gctr = [t \in Threads |-> 0]
  /\ pc = [t \in Threads |-> "idle"]
  /\ pre = [t \in Threads |-> {}]

-----------------------------------------------------------------------------
(* The arena *)

Chunk(n) == [readers |-> [i \in 1..n |-> Reader], used |-> 0]

(* expand_arena(): a first chunk, or the last one doubled in place, or a   *)
(* new one twice as big.                                                   *)
Expanded ==
  IF arena = <<>> THEN {<<Chunk(InitCount)>>}
  ELSE LET last == Len(arena)
           cap == Len(arena[last].readers) IN
       {a \in {[arena EXCEPT ![last].readers = @ \o Chunk(cap).readers],
               Append(arena, Chunk(2 * cap))} :
          /\ Len(a) <= MaxChunks
          /\ Len(a[Len(a)].readers) <= MaxCapacity}

(* Free spots of the chunks that are not fully used. *)
Room(a) == {s \in {<<c, i>> : c \in DOMAIN a, i \in 1..MaxCapacity} :
              /\ a[s[1]].used # Len(a[s[1]].readers)
              /\ s[2] \in DOMAIN a[s[1]].readers
              /\ ~a[s[1]].readers[s[2]].alloc}

First(ss) == CHOOSE s \in ss : \A r \in ss : s[1] < r[1] \/ (s[1] = r[1] /\ s[2] <= r[2])

(* The slot s of the arena a is registered for the thread t. *)
Registered(a, s, t) ==
  LET k == a[s[1]]
      r == [k.readers[s[2]] EXCEPT !.alloc = TRUE, !.tid = t, !.list = "registry"] IN
  [a EXCEPT ![s[1]] = [readers |-> [k.readers EXCEPT ![s[2]] = r], used |-> k.used + 1]]

(* arena_alloc(): the first free spot, after at most one expansion; then   *)
(* add_thread() registers it.                                              *)
AddThread(t) ==
  \E a \in IF Room(arena) = {} THEN Expanded ELSE {arena} :
    /\ Room(a) # {}
    /\ LET s == First(Room(a)) IN
         /\ arena' = Registered(a, s, t)
         /\ tls' = [tls EXCEPT ![t] = s]

(* cleanup_thread(), of the slots ss. *)
Cleanup(ss) ==
  arena' = [c \in DOMAIN arena |->
              [readers |-> [i \in DOMAIN arena[c].readers |->
                              IF <<c, i>> \in ss THEN Reader
                              ELSE arena[c].readers[i]],
               used |-> arena[c].used
                          - Cardinality({i \in DOMAIN arena[c].readers : <<c, i>> \in ss})]]

(* urcu_bp_exit(): the last reference to be given back unmaps the arena. *)
UnmapIfLast == arena' = IF lib.refcount = 1 THEN <<>> ELSE arena

-----------------------------------------------------------------------------
(* Registration *)

(* _urcu_bp_read_lock() of a thread that is not registered yet *)
NeedsRegister(t) ==
  /\ pc[t] = "idle" /\ tls[t] = NULL
  /\ lib.refcount + Cardinality({u \in Threads : pc[u] = "register"}) < MaxRef
  /\ Goto(t, "register")
  /\ UNCHANGED <<arena, tls, lib, gp, gctr, pre>>

(* A signal handler with a read-side section of its own runs before        *)
(* urcu_bp_register() blocks signals.                                      *)
Signal(t) ==
  /\ pc[t] = "register" /\ tls[t] = NULL
  /\ gp.reg = NULL
  /\ lib' = [lib EXCEPT !.refcount = @ + 1]
  /\ AddThread(t)
  /\ UNCHANGED <<gp, gctr, pc, pre>>

(* Variant: urcu_bp_register() does not look again. *)
RegisterBlindly(t) ==
  /\ pc[t] = "register"
  /\ lib' = [lib EXCEPT !.refcount = @ + 1]
  /\ Goto(t, "add")
  /\ UNCHANGED <<arena, tls, gp, gctr, pre>>

(* Signals are blocked: look again, then _urcu_bp_init() ... *)
Register(t) ==
  /\ pc[t] = "register"
  /\ \/ /\ tls[t] # NULL
        /\ Goto(t, "idle")
        /\ UNCHANGED lib
     \/ /\ tls[t] = NULL
        /\ lib' = [lib EXCEPT !.refcount = @ + 1]
        /\ Goto(t, "add")
  /\ UNCHANGED <<arena, tls, gp, gctr, pre>>

(* ... and add_thread() under the registry mutex. *)
Add(t) ==
  /\ pc[t] = "add"
  /\ gp.reg = NULL
  /\ AddThread(t)
  /\ Goto(t, "idle")
  /\ UNCHANGED <<lib, gp, gctr, pre>>

(* The thread exits: urcu_bp_unregister() ... *)
Unregister(t) ==
  /\ pc[t] = "idle" /\ tls[t] # NULL /\ ~InCS(t)
  /\ gp.reg = NULL
  /\ Cleanup({tls[t]})
  /\ tls' = [tls EXCEPT ![t] = NULL]
  /\ Goto(t, "exit")
  /\ UNCHANGED <<lib, gp, gctr, pre>>

(* ... and urcu_bp_exit(). *)
Exit(t) ==
  /\ pc[t] = "exit"
  /\ lib' = [lib EXCEPT !.refcount = @ - 1]
  /\ UnmapIfLast
  /\ Goto(t, "idle")
  /\ UNCHANGED <<tls, gp, gctr, pre>>

-----------------------------------------------------------------------------
(* The library's own reference: threads may register before _urcu_bp_init() *)
(* runs as constructor, and after the destructor.  The destructor's other  *)
(* call, urcu_call_rcu_exit(), is Teardown of module CallRcu.              *)

Constructor ==
  /\ lib.state = "new"
  /\ lib' = [refcount |-> lib.refcount + 1, state |-> "loaded"]
  /\ UNCHANGED <<arena, tls, gp, gctr, pc, pre>>

Destructor ==
  /\ lib.state = "loaded"
  /\ lib' = [refcount |-> lib.refcount - 1, state |-> "unloaded"]
  /\ UnmapIfLast
  /\ UNCHANGED <<tls, gp, gctr, pc, pre>>

-----------------------------------------------------------------------------
(* Read-side sections *)

ReadLock(t) ==
  /\ pc[t] = "idle" /\ tls[t] # NULL
  /\ \/ /\ Nest(t) = 0
        /\ gctr' = [gctr EXCEPT ![t] = gp.ctr]
        /\ Goto(t, "lock_store")
        /\ UNCHANGED arena
     \/ /\ Nest(t) \in 1..(MaxNest - 1)
        /\ arena' = Put(tls[t], [At(tls[t]) EXCEPT !.nest = @ + 1])
        /\ UNCHANGED <<gctr, pc>>
  /\ UNCHANGED <<tls, lib, gp, pre>>

ReadLockStore(t) ==
  /\ pc[t] = "lock_store"
  /\ arena' = Put(tls[t], [At(tls[t]) EXCEPT !.nest = 1, !.phase = gctr[t]])
  /\ Goto(t, "idle")
  /\ UNCHANGED <<tls, lib, gp, gctr, pre>>

ReadUnlock(t) ==
  /\ pc[t] = "idle" /\ InCS(t)
  /\ arena' = Put(tls[t], [At(tls[t]) EXCEPT !.nest = @ - 1])
  /\ pre' = IF Nest(t) = 1 THEN [u \in Threads |-> pre[u] \ {t}] ELSE pre
  /\ UNCHANGED <<tls, lib, gp, gctr, pc>>

-----------------------------------------------------------------------------
(* urcu_bp_synchronize_rcu() *)

Sync(u) ==
  /\ pc[u] = "idle" /\ ~InCS(u)
  /\ pre' = [pre EXCEPT ![u] = {t \in Threads : InCS(t)}]
  /\ Goto(u, "gp_lock")
  /\ UNCHANGED <<arena, tls, lib, gp, gctr>>

GpLock(u) ==
  /\ pc[u] = "gp_lock"
  /\ gp.lock = NULL
  /\ gp' = [gp EXCEPT !.lock = u]
  /\ Goto(u, "reg_lock")
  /\ UNCHANGED <<arena, tls, lib, gctr, pre>>

Input == OnList(IF gp.pass = 1 THEN "registry" ELSE "cur_snap")

RegLock(u) ==
  /\ pc[u] = "reg_lock"
  /\ gp.reg = NULL
  /\ gp' = [gp EXCEPT !.reg = u, !.pass = 1, !.todo = OnList("registry")]
  /\ Goto(u, IF OnList("registry") = {} THEN "out" ELSE "scan")
  /\ UNCHANGED <<arena, tls, lib, gctr, pre>>

(* Variant: a reader of the current phase is not waited for. *)
ScanToOnce(s) ==
  IF At(s).nest = 0 \/ At(s).phase = gp.ctr THEN "qs" ELSE At(s).list

ScanTo(s) ==
  CASE At(s).nest = 0 -> "qs"
    [] At(s).nest # 0 /\ At(s).phase = gp.ctr ->
         IF gp.pass = 1 THEN "cur_snap" ELSE "qs"
    [] OTHER -> At(s).list

(* wait_for_readers() *)
Scan(u) ==
  /\ pc[u] = "scan"
  /\ \/ \E s \in gp.todo :
          /\ arena' = Put(s, [At(s) EXCEPT !.list = ScanTo(s)])
          /\ gp' = [gp EXCEPT !.todo = @ \ {s}]
          /\ UNCHANGED pc
     \/ /\ gp.todo = {}
        /\ Goto(u, IF Input = {} THEN "passed" ELSE "relock")
        /\ gp' = IF Input = {} THEN gp ELSE [gp EXCEPT !.reg = NULL]
        /\ UNCHANGED arena
  /\ UNCHANGED <<tls, lib, gctr, pre>>

Relock(u) ==
  /\ pc[u] = "relock"
  /\ gp.reg = NULL
  /\ gp' = [gp EXCEPT !.reg = u, !.todo = Input]
  /\ Goto(u, "scan")
  /\ UNCHANGED <<arena, tls, lib, gctr, pre>>

(* cds_list_splice(): the readers on qsreaders go back to the registry. *)
Splice ==
  LET Back(r) == IF r.list = "qs" THEN [r EXCEPT !.list = "registry"] ELSE r IN
  arena' = [c \in DOMAIN arena |->
              [readers |-> [i \in DOMAIN arena[c].readers |-> Back(arena[c].readers[i])],
               used |-> arena[c].used]]

(* Switch parity after the first pass; splice the readers back at the end. *)
Passed(u) ==
  /\ pc[u] = "passed"
  /\ \/ /\ gp.pass = 1
        /\ gp' = [gp EXCEPT !.ctr = 1 - @, !.pass = 2, !.todo = OnList("cur_snap")]
        /\ Goto(u, "scan")
        /\ UNCHANGED arena
     \/ /\ gp.pass = 2
        /\ Splice
        /\ Goto(u, "out")
        /\ UNCHANGED gp
  /\ UNCHANGED <<tls, lib, gctr, pre>>

Out(u) ==
  /\ pc[u] = "out"
  /\ gp' = [gp EXCEPT !.lock = NULL, !.reg = NULL, !.todo = {}]
  /\ pre' = [pre EXCEPT ![u] = {}]
  /\ Goto(u, "idle")
  /\ UNCHANGED <<arena, tls, lib, gctr>>

-----------------------------------------------------------------------------
(* fork() *)

BeforeFork(t) ==
  /\ pc[t] = "idle"
  /\ gp.lock = NULL
  /\ gp' = [gp EXCEPT !.lock = t]
  /\ Goto(t, "fork")
  /\ UNCHANGED <<arena, tls, lib, gctr, pre>>

BeforeForkReg(t) ==
  /\ pc[t] = "fork"
  /\ gp.reg = NULL
  /\ gp' = [gp EXCEPT !.reg = t]
  /\ Goto(t, "forked")
  /\ UNCHANGED <<arena, tls, lib, gctr, pre>>

AfterForkParent(t) ==
  /\ pc[t] = "forked"
  /\ gp' = [gp EXCEPT !.lock = NULL, !.reg = NULL]
  /\ Goto(t, "idle")
  /\ UNCHANGED <<arena, tls, lib, gctr, pre>>

(* Only t exists in the child, whatever the others were doing; they stand  *)
(* for the threads the child creates later.                                *)
AfterForkChild(t) ==
  /\ pc[t] = "forked"
  /\ Cleanup({s \in Slots : At(s).alloc /\ At(s).tid # t})
  /\ tls' = [u \in Threads |-> IF u = t THEN tls[t] ELSE NULL]
  /\ gp' = [gp EXCEPT !.lock = NULL, !.reg = NULL]
  /\ gctr' = [u \in Threads |-> 0]
  /\ pc' = [u \in Threads |-> "idle"]
  /\ pre' = [u \in Threads |-> {}]
  /\ UNCHANGED lib

-----------------------------------------------------------------------------
GpStep(u) == \/ RegLock(u) \/ Scan(u) \/ Relock(u) \/ Passed(u) \/ Out(u)

ThreadStep(t) == \/ NeedsRegister(t) \/ Signal(t) \/ Register(t) \/ Add(t)
                 \/ Unregister(t) \/ Exit(t)
                 \/ ReadLock(t) \/ ReadLockStore(t) \/ ReadUnlock(t)
                 \/ Sync(t) \/ GpLock(t) \/ GpStep(t)
                 \/ BeforeFork(t) \/ BeforeForkReg(t) \/ AfterForkParent(t)
                 \/ AfterForkChild(t)

Next == Constructor \/ Destructor \/ \E t \in Threads : ThreadStep(t)

Spec == Init /\ [][Next]_vars

-----------------------------------------------------------------------------
(* The sections in progress when synchronize_rcu() was called are over at  *)
(* its end, in a forked child too.                                         *)
GracePeriodGuarantee == \A u \in Threads : pc[u] = "out" => pre[u] = {}

(* Every registered thread owns one slot of a mapped chunk, and every slot *)
(* in use is its owner's: none is shared, leaked, or left behind by a      *)
(* thread that exited or does not exist in this process.                   *)
SlotsOwned ==
  /\ \A t \in Threads : tls[t] # NULL => tls[t] \in Slots /\ At(tls[t]).tid = t
  /\ \A s \in Slots : At(s).alloc => tls[At(s).tid] = s

(* A slot is on a list of readers exactly while it is in use, a free one   *)
(* has a zero counter (the assertion of add_thread()), and used counts the *)
(* slots in use, so that a full chunk is recognised.                       *)
ArenaConsistent ==
  /\ \A s \in Slots : /\ At(s).alloc <=> At(s).list # "none"
                      /\ ~At(s).alloc => At(s).nest = 0
  /\ \A c \in DOMAIN arena :
       arena[c].used = Cardinality({i \in DOMAIN arena[c].readers :
                                      arena[c].readers[i].alloc})

(* Registered readers are on the registry between grace periods, also in   *)
(* the child of a fork.                                                    *)
ListsRestored ==
  gp.lock = NULL => \A s \in Slots : At(s).list \in {"none", "registry"}

(* While the library is loaded, and whenever a thread is registered or     *)
(* about to be, no slot is unmapped or relocated, for URCU_TLS() may point *)
(* to it: the arena only grows, whoever exits or forks and when the        *)
(* destructor runs.                                                        *)
ArenaStays ==
  [][ \/ lib.state = "loaded" /\ lib'.state = "loaded"
      \/ \E t \in Threads : tls[t] # NULL \/ pc[t] = "add"
      => Slots \subseteq Slots' ]_vars
=============================================================================
