# Verification of liburcu (userspace RCU)

TLA+ models of the userspace RCU library, checked with TLC on small instances
and, for the core, proved with TLAPS for every value of the constants. Paths
below are relative to the repository; `PROJECT.json` maps each definition to
the lines it models.

## 1. The system and its modules

A *flavour* of RCU lets readers run sections without locks and lets updaters
wait for the sections in progress (`synchronize_rcu()`). Everything else is
built on that promise: `call_rcu()` and its workers, polling, deferred
reclamation, and the lock-free containers, whose nodes may be reused only
after a grace period.

| Part | Module | Promise it is held to |
|---|---|---|
| the promise of a flavour | **Rcu** (abstract) | `synchronize_rcu()` outlasts the sections open at its call |
| memb and mb flavours, batching (`src/urcu.c`, `src/urcu-wait.h`) | **Urcu** | Rcu; no lost wakeup, reader or wait node |
| qsbr flavour (`src/urcu-qsbr.c`) | **Qsbr** | Rcu; no lost wakeup or reader |
| bp flavour (`src/urcu-bp.c`) | **UrcuBp** | grace period; slots of the arena owned by their threads through exits, signals and forks |
| polling (`src/urcu-poll-impl.h`) | **Poll** | true only after a grace period, and in the end |
| defer_rcu (`src/urcu-defer-impl.h`) | **Defer** | FIFO, after a grace period, all run, the thread stops |
| call_rcu (`src/urcu-call-rcu-impl.h`) | **CallRcu** | once, after a grace period; barrier waits for all; nothing used after it is freed |
| work queue (`src/workqueue.c`) | **Workqueue** | all work runs, flush waits, quiet across fork |
| wfcqueue, wfqueue, rculfqueue | **WfcQueue**, **WfQueue**, **RcuLfQueue** | **Fifo** (abstract) |
| wfstack, lfstack and rculfstack | **WfStack**, **LfStack** | **Lifo** (abstract) |
| hash table lists (`src/rculfhash.c`) | **LfHash** | **Dictionary** (abstract); one owner per removed node |
| its resizes, counters, destruction | **LfHashResize** | resizes end; nothing after destruction |
| its bucket memory and bit arithmetic (`rculfhash-mm-*.c`) | **LfHashTable** | every bucket has one cell; the arithmetic is what it is named for |
| lists (`list.h`, `hlist.h`, `rculist.h`, `rcuhlist.h`) | **RcuList** | a traversal meets all elements that stay |
| reference counts (`ref.h`) | **Ref** | released once, by the last holder |
| atomic operations (`uatomic/*.h`) | **Uatomic** | **AtomicWord** (abstract) |
| memory orders, pointer publication | **MemOrder** | no pointer is seen before what it points to |
| futex emulation (`src/compat_futex.c`) | **Futex** | a sleeper whose word has changed wakes up |

UrcuInvariant, QsbrInvariant, UrcuBpInvariant, PollInvariant and DeferInvariant
hold inductive invariants (that of LfStack is in LfStackProofs); UrcuGraceProofs, UrcuProofs,
QsbrProofs, UrcuBpProofs, PollProofs, DeferRingProofs, DeferProofs and
LfStackProofs the proofs. MCUrcu, MCFlavours, MCPoll, MCDefer, MCStructures,
MCWorkers, MCFork and MCLaunch are instances for TLC. The ones with several components have a variable `subject`
that says, from the initial state on, which one a behaviour is about, so that
one run examines each of them; `plan` does the same for alternative sets of
calls.

A component uses another one by its promise where that has a model of its own:
Poll, Defer, CallRcu and the containers use RCU as Rcu states it (a set of the
sections to be outlasted that shrinks as they end), CallRcu and Workqueue use a
sequence for the queue that WfcQueue shows to be one.

## 2. How the modules correspond to the code

In every module a step is one load, store, exchange or system call on shared
state, or a whole function where a mutex makes it one. `pc[t]` is where thread
`t` is in the code. An action named *X followed by a word* is the part of
function X that the word tells; "Variant" definitions are plausible mistakes in
the code, each of which makes the checks fail. `pre`, `must`, `need`, `abs`
and the like are history: they record what a property needs and no action of
the code reads them, except where `pre` stands for an abstract grace period.

### Urcu

* Every load or store of a shared word is a step. `ctr` is a reader's counter
  as its thread sees it, `mem` as the others do, `sb` the FIFO of stores in
  between: on x86-like hardware a reader without a fence may run its section
  while its store is still buffered. A phase and a nesting count stand for
  the word. `Flush` is the hardware; `MasterBarrierReach` is membarrier
  reaching one thread. `HasMembarrier = FALSE` is the mb flavour, and memb on
  a kernel without membarrier: fences in the readers.
* `list[r]` says on which list a reader's node is: `registry`,
  `cur_snap_readers` or `qsreaders`. A scan of `wait_for_readers()` visits
  one reader per step; the registry lock is dropped and retaken where the
  code does. FUTEX_WAIT tests and sleeps atomically and may return
  spuriously.
* The wait-node stack has the two steps of `cds_wfs_push()` (exchange, then
  link); the leader spins on an unlinked node. Spinning before the futex call
  changes no state and is a stutter.
* `wait_loops` saturates at `Attempts`, its only observable threshold.

### Poll

All three functions hold one mutex, so each is one action. Identifiers have
`2 * Half` values and wrap; the cast to `long` is `Signed`. `age` counts grace
periods since a handle was given: the comparison is meaningful only while a
handle is younger than half of the identifiers (`Window`; 2^63 on 64 bits),
so the worker is not run past that bound.

### Defer

Indices wrap at `Modulus`, slots at `Size`; words keep the function bit and
the marker, so `Encode` and `Decode` are the code's. The list, both mutexes,
the futex and its three-step wakeup, thread start, stop and join are as in
the code. `pending` is a history of what each thread has deferred, with the
sections open at the time. `Callers` may call the barriers, and a thread whose
head is past `MaxHead` defers no more; these two bound the larger instances.
Not modelled: a failing `malloc()` and the assertion of `rcu_defer_exit()`.

### Qsbr

One module for both word sizes (`wide`): on 64 bits the counter grows and one
wait suffices; on 32 bits it has two values and there are two waits. A reader's
record has its counter, its `waiting` flag, its list, and the counter it read
last, which it may store, or compare, any time later. A caller may itself be an
online reader, which goes offline for the call. `Attempts` is the turn of
`wait_for_readers()` that arms the futex. The hand-shake on wait nodes is one
step; Urcu has its detail.

### UrcuBp

`arena` is the sequence of chunks, each with its slots and the count `used`;
`tls[t]` is the slot of thread `t`. `arena_alloc()` finds the first free slot
or expands: a first chunk, the last one grown in place (mremap succeeded) or a
new one (it did not). Signals may come in between the test of `tls` and the
blocking of signals, and register the thread in their handler. `lib` has
`urcu_bp_refcount` and whether the library's constructor and destructor have
run: threads may register before the one and after the other, and whoever gives
back the last reference, an exiting thread or the destructor, unmaps the arena.
`init_lock` makes each of them one step. `fork()` keeps
the caller alone; the parent's continuation is the behaviour without that step.

### CallRcu and Workqueue

A `call_rcu_data` has flags, futex, queue and the batch its worker took. The
worker's loop, `call_rcu()` (per-CPU worker, else the default one, created on
first use), creation and release of the per-CPU worker with the hand-over of
leftover callbacks, `rcu_barrier()` with its counted completion, the fork
handlers in parent and child and the library's destructor are actions.
Workqueue is the same for the library's own queue: fork handlers nest, and a
child creates its worker anew. Plans say which thread makes which calls. Two
threads may create the per-CPU worker at once (one of them gets EEXIST), but
only one frees it: `free_all_cpu_call_rcu_data()` reads the pointer without the
mutex (`FreeCpu`) and clears it under the mutex (`ClearCpu`), so of two callers
both may read, and then free, the same structure. The code has no guard against
that and no document allows such calls; a plan with them violates
`NoUseAfterFree`.

### Containers

WfcQueue, WfQueue, WfStack, LfStack and RcuLfQueue keep head, tail and next
pointers as the code does, and `abs` as Fifo or Lifo would; refinement is
checked at every step. The guards of calls are the exclusion that the headers
ask of callers (both disciplines they allow for the stacks: RCU, or a mutex).
Nodes that left a container come back: at once under a mutex, after a grace
period under RCU. A stack's mutex is kept until the walk over what
`pop_all` took is over, a little longer than in the code, where the nodes are
the caller's alone by then. In RcuLfQueue that is the constant `Reuse`, because the code
does not stand it (see below).

### The hash table

LfHash has the split-ordered list with the REMOVED, BUCKET and REMOVAL_OWNER
flags in the next pointers; every compare-exchange is a step, and one resizer
adds and removes buckets under the callers. LfHashResize has sizes, targets,
`resize_initiated`, split counters and the worker, with the list abstracted to
its length. LfHashTable has the three allocators, the division of an order
among threads that may not all be created, and `bit_reverse_ulong()`,
`fls_ulong()` and `get_count_order_ulong()` on 16-bit words.

### Primitives

Uatomic performs one operation per thread on a word of two halves, the way
each architecture does (instruction, compare-exchange loop, load-reserve and
store-conditional; on s390 the first comparand is an uninitialized variable and
may be anything). MemOrder runs message passing and store buffering tests on a
machine that reorders whatever the emitted barriers and address dependencies
allow. Futex has the system call, the condition-variable emulation and the
polling one. RcuList executes the updates store by store beside traversals.
Ref is the counter with its saturating and its conditional increment.

## 3. Runs

| Run | Instances | Shows |
|---|---|---|
| `flavours` | memb and mb: 2 readers, 1 updater, 2-entry buffers; qsbr: 2 readers of which one calls, and 2 callers beside a reader, both word sizes; bp: 2 threads, 2 chunks of at most 2 slots, nesting 2, forks, constructor and destructor | grace period, no reader lost, no sleep without a waker; Qsbr implements Rcu; bp's arena stays consistent |
| `urcu_batch` | memb (1 reader nesting twice) and mb, 2 updaters, fair | Urcu implements Rcu; wait nodes are alive and woken once; every call returns |
| `defer` | 2 threads, 1 reader, a ring of 4 words, 3-bit indices, 3 kinds of callback | callbacks whole, in order, after a grace period; no overflow, no lost wakeup, none left behind |
| `poll_and_defer_live` | 2 readers, 3 handles, 2-bit identifiers; 1 thread that defers for ever; fair | polling is sound and ends; every callback runs; unregistration returns |
| `structures` | 2-3 threads, 2-3 nodes; 2-element lists; 2-bit halves | containers implement Fifo and Lifo; lists whole for readers; atomics, references, orders and futexes as assumed |
| `workers` | 2 callers, 2 workers, 2 callbacks; tables of up to 4 buckets (memory: 32), 5 nodes | callbacks once, in time, none lost; the table is a dictionary under resizes; the arithmetic agrees with its definition |
| `workers_live` | the same on smaller plans, fair | work gets done, calls return, destruction and resizes end |
| `defer_reregister`, `defer_barrier_race`, `lfq_reuse`, `callrcu_fork`, `lfht_resize` | 1-2 threads | *violated*, see below |

**Bounds.** Two readers are what it takes for one to hold back a grace period
while another enters with either parity. Two buffered stores let an unlock and
the next lock be pending together. One updater cannot batch and two can; for
Urcu and Qsbr the proofs cover any number. Polling needs identifiers that wrap during a
handle's life: four of them do. The ring of four words with a threshold of two,
as in the code, lets one callback of three words fill it. A queue's hard cases
are the empty one, the last node and an enqueuer in the middle: two nodes and
three threads have them; the ABA of the lock-free stack needs a third node. An
arena needs a second chunk and a slot used again. In the table three nodes have
one key, another the same hash and one is in another bucket. Its plans pair the
calls that compete: two deletions, two replacements or a deletion and a
replacement of one node, two unique additions of one key (also while a resize
runs), an addition and a deletion of neighbours, and lookups and traversals
beside replacements and deletions. No plan has more than two callers, and not
every pair runs beside a resize. `MaxGp`, `MaxRef`, `MaxHead`, `MaxOps`,
`MaxQueue`, `MaxNest`, `MaxSize` and the `once` of a plan bound counters and
repetition.

**Deadlock** is checked in the runs of the flavours, Defer and Poll. The other
runs turn it off: their plans come to an end, a joined thread and a destroyed
table have nothing left to do; that calls return is `CallsReturn`. Its
exception, and that of `WorkGetsDone`, is `ForkStuck`: once
`call_rcu_before_fork()` waits for a worker that cannot pause, for one of the
two reasons given below under `callrcu_fork`, neither it nor a call that wants
its mutex returns. Two plans of `workers_live` reach the two cases.

**Fairness.** A thread inside a library call keeps running; a mutex that is
released again and again is obtained (strong fairness of lock steps); a store
does not stay buffered for ever; a read-side section ends, which the API
requires of its users. Nothing is assumed about starting calls or sections,
nor about spurious wakeups. `ReadUnlock` of Urcu has strong fairness because
the store buffer bound may disable it now and then. In Poll, the queued
callback is run and the handle's holder polls again and again. In MCWorkers the
steps of a client inside a call of CallRcu or LfHashResize have strong fairness
as they obtain mutexes; workers and polling loops have weak fairness.

**The violations.**

* `defer_reregister`: `rcu_defer_register_thread()` asserts that `last_head` is
  0, but unregistration never resets it: a thread that defers, has its queue
  run, unregisters and registers again fails the assertion.
* `defer_barrier_race`: `rcu_defer_barrier()` returns at once when the list is
  empty, read without the mutex; unregistration takes the queue off the list
  before running its callbacks, so a barrier in between returns before a
  callback queued earlier has run, contrary to the function's comment.
* `lfq_reuse`: a dequeue can move the head past a tail that lags behind, so a
  section begun after a node has left the queue can still reach it through the
  tail. The grace period its owner waits for does not cover that section; once
  the node is used again, a dummy is linked behind it instead of into the
  queue, and the head becomes NULL, which the code says never happens. Without
  reuse of memory the queue is a FIFO (run `structures`).
* `callrcu_fork`: `call_rcu_before_fork()` holds `call_rcu_mutex` while it waits
  for the workers to pause. A thread that uses `call_rcu()` for the first time
  waits for that mutex inside a read-side section, and the worker waits for the
  section in `synchronize_rcu()`. The same happens with a worker that has been
  stopped and not yet taken off the list, for which its freer needs the mutex.
* `lfht_resize`: the resize work is queued before `resize_initiated` is set. A
  worker that is done in between has cleared the flag already; it then stays
  set, and later requests are not launched.

## 4. Proofs

All theorems hold for any sets of threads and any bounds the assumptions
`UrcuAssumption`, `QsbrAssumption`, `PollAssumption` and `DeferAssumption`
allow (positive bounds, a Boolean `HasMembarrier`, `NoThread` and the defer
thread not among the threads, `Half > 1`, indices that wrap at a multiple of
the ring size). `QsbrAssumption`, `BpAssumption` (NULL is no thread and no slot)
and `StackAssumption` (NULL is no node, a stack is no thread) are hypotheses of
their theorems instead of an ASSUME.

*Urcu* (`UrcuProofs`): `Invariance` is `Spec => []IInv`; from it follow
`TypeCorrect`, `GracePeriod`, `ReadersRestored`, `NodesAlive`, `WakesOnce`,
`LeaderWoken`, `WaiterWoken`, and `Refinement` (`Spec => ImplementsRcu`). None
of the properties is inductive. The argument of `IInv` (UrcuInvariant):

* *visibility*: a section the leader must outlast is `Steady` (whatever of its
  counter is or becomes visible shows it) once the first master barrier has
  reached its reader, or from its start when readers fence;
* *tracking*: while the first wait lasts such a reader is on the registry, or
  on the snapshot with the current parity; after the flip it is on the
  snapshot with the old parity, so an empty snapshot means it has left. The
  same is carried for the leader and for each call of its batch;
* *sleep*: with the futex at -1, every reader that may look active has yet to
  test it, so one of the readers the leader waits for will wake it;
* *batches*: each call is in at most one queue, once; only the bottom of
  `gp_waiters` leads; the entries of a batch are asleep until their turn.

UrcuGraceProofs has the facts about sequences and frames and one lemma per
action and conjunct for the first two, UrcuProofs for the last two.

*Qsbr* (`QsbrProofs`): `Invariance` is `Spec => []IInv`; from it follow
`SleeperHasWakerHolds`, `ListsRestoredHolds` and `Refinement` (`Spec =>
R!Spec`, with R the abstract Rcu), for any readers, updaters and threads that
are both. The argument of `IInv` (QsbrInvariant):

* *counters*: a reader's counter is 0 exactly when it is offline; one it has
  read but not yet stored is not ahead of the global counter on 64 bits, and
  one of its two values on 32 bits (`CounterInv`, `RoleInv`);
* *tracking*: a section the grace period must outlast has not stored the new
  count; on 32 bits it is sorted by its count in the first phase and has the
  old one in the second (`Tracked`, `GraceInv`). A reader that has loaded the
  old counter and stores it late is the case that needs both phases;
* *sleep*: with the futex at -1 every reader on the input list has been told,
  or has yet to test the futex; and of the readers the leader waits for one has
  yet to notice (`SleepInv`, which fixes the order flag, counter, futex);
* *batches* and *lists* as in Urcu (`BatchInv`, `ListInv`, `LockInv`).

*UrcuBp* (`UrcuBpProofs`): `Invariance` is `Spec => []IInv`; from it follow
`GracePeriodHolds`, `SlotsOwnedHolds`, `ArenaConsistentHolds`,
`ListsRestoredHolds` and the action property `ArenaStaysHolds`, for any
threads, first chunk size and bounds. `ArenaStays` is proved and not part of a
run. The argument of `IInv` (UrcuBpInvariant):

* *slots*: a slot in use is on a list and its owner's `tls` points back at it,
  a free one is as `expand_arena()` made it, and `used` is the number in use
  (`ArenaInv`, `OwnerInv`). The first half of the proof says what
  `arena_alloc()` with its expansions, `cleanup_thread()`, the splice and a
  store to a slot do to chunks and slots (`Joined`, `Left`, `Sorted`, `Wrote`);
  that a first free slot exists rests on the well-foundedness of the numbers
  (`Least`);
* *references*: registered threads, those between `_urcu_bp_init()` and
  `add_thread()` or about to call `urcu_bp_exit()`, and the library while it is
  loaded are together at most `urcu_bp_refcount` (`RefInv`; in the child of a
  fork they are fewer). So whoever gives back the last reference and unmaps the
  arena, the destructor included, is the last to need it: no slot is in use, no
  list has a reader, and no section is being waited for (`UnmapInv`);
* *tracking*: as in Urcu, by list and phase (`Tracked`, `GraceInv`), now with
  slots that may be reused: a thread that exits is in no section, and its slot
  is cleared under the registry mutex (`LockInv`, `ListInv`, `WhereInv`);
* *fork*: the forking thread holds both mutexes, so that no walk is in progress
  and the lists are whole when the child prunes them.

*Poll* (`PollProofs`): `Invariance`, `Sound` (`[]PollSound`) and
`NobodyStranded` (`[]NoHandleStranded`), for identifiers of any width. The
invariant relates the distance from the current identifier to a handle's
target with its age: 0 or 1 ahead while young, `age` or `age - 1` behind after.
Wraparound is kept in linear arithmetic (`Succ`, `Minus`) instead of `%`.

*Defer* (`DeferProofs`): `Invariant` is `Spec => []IInv`; from it follow
`RunsOldestHolds`, `AssertsHold`, `DeferThreadHasWakerHolds` and
`DrainedOnReturnHolds`, for any ring size and index width, any functions and
data, whatever words they look like, and any number of threads. The argument of
`IInv` (DeferInvariant):

* *layout*: there are positions in the ring, not reduced modulo the index
  width, at which reading the words gives back the pending callbacks one after
  the other, each with the function the previous one left (`Layout`). It is
  the existence of these positions that is invariant: a deferral adds one at
  the end, a run drops the first, and both may wrap (DeferRingProofs;
  `EncodeRead` says that reading undoes writing for all three encodings);
* *coverage*: what is to be run lies before the snapshot of the head, and the
  sections those callbacks must outlast are in the grace period waited for
  (`Covered`, `GraceInv`);
* *room*: a thread about to write has an empty ring or room for three words,
  and only it writes (`OwnInv`);
* *sleep*: with the futex at -1 and work queued or a stop requested, the
  thread that queued or stopped has yet to test the futex (`SleepInv`);
* *control*: who holds the mutexes, who is on the list, and whose queues are to
  be run (`ControlInv`, `MutexInv`, `RegistryInv`, `TodoInv`).

*LfStack* (`LfStackProofs`): `Invariance` is `Spec => []IInv`; from it follow
`ChainIsStackHolds` and `Refinement` (`Spec => ImplementsLifo`), for any
stacks, threads and nodes and both disciplines. That a compare-exchange of pop
which finds the head it has read also has the right successor is not inductive;
`IInv` says why it is so:

* *places*: a node is in one place of one stack or of one caller's hand
  (`PlaceInv`), and the words of a stack are its chain (`StackInv`);
* *safety of pop*: the node a pop has read is on its stack, with the successor
  read, or a grace period started since waits for that pop (`Safe`); and for
  nodes on a stack no grace period is running (`StackInv`). So a head that is
  found again was never away;
* *mutex*: without grace periods, a pop is alone on its stack (`MutexInv`).

Only model-checked: liveness (`SyncReturns`, `PollReturnsTrue`,
`DeferProgress`, `WorkGetsDone`, `CallsReturn`) and ENABLED, out of the
prover's reach; what recursive definitions compute, for which it has no
induction over data; the modules that reach RECURSIVE operators or Bitwise; and
the other containers, the workers and the hash table.

## 5. Not modelled

* Barriers and caches of the architectures as such, and compiler reordering:
  Urcu has x86 store buffers, MemOrder the orders of loads and stores; the
  other modules take shared words as sequentially consistent, which the
  barriers next to their stores justify. The C11 fences of `builtins-x86.h`.
* CPU enumeration (`compat-smp.h`, `compat-getcpu.h`): parsing of text.
* call_rcu: `set_thread_call_rcu_data()`, CPU affinity, `qlen`, the handlers
  that rculfhash registers (Workqueue has them); call_rcu and Workqueue: a
  destructor that overlaps a call which the API forbids at that time.
* `init_lock` of bp across a fork; the choice of membarrier command; the branch
  of `wait_for_readers()` for `HAS_INCOHERENT_CACHES`.
* rculfhash: a failed allocation of a resize work item,
  `cds_lfht_count_nodes()`, `cds_lfht_next_duplicate()` as a call of the user
  (LfHash has its use in unique additions, `AddDup`), sizes that are no power of two, the assembly of `fls`.
* `cds_lfq_destroy_rcu()`, which only tests for a lone dummy;
  `rcu_cmpxchg_pointer()` and the wrappers of the pointer macros.
* Failing `malloc()` or `mmap()`, which abort; thread-local storage macros,
  annotations, assertions, the examples.
* `_uatomic_and()` for 2-byte operands on architectures without their own
  (`uatomic/generic.h`) falls through to the 4-byte case; no architecture in
  the tree compiles it.
