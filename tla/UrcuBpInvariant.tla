-------------------------- MODULE UrcuBpInvariant ---------------------------
(***************************************************************************)
(* The inductive invariant of UrcuBp.                                      *)
(***************************************************************************)
EXTENDS UrcuBp

(* NULL is no thread and no slot; INIT_READER_COUNT is a number. *)
BpAssumption == NULL \notin Threads /\ NULL \notin Nat \X Nat /\ InitCount \in Nat

WalkPc == {"scan", "relock", "passed"}
ForkPc == {"fork", "forked"}
LockPc == {"reg_lock", "out"} \cup WalkPc \cup ForkPc
RegPc == {"scan", "passed", "out", "forked"}
SyncPc == {"gp_lock", "reg_lock", "out"} \cup WalkPc
Pcs == {"idle", "register", "add", "exit", "lock_store"} \cup SyncPc \cup ForkPc

Lists == {"none", "registry", "cur_snap", "qs"}
ReaderRecord == [alloc : BOOLEAN, tid : Threads \cup {NULL}, phase : {0, 1},
                 nest : Nat, list : Lists]
GpRecord == [ctr : {0, 1}, lock : Threads \cup {NULL}, reg : Threads \cup {NULL},
             pass : {1, 2}, todo : SUBSET (Nat \X Nat)]

ChunkRecord == [readers : Seq(ReaderRecord), used : Int]
Arenas == Seq(ChunkRecord)

LibRecord == [refcount : Int, state : {"new", "loaded", "unloaded"}]

TypeOK ==
  /\ arena \in Arenas
  /\ tls \in [Threads -> (Nat \X Nat) \cup {NULL}]
  /\ lib \in LibRecord
  /\ gp \in GpRecord
  /\ gctr \in [Threads -> {0, 1}]
  /\ pc \in [Threads -> Pcs]
  /\ pre \in [Threads -> SUBSET Threads]

-----------------------------------------------------------------------------
(* The arena: a free slot is as expand_arena() made it, a slot in use is   *)
(* on a list and is its owner's.                                           *)
Slot(s) == IF At(s).alloc
           THEN At(s).list # "none" /\ At(s).tid \in Threads /\ tls[At(s).tid] = s
           ELSE At(s) = Reader

InUse(a, c) == {i \in DOMAIN a[c].readers : a[c].readers[i].alloc}
Counted(a) == \A c \in DOMAIN a : a[c].used = Cardinality(InUse(a, c))

ArenaInv == (\A s \in Slots : Slot(s)) /\ Counted(arena)

(* A thread that is registered has its own slot. *)
Owns(t) ==
  tls[t] # NULL => tls[t] \in Slots /\ At(tls[t]).alloc /\ At(tls[t]).tid = t

OwnerInv == \A t \in Threads : Owns(t)

(* Where a thread can be with a slot or without one, or in a section. *)
Where(t) ==
  /\ pc[t] \in {"add", "exit"} => tls[t] = NULL
  /\ pc[t] = "lock_store" => tls[t] # NULL
  /\ InCS(t) => pc[t] \in {"idle"} \cup ForkPc

WhereInv == \A t \in Threads : Where(t)

(* References are counted: every thread that holds one, and the library    *)
(* while it is loaded.  In the child of a fork there are more references   *)
(* than holders.                                                           *)
Holders == {t \in Threads : tls[t] # NULL \/ pc[t] \in {"add", "exit"}}
OwnRef == IF lib.state = "loaded" THEN 1 ELSE 0
RefInv == IsFiniteSet(Holders) /\ Cardinality(Holders) + OwnRef <= lib.refcount

-----------------------------------------------------------------------------
(* The holders of the two mutexes. *)
LockInv ==
  /\ \A t \in Threads : gp.lock = t <=> pc[t] \in LockPc
  /\ \A t \in Threads : gp.reg = t <=> pc[t] \in RegPc

(* The lists: whole outside of the walk over them, which ends with its     *)
(* input list empty; what a scan has yet to visit is on that list.         *)
Whole == \A s \in Slots : At(s).list \in {"none", "registry"}

ListInv ==
  /\ (\A t \in Threads : pc[t] \notin WalkPc) => Whole
  /\ \A u \in Threads : pc[u] = "passed" => Input = {}
  /\ \A u \in Threads : pc[u] = "scan" => gp.todo \subseteq Input

(* A section that the call must outlast is sorted by its phase in the      *)
(* first pass, and has the old phase in the second.                        *)
Tracked(s) ==
  \/ gp.pass = 1 /\ At(s).list = "registry"
  \/ gp.pass = 1 /\ At(s).list = "cur_snap" /\ At(s).phase = gp.ctr
  \/ gp.pass = 2 /\ At(s).list = "cur_snap" /\ At(s).phase # gp.ctr

GraceInv ==
  \A u \in Threads :
    /\ \A t \in pre[u] : InCS(t)
    /\ pc[u] \in WalkPc => \A t \in pre[u] : Tracked(tls[t])
    /\ pc[u] = "out" => pre[u] = {}

IInv == /\ TypeOK /\ ArenaInv /\ OwnerInv /\ WhereInv /\ RefInv
        /\ LockInv /\ ListInv /\ GraceInv
=============================================================================
