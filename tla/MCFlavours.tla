----------------------------- MODULE MCFlavours -----------------------------
(***************************************************************************)
(* Instances for TLC of the flavours: memb and mb (module Urcu), qsbr, bp. *)
(* subject says which one a behaviour is about.  Qsbr and UrcuBp share     *)
(* variables of their own, unset when the behaviour is one of Urcu, whose  *)
(* variables otherwise keep their initial values.                          *)
(***************************************************************************)
EXTENDS UrcuInvariant, TLC

CONSTANTS r1, r2, u1, q1, q2, q3, b1, b2

VARIABLES subject, arena, tls, refcount, gp, fgctr, fpc, fpre

flavourVars == <<arena, tls, refcount, gp, fgctr, fpc, fpre>>
allVars == <<subject, vars, flavourVars>>

TwoReaders == {r1, r2}
OneUpdater == {u1}

Mb == INSTANCE Urcu WITH HasMembarrier <- FALSE

(* q2 is a reader that calls synchronize_rcu(): beside another reader, and  *)
(* beside another caller.                                                  *)
Q == INSTANCE Qsbr WITH Readers <- {q1, q2}, Updaters <- {q2}, Attempts <- 1,
       MaxGp <- 2, wide <- refcount, rd <- arena, batch <- tls, pc <- fpc, pre <- fpre
Qb == INSTANCE Qsbr WITH Readers <- {q2}, Updaters <- {q2, q3}, Attempts <- 1,
       MaxGp <- 2, wide <- refcount, rd <- arena, batch <- tls, pc <- fpc, pre <- fpre
Bp == INSTANCE UrcuBp WITH Threads <- {b1, b2}, NULL <- NoThread, InitCount <- 1,
       MaxCapacity <- 2, MaxChunks <- 2, MaxNest <- 2, MaxRef <- 4,
       lib <- refcount, gctr <- fgctr, pc <- fpc, pre <- fpre

FlavoursInit ==
  /\ Init
  /\ \/ /\ subject \in {"memb", "mb"}
        /\ arena = NoThread /\ tls = NoThread /\ refcount = NoThread
        /\ gp = NoThread /\ fgctr = NoThread /\ fpc = NoThread /\ fpre = NoThread
     \/ subject = "qsbr" /\ Q!Init /\ fgctr = NoThread
     \/ subject = "qsbr_batch" /\ Qb!Init /\ fgctr = NoThread
     \/ subject = "bp" /\ Bp!Init

Of(s) == subject = s /\ UNCHANGED subject

FlavoursNext ==
  \/ Of("memb") /\ Next /\ UNCHANGED flavourVars
  \/ Of("mb") /\ Mb!Next /\ UNCHANGED flavourVars
  \/ Of("qsbr") /\ Q!Next /\ UNCHANGED vars /\ UNCHANGED fgctr
  \/ Of("qsbr_batch") /\ Qb!Next /\ UNCHANGED vars /\ UNCHANGED fgctr
  \/ Of("bp") /\ Bp!Next /\ UNCHANGED vars

FlavoursSpec == FlavoursInit /\ [][FlavoursNext]_allVars

Symmetry == Permutations({r1, r2}) \cup Permutations({b1, b2})

(* qsbr implements the abstract grace period: synchronize_rcu() returns    *)
(* only when every reader online at the call has announced a quiescent     *)
(* state, callers that are readers themselves included.                    *)
QsbrImplementsRcu ==
  /\ subject = "qsbr" => Q!R!Init
  /\ subject = "qsbr_batch" => Qb!R!Init
  /\ [][ /\ subject = "qsbr" => Q!RcuStep
         /\ subject = "qsbr_batch" => Qb!RcuStep ]_allVars

(* qsbr: the updater asleep on the futex has a waker. *)
QsbrSleeperHasWaker ==
  /\ subject = "qsbr" => Q!SleeperHasWaker
  /\ subject = "qsbr_batch" => Qb!SleeperHasWaker

(* bp: synchronize_rcu() outlasts the sections it must, also in the child  *)
(* of a fork.                                                              *)
BpGracePeriodGuarantee == subject = "bp" => Bp!GracePeriodGuarantee

(* No reader is lost.  qsbr, bp: none is left on a list head of a finished *)
(* grace period, or of the one a fork interrupted.  bp: a registered       *)
(* thread owns one slot of the arena and no slot is shared or leaked,      *)
(* whatever signals, exits and forks do, and the arena's flags, lists and  *)
(* counts agree.                                                           *)
ReadersKept ==
  /\ subject = "qsbr" => Q!ListsRestored
  /\ subject = "qsbr_batch" => Qb!ListsRestored
  /\ subject = "bp" => Bp!SlotsOwned /\ Bp!ArenaConsistent /\ Bp!ListsRestored
=============================================================================
