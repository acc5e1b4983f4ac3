------------------------------- MODULE MCUrcu -------------------------------
(***************************************************************************)
(* The instance of Urcu for TLC with callers that batch, beside a reader:  *)
(* of memb with membarrier, and of mb, as flavour says.                    *)
(***************************************************************************)
EXTENDS UrcuInvariant

CONSTANTS r1, u1, u2

VARIABLE flavour

allVars == <<vars, flavour>>

OneReader == {r1}
TwoUpdaters == {u1, u2}

Mb == INSTANCE Urcu WITH HasMembarrier <- FALSE, MaxNest <- 1

Either(memb, mb) == /\ \/ flavour = "memb" /\ memb
                       \/ flavour = "mb" /\ mb
                    /\ UNCHANGED flavour

BatchInit == Init /\ flavour \in {"memb", "mb"}

BatchNext == Either(Next, Mb!Next)

(* Fairness of Urcu, of the flavour the behaviour is about. *)
BatchFairness ==
  /\ \A r \in Readers :
       /\ WF_allVars(Either(ReaderCall(r), Mb!ReaderCall(r)))
       /\ WF_allVars(Either(Flush(r), Mb!Flush(r)))
       /\ WF_allVars(Either(MasterBarrierReach(r), Mb!MasterBarrierReach(r)))
       /\ SF_allVars(Either(ReadUnlock(r), Mb!ReadUnlock(r)))
       /\ WF_allVars(Either(ReadUnlockNested(r), Mb!ReadUnlockNested(r)))
  /\ \A u \in Updaters :
       /\ WF_allVars(Either(WaiterStep(u) \/ GpStep(u) \/ WakeStep(u),
                            Mb!WaiterStep(u) \/ Mb!GpStep(u) \/ Mb!WakeStep(u)))
       /\ SF_allVars(Either(LockStep(u), Mb!LockStep(u)))

BatchSpec == BatchInit /\ [][BatchNext]_allVars /\ BatchFairness
=============================================================================
