---------------------------- MODULE MCSmartStore ----------------------------
(***************************************************************************)
(* A smart store for TLC: the entities and their locked lanes, where a     *)
(* lock-free lane is one step, and the steps inside such a lane.  They     *)
(* share no state, so each behaviour is one of either.                     *)
(***************************************************************************)
EXTENDS SmartStore, LockFreeLane, TLC

VARIABLE part

\* One address is as good as another for the first snapshot.
StoreInit ==
    /\ part \in {"entities", "lane"}
    /\ SmartInit /\ LockFreeInit
    /\ store = CHOOSE a \in Addresses : TRUE

StoreNext ==
    \/ part = "entities" /\ SmartNext /\ UNCHANGED <<part, lockFreeVars>>
    \/ part = "lane" /\ LockFreeNext /\ UNCHANGED <<part, smartVars>>

StoreSpec ==
    /\ StoreInit /\ [][StoreNext]_<<part, smartVars, lockFreeVars>>
    /\ LockFreeFairness

\* The threads that destroy are interchangeable, and no other part names them.
MCSymmetry == Permutations(Destroyers)

\* Every call on the lane returns (CallsReturn of LockFreeLane).
LaneCallsReturn == part = "lane" => CallsReturn
=============================================================================
