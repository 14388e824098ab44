----------------------------- MODULE MCGpuWork -----------------------------
(***************************************************************************)
(* The users of the GPU: the lanes of the simulation, the instance records *)
(* of the renderer and its frames.  They share a queue and no state, so    *)
(* each behaviour is one of either.                                        *)
(***************************************************************************)
EXTENDS MCFramePlan, GpuLanes, MCInstanceRecords

VARIABLE part

WorkInit ==
    /\ part \in {"lanes", "records", "frames"}
    /\ LanesInit /\ RecordInit /\ PlanInit
    /\ part # "frames" => passes = <<>> /\ surface = 1 /\ samples = 1
    /\ part # "lanes" => lane.len = 0 /\ answer.kernel = CHOOSE k \in Kernels : TRUE

WorkNext ==
    \/ part = "lanes" /\ LanesNext /\ UNCHANGED <<part, recordVars, planVars>>
    \/ part = "records" /\ RecordNext /\ UNCHANGED <<part, lanesVars, planVars>>
    \/ part = "frames" /\ PlanNext /\ UNCHANGED <<part, lanesVars, recordVars>>

WorkSpec == WorkInit /\ [][WorkNext]_<<part, lanesVars, recordVars, planVars>>
=============================================================================
