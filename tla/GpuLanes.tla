------------------------------- MODULE GpuLanes -------------------------------
(***************************************************************************)
(* The bridge from a SmartStore lane to its GPU slot: GpuLanes::execute of *)
(* crates/wgpu_backend/src/gpu_lanes.rs over one component type, with the  *)
(* systems that write and resize the lane between the calls.               *)
(***************************************************************************)
EXTENDS AutoLane

CONSTANTS
    Kernels,    \* what the callers compute, a pipeline and its CPU fallback
    Lengths,    \* lane lengths
    Threshold,  \* the length from which the policy picks the GPU
    MaxCalls    \* bound on calls and on the versions written between them

ASSUME LanesAssumption ==
    Lengths \subseteq Nat /\ Threshold \in Nat /\ MaxCalls \in Nat

VARIABLES
    lane,      \* the store's lane: its length and contents
    slot,      \* the cached slot, or NoSlot
    calls,     \* executes made
    versions,  \* versions written to the lane
    answer     \* the kernel the last call asked for and whether it completed

lanesVars == <<lane, slot, calls, versions, answer>>

NoSlot == [len |-> 0]

\* An empty lane is answered at once and never gets a slot.
Answer(kernel, done) == [kernel |-> kernel, done |-> done]

LanesInit ==
    /\ \E n \in Lengths : lane = [len |-> n, data |-> Written(0)]
    /\ slot = NoSlot
    /\ calls = 0 /\ versions = 0
    /\ answer \in {Answer(k, TRUE) : k \in Kernels}

\* A system writes the lane, or entities enter or leave it.
WriteLane ==
    /\ versions < MaxCalls
    /\ versions' = versions + 1
    /\ \E n \in Lengths : lane' = [len |-> n, data |-> Written(versions + 1)]
    /\ UNCHANGED <<slot, calls, answer>>

BugRefreshed(kernel) ==
    IF slot.len = lane.len
    THEN slot
    ELSE [len |-> lane.len, kernel |-> kernel, buf |-> NewBuffer(lane.data)]

\* The slot the call runs in: rebuilt, with the caller's pipeline, when the
\* lane's length has changed, otherwise refreshed from the store.
Refreshed(kernel) ==
    IF slot.len = lane.len
    THEN [slot EXCEPT !.buf = CpuDataMut(slot.buf, lane.data)]
    ELSE [len |-> lane.len, kernel |-> kernel, buf |-> NewBuffer(lane.data)]

Calls(kernel, done) ==
    /\ calls < MaxCalls
    /\ calls' = calls + 1
    /\ answer' = Answer(kernel, done)
    /\ UNCHANGED versions

ExecuteEmpty(kernel) ==
    /\ lane.len = 0
    /\ Calls(kernel, TRUE)
    /\ UNCHANGED <<lane, slot>>

Executed(kernel) ==
    LET ready == Refreshed(kernel) IN
    IF lane.len >= Threshold
    THEN [ready EXCEPT !.buf = ExecuteOnGpu(ready.buf, ready.kernel)]
    ELSE [ready EXCEPT !.buf = ExecuteOnCpu(ready.buf, kernel)]

Execute(kernel) ==
    /\ lane.len > 0
    /\ Calls(kernel, TRUE)
    /\ slot' = Executed(kernel)
    /\ lane' = [lane EXCEPT !.data = Executed(kernel).buf.cpu]

\* The readback fails and nothing is written back.
ExecuteFails(kernel) ==
    /\ lane.len > 0 /\ lane.len >= Threshold
    /\ Calls(kernel, FALSE)
    /\ \E buf \in FailedOnGpu(Refreshed(kernel).buf, Refreshed(kernel).kernel) :
          slot' = [Refreshed(kernel) EXCEPT !.buf = buf]
    /\ UNCHANGED lane

LanesNext ==
    \/ WriteLane
    \/ \E k \in Kernels : ExecuteEmpty(k) \/ Execute(k) \/ ExecuteFails(k)

LanesSpec == LanesInit /\ [][LanesNext]_lanesVars

-----------------------------------------------------------------------------
Data == [version : 0..MaxCalls, ran : Seq(Kernels)]
Buffer == [cpu : Data, gpu : Data, dirtyCpu : BOOLEAN, dirtyGpu : BOOLEAN]

\* Type invariant (TypedSlot and the lane it stands for).
LanesTypeOK ==
    /\ lane \in [len : Lengths, data : Data]
    /\ slot \in [len : Lengths \ {0}, kernel : Kernels, buf : Buffer] \cup {NoSlot}
    /\ answer \in [kernel : Kernels, done : BOOLEAN]
    /\ calls \in 0..MaxCalls /\ versions \in 0..MaxCalls

\* Between calls the flags of the slot's buffer tell which side is stale,
\* whatever calls failed before (SmartBuffer's flags).
SlotSidesAgree == slot # NoSlot => SidesAgree(slot.buf)

\* A call that completes applies one kernel exactly once to what the store
\* holds at that moment, and a call that fails leaves the store alone: never
\* to an older copy, and not again when a failed call is repeated
\* (GpuLanes::execute, steps 1 to 4 of the module's comment).  The kernel is
\* the caller's, or on the GPU the one its slot was last built with.
Applied(kernel) == IF lane.len >= Threshold THEN slot'.kernel ELSE kernel

OneRunPerCall ==
    [][calls' # calls /\ lane.len > 0 =>
          lane' = IF answer'.done
                  THEN [lane EXCEPT !.data = Run(Applied(answer'.kernel), @)]
                  ELSE lane]_lanesVars
===============================================================================
