------------------------------- MODULE AutoLane -------------------------------
(***************************************************************************)
(* A lane resident on both sides: SmartBuffer of                           *)
(* crates/wgpu_backend/src/smart_buffer.rs and the residency AutoLane      *)
(* (auto_lane.rs) drives on it.  Lane contents are the version they were   *)
(* written at and the kernels that have run over them since, in order.     *)
(***************************************************************************)
EXTENDS Naturals, Sequences

Written(version) == [version |-> version, ran |-> <<>>]

Run(kernel, data) == [data EXCEPT !.ran = Append(@, kernel)]

\* SmartBuffer::new uploads: both sides start clean.
NewBuffer(data) ==
    [cpu |-> data, gpu |-> data, dirtyCpu |-> FALSE, dirtyGpu |-> FALSE]

\* cpu_data_mut, through which the CPU copy gets new contents.
CpuDataMut(buf, data) == [buf EXCEPT !.cpu = data, !.dirtyCpu = TRUE]

SyncToGpu(buf) ==
    IF buf.dirtyCpu
    THEN [buf EXCEPT !.gpu = buf.cpu, !.dirtyCpu = FALSE]
    ELSE buf

\* The recorded dispatch is flushed and the CPU side marked stale.
DispatchGpu(buf, kernel) ==
    [buf EXCEPT !.gpu = Run(kernel, buf.gpu), !.dirtyGpu = TRUE]

SyncToCpu(buf) ==
    IF buf.dirtyGpu
    THEN [buf EXCEPT !.cpu = buf.gpu, !.dirtyGpu = FALSE]
    ELSE buf

-----------------------------------------------------------------------------
(* AutoLane::execute.                                                      *)
ExecuteOnCpu(buf, kernel) == CpuDataMut(buf, Run(kernel, buf.cpu))

ExecuteOnGpu(buf, kernel) == SyncToCpu(DispatchGpu(SyncToGpu(buf), kernel))

\* The readback fails; on a lost device the dispatch may not have run at all.
FailedOnGpu(buf, kernel) ==
    LET uploaded == SyncToGpu(buf)
    IN  {DispatchGpu(uploaded, kernel), [uploaded EXCEPT !.dirtyGpu = TRUE]}

\* The dirty flags are what decides the transfers: without one, the sides
\* hold the same data.
SidesAgree(buf) == ~buf.dirtyCpu /\ ~buf.dirtyGpu => buf.cpu = buf.gpu
===============================================================================
