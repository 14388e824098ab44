--------------------------- MODULE GpuWorkProofs ----------------------------
(***************************************************************************)
(* The users of the GPU. For any number of nodes and any relation, the     *)
(* loops of compute_levels produce a level plan. For every set of kernels  *)
(* and lengths, threshold and number of calls, the dirty flags of a slot   *)
(* tell which side is stale, and every completed call applies exactly one  *)
(* kernel once to the store's current data. For any resources, passes,     *)
(* budgets and changes between frames, a frame is drawn with a layout of   *)
(* the declarations as they are, and the passes that share textures do not *)
(* notice.                                                                 *)
(***************************************************************************)
EXTENDS GpuLanes, FramePlan, SequenceTheorems, FiniteSetTheorems, WellFoundedInduction, TLAPS

-----------------------------------------------------------------------------
(* compute_levels.  The invariant says what the two loops have done so     *)
(* far: the rows below j are a plan of the nodes below j, and best is the  *)
(* level that the predecessors below i require of node j.                  *)

LoopTypes ==
  /\ n \in Nat
  /\ ordered \subseteq {p \in Nodes \X Nodes : p[1] < p[2]}
  /\ level \in [Nodes -> Nat]
  /\ j \in Nat /\ i \in Nat /\ best \in Nat
  /\ i <= j

\* Nodes below j have their final level.
DoneRespects ==
  \A a, b \in Nodes : (b < j /\ a < b /\ <<a, b>> \in ordered) => level[a] < level[b]
DoneTight ==
  \A b \in Nodes :
    b < j => \/ level[b] = 0
             \/ \E a \in Nodes : a < b /\ <<a, b>> \in ordered /\ level[b] = level[a] + 1

\* best is the maximum over the predecessors of j that the inner loop has seen.
BestAbove == \A a \in Nodes : (a < i /\ <<a, j>> \in ordered) => level[a] < best
BestTight ==
  \/ best = 0
  \/ \E a \in Nodes : a < i /\ <<a, j>> \in ordered /\ best = level[a] + 1

LoopInv == LoopTypes /\ DoneRespects /\ DoneTight /\ BestAbove /\ BestTight

LEMMA InitLoop == LevelsInit => LoopInv
<1> SUFFICES ASSUME LevelsInit PROVE LoopInv
  OBVIOUS
<1>1. LoopTypes
  BY DEF LevelsInit, LoopTypes
<1>2. DoneRespects
  <2> SUFFICES ASSUME NEW a \in Nodes, NEW b \in Nodes, b < j, a < b PROVE FALSE
    BY DEF DoneRespects
  <2> QED BY DEF LevelsInit, Nodes
<1>3. DoneTight
  BY DEF LevelsInit, DoneTight
<1>4. BestAbove
  BY DEF LevelsInit, BestAbove, Nodes
<1>5. BestTight
  BY DEF LevelsInit, BestTight
<1> QED BY <1>1, <1>2, <1>3, <1>4, <1>5 DEF LoopInv

LEMMA BetterIsMax ==
  ASSUME NEW l \in Nat, best \in Nat
  PROVE  /\ Better(l) \in Nat
         /\ l < Better(l) /\ best <= Better(l)
         /\ Better(l) = best \/ Better(l) = l + 1
BY DEF Better

\* One turn of the inner loop.
LEMMA InnerLoop == LoopInv /\ Inner => LoopInv'
<1> SUFFICES ASSUME LoopInv, Inner PROVE LoopInv'
  OBVIOUS
<1>0. /\ i \in Nodes /\ level[i] \in Nat /\ best \in Nat
      /\ i' = i + 1 /\ UNCHANGED <<n, ordered, level, j>> /\ Nodes' = Nodes
  BY DEF LoopInv, LoopTypes, Inner, Nodes
<1>b. /\ Better(level[i]) \in Nat
      /\ level[i] < Better(level[i]) /\ best <= Better(level[i])
      /\ Better(level[i]) = best \/ Better(level[i]) = level[i] + 1
  BY <1>0, BetterIsMax
<1>1. LoopTypes'
  BY <1>0, <1>b DEF LoopInv, LoopTypes, Inner
<1>2. DoneRespects' /\ DoneTight'
  BY <1>0 DEF LoopInv, DoneRespects, DoneTight, Nodes
<1>3. BestAbove'
  <2> SUFFICES ASSUME NEW a \in Nodes, a < i + 1, <<a, j>> \in ordered
               PROVE  level[a] < best'
    BY <1>0 DEF BestAbove, Nodes
  <2>0. level[a] \in Nat
    BY DEF LoopInv, LoopTypes
  <2>1. CASE a = i
    BY <2>1, <1>b, <1>0 DEF Inner
  <2>2. CASE a # i
    <3>1. a < i
      BY <2>2, <1>0 DEF Nodes
    <3>2. level[a] < best
      BY <3>1 DEF LoopInv, BestAbove
    <3> QED BY <3>2, <2>0, <1>b, <1>0 DEF Inner
  <2> QED BY <2>1, <2>2
<1>4. BestTight'
  <2>1. CASE <<i, j>> \in ordered /\ Better(level[i]) = level[i] + 1
    <3>1. best' = level[i] + 1
      BY <2>1 DEF Inner
    <3>2. i \in Nodes /\ i < i + 1
      BY <1>0 DEF Nodes
    <3> QED BY <3>1, <3>2, <2>1, <1>0 DEF BestTight, Nodes
  <2>2. CASE ~(<<i, j>> \in ordered /\ Better(level[i]) = level[i] + 1)
    <3>1. best' = best
      BY <2>2, <1>b DEF Inner
    <3>2. CASE best = 0
      BY <3>1, <3>2 DEF BestTight
    <3>3. CASE best # 0
      <4>1. PICK a \in Nodes : a < i /\ <<a, j>> \in ordered /\ best = level[a] + 1
        BY <3>3 DEF LoopInv, BestTight
      <4>2. a < i + 1
        BY <4>1, <1>0 DEF Nodes
      <4> QED BY <4>1, <4>2, <3>1, <1>0 DEF BestTight, Nodes
    <3> QED BY <3>2, <3>3
  <2> QED BY <2>1, <2>2
<1> QED BY <1>1, <1>2, <1>3, <1>4 DEF LoopInv

\* The inner loop is through: node j gets its level.
LEMMA OuterLoop == LoopInv /\ Outer => LoopInv'
<1> SUFFICES ASSUME LoopInv, Outer PROVE LoopInv'
  OBVIOUS
<1>0. /\ j \in Nodes /\ i = j /\ best \in Nat /\ level \in [Nodes -> Nat]
      /\ level' = [level EXCEPT ![j] = best] /\ j' = j + 1 /\ i' = 0 /\ best' = 0
      /\ ordered' = ordered /\ n' = n /\ Nodes' = Nodes
  BY DEF LoopInv, LoopTypes, Outer, Nodes
<1>1. LoopTypes'
  BY <1>0 DEF LoopInv, LoopTypes, Nodes
<1>l. \A a \in Nodes : level'[a] = IF a = j THEN best ELSE level[a]
  BY <1>0
<1>2. DoneRespects'
  <2> SUFFICES ASSUME NEW a \in Nodes, NEW b \in Nodes, b < j + 1, a < b, <<a, b>> \in ordered
               PROVE  level'[a] < level'[b]
    BY <1>0 DEF DoneRespects, Nodes
  <2>1. CASE b = j
    <3>1. a < i /\ a # j
      BY <2>1, <1>0 DEF Nodes
    <3>2. level[a] < best
      BY <3>1, <2>1 DEF LoopInv, BestAbove
    <3> QED BY <3>1, <3>2, <2>1, <1>l
  <2>2. CASE b # j
    <3>1. b < j /\ a # j
      BY <2>2, <1>0 DEF Nodes
    <3>2. level[a] < level[b]
      BY <3>1 DEF LoopInv, DoneRespects
    <3> QED BY <3>1, <3>2, <2>2, <1>l
  <2> QED BY <2>1, <2>2
<1>3. DoneTight'
  <2> SUFFICES ASSUME NEW b \in Nodes, b < j + 1
               PROVE  \/ level'[b] = 0
                      \/ \E a \in Nodes : a < b /\ <<a, b>> \in ordered /\ level'[b] = level'[a] + 1
    BY <1>0 DEF DoneTight, Nodes
  <2>1. CASE b = j
    <3>1. CASE best = 0
      BY <3>1, <2>1, <1>l
    <3>2. CASE best # 0
      <4>1. PICK a \in Nodes : a < i /\ <<a, j>> \in ordered /\ best = level[a] + 1
        BY <3>2 DEF LoopInv, BestTight
      <4>2. a < b /\ a # j
        BY <4>1, <2>1, <1>0 DEF Nodes
      <4> QED BY <4>1, <4>2, <2>1, <1>l
    <3> QED BY <3>1, <3>2
  <2>2. CASE b # j
    <3>1. b < j
      BY <2>2, <1>0 DEF Nodes
    <3>2. CASE level[b] = 0
      BY <3>2, <2>2, <1>l
    <3>3. CASE level[b] # 0
      <4>1. PICK a \in Nodes : a < b /\ <<a, b>> \in ordered /\ level[b] = level[a] + 1
        BY <3>1, <3>3 DEF LoopInv, DoneTight
      <4>2. a # j
        BY <4>1, <3>1, <1>0 DEF Nodes
      <4> QED BY <4>1, <4>2, <2>2, <1>l
    <3> QED BY <3>2, <3>3
  <2> QED BY <2>1, <2>2
<1>4. BestAbove' /\ BestTight'
  BY <1>0 DEF BestAbove, BestTight, Nodes
<1> QED BY <1>1, <1>2, <1>3, <1>4 DEF LoopInv

LEMMA GroupLoop == LoopInv /\ Group => LoopInv'
BY DEF Group, LoopInv, LoopTypes, DoneRespects, DoneTight, BestAbove, BestTight, Nodes

LEMMA LoopStutter == LoopInv /\ UNCHANGED levelVars => LoopInv'
BY DEF levelVars, LoopInv, LoopTypes, DoneRespects, DoneTight, BestAbove, BestTight, Nodes

\* The loops' invariant holds in every state of every computation.
THEOREM LoopsInvariant == LevelsSpec => []LoopInv
<1>1. LoopInv /\ [LevelsNext]_levelVars => LoopInv'
  BY InnerLoop, OuterLoop, GroupLoop, LoopStutter DEF LevelsNext
<1> QED BY InitLoop, <1>1, PTL DEF LevelsSpec

\* compute_levels returns a level plan of the relation it was given, for any
\* number of nodes: conflicting nodes are on different levels, in registration
\* order, and no node waits for a level it does not need.
THEOREM LevelsAreAlwaysAPlan == LevelsSpec => []LevelsAreAPlan
<1>1. LoopInv => LevelsAreAPlan
  <2> SUFFICES ASSUME LoopInv, LoopsDone PROVE IsLevelPlan(Nodes, ordered, level)
    BY DEF LevelsAreAPlan
  <2>0. \A b \in Nodes : b < j
    BY DEF LoopsDone, Nodes, LoopInv, LoopTypes
  <2>1. Respects(Nodes, ordered, level)
    BY <2>0 DEF LoopInv, DoneRespects, Respects
  <2>2. Tight(Nodes, ordered, level)
    BY <2>0 DEF LoopInv, DoneTight, Tight
  <2> QED BY <2>1, <2>2 DEF IsLevelPlan
<1> QED BY <1>1, LoopsInvariant, PTL

-----------------------------------------------------------------------------
(* The lanes and their slots.                                              *)

LanesInv == LanesTypeOK /\ SlotSidesAgree

\* What a kernel, an upload or a run yields is lane data again (SmartBuffer).
LEMMA RunType ==
    ASSUME NEW k \in Kernels, NEW d \in Data
    PROVE  Run(k, d) \in Data
BY DEF Run, Data

LEMMA BufferTypes ==
    ASSUME NEW k \in Kernels, NEW b \in Buffer, NEW d \in Data
    PROVE  /\ NewBuffer(d) \in Buffer
           /\ CpuDataMut(b, d) \in Buffer
           /\ SyncToGpu(b) \in Buffer
           /\ DispatchGpu(b, k) \in Buffer
           /\ SyncToCpu(b) \in Buffer
<1>1. Run(k, b.gpu) \in Data
  BY RunType DEF Buffer
<1> QED
  BY <1>1 DEF NewBuffer, CpuDataMut, SyncToGpu, DispatchGpu, SyncToCpu, Buffer

\* A completed run leaves the kernel applied once to the CPU copy it found,
\* and both sides in a state the flags describe (AutoLane::execute).
LEMMA RunsOnce ==
    ASSUME NEW k \in Kernels, NEW b \in Buffer, SidesAgree(b),
           ~b.dirtyGpu \/ b.dirtyCpu
    PROVE  /\ ExecuteOnCpu(b, k) \in Buffer /\ ExecuteOnGpu(b, k) \in Buffer
           /\ SidesAgree(ExecuteOnCpu(b, k)) /\ SidesAgree(ExecuteOnGpu(b, k))
           /\ ExecuteOnCpu(b, k).cpu = Run(k, b.cpu)
           /\ ExecuteOnGpu(b, k).cpu = Run(k, b.cpu)
           /\ \A f \in FailedOnGpu(b, k) : f \in Buffer /\ SidesAgree(f)
<1>1. b.cpu \in Data /\ Run(k, b.cpu) \in Data
  BY RunType DEF Buffer
<1>2. SyncToGpu(b) \in Buffer /\ SyncToGpu(b).gpu = b.cpu
      /\ ~SyncToGpu(b).dirtyCpu
  <2>1. SyncToGpu(b) \in Buffer
    BY <1>1, BufferTypes
  <2>2. SyncToGpu(b).gpu = b.cpu /\ ~SyncToGpu(b).dirtyCpu
    BY DEF SyncToGpu, SidesAgree, Buffer
  <2> QED
    BY <2>1, <2>2
<1>3. DispatchGpu(SyncToGpu(b), k) \in Buffer
  BY <1>1, <1>2, BufferTypes
<1>4. /\ DispatchGpu(SyncToGpu(b), k).gpu = Run(k, b.cpu)
      /\ DispatchGpu(SyncToGpu(b), k).dirtyGpu
      /\ ~DispatchGpu(SyncToGpu(b), k).dirtyCpu
  BY <1>2 DEF DispatchGpu, Buffer
<1>5. ExecuteOnGpu(b, k) \in Buffer
  BY <1>1, <1>3, BufferTypes DEF ExecuteOnGpu
<1>6. ExecuteOnGpu(b, k).cpu = Run(k, b.cpu) /\ SidesAgree(ExecuteOnGpu(b, k))
  BY <1>3, <1>4 DEF ExecuteOnGpu, SyncToCpu, SidesAgree, Buffer
<1>7. /\ ExecuteOnCpu(b, k) \in Buffer
      /\ ExecuteOnCpu(b, k).cpu = Run(k, b.cpu)
      /\ SidesAgree(ExecuteOnCpu(b, k))
  BY <1>1 DEF ExecuteOnCpu, CpuDataMut, SidesAgree, Buffer
<1>8. \A f \in FailedOnGpu(b, k) : f \in Buffer /\ SidesAgree(f)
  BY <1>2, <1>3, <1>4 DEF FailedOnGpu, SidesAgree, Buffer
<1> QED
  BY <1>5, <1>6, <1>7, <1>8

\* The slot a call runs in holds the store's data on its CPU copy, whatever
\* an earlier failed call left behind (the refresh in GpuLanes::execute).
LEMMA RefreshedFromStore ==
    ASSUME LanesInv, NEW k \in Kernels, lane.len > 0
    PROVE  /\ Refreshed(k) \in [len : Lengths \ {0}, kernel : Kernels, buf : Buffer]
           /\ Refreshed(k).len = lane.len
           /\ Refreshed(k).buf.cpu = lane.data
           /\ SidesAgree(Refreshed(k).buf)
           /\ ~Refreshed(k).buf.dirtyGpu \/ Refreshed(k).buf.dirtyCpu
<1>1. lane.data \in Data /\ lane.len \in Lengths \ {0}
  BY LanesAssumption DEF LanesInv, LanesTypeOK
<1>2. CASE slot.len = lane.len
  <2>1. slot \in [len : Lengths \ {0}, kernel : Kernels, buf : Buffer]
    BY <1>1, <1>2 DEF LanesInv, LanesTypeOK, NoSlot
  <2>2. CpuDataMut(slot.buf, lane.data) \in Buffer
    BY <1>1, <2>1 DEF CpuDataMut, Buffer
  <2>3. /\ CpuDataMut(slot.buf, lane.data).cpu = lane.data
        /\ CpuDataMut(slot.buf, lane.data).dirtyCpu
    BY <2>1 DEF CpuDataMut, Buffer
  <2> QED
    BY <1>2, <2>1, <2>2, <2>3 DEF Refreshed, SidesAgree
<1>3. CASE slot.len # lane.len
  <2>1. NewBuffer(lane.data) \in Buffer
    BY <1>1 DEF NewBuffer, Buffer
  <2> QED
    BY <1>1, <1>3, <2>1 DEF Refreshed, NewBuffer, SidesAgree
<1> QED
  BY <1>2, <1>3

\* What an Execute step leaves in the slot.
LEMMA ExecutedSlot ==
    ASSUME LanesInv, NEW k \in Kernels, lane.len > 0
    PROVE  /\ Executed(k) \in [len : Lengths \ {0}, kernel : Kernels, buf : Buffer]
           /\ SidesAgree(Executed(k).buf)
           /\ Executed(k).buf.cpu =
                 Run(IF lane.len >= Threshold THEN Executed(k).kernel ELSE k,
                     lane.data)
<1> DEFINE r == Refreshed(k)
<1>1. /\ r \in [len : Lengths \ {0}, kernel : Kernels, buf : Buffer]
      /\ r.buf \in Buffer /\ r.kernel \in Kernels
      /\ r.buf.cpu = lane.data
      /\ SidesAgree(r.buf) /\ (~r.buf.dirtyGpu \/ r.buf.dirtyCpu)
  BY RefreshedFromStore
<1>2. CASE lane.len >= Threshold
  <2>1. /\ ExecuteOnGpu(r.buf, r.kernel) \in Buffer
        /\ SidesAgree(ExecuteOnGpu(r.buf, r.kernel))
        /\ ExecuteOnGpu(r.buf, r.kernel).cpu = Run(r.kernel, lane.data)
    BY <1>1, RunsOnce
  <2>2. Executed(k) = [r EXCEPT !.buf = ExecuteOnGpu(r.buf, r.kernel)]
    BY <1>2 DEF Executed
  <2> HIDE DEF r
  <2> QED
    BY <1>1, <1>2, <2>1, <2>2
<1>3. CASE ~(lane.len >= Threshold)
  <2>1. /\ ExecuteOnCpu(r.buf, k) \in Buffer
        /\ SidesAgree(ExecuteOnCpu(r.buf, k))
        /\ ExecuteOnCpu(r.buf, k).cpu = Run(k, lane.data)
    BY <1>1, RunsOnce
  <2>2. Executed(k) = [r EXCEPT !.buf = ExecuteOnCpu(r.buf, k)]
    BY <1>3 DEF Executed
  <2> HIDE DEF r
  <2> QED
    BY <1>1, <1>3, <2>1, <2>2
<1> QED
  BY <1>2, <1>3

LEMMA LanesInitInv == LanesInit => LanesInv
<1> SUFFICES ASSUME LanesInit PROVE LanesInv
  OBVIOUS
<1>1. Written(0) \in Data
  BY LanesAssumption DEF Written, Data
<1>2. lane \in [len : Lengths, data : Data]
  BY <1>1 DEF LanesInit
<1>3. slot \in [len : Lengths \ {0}, kernel : Kernels, buf : Buffer] \cup {NoSlot}
      /\ slot = NoSlot
  BY DEF LanesInit
<1>4. answer \in [kernel : Kernels, done : BOOLEAN]
  <2>1. PICK k \in Kernels : answer = Answer(k, TRUE)
    BY DEF LanesInit
  <2> QED
    BY <2>1 DEF Answer
<1>5. calls \in 0..MaxCalls /\ versions \in 0..MaxCalls
  BY LanesAssumption DEF LanesInit
<1> QED
  BY <1>2, <1>3, <1>4, <1>5 DEF LanesInv, LanesTypeOK, SlotSidesAgree

LEMMA LanesStepInv == LanesInv /\ [LanesNext]_lanesVars => LanesInv'
<1> SUFFICES ASSUME LanesInv, [LanesNext]_lanesVars PROVE LanesInv'
  OBVIOUS
<1>1. CASE WriteLane
  <2>1. Written(versions + 1) \in Data /\ versions + 1 \in 0..MaxCalls
    BY <1>1, LanesAssumption DEF WriteLane, LanesInv, LanesTypeOK, Written, Data
  <2> QED
    BY <1>1, <2>1 DEF WriteLane, LanesInv, LanesTypeOK, SlotSidesAgree
<1>2. ASSUME NEW k \in Kernels, ExecuteEmpty(k) PROVE LanesInv'
  BY <1>2, LanesAssumption
  DEF ExecuteEmpty, Calls, Answer, LanesInv, LanesTypeOK, SlotSidesAgree
<1>3. ASSUME NEW k \in Kernels, Execute(k) PROVE LanesInv'
  <2>1. /\ slot' \in [len : Lengths \ {0}, kernel : Kernels, buf : Buffer]
        /\ SidesAgree(slot'.buf)
        /\ slot' = Executed(k)
    BY <1>3, ExecutedSlot DEF Execute
  <2>2. slot'.buf.cpu \in Data
    BY <2>1 DEF Buffer
  <2>3. lane' \in [len : Lengths, data : Data]
    BY <1>3, <2>1, <2>2 DEF Execute, LanesInv, LanesTypeOK
  <2>4. /\ answer' \in [kernel : Kernels, done : BOOLEAN]
        /\ calls' \in 0..MaxCalls /\ versions' \in 0..MaxCalls
    BY <1>3, LanesAssumption DEF Execute, Calls, Answer, LanesInv, LanesTypeOK
  <2> QED
    BY <2>1, <2>3, <2>4 DEF LanesInv, LanesTypeOK, SlotSidesAgree
<1>4. ASSUME NEW k \in Kernels, ExecuteFails(k) PROVE LanesInv'
  <2> DEFINE r == Refreshed(k)
  <2>1. /\ r \in [len : Lengths \ {0}, kernel : Kernels, buf : Buffer]
        /\ r.buf \in Buffer /\ r.kernel \in Kernels
        /\ SidesAgree(r.buf) /\ (~r.buf.dirtyGpu \/ r.buf.dirtyCpu)
    BY <1>4, RefreshedFromStore DEF ExecuteFails
  <2>2. PICK f \in FailedOnGpu(r.buf, r.kernel) : slot' = [r EXCEPT !.buf = f]
    BY <1>4 DEF ExecuteFails
  <2>3. f \in Buffer /\ SidesAgree(f)
    BY <2>1, <2>2, RunsOnce
  <2>4. /\ slot' \in [len : Lengths \ {0}, kernel : Kernels, buf : Buffer]
        /\ SidesAgree(slot'.buf)
    <3> HIDE DEF r
    <3> QED BY <2>1, <2>2, <2>3
  <2>5. /\ answer' \in [kernel : Kernels, done : BOOLEAN]
        /\ calls' \in 0..MaxCalls /\ versions' \in 0..MaxCalls
        /\ lane' = lane
    BY <1>4, LanesAssumption DEF ExecuteFails, Calls, Answer, LanesInv, LanesTypeOK
  <2> QED
    BY <2>4, <2>5 DEF LanesInv, LanesTypeOK, SlotSidesAgree
<1>5. CASE UNCHANGED lanesVars
  BY <1>5 DEF lanesVars, LanesInv, LanesTypeOK, SlotSidesAgree
<1> QED
  BY <1>1, <1>2, <1>3, <1>4, <1>5 DEF LanesNext

\* The slot's flags always describe its sides (SmartBuffer under GpuLanes).
THEOREM FlagsTellTheStaleSide == LanesSpec => []LanesTypeOK /\ []SlotSidesAgree
<1>1. LanesInv => LanesTypeOK /\ SlotSidesAgree
  BY DEF LanesInv
<1> QED
  BY <1>1, LanesInitInv, LanesStepInv, PTL DEF LanesSpec

\* A completed call applies one kernel once to what the store holds, and a
\* failed one leaves the store as it was (GpuLanes::execute).
THEOREM EveryCallRunsOnce == LanesSpec => OneRunPerCall
<1> DEFINE Once == calls' # calls /\ lane.len > 0 =>
          lane' = IF answer'.done
                  THEN [lane EXCEPT !.data = Run(Applied(answer'.kernel), @)]
                  ELSE lane
<1>1. LanesInv /\ [LanesNext]_lanesVars => [Once]_lanesVars
  <2> SUFFICES ASSUME LanesInv, LanesNext PROVE Once
    BY DEF Once
  <2>1. CASE WriteLane
    BY <2>1 DEF WriteLane
  <2>2. ASSUME NEW k \in Kernels, ExecuteEmpty(k) PROVE Once
    BY <2>2 DEF ExecuteEmpty
  <2>3. ASSUME NEW k \in Kernels, Execute(k) PROVE Once
    <3>1. lane' = [lane EXCEPT !.data = Executed(k).buf.cpu]
          /\ slot' = Executed(k) /\ answer' = Answer(k, TRUE) /\ lane.len > 0
      BY <2>3 DEF Execute, Calls
    <3>2. Executed(k).buf.cpu = Run(Applied(k), lane.data)
      BY <3>1, ExecutedSlot DEF Applied
    <3> QED
      BY <3>1, <3>2 DEF Answer
  <2>4. ASSUME NEW k \in Kernels, ExecuteFails(k) PROVE Once
    BY <2>4 DEF ExecuteFails, Calls, Answer
  <2> QED
    BY <2>1, <2>2, <2>3, <2>4 DEF LanesNext
<1> QED
  BY <1>1, LanesInitInv, LanesStepInv, PTL DEF LanesSpec, OneRunPerCall
-----------------------------------------------------------------------------
(* compute_levels within a frame: the loop that collects the groups.       *)

\* So far the groups hold the nodes seen, each once and under its level.
GroupInv ==
  /\ grouped \in 0 .. n /\ (grouped # 0 => LoopsDone)
  /\ groups \in Seq(Seq(Nodes))
  /\ \A k \in 1 .. Len(groups) : \A x \in 1 .. Len(groups[k]) :
       groups[k][x] < grouped /\ level[groups[k][x]] = k - 1
  /\ \A p \in Nodes : p < grouped =>
       /\ level[p] + 1 \in 1 .. Len(groups)
       /\ \E x \in 1 .. Len(groups[level[p] + 1]) : groups[level[p] + 1][x] = p
  /\ \A k \in 1 .. Len(groups) : \A x, y \in 1 .. Len(groups[k]) :
       groups[k][x] = groups[k][y] => x = y

\* What compute_levels returns: each of the passes on one level, once, and
\* every edge from a lower level to a higher one.
Levelled(levels, size, edges) ==
  /\ levels \in Seq(Seq(0 .. size - 1))
  /\ \A p \in 0 .. size - 1 : \E k \in 1 .. Len(levels) : \E x \in 1 .. Len(levels[k]) : levels[k][x] = p
  /\ \A k, l \in 1 .. Len(levels) : \A x \in 1 .. Len(levels[k]) : \A y \in 1 .. Len(levels[l]) :
       levels[k][x] = levels[l][y] => k = l /\ x = y
  /\ \A e \in edges : \A k, l \in 1 .. Len(levels) :
       \A x \in 1 .. Len(levels[k]) : \A y \in 1 .. Len(levels[l]) :
         levels[k][x] = e[1] /\ levels[l][y] = e[2] => k < l

-----------------------------------------------------------------------------
(* The layout of a frame.                                                  *)

\* A layout compiled from the declarations of now.
IsCurrent(l) ==
  /\ [passes |-> l.passes, slots |-> l.slots, surface |-> l.surface] = Compiled
  /\ Levelled(l.levels, Len(Enabled), Edges(Enabled))

PlanTypes ==
  /\ passes \in Seq([access : Accesses, enabled : BOOLEAN])
  /\ generation \in Nat /\ cached.generation \in Int /\ cached.generation <= generation
  /\ \A x \in DOMAIN textures : textures[x] = [spec |-> textures[x].spec, size |-> textures[x].size]

\* The memoized layout is current if its generation is, and the level loops
\* have not run since.
CacheFresh ==
  cached.generation = generation =>
    /\ phase # "levels" /\ FitsBudget
    /\ IsCurrent(cached.layout) /\ groups = cached.layout.levels

LevelsInFrame ==
  /\ LoopInv /\ GroupInv
  /\ phase = "levels" => n = Len(Enabled) /\ ordered = Edges(Enabled)

\* The frame in progress.
FrameFresh ==
  /\ FitsBudget /\ phase \in {"prepare", "record", "passes"} =>
       IsCurrent(layout) /\ groups = layout.levels
  /\ phase = "record" =>
       /\ order \in Seq(Positions(layout.passes))
       /\ \A x, y \in 1 .. Len(order) : order[x] = order[y] => x = y
  /\ FitsBudget /\ phase = "passes" =>
       Len(order) = Len(Enabled) /\ Range(order) = Positions(Enabled)
  /\ phase \in {"record", "passes"} =>
       /\ DOMAIN textures = DOMAIN layout.slots
       /\ \A x \in DOMAIN textures :
            textures[x] = [spec |-> layout.slots[x].spec, size |-> layout.surface]

FrameInv == PlanTypes /\ LevelsInFrame /\ CacheFresh /\ FrameFresh

-----------------------------------------------------------------------------
(* The textures of a frame.                                                *)

\* Every pooled resource has a slot, and two of one slot are not alive at once.
Apart(enabled, slots) ==
  /\ \A r \in Pooled(enabled) : \E x \in DOMAIN slots : r \in slots[x].holds
  /\ \A x \in DOMAIN slots : \A r, s \in slots[x].holds :
       /\ r \in Pooled(enabled)
       /\ r # s => LastUse(enabled, r) < FirstUse(enabled, s) \/ LastUse(enabled, s) < FirstUse(enabled, r)

\* A layout of passes that are registered still.
Sound(l) ==
  /\ l.passes \in Seq(DOMAIN passes) /\ l.levels \in Seq(Seq(Nat))
  /\ Apart(l.passes, l.slots)

\* A texture holds what the last of the passes that ran wrote there.
LastWriters ==
  /\ \A q \in Positions(layout.passes) : q < at =>
       \A w \in Writes(layout.passes, q) :
         Home(w) \in DOMAIN content /\ q <= content[Home(w)].by
  /\ \A x \in DOMAIN content : \E q \in Positions(layout.passes) :
       q < at /\ \E w \in Writes(layout.passes, q) :
                   content[x] = [of |-> w, by |-> q] /\ Home(w) = x

SharingInv ==
  /\ passes \in Seq([access : Accesses, enabled : BOOLEAN])
  /\ Sound(layout) /\ Sound(cached.layout)
  /\ mode \in {"none", "execute", "parallel", "projected"}
  /\ phase = "record" =>
       /\ at = 0 /\ DOMAIN content = {}
       /\ order \in Seq(Positions(layout.passes))
       /\ \A x, y \in 1 .. Len(order) : order[x] = order[y] => x = y
  /\ phase = "passes" =>
       /\ at \in 0 .. Len(order) /\ DOMAIN order = 1 .. Len(order) /\ Len(order) \in Nat
       /\ mode = "parallel" => InRegistrationOrder
       /\ InRegistrationOrder => LastWriters

-----------------------------------------------------------------------------
(* What the lemmas below rest on. *)

\* A nonempty set of naturals has a least element.
LEMMA NatHasLeast ==
  ASSUME NEW S, S \subseteq Nat, S # {}
  PROVE  \E a \in S : \A b \in S : a <= b
  <1> DEFINE R == OpToRel(<, Nat)
  <1>1. \E a \in S : \A b \in S : ~(<<b, a>> \in R)
    BY NatLessThanWellFounded, WFMin, Zenon
  <1>2. ASSUME NEW a \in Nat, NEW b \in Nat, b < a
        PROVE  <<b, a>> \in R
    <2>1. <<b, a>> \in Nat \X Nat
      OBVIOUS
    <2>2. <<b, a>>[1] < <<b, a>>[2]
      BY <1>2
    <2> QED BY <2>1, <2>2 DEF OpToRel
  <1>3. PICK a \in S : \A b \in S : ~(<<b, a>> \in R)
    BY <1>1, Zenon
  <1> HIDE DEF R
  <1>4. \A b \in S : ~(b < a)
    BY <1>2, <1>3, Zenon
  <1> QED BY <1>4

\* What a layout is compiled from does not change within a frame.
LEMMA DeclarationsStay ==
  ASSUME UNCHANGED declarations
  PROVE  /\ Enabled' = Enabled /\ Compiled' = Compiled /\ FitsBudget' = FitsBudget
         /\ Edges(Enabled)' = Edges(Enabled)
  <1>1. passes' = passes /\ samples' = samples /\ surface' = surface /\ budget' = budget
        /\ ordering' = ordering
    BY DEF declarations
  <1>2. Enabled' = Enabled
    BY <1>1, Zenon DEF Enabled
  <1>3. {Lifetime(Enabled, r) : r \in Pooled(Enabled)}' = {Lifetime(Enabled, r) : r \in Pooled(Enabled)}
    BY <1>1, <1>2, Zenon
       DEF Pooled, Lifetime, Spec, FirstUse, LastUse, Users, Positions, Reads, Writes
  <1>4. ByLifetime(Enabled)' = ByLifetime(Enabled)
    BY <1>3, Zenon DEF ByLifetime
  <1>5. Compiled' = Compiled
    BY <1>1, <1>2, <1>4, Zenon DEF Compiled
  <1>6. Planned(Compiled.slots)' = Planned(Compiled.slots)
    BY <1>1, <1>5, Zenon DEF Planned
  <1>7. FitsBudget' = FitsBudget
    BY <1>1, <1>6, Zenon DEF FitsBudget
  <1>8. Edges(Enabled)' = Edges(Enabled)
    BY <1>1, <1>2, Zenon DEF Edges, Positions, Reads, Writes
  <1> QED BY <1>2, <1>5, <1>7, <1>8

-----------------------------------------------------------------------------
(* The loops within a frame. *)

\* One more node is grouped.
LEMMA GroupStep == LoopInv /\ GroupInv /\ Group => GroupInv'
  <1> SUFFICES ASSUME LoopInv, GroupInv, Group PROVE GroupInv'
    OBVIOUS
  <1>1. /\ n \in Nat /\ level \in [Nodes -> Nat] /\ grouped \in Nat /\ grouped < n
        /\ grouped \in Nodes /\ level[grouped] \in Nat /\ Nodes' = Nodes /\ level' = level
        /\ n' = n /\ grouped' = grouped + 1 /\ LoopsDone' /\ Nodes \subseteq Nat
    BY DEF LoopInv, LoopTypes, GroupInv, Group, Nodes, LoopsDone
  <1>2. PICK l \in Nat : l = level[grouped]
    BY <1>1
  <1>3. groups \in Seq(Seq(Nodes))
    BY DEF GroupInv
  <1>4. PICK r : r = Resized(l)
    OBVIOUS
  <1>5. PICK len \in Nat : len = (IF Len(groups) <= l THEN l + 1 ELSE Len(groups))
    BY <1>3
  <1>6. /\ r = [k \in 1 .. len |-> IF k <= Len(groups) THEN groups[k] ELSE <<>>]
        /\ l + 1 \in 1 .. len /\ Len(groups) <= len /\ Len(groups) \in Nat
    BY <1>3, <1>4, <1>5 DEF Resized
  <1>7. \A k \in 1 .. len : r[k] \in Seq(Nodes)
    BY <1>3, <1>6
  <1>8. r \in Seq(Seq(Nodes)) /\ Len(r) = len /\ DOMAIN r = 1 .. len
    BY <1>6, <1>7
  <1>9. groups' = [r EXCEPT ![l + 1] = Append(@, grouped)]
    BY <1>2, <1>4 DEF Group
  <1>10. PICK old \in Seq(Nodes) : old = r[l + 1]
    BY <1>6, <1>7
  <1>11. PICK new \in Seq(Nodes) : new = Append(old, grouped)
    <2>1. grouped \in Nodes
      BY <1>1
    <2>2. Append(old, grouped) \in Seq(Nodes)
      BY <2>1, AppendProperties
    <2> QED BY <2>2
  <1>12. /\ groups' \in Seq(Seq(Nodes)) /\ Len(groups') = len /\ groups'[l + 1] = new
         /\ \A k \in 1 .. len : k # l + 1 => groups'[k] = r[k]
    BY <1>6, <1>8, <1>9, <1>10, <1>11
  <1>13. /\ Len(new) = Len(old) + 1 /\ new[Len(old) + 1] = grouped /\ Len(old) \in Nat
         /\ \A x \in 1 .. Len(old) : new[x] = old[x]
    BY <1>1, <1>11
  <1>14. ASSUME NEW k \in 1 .. len
         PROVE  \/ r[k] = groups[k] /\ k \in 1 .. Len(groups)
                \/ r[k] = <<>> /\ Len(r[k]) = 0
    BY <1>6
  <1>15. ASSUME NEW k \in 1 .. len, NEW x \in 1 .. Len(r[k])
         PROVE  /\ k \in 1 .. Len(groups) /\ x \in 1 .. Len(groups[k]) /\ r[k][x] = groups[k][x]
                /\ r[k][x] < grouped /\ level[r[k][x]] = k - 1 /\ r[k][x] \in Nat
    <2>1. r[k] = groups[k] /\ k \in 1 .. Len(groups)
      BY <1>14
    <2>2. r[k][x] \in Nodes
      BY <1>7
    <2> QED BY <1>1, <2>1, <2>2 DEF GroupInv
  <1>16. ASSUME NEW k \in 1 .. len, k # l + 1, NEW x \in 1 .. Len(groups'[k])
         PROVE  groups'[k][x] < grouped + 1 /\ level[groups'[k][x]] = k - 1
    <2>1. groups'[k] = r[k] /\ x \in 1 .. Len(r[k])
      BY <1>12, <1>16
    <2>2. r[k][x] < grouped /\ level[r[k][x]] = k - 1 /\ r[k][x] \in Nat
      BY <1>15, <2>1
    <2>3. grouped \in Nat
      BY <1>1
    <2> QED BY <2>1, <2>2, <2>3
  <1>17. ASSUME NEW x \in 1 .. Len(new)
         PROVE  new[x] < grouped + 1 /\ level[new[x]] = l
    <2>1. CASE x \in 1 .. Len(old)
      <3>1. old = r[l + 1] /\ l + 1 \in 1 .. len /\ (l + 1) - 1 = l
        BY <1>6, <1>10
      <3>2. old[x] < grouped /\ level[old[x]] = l /\ old[x] \in Nat
        BY <1>15, <2>1, <3>1
      <3>3. new[x] = old[x] /\ grouped \in Nat
        BY <1>1, <1>13, <2>1
      <3> QED BY <3>2, <3>3
    <2>2. CASE x = Len(old) + 1
      BY <1>1, <1>2, <1>13, <2>2
    <2> QED BY <1>13, <2>1, <2>2
  <1>18. ASSUME NEW k \in 1 .. len, NEW x \in 1 .. Len(groups'[k])
         PROVE  groups'[k][x] < grouped + 1 /\ level[groups'[k][x]] = k - 1
    <2>1. CASE k = l + 1
      BY <1>12, <1>17, <2>1
    <2> QED BY <1>16, <2>1
  <1>19. ASSUME NEW p \in Nodes, p < grouped + 1
         PROVE  /\ level[p] + 1 \in 1 .. len
                /\ \E x \in 1 .. Len(groups'[level[p] + 1]) : groups'[level[p] + 1][x] = p
    <2>1. CASE p = grouped
      <3>1. Len(old) + 1 \in 1 .. Len(new)
        BY <1>13
      <3> QED BY <1>2, <1>6, <1>12, <1>13, <2>1, <3>1
    <2>2. CASE p # grouped
      <3>0. p \in Nat /\ grouped \in Nat /\ level[p] \in Nat
        BY <1>1
      <3>1. p < grouped /\ level[p] \in Nat
        BY <1>19, <2>2, <3>0
      <3>2. level[p] + 1 \in 1 .. Len(groups)
        BY <3>1 DEF GroupInv
      <3>3. PICK x \in 1 .. Len(groups[level[p] + 1]) : groups[level[p] + 1][x] = p
        BY <3>1 DEF GroupInv
      <3>4. level[p] + 1 \in 1 .. len /\ r[level[p] + 1] = groups[level[p] + 1]
        BY <1>6, <3>2
      <3>5. CASE level[p] = l
        <4>1. x \in 1 .. Len(old) /\ old[x] = p
          BY <1>10, <3>3, <3>4, <3>5
        <4>2. x \in 1 .. Len(new) /\ new[x] = p
          BY <1>13, <4>1
        <4> QED BY <1>12, <3>4, <3>5, <4>2
      <3>6. CASE level[p] # l
        <4>1. groups'[level[p] + 1] = groups[level[p] + 1]
          BY <1>2, <1>12, <3>1, <3>4, <3>6
        <4> QED BY <3>3, <3>4, <4>1
      <3> QED BY <3>5, <3>6
    <2> QED BY <2>1, <2>2
  <1>20. ASSUME NEW k \in 1 .. len, NEW x \in 1 .. Len(r[k]), NEW y \in 1 .. Len(r[k]),
                r[k][x] = r[k][y]
         PROVE  x = y
    <2>1. /\ k \in 1 .. Len(groups) /\ x \in 1 .. Len(groups[k]) /\ y \in 1 .. Len(groups[k])
          /\ groups[k][x] = groups[k][y]
      BY <1>15, <1>20
    <2> QED BY <2>1 DEF GroupInv
  <1>21. ASSUME NEW k \in 1 .. len, NEW x \in 1 .. Len(groups'[k]), NEW y \in 1 .. Len(groups'[k]),
                groups'[k][x] = groups'[k][y]
         PROVE  x = y
    <2>1. CASE k # l + 1
      BY <1>12, <1>20, <1>21, <2>1
    <2>2. CASE k = l + 1
      <3>1. x \in 1 .. Len(new) /\ y \in 1 .. Len(new) /\ new[x] = new[y]
        BY <1>12, <1>21, <2>2
      <3>2. ASSUME NEW z \in 1 .. Len(old) PROVE new[z] = r[k][z] /\ z \in 1 .. Len(r[k]) /\ new[z] # grouped
        BY <1>1, <1>10, <1>13, <1>15, <2>2
      <3>3. CASE x \in 1 .. Len(old) /\ y \in 1 .. Len(old)
        BY <1>20, <3>1, <3>2, <3>3
      <3>4. CASE ~(x \in 1 .. Len(old) /\ y \in 1 .. Len(old))
        BY <1>13, <3>1, <3>2, <3>4
      <3> QED BY <3>3, <3>4
    <2> QED BY <2>1, <2>2
  <1>22. (grouped \in 0 .. n)' /\ (grouped # 0 => LoopsDone)'
    BY <1>1
  <1> QED BY <1>1, <1>12, <1>18, <1>19, <1>21, <1>22 DEF GroupInv

\* While the levels are computed no node is grouped.
LEMMA GroupWaits == LoopInv /\ GroupInv /\ (Inner \/ Outer) => GroupInv'
  <1> SUFFICES ASSUME LoopInv, GroupInv, Inner \/ Outer PROVE GroupInv'
    OBVIOUS
  <1>1. /\ n' = n /\ Nodes' = Nodes /\ groups' = groups /\ grouped' = grouped /\ grouped = 0
        /\ Nodes \subseteq Nat /\ groups \in Seq(Seq(Nodes)) /\ n \in Nat
    BY DEF LoopInv, LoopTypes, GroupInv, Inner, Outer, LoopsDone, Nodes
  <1>2. \A k \in 1 .. Len(groups) : Len(groups[k]) = 0
    <2> SUFFICES ASSUME NEW k \in 1 .. Len(groups), Len(groups[k]) # 0 PROVE FALSE
      OBVIOUS
    <2>1. groups[k] \in Seq(Nodes) /\ 1 \in 1 .. Len(groups[k])
      BY <1>1
    <2>2. groups[k][1] \in Nat
      <3>1. groups[k][1] \in Nodes
        BY <2>1
      <3> QED BY <1>1, <3>1
    <2> QED BY <1>1, <2>1, <2>2 DEF GroupInv
  <1> QED BY <1>1, <1>2 DEF GroupInv

\* When the loops are through, the groups are the level plan.
LEMMA GroupsAreLevels ==
  ASSUME LoopInv, GroupInv, Finished
  PROVE  Levelled(groups, n, ordered)
  <1>1. /\ n \in Nat /\ Nodes = 0 .. n - 1 /\ groups \in Seq(Seq(Nodes)) /\ grouped = n
        /\ level \in [Nodes -> Nat] /\ ordered \subseteq {p \in Nodes \X Nodes : p[1] < p[2]}
        /\ \A b \in Nodes : b < j
    BY DEF LoopInv, LoopTypes, GroupInv, Finished, LoopsDone, Nodes
  <1>2. ASSUME NEW k \in 1 .. Len(groups), NEW x \in 1 .. Len(groups[k])
        PROVE  groups[k][x] \in Nodes /\ level[groups[k][x]] = k - 1
    <2>1. groups[k] \in Seq(Nodes)
      BY <1>1
    <2> QED BY <2>1 DEF GroupInv
  <1>3. ASSUME NEW p \in Nodes
        PROVE  \E k \in 1 .. Len(groups) : \E x \in 1 .. Len(groups[k]) : groups[k][x] = p
    <2>1. p < grouped
      BY <1>1
    <2> QED BY <2>1 DEF GroupInv
  <1>4. ASSUME NEW k \in 1 .. Len(groups), NEW l \in 1 .. Len(groups),
               NEW x \in 1 .. Len(groups[k]), NEW y \in 1 .. Len(groups[l]),
               groups[k][x] = groups[l][y]
        PROVE  k = l /\ x = y
    <2>1. k - 1 = l - 1
      BY <1>2, <1>4
    <2>2. k = l
      BY <1>1, <2>1
    <2> QED BY <1>4, <2>2 DEF GroupInv
  <1>5. ASSUME NEW e \in ordered, NEW k \in 1 .. Len(groups), NEW l \in 1 .. Len(groups),
               NEW x \in 1 .. Len(groups[k]), NEW y \in 1 .. Len(groups[l]),
               groups[k][x] = e[1], groups[l][y] = e[2]
        PROVE  k < l
    <2>1. e \in Nodes \X Nodes /\ e[1] < e[2] /\ e = <<e[1], e[2]>> /\ e[2] < j
      BY <1>1
    <2>2. level[e[1]] < level[e[2]]
      BY <2>1 DEF LoopInv, DoneRespects
    <2>3. k - 1 < l - 1
      BY <1>2, <1>5, <2>2
    <2>4. k \in Int /\ l \in Int
      OBVIOUS
    <2> QED BY <2>3, <2>4
  <1>6. groups \in Seq(Seq(0 .. n - 1))
    BY <1>1
  <1>7. \A p \in 0 .. n - 1 :
          \E k \in 1 .. Len(groups) : \E x \in 1 .. Len(groups[k]) : groups[k][x] = p
    BY <1>1, <1>3
  <1> QED BY <1>4, <1>5, <1>6, <1>7, Zenon DEF Levelled

-----------------------------------------------------------------------------
(* What the recursive functions of a frame compute. *)

KeptTo(m, f) ==
  f = [k \in 0 .. m |->
         IF k = 0 THEN <<>>
         ELSE IF passes[k].enabled THEN Append(f[k - 1], k) ELSE f[k - 1]]

LEMMA KeptExist == ASSUME NEW m \in Nat PROVE \E f : KeptTo(m, f)
  <1> DEFINE T == {k \in Nat : ~\E f : KeptTo(k, f)}
  <1> SUFFICES ASSUME T # {} PROVE FALSE
    OBVIOUS
  <1>1. PICK k \in T : \A l \in T : k <= l
    BY NatHasLeast
  <1>2. KeptTo(0, [x \in 0 .. 0 |-> <<>>])
    BY DEF KeptTo
  <1>3. k \in Nat /\ k # 0
    BY <1>2
  <1>4. k - 1 \in Nat /\ k - 1 \notin T
    BY <1>1, <1>3
  <1>5. PICK g : KeptTo(k - 1, g)
    BY <1>4
  <1>6. PICK last : last = IF passes[k].enabled THEN Append(g[k - 1], k) ELSE g[k - 1]
    OBVIOUS
  <1>7. PICK f : f = [x \in 0 .. k |-> IF x = k THEN last ELSE g[x]]
    OBVIOUS
  <1>8. \A x \in 0 .. k - 1 :
          /\ f[x] = g[x]
          /\ g[x] = IF x = 0 THEN <<>>
                    ELSE IF passes[x].enabled THEN Append(g[x - 1], x) ELSE g[x - 1]
    <2>1. \A x \in 0 .. k - 1 : f[x] = g[x]
      BY <1>3, <1>7
    <2> QED BY <1>5, <2>1, Zenon DEF KeptTo
  <1>9. ASSUME NEW x \in 0 .. k
        PROVE  f[x] = IF x = 0 THEN <<>>
                      ELSE IF passes[x].enabled THEN Append(f[x - 1], x) ELSE f[x - 1]
    <2>1. CASE x = k
      <3>1. k - 1 \in 0 .. k - 1 /\ f[k - 1] = g[k - 1] /\ f[k] = last
        BY <1>3, <1>7, <1>8
      <3> QED BY <1>3, <1>6, <2>1, <3>1
    <2>2. CASE x # k /\ x # 0
      <3>1. x \in 0 .. k - 1 /\ x - 1 \in 0 .. k - 1
        BY <1>3, <2>2
      <3> QED BY <1>8, <2>2, <3>1
    <2>3. CASE x # k /\ x = 0
      <3>1. x \in 0 .. k - 1
        BY <1>3, <2>3
      <3> QED BY <1>8, <2>3, <3>1
    <2> QED BY <2>1, <2>2, <2>3
  <1>10. KeptTo(k, f)
    BY <1>7, <1>9, Zenon DEF KeptTo
  <1> QED BY <1>1, <1>10

\* A layout's passes are registered ones.
LEMMA EnabledType ==
  ASSUME passes \in Seq([access : Accesses, enabled : BOOLEAN])
  PROVE  Enabled \in Seq(DOMAIN passes) /\ Len(Enabled) \in Nat
  <1>1. Len(passes) \in Nat /\ DOMAIN passes = 1 .. Len(passes)
    OBVIOUS
  <1> DEFINE f == CHOOSE f : KeptTo(Len(passes), f)
  <1>2. KeptTo(Len(passes), f)
    BY <1>1, KeptExist, Zenon
  <1>3. Enabled = f[Len(passes)]
    BY Zenon DEF Enabled, KeptTo
  <1>4. PICK g : g = f
    OBVIOUS
  <1> HIDE DEF f
  <1>5. \A k \in 0 .. Len(passes) :
          g[k] = IF k = 0 THEN <<>>
                 ELSE IF passes[k].enabled THEN Append(g[k - 1], k) ELSE g[k - 1]
    BY <1>1, <1>2, <1>4 DEF KeptTo
  <1> DEFINE T == {k \in Nat : k <= Len(passes) /\ g[k] \notin Seq(DOMAIN passes)}
  <1>6. ASSUME T # {} PROVE FALSE
    <2>1. PICK k \in T : \A l \in T : k <= l
      BY <1>6, NatHasLeast
    <2>2. k # 0
      <3>0. 0 \in 0 .. Len(passes)
        BY <1>1
      <3>1. g[0] = <<>>
        BY <1>5, <3>0, Zenon
      <3>2. <<>> \in Seq(DOMAIN passes)
        BY EmptySeq
      <3> QED BY <2>1, <3>1, <3>2
    <2>3. k - 1 \in Nat /\ k - 1 <= Len(passes) /\ k - 1 \notin T /\ k \in DOMAIN passes
      BY <1>1, <2>1, <2>2
    <2>4. g[k - 1] \in Seq(DOMAIN passes)
      BY <2>3
    <2>5. Append(g[k - 1], k) \in Seq(DOMAIN passes)
      BY <2>3, <2>4, AppendProperties
    <2>6. g[k] = IF passes[k].enabled THEN Append(g[k - 1], k) ELSE g[k - 1]
      BY <1>1, <1>5, <2>2, <2>3
    <2> QED BY <2>1, <2>4, <2>5, <2>6
  <1>7. g[Len(passes)] \in Seq(DOMAIN passes)
    BY <1>1, <1>6
  <1> QED BY <1>3, <1>4, <1>7

JoinedTo(levels, m, f) ==
  f = [k \in 0 .. m |-> IF k = 0 THEN <<>> ELSE f[k - 1] \o levels[k]]

LEMMA JoinedExist == ASSUME NEW levels, NEW m \in Nat PROVE \E f : JoinedTo(levels, m, f)
  <1> DEFINE T == {k \in Nat : ~\E f : JoinedTo(levels, k, f)}
  <1> SUFFICES ASSUME T # {} PROVE FALSE
    OBVIOUS
  <1>1. PICK k \in T : \A l \in T : k <= l
    BY NatHasLeast
  <1>2. JoinedTo(levels, 0, [x \in 0 .. 0 |-> <<>>])
    BY DEF JoinedTo
  <1>3. k \in Nat /\ k # 0
    BY <1>2
  <1>4. k - 1 \in Nat /\ k - 1 \notin T
    BY <1>1, <1>3
  <1>5. PICK g : JoinedTo(levels, k - 1, g)
    BY <1>4
  <1>6. PICK last : last = g[k - 1] \o levels[k]
    OBVIOUS
  <1>7. PICK f : f = [x \in 0 .. k |-> IF x = k THEN last ELSE g[x]]
    OBVIOUS
  <1>8. \A x \in 0 .. k - 1 :
          f[x] = g[x] /\ g[x] = IF x = 0 THEN <<>> ELSE g[x - 1] \o levels[x]
    BY <1>3, <1>5, <1>7 DEF JoinedTo
  <1>9. ASSUME NEW x \in 0 .. k
        PROVE  f[x] = IF x = 0 THEN <<>> ELSE f[x - 1] \o levels[x]
    <2>1. CASE x = k
      <3>1. k - 1 \in 0 .. k - 1 /\ f[k - 1] = g[k - 1] /\ f[k] = last
        BY <1>3, <1>7, <1>8
      <3> QED BY <1>3, <1>6, <2>1, <3>1
    <2>2. CASE x # k /\ x # 0
      <3>1. x \in 0 .. k - 1 /\ x - 1 \in 0 .. k - 1
        BY <1>3, <2>2
      <3> QED BY <1>8, <2>2, <3>1
    <2>3. CASE x # k /\ x = 0
      <3>1. x \in 0 .. k - 1
        BY <1>3, <2>3
      <3> QED BY <1>8, <2>3, <3>1
    <2> QED BY <2>1, <2>2, <2>3
  <1>10. JoinedTo(levels, k, f)
    BY <1>7, <1>9, Zenon DEF JoinedTo
  <1> QED BY <1>1, <1>10

\* The sequence lists what is in the first m levels, each once.
Lists(s, levels, m) ==
  /\ \A y \in 1 .. Len(s) : \E k \in 1 .. m : \E x \in 1 .. Len(levels[k]) : s[y] = levels[k][x]
  /\ \A k \in 1 .. m : \A x \in 1 .. Len(levels[k]) : \E y \in 1 .. Len(s) : s[y] = levels[k][x]
  /\ \A y, z \in 1 .. Len(s) : s[y] = s[z] => y = z

\* One more level is joined.
LEMMA ListsGrow ==
  ASSUME NEW S, NEW levels \in Seq(Seq(S)), NEW m \in 1 .. Len(levels), NEW s \in Seq(S),
         Lists(s, levels, m - 1),
         \A k, l \in 1 .. Len(levels) : \A x \in 1 .. Len(levels[k]) : \A y \in 1 .. Len(levels[l]) :
           levels[k][x] = levels[l][y] => k = l /\ x = y,
         NEW t, t = s \o levels[m]
  PROVE  t \in Seq(S) /\ Lists(t, levels, m)
  <1>1. PICK u \in Seq(S) : u = levels[m]
    OBVIOUS
  <1>2. /\ t \in Seq(S) /\ Len(t) = Len(s) + Len(u) /\ Len(s) \in Nat /\ Len(u) \in Nat
        /\ \A x \in 1 .. Len(s) : t[x] = s[x]
        /\ \A x \in 1 .. Len(u) : t[Len(s) + x] = u[x]
    BY <1>1
  <1>3. m \in Nat /\ m # 0 /\ Len(levels) \in Nat /\ m <= Len(levels)
    OBVIOUS
  <1>4. ASSUME NEW y \in 1 .. Len(t)
        PROVE  \/ y \in 1 .. Len(s) /\ t[y] = s[y]
               \/ \E x \in 1 .. Len(u) : y = Len(s) + x /\ t[y] = u[x]
    <2>1. CASE y <= Len(s)
      BY <1>2, <2>1
    <2>2. CASE ~(y <= Len(s))
      <3>1. y - Len(s) \in 1 .. Len(u) /\ y = Len(s) + (y - Len(s))
        BY <1>2, <2>2
      <3> QED BY <1>2, <3>1
    <2> QED BY <2>1, <2>2
  <1>5. ASSUME NEW y \in 1 .. Len(s)
        PROVE  \E k \in 1 .. m - 1 : \E x \in 1 .. Len(levels[k]) : s[y] = levels[k][x]
    BY DEF Lists
  <1>6. ASSUME NEW y \in 1 .. Len(s), NEW x \in 1 .. Len(u)
        PROVE  s[y] # u[x]
    <2>0. PICK k \in 1 .. m - 1 : \E z \in 1 .. Len(levels[k]) : s[y] = levels[k][z]
      BY <1>5
    <2>1. PICK z \in 1 .. Len(levels[k]) : s[y] = levels[k][z]
      BY <2>0
    <2>2. k \in 1 .. Len(levels) /\ k # m
      BY <1>3
    <2>3. levels[k][z] = levels[m][x] => k = m
      BY <1>1, <2>2
    <2> QED BY <1>1, <2>1, <2>2, <2>3
  <1>7. ASSUME NEW x \in 1 .. Len(u), NEW y \in 1 .. Len(u), u[x] = u[y] PROVE x = y
    BY <1>1, <1>7
  <1>8. ASSUME NEW y \in 1 .. Len(t)
        PROVE  \E k \in 1 .. m : \E x \in 1 .. Len(levels[k]) : t[y] = levels[k][x]
    <2>1. CASE y \in 1 .. Len(s) /\ t[y] = s[y]
      <3>0. PICK k \in 1 .. m - 1 : \E x \in 1 .. Len(levels[k]) : s[y] = levels[k][x]
        BY <1>5, <2>1
      <3>1. PICK x \in 1 .. Len(levels[k]) : s[y] = levels[k][x]
        BY <3>0
      <3>2. k \in 1 .. m
        BY <1>3
      <3> QED BY <2>1, <3>1, <3>2
    <2>2. CASE \E x \in 1 .. Len(u) : y = Len(s) + x /\ t[y] = u[x]
      <3>1. m \in 1 .. m
        BY <1>3
      <3> QED BY <1>1, <2>2, <3>1
    <2> QED BY <1>4, <2>1, <2>2
  <1>9. ASSUME NEW k \in 1 .. m, NEW x \in 1 .. Len(levels[k])
        PROVE  \E y \in 1 .. Len(t) : t[y] = levels[k][x]
    <2>1. CASE k = m
      <3>1. x \in 1 .. Len(u) /\ Len(s) + x \in 1 .. Len(t) /\ t[Len(s) + x] = u[x]
        BY <1>1, <1>2, <2>1
      <3> QED BY <1>1, <2>1, <3>1
    <2>2. CASE k # m
      <3>1. k \in 1 .. m - 1
        BY <1>3, <2>2
      <3>2. PICK y \in 1 .. Len(s) : s[y] = levels[k][x]
        BY <3>1 DEF Lists
      <3>3. y \in 1 .. Len(t) /\ t[y] = s[y]
        BY <1>2
      <3> QED BY <3>2, <3>3
    <2> QED BY <2>1, <2>2
  <1>10. ASSUME NEW y \in 1 .. Len(t), NEW z \in 1 .. Len(t), t[y] = t[z] PROVE y = z
    <2>0. \A a, b \in 1 .. Len(s) : s[a] = s[b] => a = b
      BY DEF Lists
    <2>1. CASE y \in 1 .. Len(s) /\ t[y] = s[y] /\ z \in 1 .. Len(s) /\ t[z] = s[z]
      BY <1>10, <2>0, <2>1
    <2>2. ASSUME NEW a \in 1 .. Len(u), y = Len(s) + a, t[y] = u[a],
                 NEW b \in 1 .. Len(u), z = Len(s) + b, t[z] = u[b]
          PROVE  y = z
      <3>1. u[a] = u[b]
        BY <1>10, <2>2
      <3>2. a = b
        BY <1>7, <3>1
      <3> QED BY <2>2, <3>2
    <2>3. ASSUME NEW a \in 1 .. Len(s), NEW b \in 1 .. Len(u) PROVE s[a] # u[b]
      BY <1>6
    <2>4. CASE y \in 1 .. Len(s) /\ t[y] = s[y]
      <3>1. CASE z \in 1 .. Len(s) /\ t[z] = s[z]
        BY <2>1, <2>4, <3>1
      <3>2. CASE \E b \in 1 .. Len(u) : z = Len(s) + b /\ t[z] = u[b]
        BY <1>10, <2>3, <2>4, <3>2
      <3> QED BY <1>4, <3>1, <3>2
    <2>5. CASE \E a \in 1 .. Len(u) : y = Len(s) + a /\ t[y] = u[a]
      <3>1. CASE z \in 1 .. Len(s) /\ t[z] = s[z]
        BY <1>10, <2>3, <2>5, <3>1
      <3>2. CASE \E b \in 1 .. Len(u) : z = Len(s) + b /\ t[z] = u[b]
        BY <2>2, <2>5, <3>2
      <3> QED BY <1>4, <3>1, <3>2
    <2> QED BY <1>4, <2>4, <2>5
  <1> QED BY <1>2, <1>8, <1>9, <1>10 DEF Lists

\* The level order has each pass once.
LEMMA FlattenedLists ==
  ASSUME NEW size \in Nat, NEW levels, NEW edges, Levelled(levels, size, edges),
         NEW s, s = Flattened(levels)
  PROVE  /\ s \in Seq(0 .. size - 1)
         /\ Len(s) = size
         /\ Range(s) = 0 .. size - 1
  <1> DEFINE S == 0 .. size - 1
  <1>0. levels \in Seq(Seq(S)) /\ Len(levels) \in Nat
    BY DEF Levelled
  <1> DEFINE f == CHOOSE f : JoinedTo(levels, Len(levels), f)
  <1>2. JoinedTo(levels, Len(levels), f)
    BY <1>0, JoinedExist, Zenon
  <1>3. Flattened(levels) = f[Len(levels)]
    BY Zenon DEF Flattened, JoinedTo
  <1>4. PICK g : g = f
    OBVIOUS
  <1> HIDE DEF f
  <1>5. \A k \in 0 .. Len(levels) : g[k] = IF k = 0 THEN <<>> ELSE g[k - 1] \o levels[k]
    BY <1>0, <1>2, <1>4 DEF JoinedTo
  <1> DEFINE T == {k \in Nat : k <= Len(levels) /\ ~(g[k] \in Seq(S) /\ Lists(g[k], levels, k))}
  <1>6. ASSUME T # {} PROVE FALSE
    <2>1. PICK k \in T : \A l \in T : k <= l
      BY <1>6, NatHasLeast
    <2>2. k # 0
      <3>0. 0 \in 0 .. Len(levels)
        BY <1>0
      <3>1. g[0] = <<>>
        BY <1>5, <3>0, Zenon
      <3>2. PICK none \in Seq(S) : none = <<>> /\ Len(none) = 0
        BY EmptySeq
      <3>3. Lists(none, levels, 0)
        BY <3>2 DEF Lists
      <3> QED BY <2>1, <3>1, <3>2, <3>3
    <2>3. k - 1 \in Nat /\ k - 1 <= Len(levels) /\ k - 1 \notin T /\ k \in 1 .. Len(levels)
      BY <1>0, <2>1, <2>2
    <2>4. g[k - 1] \in Seq(S) /\ Lists(g[k - 1], levels, k - 1)
      BY <2>3
    <2>5. g[k] = g[k - 1] \o levels[k]
      <3>1. k \in 0 .. Len(levels)
        BY <1>0, <2>3
      <3> QED BY <1>5, <2>2, <3>1
    <2>6. g[k] \in Seq(S) /\ Lists(g[k], levels, k)
      <3>1. \A a, l \in 1 .. Len(levels) : \A x \in 1 .. Len(levels[a]) : \A y \in 1 .. Len(levels[l]) :
              levels[a][x] = levels[l][y] => a = l /\ x = y
        BY DEF Levelled
      <3>2. PICK s1 \in Seq(S) : s1 = g[k - 1] /\ Lists(s1, levels, k - 1)
        BY <2>4
      <3>3. PICK s2 : s2 = s1 \o levels[k]
        OBVIOUS
      <3> HIDE DEF T, S
      <3>4. s2 \in Seq(S) /\ Lists(s2, levels, k)
        BY <1>0, <2>3, <3>1, <3>2, <3>3, ListsGrow
      <3> QED BY <2>5, <3>2, <3>3, <3>4
    <2> QED BY <2>1, <2>6
  <1>7. s \in Seq(S) /\ Lists(s, levels, Len(levels))
    BY <1>0, <1>3, <1>4, <1>6
  <1>8. \A p \in S : \E y \in 1 .. Len(s) : s[y] = p
    <2> SUFFICES ASSUME NEW p \in S PROVE \E y \in 1 .. Len(s) : s[y] = p
      OBVIOUS
    <2>0. PICK k \in 1 .. Len(levels) : \E x \in 1 .. Len(levels[k]) : levels[k][x] = p
      BY DEF Levelled
    <2>1. PICK x \in 1 .. Len(levels[k]) : levels[k][x] = p
      BY <2>0
    <2> QED BY <1>7, <2>1 DEF Lists
  <1>9. s \in [1 .. Len(s) -> S] /\ Len(s) \in Nat
    BY <1>7
  <1>10. s \in Bijection(1 .. Len(s), S)
    BY <1>7, <1>8, <1>9 DEF Bijection, Injection, Surjection, IsInjective, Lists
  <1>11. Cardinality(S) = Cardinality(1 .. Len(s))
    <2>1. IsFiniteSet(1 .. Len(s))
      BY <1>9, FS_Interval
    <2>2. ExistsBijection(1 .. Len(s), S)
      BY <1>10 DEF ExistsBijection
    <2> QED BY <2>1, <2>2, FS_Bijection
  <1>12. Cardinality(S) = size
    <2>1. size - 1 \in Int /\ 0 \in Int
      OBVIOUS
    <2>2. Cardinality(0 .. size - 1) = IF 0 > size - 1 THEN 0 ELSE size - 1 - 0 + 1
      BY <2>1, FS_Interval
    <2> QED BY <2>2
  <1>13. Cardinality(1 .. Len(s)) = Len(s)
    <2>1. Len(s) \in Int /\ 1 \in Int
      BY <1>9
    <2>2. Cardinality(1 .. Len(s)) = IF 1 > Len(s) THEN 0 ELSE Len(s) - 1 + 1
      BY <2>1, FS_Interval
    <2> QED BY <1>9, <2>2
  <1>14. Range(s) = S
    BY <1>8, <1>9 DEF Range
  <1> QED BY <1>7, <1>11, <1>12, <1>13, <1>14

-----------------------------------------------------------------------------
(* A frame is drawn with the layout of the declarations. *)

\* The command buffers of all passes, sorted by index.
LEMMA SortedPositions ==
  ASSUME NEW size \in Nat, NEW o \in Seq(0 .. size - 1), Len(o) = size,
         \A x, y \in 1 .. Len(o) : o[x] = o[y] => x = y,
         NEW s, s = InOrder(Range(o), {e \in Range(o) \X Range(o) : e[1] < e[2]})
  PROVE  /\ s \in Seq(0 .. size - 1) /\ Len(s) = size /\ Range(s) = 0 .. size - 1
         /\ s = [k \in 1 .. size |-> k - 1]
  <1> DEFINE S == 0 .. size - 1
  <1>1. IsFiniteSet(S) /\ Cardinality(S) = size
    <2>1. size - 1 \in Int /\ 0 \in Int
      OBVIOUS
    <2>2. Cardinality(0 .. size - 1) = IF 0 > size - 1 THEN 0 ELSE size - 1 - 0 + 1
      BY <2>1, FS_Interval
    <2>3. IsFiniteSet(0 .. size - 1)
      BY <2>1, FS_Interval
    <2> QED BY <2>2, <2>3
  <1>2. IsFiniteSet(1 .. size) /\ Cardinality(1 .. size) = size
    <2>1. size \in Int /\ 1 \in Int
      OBVIOUS
    <2>2. Cardinality(1 .. size) = IF 1 > size THEN 0 ELSE size - 1 + 1
      BY <2>1, FS_Interval
    <2>3. IsFiniteSet(1 .. size)
      BY <2>1, FS_Interval
    <2> QED BY <2>2, <2>3
  <1>3. o \in [1 .. size -> S]
    OBVIOUS
  <1>4. o \in Injection(1 .. size, S)
    BY <1>3 DEF Injection, IsInjective
  <1>5. o \in Surjection(1 .. size, S)
    BY <1>1, <1>2, <1>4, FS_Injection
  <1>6. Range(o) = S
    <2>1. \A p \in S : \E x \in 1 .. size : o[x] = p
      BY <1>5 DEF Surjection
    <2>2. DOMAIN o = 1 .. size /\ \A x \in 1 .. size : o[x] \in S
      BY <1>3
    <2>3. Range(o) = {o[x] : x \in 1 .. size}
      BY <2>2, Zenon DEF Range
    <2> HIDE DEF S
    <2>4. Range(o) \subseteq S
      BY <2>2, <2>3, Zenon
    <2>5. S \subseteq Range(o)
      BY <2>1, <2>3, Zenon
    <2> QED BY <2>4, <2>5, Zenon
  <1>7. ASSUME NEW x \in S
        PROVE  Cardinality({y \in S : <<y, x>> \in {e \in S \X S : e[1] < e[2]}}) = x
    <2>1. {y \in S : <<y, x>> \in {e \in S \X S : e[1] < e[2]}} = 0 .. x - 1
      <3>1. ASSUME NEW y \in S PROVE <<y, x>> \in {e \in S \X S : e[1] < e[2]} <=> y < x
        BY <1>7
      <3> QED BY <3>1
    <2>2. x - 1 \in Int /\ 0 \in Int
      OBVIOUS
    <2>3. Cardinality(0 .. x - 1) = IF 0 > x - 1 THEN 0 ELSE x - 1 - 0 + 1
      BY <2>2, FS_Interval
    <2>4. Cardinality(0 .. x - 1) = x
      BY <2>3
    <2> QED BY <2>1, <2>4
  <1>8. s = [k \in 1 .. size |->
              CHOOSE x \in S : Cardinality({y \in S : <<y, x>> \in {e \in S \X S : e[1] < e[2]}}) = k - 1]
    <2> HIDE DEF S
    <2>1. s = InOrder(S, {e \in S \X S : e[1] < e[2]})
      BY <1>6
    <2> QED BY <1>1, <2>1, Zenon DEF InOrder
  <1>9. ASSUME NEW k \in 1 .. size
        PROVE  s[k] = k - 1
    <2>1. k - 1 \in S
      OBVIOUS
    <2>2. s[k] = CHOOSE x \in S : Cardinality({y \in S : <<y, x>> \in {e \in S \X S : e[1] < e[2]}}) = k - 1
      BY <1>8
    <2>3. \E x \in S : Cardinality({y \in S : <<y, x>> \in {e \in S \X S : e[1] < e[2]}}) = k - 1
      BY <1>7, <2>1
    <2>4. s[k] \in S /\ Cardinality({y \in S : <<y, s[k]>> \in {e \in S \X S : e[1] < e[2]}}) = k - 1
      BY <2>2, <2>3, Zenon
    <2> QED BY <1>7, <2>4
  <1>10. s = [k \in 1 .. size |-> k - 1]
    BY <1>8, <1>9
  <1>11. s \in Seq(S) /\ Len(s) = size /\ DOMAIN s = 1 .. size
    BY <1>10
  <1>12. Range(s) = S
    <2>1. ASSUME NEW p \in S PROVE \E x \in 1 .. size : s[x] = p
      <3>1. p + 1 \in 1 .. size /\ (p + 1) - 1 = p
        OBVIOUS
      <3> QED BY <1>9, <3>1
    <2>2. \A x \in 1 .. size : s[x] \in S
      BY <1>9
    <2>3. Range(s) = {s[x] : x \in 1 .. size}
      BY <1>11, Zenon DEF Range
    <2> HIDE DEF S
    <2>4. Range(s) \subseteq S
      BY <2>2, <2>3, Zenon
    <2>5. S \subseteq Range(s)
      BY <2>1, <2>3, Zenon
    <2> QED BY <2>4, <2>5, Zenon
  <1> QED BY <1>10, <1>11, <1>12

\* The loops start on the enabled passes.
LEMMA LoopsStart ==
  ASSUME NEW size \in Nat, n' = size,
         ordered' \subseteq {p \in (0 .. size - 1) \X (0 .. size - 1) : p[1] < p[2]},
         level' \in [0 .. size - 1 -> Nat], \A p \in 0 .. size - 1 : level'[p] = 0,
         j' = 1, i' = 0, best' = 0, grouped' = 0, groups' = <<>>
  PROVE  LoopInv' /\ GroupInv'
  <1>1. Nodes' = 0 .. size - 1
    BY DEF Nodes
  <1>2. LoopTypes'
    BY <1>1 DEF LoopTypes
  <1>3. DoneRespects'
    <2> SUFFICES ASSUME NEW a \in Nodes', NEW b \in Nodes', b < j', a < b PROVE FALSE
      BY DEF DoneRespects
    <2> QED BY <1>1
  <1>4. DoneTight' /\ BestTight'
    BY <1>1 DEF DoneTight, BestTight
  <1>5. BestAbove'
    <2> SUFFICES ASSUME NEW a \in Nodes', a < i' PROVE FALSE
      BY DEF BestAbove
    <2> QED BY <1>1
  <1>6. PICK none \in Seq(Seq(Nodes')) : none = <<>> /\ Len(none) = 0
    BY EmptySeq
  <1>7. GroupInv'
    BY <1>1, <1>6 DEF GroupInv
  <1> QED BY <1>2, <1>3, <1>4, <1>5, <1>7 DEF LoopInv

\* The loops' variables at rest.
LEMMA LoopsRest == LoopInv /\ GroupInv /\ UNCHANGED levelVars => LoopInv' /\ GroupInv'
  <1> SUFFICES ASSUME LoopInv, GroupInv, UNCHANGED levelVars PROVE LoopInv' /\ GroupInv'
    OBVIOUS
  <1>1. LoopInv'
    BY LoopStutter
  <1>2. GroupInv'
    BY DEF levelVars, GroupInv, Nodes, LoopsDone
  <1> QED BY <1>1, <1>2

LEMMA FrameInitInv == PlanInit => FrameInv
  <1> SUFFICES ASSUME PlanInit PROVE FrameInv
    OBVIOUS
  <1>1. PICK d \in Declarations :
          passes = [k \in DOMAIN d.passes |-> [access |-> d.passes[k], enabled |-> TRUE]]
    BY DEF PlanInit
  <1>2. d.passes \in Seq(Accesses)
    BY PlanAssumption
  <1>3. PICK len \in Nat : len = Len(d.passes) /\ DOMAIN d.passes = 1 .. len
    BY <1>2
  <1>4. \A k \in 1 .. len : d.passes[k] \in Accesses
    BY <1>2, <1>3
  <1>5. passes \in [1 .. len -> [access : Accesses, enabled : BOOLEAN]]
    BY <1>1, <1>3, <1>4
  <1>6. passes \in Seq([access : Accesses, enabled : BOOLEAN]) /\ Len(passes) \in Nat
    <2> DEFINE R == [access : Accesses, enabled : BOOLEAN]
    <2> HIDE DEF R
    <2>1. passes \in [1 .. len -> R]
      BY <1>5 DEF R
    <2>2. passes \in Seq(R) /\ Len(passes) = len
      BY <2>1
    <2> QED BY <2>2 DEF R
  <1>7. /\ generation = Len(passes) /\ cached.generation = -1 /\ DOMAIN textures = {} /\ phase = "idle"
    BY DEF PlanInit, NoLayout
  <1>8. PlanTypes
    BY <1>6, <1>7 DEF PlanTypes
  <1>9. n = 0 /\ ordered = {} /\ level = <<>> /\ j = 1 /\ i = 0 /\ best = 0
        /\ grouped = 0 /\ groups = <<>>
    BY DEF PlanInit
  <1>10. Nodes = {} /\ level \in [Nodes -> Nat]
    BY <1>9 DEF Nodes
  <1>11. LoopInv
    BY <1>9, <1>10 DEF LoopInv, LoopTypes, DoneRespects, DoneTight, BestAbove, BestTight
  <1>12. PICK none \in Seq(Seq(Nodes)) : none = <<>> /\ Len(none) = 0
    BY EmptySeq
  <1>13. GroupInv
    BY <1>9, <1>10, <1>12 DEF GroupInv
  <1>14. CacheFresh
    BY <1>6, <1>7 DEF CacheFresh
  <1>15. LevelsInFrame /\ FrameFresh
    BY <1>7, <1>11, <1>13 DEF LevelsInFrame, FrameFresh
  <1> QED BY <1>8, <1>14, <1>15 DEF FrameInv

\* A change between frames makes the memoized layout an old one.
LEMMA ChangeKeepsFrameInv ==
  ASSUME FrameInv, Changing, passes' \in Seq([access : Accesses, enabled : BOOLEAN]),
         \/ Touch /\ UNCHANGED cached
         \/ cached' = NoLayout /\ UNCHANGED declarations
  PROVE  FrameInv'
  <1>1. /\ phase' = "idle" /\ UNCHANGED <<textures, levelVars>>
        /\ generation \in Nat /\ cached.generation \in Int /\ cached.generation <= generation
    BY DEF Changing, FrameInv, PlanTypes
  <1>2. /\ generation' \in Nat /\ cached'.generation \in Int /\ cached'.generation < generation'
    BY <1>1 DEF Touch, NoLayout, declarations
  <1>3. PlanTypes'
    BY <1>1, <1>2 DEF FrameInv, PlanTypes
  <1>4. CacheFresh'
    BY <1>2 DEF CacheFresh
  <1>5. LevelsInFrame'
    BY <1>1, LoopsRest DEF FrameInv, LevelsInFrame
  <1>6. FrameFresh'
    BY <1>1 DEF FrameFresh
  <1> QED BY <1>3, <1>4, <1>5, <1>6 DEF FrameInv

LEMMA SetPassType ==
  ASSUME passes \in Seq([access : Accesses, enabled : BOOLEAN]), NEW k \in DOMAIN passes,
         NEW enabled \in BOOLEAN, passes' = [passes EXCEPT ![k].enabled = enabled]
  PROVE  /\ passes' \in Seq([access : Accesses, enabled : BOOLEAN])
         /\ DOMAIN passes' = DOMAIN passes
         /\ \A l \in DOMAIN passes : passes'[l].access = passes[l].access
  <1> DEFINE R == [access : Accesses, enabled : BOOLEAN]
  <1>1. passes[k] \in R
    <2> HIDE DEF R
    <2>1. passes \in Seq(R)
      BY DEF R
    <2>2. passes[k] \in R
      BY <2>1
    <2> QED BY <2>2
  <1>2. PICK p : p = [passes[k] EXCEPT !.enabled = enabled]
    OBVIOUS
  <1>3. p \in R /\ p.access = passes[k].access
    BY <1>1, <1>2
  <1>4. passes' = [passes EXCEPT ![k] = p]
    BY <1>2
  <1> HIDE DEF R
  <1>5. passes \in Seq(R)
    BY DEF R
  <1>6. passes' \in Seq(R) /\ DOMAIN passes' = DOMAIN passes
    BY <1>3, <1>4, <1>5
  <1>7. \A l \in DOMAIN passes : passes'[l] = IF l = k THEN p ELSE passes[l]
    BY <1>4, <1>5
  <1> QED BY <1>3, <1>6, <1>7 DEF R

LEMMA ChangesKeepFrameInv ==
  ASSUME FrameInv,
         \/ \E access \in Accesses : AddPass(access)
         \/ \E k \in DOMAIN passes : \E enabled \in BOOLEAN : SetPassState(k, enabled)
         \/ \E size \in Surfaces : SetSurfaceSize(size)
         \/ \E count \in SampleCounts : SetSampleCount(count)
         \/ \E cap \in Budgets : SetBudget(cap)
         \/ \E before, after \in DOMAIN passes : OrderBefore(before, after)
         \/ InvalidateLayout
  PROVE  FrameInv'
  <1>1. passes \in Seq([access : Accesses, enabled : BOOLEAN])
    BY DEF FrameInv, PlanTypes
  <1>2. CASE \E access \in Accesses : AddPass(access)
    <2>1. PICK access \in Accesses : AddPass(access)
      BY <1>2
    <2>2. PICK p \in [access : Accesses, enabled : BOOLEAN] : p = [access |-> access, enabled |-> TRUE]
      OBVIOUS
    <2>3. passes' = Append(passes, p)
      BY <2>1, <2>2 DEF AddPass
    <2>4. passes' \in Seq([access : Accesses, enabled : BOOLEAN])
      BY <1>1, <2>3
    <2> QED BY <2>1, <2>4, ChangeKeepsFrameInv DEF AddPass
  <1>3. CASE \E k \in DOMAIN passes : \E enabled \in BOOLEAN : SetPassState(k, enabled)
    <2>1. PICK k \in DOMAIN passes, enabled \in BOOLEAN : SetPassState(k, enabled)
      BY <1>3
    <2>2. passes' \in Seq([access : Accesses, enabled : BOOLEAN])
      BY <1>1, <2>1, SetPassType DEF SetPassState
    <2> QED BY <2>1, <2>2, ChangeKeepsFrameInv DEF SetPassState
  <1>4. CASE \E size \in Surfaces : SetSurfaceSize(size)
    BY <1>1, <1>4, ChangeKeepsFrameInv DEF SetSurfaceSize
  <1>5. CASE \E count \in SampleCounts : SetSampleCount(count)
    BY <1>1, <1>5, ChangeKeepsFrameInv DEF SetSampleCount
  <1>6. CASE \E cap \in Budgets : SetBudget(cap)
    BY <1>1, <1>6, ChangeKeepsFrameInv DEF SetBudget
  <1>7. CASE \E before, after \in DOMAIN passes : OrderBefore(before, after)
    BY <1>1, <1>7, ChangeKeepsFrameInv DEF OrderBefore
  <1>8. CASE InvalidateLayout
    BY <1>1, <1>8, ChangeKeepsFrameInv DEF InvalidateLayout, declarations
  <1> QED BY <1>2, <1>3, <1>4, <1>5, <1>6, <1>7, <1>8

\* What a step within a frame leaves alone.
LEMMA FrameStays ==
  ASSUME FrameInv, UNCHANGED <<declarations, cached, textures>>
  PROVE  PlanTypes'
  BY DEF FrameInv, PlanTypes, declarations

LEMMA HitKeepsFrameInv ==
  ASSUME FrameInv, NEW how \in {"execute", "parallel", "projected"}, FrameHit(how)
  PROVE  FrameInv'
  <1>1. /\ cached.generation = generation /\ layout' = cached.layout /\ phase' = "prepare"
        /\ UNCHANGED <<declarations, cached, textures, levelVars>>
    BY DEF FrameHit
  <1>2. FitsBudget /\ IsCurrent(cached.layout) /\ groups = cached.layout.levels
    BY <1>1 DEF FrameInv, CacheFresh
  <1>3. generation' = generation /\ groups' = groups
    BY <1>1 DEF declarations, levelVars
  <1>4. IsCurrent(cached.layout)' /\ IsCurrent(layout)' /\ FitsBudget'
    BY <1>1, <1>2, DeclarationsStay DEF IsCurrent
  <1>5. CacheFresh'
    BY <1>1, <1>2, <1>3, <1>4 DEF CacheFresh
  <1>6. FrameFresh'
    BY <1>1, <1>2, <1>3, <1>4 DEF FrameFresh
  <1>7. LevelsInFrame'
    BY <1>1, LoopsRest DEF FrameInv, LevelsInFrame
  <1> QED BY <1>1, <1>5, <1>6, <1>7, FrameStays DEF FrameInv

LEMMA MissKeepsFrameInv ==
  ASSUME FrameInv, NEW how \in {"execute", "parallel", "projected"}, FrameMiss(how)
  PROVE  FrameInv'
  <1>1. /\ cached.generation # generation
        /\ UNCHANGED <<declarations, cached, textures>> /\ phase' \in {"levels", "panicked"}
    BY DEF FrameMiss
  <1>2. CacheFresh'
    BY <1>1 DEF CacheFresh, declarations
  <1>3. FrameFresh'
    BY <1>1 DEF FrameFresh
  <1>4. LevelsInFrame'
    <2>1. CASE FirstTouchIsWrite(Enabled)
      <3>1. PICK size \in Nat : size = Len(Enabled)
        BY EnabledType DEF FrameInv, PlanTypes
      <3>2. /\ n' = size /\ ordered' = Edges(Enabled) /\ level' = [k \in Positions(Enabled) |-> 0]
            /\ j' = 1 /\ i' = 0 /\ best' = 0 /\ grouped' = 0 /\ groups' = <<>>
        BY <2>1, <3>1 DEF FrameMiss
      <3>3. Positions(Enabled) = 0 .. size - 1
        BY <3>1 DEF Positions
      <3>4. Edges(Enabled) \subseteq {p \in (0 .. size - 1) \X (0 .. size - 1) : p[1] < p[2]}
        BY <3>3 DEF Edges
      <3>5. level' \in [0 .. size - 1 -> Nat] /\ \A p \in 0 .. size - 1 : level'[p] = 0
        BY <3>2, <3>3
      <3>6. LoopInv' /\ GroupInv'
        BY <3>2, <3>4, <3>5, LoopsStart
      <3> QED BY <1>1, <3>1, <3>2, <3>6, DeclarationsStay DEF LevelsInFrame
    <2>2. CASE ~FirstTouchIsWrite(Enabled)
      <3>1. phase' = "panicked" /\ UNCHANGED levelVars
        BY <2>2 DEF FrameMiss
      <3> QED BY <3>1, LoopsRest DEF FrameInv, LevelsInFrame
    <2> QED BY <2>1, <2>2
  <1> QED BY <1>1, <1>2, <1>3, <1>4, FrameStays DEF FrameInv

LEMMA LoopsKeepFrameInv == FrameInv /\ LevelStep => FrameInv'
  <1> SUFFICES ASSUME FrameInv, LevelStep PROVE FrameInv'
    OBVIOUS
  <1>1. /\ phase = "levels" /\ phase' = phase /\ LevelsNext
        /\ UNCHANGED <<declarations, cached, textures>>
    BY DEF LevelStep
  <1>2. LoopInv /\ GroupInv /\ n = Len(Enabled) /\ ordered = Edges(Enabled)
    BY <1>1 DEF FrameInv, LevelsInFrame
  <1>3. LoopInv' /\ GroupInv'
    BY <1>1, <1>2, InnerLoop, OuterLoop, GroupLoop, GroupWaits, GroupStep DEF LevelsNext
  <1>4. n' = n /\ ordered' = ordered
    BY <1>1 DEF LevelsNext, Inner, Outer, Group
  <1>5. LevelsInFrame'
    BY <1>1, <1>2, <1>3, <1>4, DeclarationsStay DEF LevelsInFrame
  <1>6. cached.generation # generation
    BY <1>1 DEF FrameInv, CacheFresh
  <1>7. CacheFresh' /\ FrameFresh'
    BY <1>1, <1>6 DEF CacheFresh, FrameFresh, declarations
  <1> QED BY <1>1, <1>5, <1>7, FrameStays DEF FrameInv

LEMMA CompiledKeepsFrameInv == FrameInv /\ FrameCompiled => FrameInv'
  <1> SUFFICES ASSUME FrameInv, FrameCompiled PROVE FrameInv'
    OBVIOUS
  <1>1. /\ phase = "levels" /\ Finished /\ phase' = "prepare"
        /\ UNCHANGED <<declarations, textures, levelVars>>
    BY DEF FrameCompiled
  <1>2. /\ LoopInv /\ GroupInv /\ n = Len(Enabled) /\ ordered = Edges(Enabled)
        /\ cached.generation # generation
    BY <1>1 DEF FrameInv, LevelsInFrame, CacheFresh
  <1>3. LevelsInFrame'
    BY <1>1, <1>2, LoopsRest DEF LevelsInFrame
  <1>4. Levelled(groups, Len(Enabled), Edges(Enabled))
    BY <1>1, <1>2, GroupsAreLevels
  <1>5. generation' = generation /\ groups' = groups /\ generation \in Nat
    BY <1>1 DEF declarations, levelVars, FrameInv, PlanTypes
  <1>6. CASE FitsBudget
    <2>1. /\ layout' = [passes |-> Compiled.passes, slots |-> Compiled.slots,
                        surface |-> surface, levels |-> groups]
          /\ cached' = [generation |-> generation, layout |-> layout']
      BY <1>6, Zenon DEF FrameCompiled
    <2>2. /\ cached'.generation = generation /\ cached'.layout = layout'
          /\ layout'.passes = Compiled.passes /\ layout'.slots = Compiled.slots
          /\ layout'.surface = surface /\ layout'.levels = groups
      BY <2>1
    <2>3. [passes |-> layout'.passes, slots |-> layout'.slots, surface |-> layout'.surface] = Compiled
      BY <2>2 DEF Compiled
    <2>4. IsCurrent(layout)' /\ IsCurrent(cached.layout)' /\ FitsBudget'
      BY <1>1, <1>4, <1>6, <2>2, <2>3, DeclarationsStay DEF IsCurrent
    <2>5. PlanTypes'
      BY <1>1, <1>5, <2>2 DEF FrameInv, PlanTypes, declarations
    <2>6. CacheFresh' /\ FrameFresh'
      BY <1>1, <1>5, <2>2, <2>4 DEF CacheFresh, FrameFresh
    <2> QED BY <1>3, <2>5, <2>6 DEF FrameInv
  <1>7. CASE ~FitsBudget
    <2>1. cached' = cached
      BY <1>7, Zenon DEF FrameCompiled
    <2>2. ~FitsBudget'
      BY <1>1, <1>7, DeclarationsStay
    <2>3. PlanTypes'
      BY <1>1, <1>5, <2>1 DEF FrameInv, PlanTypes, declarations
    <2>4. CacheFresh' /\ FrameFresh'
      BY <1>1, <1>2, <1>5, <2>1, <2>2 DEF CacheFresh, FrameFresh
    <2> QED BY <1>3, <2>3, <2>4 DEF FrameInv
  <1> QED BY <1>6, <1>7

\* A step within a frame after the layout is settled.
LEMMA LayoutStays ==
  ASSUME FrameInv, phase # "levels", phase' # "levels",
         UNCHANGED <<declarations, cached, layout, levelVars>>
  PROVE  /\ CacheFresh' /\ LevelsInFrame'
         /\ IsCurrent(layout) => IsCurrent(layout)'
         /\ FitsBudget' = FitsBudget /\ groups' = groups
  <1>1. groups' = groups /\ generation' = generation
    BY DEF levelVars, declarations
  <1>2. IsCurrent(layout) => IsCurrent(layout)'
    BY DeclarationsStay DEF IsCurrent
  <1>3. IsCurrent(cached.layout) => IsCurrent(cached.layout)'
    BY DeclarationsStay DEF IsCurrent
  <1>4. CacheFresh'
    BY <1>1, <1>3, DeclarationsStay DEF FrameInv, CacheFresh
  <1>5. LevelsInFrame'
    BY LoopsRest DEF FrameInv, LevelsInFrame
  <1> QED BY <1>1, <1>2, <1>4, <1>5, DeclarationsStay

LEMMA PrepareKeepsFrameInv == FrameInv /\ Prepare => FrameInv'
  <1> SUFFICES ASSUME FrameInv, Prepare PROVE FrameInv'
    OBVIOUS
  <1>1. /\ phase = "prepare" /\ textures' = EnsuredPool /\ layout' = layout
        /\ UNCHANGED <<declarations, cached, layout, levelVars>>
        /\ \/ order' = <<>> /\ phase' = "record"
           \/ order' = Given /\ phase' = "passes"
    BY DEF Prepare
  <1>2. /\ CacheFresh' /\ LevelsInFrame' /\ groups' = groups
        /\ IsCurrent(layout) => IsCurrent(layout)'
        /\ FitsBudget' = FitsBudget
    BY <1>1, LayoutStays
  <1>3. FitsBudget => IsCurrent(layout) /\ groups = layout.levels
    BY <1>1 DEF FrameInv, FrameFresh
  <1>4. DOMAIN textures' = DOMAIN layout.slots
    BY <1>1 DEF EnsuredPool
  <1>5. ASSUME NEW x \in DOMAIN layout.slots
        PROVE  textures'[x] = [spec |-> layout.slots[x].spec, size |-> layout.surface]
    <2>1. CASE /\ x \in DOMAIN textures /\ textures[x].size = layout.surface
               /\ ~Stale(textures[x], layout.slots[x])
      <3>1. textures'[x] = textures[x] /\ textures[x].spec = layout.slots[x].spec
        BY <1>1, <2>1 DEF EnsuredPool, Stale
      <3>2. textures[x] = [spec |-> textures[x].spec, size |-> textures[x].size]
        BY <2>1 DEF FrameInv, PlanTypes
      <3> QED BY <2>1, <3>1, <3>2
    <2>2. CASE ~(/\ x \in DOMAIN textures /\ textures[x].size = layout.surface
                 /\ ~Stale(textures[x], layout.slots[x]))
      BY <1>1, <2>2 DEF EnsuredPool
    <2> QED BY <2>1, <2>2
  <1>6. PlanTypes'
    <2>1. \A x \in DOMAIN textures' :
            textures'[x] = [spec |-> textures'[x].spec, size |-> textures'[x].size]
      <3> SUFFICES ASSUME NEW x \in DOMAIN textures'
                   PROVE  textures'[x] = [spec |-> textures'[x].spec, size |-> textures'[x].size]
        OBVIOUS
      <3>1. PICK t : t = textures'[x]
        OBVIOUS
      <3>2. t = [spec |-> layout.slots[x].spec, size |-> layout.surface]
        BY <1>4, <1>5, <3>1
      <3>3. t.spec = layout.slots[x].spec /\ t.size = layout.surface
        BY <3>2
      <3> QED BY <3>1, <3>2, <3>3
    <2> QED BY <1>1, <2>1 DEF FrameInv, PlanTypes, declarations
  <1>7. phase' = "passes" /\ FitsBudget => Len(order') = Len(Enabled) /\ Range(order') = Positions(Enabled)
    <2> SUFFICES ASSUME phase' = "passes", FitsBudget
                 PROVE  Len(order') = Len(Enabled) /\ Range(order') = Positions(Enabled)
      OBVIOUS
    <2>1. Levelled(layout.levels, Len(Enabled), Edges(Enabled)) /\ groups = layout.levels
      BY <1>3 DEF IsCurrent
    <2>2. order' = Flattened(layout.levels)
      BY <1>1, <2>1 DEF Given
    <2>3. Len(Enabled) \in Nat
      BY EnabledType DEF FrameInv, PlanTypes
    <2> QED BY <2>1, <2>2, <2>3, FlattenedLists DEF Positions
  <1>8. phase' = "record" => order' \in Seq(Positions(layout'.passes)) /\ Len(order') = 0
    BY <1>1, EmptySeq
  <1>9. Positions(Enabled)' = Positions(Enabled) /\ Len(Enabled)' = Len(Enabled)
        /\ Positions(layout.passes)' = Positions(layout'.passes)
    BY <1>1, DeclarationsStay DEF Positions
  <1>10. FrameFresh'
    <2>1. (FitsBudget /\ phase \in {"prepare", "record", "passes"} =>
             IsCurrent(layout) /\ groups = layout.levels)'
      BY <1>1, <1>2, <1>3
    <2>2. (phase = "record" => /\ order \in Seq(Positions(layout.passes))
                               /\ \A x, y \in 1 .. Len(order) : order[x] = order[y] => x = y)'
      BY <1>8, <1>9
    <2>3. (FitsBudget /\ phase = "passes" =>
             Len(order) = Len(Enabled) /\ Range(order) = Positions(Enabled))'
      BY <1>2, <1>7, <1>9
    <2>4. (phase \in {"record", "passes"} =>
             /\ DOMAIN textures = DOMAIN layout.slots
             /\ \A x \in DOMAIN textures :
                  textures[x] = [spec |-> layout.slots[x].spec, size |-> layout.surface])'
      BY <1>1, <1>4, <1>5
    <2> QED BY <2>1, <2>2, <2>3, <2>4 DEF FrameFresh
  <1> QED BY <1>2, <1>6, <1>10 DEF FrameInv

\* One more pass is recorded, and none twice.
LEMMA RecordedOnce ==
  ASSUME NEW S, order \in Seq(S), \A x, y \in 1 .. Len(order) : order[x] = order[y] => x = y,
         NEW p \in S, p \notin Recorded, order' = Append(order, p)
  PROVE  /\ order' \in Seq(S)
         /\ \A x, y \in 1 .. Len(order') : order'[x] = order'[y] => x = y
  <1>1. /\ order' \in Seq(S) /\ Len(order') = Len(order) + 1 /\ Len(order) \in Nat
        /\ \A x \in 1 .. Len(order) : order'[x] = order[x]
        /\ order'[Len(order) + 1] = p
    BY AppendProperties
  <1>2. \A x \in 1 .. Len(order) : order[x] # p
    BY DEF Recorded, Range
  <1>3. ASSUME NEW x \in 1 .. Len(order'), NEW y \in 1 .. Len(order'), order'[x] = order'[y]
        PROVE  x = y
    <2>1. CASE x \in 1 .. Len(order) /\ y \in 1 .. Len(order)
      BY <1>1, <1>3, <2>1
    <2>2. CASE x = Len(order) + 1 /\ y \in 1 .. Len(order)
      BY <1>1, <1>2, <1>3, <2>2
    <2>3. CASE x \in 1 .. Len(order) /\ y = Len(order) + 1
      BY <1>1, <1>2, <1>3, <2>3
    <2>4. CASE x = Len(order) + 1 /\ y = Len(order) + 1
      BY <2>4
    <2>5. (x \in 1 .. Len(order) \/ x = Len(order) + 1) /\ (y \in 1 .. Len(order) \/ y = Len(order) + 1)
      BY <1>1
    <2> QED BY <2>1, <2>2, <2>3, <2>4, <2>5
  <1> QED BY <1>1, <1>3

LEMMA RecordKeepsFrameInv ==
  ASSUME FrameInv, NEW p \in Positions(layout.passes), Record(p)
  PROVE  FrameInv'
  <1>1. /\ phase = "record" /\ phase' = "record" /\ p \notin Recorded /\ order' = Append(order, p)
        /\ UNCHANGED <<declarations, cached, textures, layout, levelVars>>
    BY DEF Record
  <1>2. /\ CacheFresh' /\ LevelsInFrame' /\ groups' = groups
        /\ IsCurrent(layout) => IsCurrent(layout)'
        /\ FitsBudget' = FitsBudget
    BY <1>1, LayoutStays
  <1>3. /\ order \in Seq(Positions(layout.passes))
        /\ \A x, y \in 1 .. Len(order) : order[x] = order[y] => x = y
    BY <1>1 DEF FrameInv, FrameFresh
  <1>4. /\ order' \in Seq(Positions(layout.passes))
        /\ \A x, y \in 1 .. Len(order') : order'[x] = order'[y] => x = y
    BY <1>1, <1>3, RecordedOnce
  <1>5. Positions(layout.passes)' = Positions(layout.passes)
    BY <1>1 DEF Positions
  <1>6. FrameFresh'
    <2>1. (FitsBudget /\ phase \in {"prepare", "record", "passes"} =>
             IsCurrent(layout) /\ groups = layout.levels)'
      BY <1>1, <1>2 DEF FrameInv, FrameFresh
    <2>2. (phase = "record" => /\ order \in Seq(Positions(layout.passes))
                               /\ \A x, y \in 1 .. Len(order) : order[x] = order[y] => x = y)'
      BY <1>4, <1>5
    <2>3. phase' # "passes"
      BY <1>1
    <2>4. (phase \in {"record", "passes"} =>
             /\ DOMAIN textures = DOMAIN layout.slots
             /\ \A x \in DOMAIN textures :
                  textures[x] = [spec |-> layout.slots[x].spec, size |-> layout.surface])'
      BY <1>1 DEF FrameInv, FrameFresh
    <2> QED BY <2>1, <2>2, <2>3, <2>4 DEF FrameFresh
  <1> QED BY <1>1, <1>2, <1>6, FrameStays DEF FrameInv

LEMMA SubmitKeepsFrameInv == FrameInv /\ Submit => FrameInv'
  <1> SUFFICES ASSUME FrameInv, Submit PROVE FrameInv'
    OBVIOUS
  <1>1. /\ phase = "record" /\ phase' = "passes" /\ Len(order) = Len(layout.passes)
        /\ order' = InOrder(Recorded, {e \in Recorded \X Recorded : e[1] < e[2]})
        /\ UNCHANGED <<declarations, cached, textures, layout, levelVars>>
    BY DEF Submit
  <1>2. /\ CacheFresh' /\ LevelsInFrame' /\ groups' = groups
        /\ IsCurrent(layout) => IsCurrent(layout)'
        /\ FitsBudget' = FitsBudget
    BY <1>1, LayoutStays
  <1>3. FitsBudget => Len(order') = Len(Enabled) /\ Range(order') = Positions(Enabled)
    <2> SUFFICES ASSUME FitsBudget
                 PROVE  Len(order') = Len(Enabled) /\ Range(order') = Positions(Enabled)
      OBVIOUS
    <2>1. layout.passes = Enabled
      BY <1>1 DEF FrameInv, FrameFresh, IsCurrent, Compiled
    <2>2. PICK size \in Nat : size = Len(Enabled)
      BY EnabledType DEF FrameInv, PlanTypes
    <2>3. /\ order \in Seq(0 .. size - 1) /\ Len(order) = size
          /\ \A x, y \in 1 .. Len(order) : order[x] = order[y] => x = y
      BY <1>1, <2>1, <2>2 DEF FrameInv, FrameFresh, Positions
    <2>4. Len(order') = size /\ Range(order') = 0 .. size - 1
      BY <1>1, <2>3, SortedPositions DEF Recorded
    <2> QED BY <2>2, <2>4 DEF Positions
  <1>4. Positions(Enabled)' = Positions(Enabled) /\ Len(Enabled)' = Len(Enabled)
    BY <1>1, DeclarationsStay DEF Positions
  <1>5. FrameFresh'
    <2>1. (FitsBudget /\ phase \in {"prepare", "record", "passes"} =>
             IsCurrent(layout) /\ groups = layout.levels)'
      BY <1>1, <1>2 DEF FrameInv, FrameFresh
    <2>2. phase' # "record"
      BY <1>1
    <2>3. (FitsBudget /\ phase = "passes" =>
             Len(order) = Len(Enabled) /\ Range(order) = Positions(Enabled))'
      BY <1>2, <1>3, <1>4
    <2>4. (phase \in {"record", "passes"} =>
             /\ DOMAIN textures = DOMAIN layout.slots
             /\ \A x \in DOMAIN textures :
                  textures[x] = [spec |-> layout.slots[x].spec, size |-> layout.surface])'
      BY <1>1 DEF FrameInv, FrameFresh
    <2> QED BY <2>1, <2>2, <2>3, <2>4 DEF FrameFresh
  <1> QED BY <1>1, <1>2, <1>5, FrameStays DEF FrameInv

LEMMA RunKeepsFrameInv == FrameInv /\ (RunPass \/ FrameEnd) => FrameInv'
  <1> SUFFICES ASSUME FrameInv, RunPass \/ FrameEnd PROVE FrameInv'
    OBVIOUS
  <1>1. /\ phase = "passes" /\ phase' \in {"passes", "idle", "panicked"} /\ order' = order
        /\ UNCHANGED <<declarations, cached, textures, layout, levelVars>>
    BY DEF RunPass, FrameEnd, frame
  <1>2. /\ CacheFresh' /\ LevelsInFrame' /\ groups' = groups
        /\ IsCurrent(layout) => IsCurrent(layout)'
        /\ FitsBudget' = FitsBudget
    BY <1>1, LayoutStays
  <1>3. Positions(Enabled)' = Positions(Enabled) /\ Len(Enabled)' = Len(Enabled)
    BY <1>1, DeclarationsStay DEF Positions
  <1>4. FrameFresh'
    <2>1. (FitsBudget /\ phase \in {"prepare", "record", "passes"} =>
             IsCurrent(layout) /\ groups = layout.levels)'
      BY <1>1, <1>2 DEF FrameInv, FrameFresh
    <2>2. phase' # "record"
      BY <1>1
    <2>3. (FitsBudget /\ phase = "passes" =>
             Len(order) = Len(Enabled) /\ Range(order) = Positions(Enabled))'
      <3>1. FitsBudget => Len(order) = Len(Enabled) /\ Range(order) = Positions(Enabled)
        BY <1>1 DEF FrameInv, FrameFresh
      <3> QED BY <1>1, <1>2, <1>3, <3>1
    <2>4. (phase \in {"record", "passes"} =>
             /\ DOMAIN textures = DOMAIN layout.slots
             /\ \A x \in DOMAIN textures :
                  textures[x] = [spec |-> layout.slots[x].spec, size |-> layout.surface])'
      BY <1>1 DEF FrameInv, FrameFresh
    <2> QED BY <2>1, <2>2, <2>3, <2>4 DEF FrameFresh
  <1> QED BY <1>1, <1>2, <1>4, FrameStays DEF FrameInv

LEMMA FrameStutter == FrameInv /\ UNCHANGED planVars => FrameInv'
  <1> SUFFICES ASSUME FrameInv, UNCHANGED planVars PROVE FrameInv'
    OBVIOUS
  <1>1. /\ UNCHANGED <<declarations, cached, textures, layout, levelVars>>
        /\ order' = order /\ phase' = phase /\ groups' = groups /\ generation' = generation
    BY DEF planVars, frame, declarations, levelVars
  <1>2. LevelsInFrame'
    BY <1>1, LoopsRest, DeclarationsStay DEF FrameInv, LevelsInFrame, levelVars
  <1>3. IsCurrent(layout)' = IsCurrent(layout) /\ IsCurrent(cached.layout)' = IsCurrent(cached.layout)
    BY <1>1, DeclarationsStay DEF IsCurrent
  <1>4. CacheFresh'
    BY <1>1, <1>3, DeclarationsStay DEF FrameInv, CacheFresh
  <1>5. FrameFresh'
    BY <1>1, <1>3, DeclarationsStay DEF FrameInv, FrameFresh, Positions
  <1> QED BY <1>1, <1>2, <1>4, <1>5, FrameStays DEF FrameInv

\* The inductive invariant of the frames: the loops', and what a memoized
\* layout and the one in use owe to the declarations of now.
THEOREM FramesInvariant == PlanSpec => []FrameInv
  <1>1. FrameInv /\ [PlanNext]_planVars => FrameInv'
    <2> SUFFICES ASSUME FrameInv, [PlanNext]_planVars PROVE FrameInv'
      OBVIOUS
    <2>1. CASE UNCHANGED planVars
      BY <2>1, FrameStutter
    <2>2. CASE \E how \in {"execute", "parallel", "projected"} : FrameHit(how) \/ FrameMiss(how)
      BY <2>2, HitKeepsFrameInv, MissKeepsFrameInv
    <2>3. CASE \E p \in Positions(layout.passes) : Record(p)
      BY <2>3, RecordKeepsFrameInv
    <2>4. CASE LevelStep \/ FrameCompiled \/ Prepare \/ Submit \/ RunPass \/ FrameEnd
      BY <2>4, LoopsKeepFrameInv, CompiledKeepsFrameInv, PrepareKeepsFrameInv,
         SubmitKeepsFrameInv, RunKeepsFrameInv
    <2> QED BY <2>1, <2>2, <2>3, <2>4, ChangesKeepFrameInv DEF PlanNext
  <1> QED BY FrameInitInv, <1>1, PTL DEF PlanSpec

\* A frame is drawn with the layout of the declarations as they are now unless
\* that exceeds the budget (ensure_layout), runs each of its passes once, and
\* its textures fit the resources that live in them (ensure_pool).
THEOREM FramesAreCurrent == PlanSpec => []FrameIsCurrent
  <1>1. FrameInv => FrameIsCurrent
    <2> SUFFICES ASSUME FrameInv PROVE FrameIsCurrent
      OBVIOUS
    <2>1. ASSUME FitsBudget, phase \in {"prepare", "record", "passes"}
          PROVE  /\ [passes |-> layout.passes, slots |-> layout.slots, surface |-> layout.surface]
                      = Compiled
                 /\ \A e \in Edges(Enabled) : LevelOf(e[1]) < LevelOf(e[2])
      <3>1. IsCurrent(layout)
        BY <2>1 DEF FrameInv, FrameFresh
      <3>2. PICK size \in Nat : size = Len(Enabled)
        BY EnabledType DEF FrameInv, PlanTypes
      <3>3. PICK levels \in Seq(Seq(0 .. size - 1)) :
              levels = layout.levels /\ Levelled(levels, size, Edges(Enabled))
        BY <3>1, <3>2 DEF IsCurrent, Levelled
      <3>4. ASSUME NEW p \in 0 .. size - 1
            PROVE  /\ LevelOf(p) \in 1 .. Len(levels)
                   /\ \E x \in 1 .. Len(levels[LevelOf(p)]) : levels[LevelOf(p)][x] = p
        <4>1. PICK k \in 1 .. Len(levels) : \E x \in 1 .. Len(levels[k]) : levels[k][x] = p
          BY <3>3 DEF Levelled
        <4>2. DOMAIN levels = 1 .. Len(levels)
          OBVIOUS
        <4>3. \A l \in 1 .. Len(levels) : DOMAIN levels[l] = 1 .. Len(levels[l])
          OBVIOUS
        <4>4. \E l \in DOMAIN levels : p \in Range(levels[l])
          BY <4>1, <4>2, <4>3 DEF Range
        <4>5. LevelOf(p) \in DOMAIN levels /\ p \in Range(levels[LevelOf(p)])
          BY <3>3, <4>4, Zenon DEF LevelOf
        <4> QED BY <4>2, <4>3, <4>5 DEF Range
      <3>5. ASSUME NEW e \in Edges(Enabled) PROVE LevelOf(e[1]) < LevelOf(e[2])
        <4>1. e[1] \in 0 .. size - 1 /\ e[2] \in 0 .. size - 1
          BY <3>2 DEF Edges, Positions
        <4>2. PICK k \in 1 .. Len(levels), l \in 1 .. Len(levels) : k = LevelOf(e[1]) /\ l = LevelOf(e[2])
          BY <3>4, <4>1
        <4>3. PICK x \in 1 .. Len(levels[k]) : levels[k][x] = e[1]
          BY <3>4, <4>1, <4>2
        <4>4. PICK y \in 1 .. Len(levels[l]) : levels[l][y] = e[2]
          BY <3>4, <4>1, <4>2
        <4>5. k < l
          <5>1. \A a, b \in 1 .. Len(levels) :
                  \A u \in 1 .. Len(levels[a]) : \A v \in 1 .. Len(levels[b]) :
                    levels[a][u] = e[1] /\ levels[b][v] = e[2] => a < b
            BY <3>3, Zenon DEF Levelled
          <5> QED BY <4>3, <4>4, <5>1
        <4> QED BY <4>2, <4>5
      <3> QED BY <3>1, <3>5 DEF IsCurrent
    <2> QED BY <2>1 DEF FrameInv, FrameFresh, FrameIsCurrent
  <1> QED BY <1>1, FramesInvariant, PTL


-----------------------------------------------------------------------------
(* Two resources of one texture are never alive at once. *)

\* A nonempty set of naturals below a bound has a greatest element.
LEMMA MaxOfBounded ==
  ASSUME NEW k \in Nat, NEW S, S \subseteq 0 .. k, S # {}
  PROVE  Max(S) \in S /\ \A a \in S : a <= Max(S)
  <1> DEFINE T == {b \in 0 .. k : k - b \in S}
  <1>1. T \subseteq Nat
    OBVIOUS
  <1>2. PICK a \in S : TRUE
    OBVIOUS
  <1>3. k - a \in T
    BY <1>2
  <1>4. PICK b \in T : \A c \in T : b <= c
    BY <1>1, <1>3, NatHasLeast
  <1>5. k - b \in S /\ \A c \in S : k - b >= c
    <2>1. k - b \in S
      BY <1>4
    <2>2. ASSUME NEW c \in S PROVE k - b >= c
      <3>1. k - c \in 0 .. k /\ k - (k - c) = c /\ c \in Nat /\ b \in Nat
        BY <1>4
      <3>2. k - c \in T
        BY <3>1
      <3>3. b <= k - c
        BY <1>4, <3>2
      <3> QED BY <3>1, <3>3
    <2> QED BY <2>1, <2>2
  <1>6. Max(S) \in S /\ \A c \in S : Max(S) >= c
    <2> HIDE DEF T
    <2> QED BY <1>5, Zenon DEF Max
  <1>7. PICK m \in Nat : m = Max(S) /\ m \in S
    <2>1. S \subseteq Nat
      OBVIOUS
    <2> QED BY <1>6, <2>1, Zenon
  <1>8. \A c \in S : c <= m
    BY <1>6, <1>7
  <1> QED BY <1>7, <1>8

LEMMA MinOfNaturals ==
  ASSUME NEW S, S \subseteq Nat, S # {}
  PROVE  Min(S) \in S /\ \A a \in S : Min(S) <= a
  <1>1. \E a \in S : \A b \in S : a <= b
    BY NatHasLeast
  <1> QED BY <1>1, Zenon DEF Min

\* A resource lives from its first use to its last.
LEMMA UseBounds ==
  ASSUME NEW enabled, Len(enabled) \in Nat, NEW r, NEW p \in Users(enabled, r)
  PROVE  /\ FirstUse(enabled, r) \in Nat /\ LastUse(enabled, r) \in Nat
         /\ FirstUse(enabled, r) <= p /\ p <= LastUse(enabled, r)
         /\ FirstUse(enabled, r) <= LastUse(enabled, r)
  <1>1. p \in Positions(enabled) /\ Users(enabled, r) \subseteq Positions(enabled)
    BY DEF Users
  <1>2. Len(enabled) - 1 \in Nat /\ Positions(enabled) = 0 .. Len(enabled) - 1
    BY <1>1 DEF Positions
  <1>3. PICK k \in Nat : k = Len(enabled) - 1
    BY <1>2
  <1>4. PICK S : S = Users(enabled, r)
    OBVIOUS
  <1>5. S \subseteq 0 .. k /\ p \in S /\ S \subseteq Nat
    BY <1>1, <1>2, <1>3, <1>4
  <1>6. Max(S) \in S /\ p <= Max(S)
    BY <1>5, MaxOfBounded
  <1>7. Min(S) \in S /\ Min(S) <= p
    BY <1>5, MinOfNaturals
  <1>8. FirstUse(enabled, r) = Min(S) /\ LastUse(enabled, r) = Max(S)
    BY <1>4 DEF FirstUse, LastUse
  <1>9. PICK first \in Nat, last \in Nat : first = Min(S) /\ last = Max(S)
    BY <1>5, <1>6, <1>7
  <1>10. first <= p /\ p <= last /\ p \in Nat
    BY <1>5, <1>6, <1>7, <1>9
  <1> QED BY <1>8, <1>9, <1>10

\* Sorted by a strict total order, a finite set is listed from end to end.
LEMMA InOrderLists ==
  ASSUME NEW S, IsFiniteSet(S), NEW before,
         \A x \in S : <<x, x>> \notin before,
         \A x, y \in S : x # y => <<x, y>> \in before \/ <<y, x>> \in before,
         \A x, y, z \in S : <<x, y>> \in before /\ <<y, z>> \in before => <<x, z>> \in before,
         NEW s, s = InOrder(S, before)
  PROVE  s \in Seq(S) /\ \A x \in S : \E k \in 1 .. Len(s) : s[k] = x
  <1> DEFINE rank == [x \in S |-> Cardinality({y \in S : <<y, x>> \in before})]
  <1>1. PICK size \in Nat : size = Cardinality(S)
    BY FS_CardinalityType
  <1>2. ASSUME NEW x \in S PROVE rank[x] \in 0 .. size - 1
    <2>0. PICK Y : Y = {y \in S : <<y, x>> \in before}
      OBVIOUS
    <2>1. Y \in SUBSET (S \ {x})
      BY <2>0
    <2>2. IsFiniteSet(S \ {x}) /\ Cardinality(S \ {x}) = size - 1
      BY <1>1, FS_RemoveElement
    <2>3. IsFiniteSet(Y) /\ Cardinality(Y) <= size - 1
      BY <2>1, <2>2, FS_Subset
    <2>4. Cardinality(Y) \in Nat
      BY <2>3, FS_CardinalityType
    <2>5. rank[x] = Cardinality(Y)
      BY <2>0
    <2> QED BY <1>1, <2>3, <2>4, <2>5
  <1>3. ASSUME NEW x \in S, NEW y \in S, <<x, y>> \in before PROVE rank[x] < rank[y]
    <2>1. PICK X : X = {z \in S : <<z, x>> \in before}
      OBVIOUS
    <2>2. PICK Y : Y = {z \in S : <<z, y>> \in before}
      OBVIOUS
    <2>3. IsFiniteSet(Y) /\ Y \in SUBSET S
      BY <2>2, FS_Subset
    <2>4. X \in SUBSET Y /\ X # Y
      BY <1>3, <2>1, <2>2
    <2>5. Cardinality(X) <= Cardinality(Y) /\ Cardinality(X) # Cardinality(Y)
      BY <2>3, <2>4, FS_Subset
    <2>6. rank[x] = Cardinality(X) /\ rank[y] = Cardinality(Y)
      BY <2>1, <2>2
    <2>7. rank[x] \in Int /\ rank[y] \in Int
      BY <1>1, <1>2
    <2> QED BY <2>5, <2>6, <2>7
  <1>4. \A x, y \in S : rank[x] = rank[y] => x = y
    <2> SUFFICES ASSUME NEW x \in S, NEW y \in S, rank[x] = rank[y], x # y PROVE FALSE
      OBVIOUS
    <2>1. rank[x] \in Int /\ rank[y] \in Int
      BY <1>1, <1>2
    <2>2. rank[x] < rank[y] \/ rank[y] < rank[x]
      BY <1>3
    <2> HIDE DEF rank
    <2> QED BY <2>1, <2>2
  <1>5. IsFiniteSet(0 .. size - 1) /\ Cardinality(0 .. size - 1) = size
    <2>1. size - 1 \in Int /\ 0 \in Int
      OBVIOUS
    <2>2. Cardinality(0 .. size - 1) = IF 0 > size - 1 THEN 0 ELSE size - 1 - 0 + 1
      BY <2>1, FS_Interval
    <2>3. IsFiniteSet(0 .. size - 1)
      BY <2>1, FS_Interval
    <2> QED BY <2>2, <2>3
  <1>6. rank \in [S -> 0 .. size - 1]
    BY <1>2
  <1>7. rank \in Injection(S, 0 .. size - 1)
    <2> HIDE DEF rank
    <2> QED BY <1>4, <1>6 DEF Injection, IsInjective
  <1>8. rank \in Surjection(S, 0 .. size - 1)
    <2> HIDE DEF rank
    <2> QED BY <1>1, <1>5, <1>7, FS_Injection
  <1>9. \A k \in 0 .. size - 1 : \E x \in S : rank[x] = k
    <2> HIDE DEF rank
    <2> QED BY <1>8, Zenon DEF Surjection
  <1>10. s = [k \in 1 .. size |->
               CHOOSE x \in S : Cardinality({y \in S : <<y, x>> \in before}) = k - 1]
    BY <1>1, Zenon DEF InOrder
  <1>11. ASSUME NEW k \in 1 .. size PROVE s[k] \in S /\ rank[s[k]] = k - 1
    <2>1. k - 1 \in 0 .. size - 1
      OBVIOUS
    <2>2. \E x \in S : rank[x] = k - 1
      BY <1>9, <2>1, Zenon
    <2>3. \E x \in S : Cardinality({y \in S : <<y, x>> \in before}) = k - 1
      BY <2>2
    <2>4. s[k] = CHOOSE x \in S : Cardinality({y \in S : <<y, x>> \in before}) = k - 1
      BY <1>10
    <2>5. s[k] \in S /\ Cardinality({y \in S : <<y, s[k]>> \in before}) = k - 1
      BY <2>3, <2>4, Zenon
    <2> QED BY <2>5
  <1>12. DOMAIN s = 1 .. size /\ s = [k \in 1 .. size |-> s[k]]
    BY <1>10
  <1>13. s \in [1 .. size -> S]
    BY <1>11, <1>12
  <1>14. s \in Seq(S) /\ Len(s) = size
    BY <1>13
  <1>15. ASSUME NEW x \in S PROVE \E k \in 1 .. size : s[k] = x
    <2>1. PICK k : k = rank[x] + 1
      OBVIOUS
    <2>2. k \in 1 .. size /\ k - 1 = rank[x]
      <3>1. rank[x] \in 0 .. size - 1
        BY <1>2
      <3> HIDE DEF rank
      <3> QED BY <2>1, <3>1
    <2>3. s[k] \in S /\ rank[s[k]] = rank[x]
      BY <1>11, <2>2
    <2> HIDE DEF rank
    <2>4. s[k] = x
      BY <1>4, <2>3, Zenon
    <2> QED BY <2>2, <2>4
  <1> QED BY <1>14, <1>15

LEMMA SoonerOrders ==
  ASSUME NEW x, NEW y, NEW z, x.first \in Nat, x.last \in Nat, x.of \in Nat,
         y.first \in Nat, y.last \in Nat, y.of \in Nat,
         z.first \in Nat, z.last \in Nat, z.of \in Nat
  PROVE  /\ ~Sooner(x, x)
         /\ x.of # y.of => Sooner(x, y) \/ Sooner(y, x)
         /\ Sooner(x, y) /\ Sooner(y, z) => Sooner(x, z)
  <1>1. ~Sooner(x, x) /\ (x.of # y.of => Sooner(x, y) \/ Sooner(y, x))
    BY DEF Sooner
  <1>2. ASSUME Sooner(x, y), Sooner(y, z) PROVE Sooner(x, z)
    <2>1. CASE x.first < y.first
      BY <1>2, <2>1 DEF Sooner
    <2>2. CASE x.first = y.first /\ x.last < y.last
      BY <1>2, <2>2 DEF Sooner
    <2>3. CASE x.first = y.first /\ x.last = y.last /\ x.of < y.of
      BY <1>2, <2>3 DEF Sooner
    <2> QED BY <1>2, <2>1, <2>2, <2>3 DEF Sooner
  <1> QED BY <1>1, <1>2

\* The lifetimes are listed, every one of them.
LEMMA LifetimesListed ==
  ASSUME NEW enabled, Len(enabled) \in Nat, NEW s, s = ByLifetime(enabled)
  PROVE  /\ Len(s) \in Nat
         /\ \A k \in 1 .. Len(s) : \E r \in Pooled(enabled) : s[k] = Lifetime(enabled, r)
         /\ \A r \in Pooled(enabled) : \E k \in 1 .. Len(s) : s[k] = Lifetime(enabled, r)
  <1>0. PICK lives : lives = {Lifetime(enabled, r) : r \in Pooled(enabled)}
    OBVIOUS
  <1>1. Pooled(enabled) \subseteq ResourceIds /\ ResourceIds \subseteq Nat
        /\ \A r \in Pooled(enabled) : FirstUse(enabled, r) \in Nat /\ LastUse(enabled, r) \in Nat
    <2>1. ASSUME NEW r \in Pooled(enabled)
          PROVE  FirstUse(enabled, r) \in Nat /\ LastUse(enabled, r) \in Nat
      <3>1. PICK p \in Users(enabled, r) : TRUE
        BY DEF Pooled
      <3> QED BY <3>1, UseBounds
    <2> QED BY <2>1, PlanAssumption DEF Pooled, ResourceIds
  <1>2. IsFiniteSet(Pooled(enabled))
    <2>1. PICK len \in Nat : len = Len(Resources) /\ ResourceIds = 1 .. len
      BY PlanAssumption DEF ResourceIds
    <2>2. IsFiniteSet(1 .. len)
      <3>1. 1 \in Int /\ len \in Int
        OBVIOUS
      <3> QED BY <3>1, FS_Interval
    <2>3. Pooled(enabled) \in SUBSET (1 .. len)
      BY <1>1, <2>1
    <2> QED BY <2>2, <2>3, FS_Subset
  <1>3. IsFiniteSet(lives)
    <2>1. PICK f : f = [r \in Pooled(enabled) |-> Lifetime(enabled, r)]
      OBVIOUS
    <2>2. f \in [Pooled(enabled) -> lives]
      BY <1>0, <2>1
    <2>3. \A life \in lives : \E r \in Pooled(enabled) : f[r] = life
      BY <1>0, <2>1
    <2>4. f \in Surjection(Pooled(enabled), lives)
      BY <2>2, <2>3, Zenon DEF Surjection
    <2> QED BY <1>2, <2>4, FS_Surjection
  <1>4. ASSUME NEW life \in lives
        PROVE  /\ life.of \in Pooled(enabled) /\ life = Lifetime(enabled, life.of)
               /\ life.first \in Nat /\ life.last \in Nat /\ life.of \in Nat
    <2>1. PICK r \in Pooled(enabled) : life = Lifetime(enabled, r)
      BY <1>0
    <2>2. life.of = r /\ life.first = FirstUse(enabled, r) /\ life.last = LastUse(enabled, r)
      BY <2>1 DEF Lifetime
    <2> QED BY <1>1, <2>1, <2>2
  <1> DEFINE before == {e \in lives \X lives : Sooner(e[1], e[2])}
  <1>5. \A x, y \in lives : <<x, y>> \in before <=> Sooner(x, y)
    OBVIOUS
  <1>6. /\ \A x \in lives : ~Sooner(x, x)
        /\ \A x, y \in lives : x # y => Sooner(x, y) \/ Sooner(y, x)
        /\ \A x, y, z \in lives : Sooner(x, y) /\ Sooner(y, z) => Sooner(x, z)
    <2>1. \A x, y \in lives : x # y => x.of # y.of
      BY <1>4, Zenon
    <2>2. ASSUME NEW x \in lives, NEW y \in lives, NEW z \in lives
          PROVE  /\ ~Sooner(x, x) /\ (x.of # y.of => Sooner(x, y) \/ Sooner(y, x))
                 /\ Sooner(x, y) /\ Sooner(y, z) => Sooner(x, z)
      <3>1. /\ x.first \in Nat /\ x.last \in Nat /\ x.of \in Nat
            /\ y.first \in Nat /\ y.last \in Nat /\ y.of \in Nat
            /\ z.first \in Nat /\ z.last \in Nat /\ z.of \in Nat
        BY <1>4, Zenon
      <3> QED BY <3>1, SoonerOrders, Zenon
    <2>3. \A x \in lives : ~Sooner(x, x)
      BY <2>2, Zenon
    <2>4. \A x, y \in lives : x.of # y.of => Sooner(x, y) \/ Sooner(y, x)
      BY <2>2, Zenon
    <2>5. \A x, y, z \in lives : Sooner(x, y) /\ Sooner(y, z) => Sooner(x, z)
      BY <2>2, Zenon
    <2> QED BY <2>1, <2>3, <2>4, <2>5, Zenon
  <1>9. s = InOrder(lives, before)
    BY <1>0, Zenon DEF ByLifetime
  <1>10. PICK less : less = before
    OBVIOUS
  <1> HIDE DEF before
  <1>11. \A x \in lives : <<x, x>> \notin less
    BY <1>5, <1>6, <1>10, Zenon
  <1>12. \A x, y \in lives : x # y => <<x, y>> \in less \/ <<y, x>> \in less
    BY <1>5, <1>6, <1>10, Zenon
  <1>13. \A x, y, z \in lives : <<x, y>> \in less /\ <<y, z>> \in less => <<x, z>> \in less
    BY <1>5, <1>6, <1>10, Zenon
  <1>14. PICK S : S = lives
    OBVIOUS
  <1>15. /\ IsFiniteSet(S) /\ s = InOrder(S, less)
         /\ \A x \in S : <<x, x>> \notin less
         /\ \A x, y \in S : x # y => <<x, y>> \in less \/ <<y, x>> \in less
         /\ \A x, y, z \in S : <<x, y>> \in less /\ <<y, z>> \in less => <<x, z>> \in less
    BY <1>3, <1>9, <1>10, <1>11, <1>12, <1>13, <1>14, Zenon
  <1>16. s \in Seq(S) /\ \A x \in S : \E k \in 1 .. Len(s) : s[k] = x
    <2>1. \A x \in S : <<x, x>> \notin less
      BY <1>15, Zenon
    <2>2. \A x, y \in S : x # y => <<x, y>> \in less \/ <<y, x>> \in less
      BY <1>15, Zenon
    <2>3. \A x, y, z \in S : <<x, y>> \in less /\ <<y, z>> \in less => <<x, z>> \in less
      BY <1>15, Zenon
    <2>4. IsFiniteSet(S) /\ s = InOrder(S, less)
      BY <1>15, Zenon
    <2> QED BY ONLY <2>1, <2>2, <2>3, <2>4, InOrderLists
  <1>17. PICK len \in Nat : len = Len(s) /\ \A k \in 1 .. len : s[k] \in S
    BY <1>16
  <1> QED BY <1>0, <1>14, <1>16, <1>17

\* The pool while the lifetimes are placed: a slot is taken until the last of
\* the resources it holds.
SlotRecords(enabled) ==
  [spec : {Spec(r) : r \in ResourceIds}, last : Nat, holds : SUBSET Pooled(enabled)]

Laid(enabled, pool) ==
  /\ pool \in Seq(SlotRecords(enabled))
  /\ \A x \in DOMAIN pool : \A r \in pool[x].holds : LastUse(enabled, r) <= pool[x].last
  /\ \A x \in DOMAIN pool : \A r, s \in pool[x].holds :
       r # s => LastUse(enabled, r) < FirstUse(enabled, s) \/ LastUse(enabled, s) < FirstUse(enabled, r)

\* The next lifetime goes where it overlaps with none.
LEMMA PlaceStep ==
  ASSUME NEW enabled, Len(enabled) \in Nat, NEW pool, Laid(enabled, pool),
         NEW r \in Pooled(enabled), NEW next, next = Place(pool, Lifetime(enabled, r))
  PROVE  /\ Laid(enabled, next) /\ \E x \in DOMAIN next : r \in next[x].holds
         /\ \A x \in DOMAIN pool : x \in DOMAIN next /\ pool[x].holds \subseteq next[x].holds
  <1>1. PICK p \in Users(enabled, r) : TRUE
    BY DEF Pooled
  <1>2. PICK first \in Nat, last \in Nat :
          first = FirstUse(enabled, r) /\ last = LastUse(enabled, r) /\ first <= last
    BY <1>1, UseBounds
  <1>3. PICK life : life = Lifetime(enabled, r)
    OBVIOUS
  <1>4. life.of = r /\ life.spec = Spec(r) /\ life.first = first /\ life.last = last
    BY <1>2, <1>3 DEF Lifetime
  <1>5. PICK R : R = SlotRecords(enabled)
    OBVIOUS
  <1>6. pool \in Seq(R) /\ Len(pool) \in Nat /\ DOMAIN pool = 1 .. Len(pool)
    BY <1>5 DEF Laid
  <1>7. \A x \in DOMAIN pool :
          /\ pool[x] \in R /\ pool[x].last \in Nat /\ pool[x].holds \subseteq Pooled(enabled)
          /\ pool[x].spec \in {Spec(q) : q \in ResourceIds}
          /\ pool[x] = [spec |-> pool[x].spec, last |-> pool[x].last, holds |-> pool[x].holds]
    <2> SUFFICES ASSUME NEW x \in DOMAIN pool
                 PROVE  /\ pool[x] \in R /\ pool[x].last \in Nat
                        /\ pool[x].holds \subseteq Pooled(enabled)
                        /\ pool[x].spec \in {Spec(q) : q \in ResourceIds}
                        /\ pool[x] = [spec |-> pool[x].spec, last |-> pool[x].last,
                                      holds |-> pool[x].holds]
      OBVIOUS
    <2>1. PICK old \in R : old = pool[x]
      BY <1>6
    <2>2. /\ old.last \in Nat /\ old.holds \in SUBSET Pooled(enabled)
          /\ old.spec \in {Spec(q) : q \in ResourceIds}
          /\ old = [spec |-> old.spec, last |-> old.last, holds |-> old.holds]
      BY <1>5, <2>1 DEF SlotRecords
    <2> QED BY <2>1, <2>2
  <1>8. \A q \in Pooled(enabled) : FirstUse(enabled, q) \in Nat /\ LastUse(enabled, q) \in Nat
    <2> SUFFICES ASSUME NEW q \in Pooled(enabled)
                 PROVE  FirstUse(enabled, q) \in Nat /\ LastUse(enabled, q) \in Nat
      OBVIOUS
    <2>1. PICK user \in Users(enabled, q) : TRUE
      BY DEF Pooled
    <2> QED BY <2>1, UseBounds
  <1>9. r \in ResourceIds
    BY DEF Pooled
  <1> DEFINE fit == {x \in DOMAIN pool : pool[x].spec = life.spec /\ Free(pool[x], life.first)}
  <1>10. CASE fit = {}
    <2>1. next = Append(pool, [spec |-> life.spec, last |-> life.last, holds |-> {life.of}])
      BY <1>3, <1>10, Zenon DEF Place
    <2>2. PICK new : new = [spec |-> life.spec, last |-> life.last, holds |-> {life.of}]
      OBVIOUS
    <2>3. new.last = last /\ new.holds = {r} /\ new \in R
      BY <1>4, <1>5, <1>9, <2>2 DEF SlotRecords
    <2>4. /\ next \in Seq(R) /\ Len(next) = Len(pool) + 1 /\ DOMAIN next = 1 .. Len(pool) + 1
          /\ \A x \in DOMAIN pool : next[x] = pool[x]
          /\ next[Len(pool) + 1] = new
      BY <1>6, <2>1, <2>2, <2>3, AppendProperties
    <2>5. ASSUME NEW x \in DOMAIN next
          PROVE  (x \in DOMAIN pool /\ next[x] = pool[x]) \/ next[x] = new
      BY <1>6, <2>4
    <2>6. Len(pool) + 1 \in DOMAIN next
      BY <1>6, <2>4
    <2>7. ASSUME NEW x \in DOMAIN next, NEW q \in next[x].holds
          PROVE  LastUse(enabled, q) <= next[x].last
      <3>1. CASE x \in DOMAIN pool /\ next[x] = pool[x]
        BY <2>7, <3>1 DEF Laid
      <3>2. CASE next[x] = new
        BY <1>2, <2>3, <2>7, <3>2
      <3> QED BY <2>5, <3>1, <3>2
    <2>8. ASSUME NEW x \in DOMAIN next, NEW q \in next[x].holds, NEW s \in next[x].holds, q # s
          PROVE  LastUse(enabled, q) < FirstUse(enabled, s) \/ LastUse(enabled, s) < FirstUse(enabled, q)
      <3>1. CASE x \in DOMAIN pool /\ next[x] = pool[x]
        BY <2>8, <3>1 DEF Laid
      <3>2. CASE next[x] = new
        BY <2>3, <2>8, <3>2
      <3> QED BY <2>5, <3>1, <3>2
    <2>9. Laid(enabled, next)
      BY <1>5, <2>4, <2>7, <2>8 DEF Laid
    <2>10. \A x \in DOMAIN pool : x \in DOMAIN next /\ pool[x].holds \subseteq next[x].holds
      BY <1>6, <2>4
    <2> QED BY <2>3, <2>4, <2>6, <2>9, <2>10
  <1>11. CASE fit # {}
    <2>1. PICK m : m = Min(fit)
      OBVIOUS
    <2>2. m \in fit
      <3>1. fit \subseteq Nat
        BY <1>6
      <3> HIDE DEF fit
      <3> QED BY <1>11, <2>1, <3>1, MinOfNaturals
    <2>3. m \in DOMAIN pool /\ pool[m].last < first
      BY <1>4, <2>2 DEF Free
    <2>4. next = [pool EXCEPT ![m].last = life.last, ![m].holds = @ \cup {life.of}]
      BY <1>3, <1>11, <2>1, Zenon DEF Place
    <2>5. PICK new : new = [spec |-> pool[m].spec, last |-> last, holds |-> pool[m].holds \cup {r}]
      OBVIOUS
    <2>6. new.last = last /\ new.holds = pool[m].holds \cup {r} /\ new \in R
      BY <1>5, <1>7, <2>3, <2>5 DEF SlotRecords
    <2>7. next = [pool EXCEPT ![m] = new]
      BY <1>4, <1>6, <1>7, <2>3, <2>4, <2>5
    <2>8. /\ next \in Seq(R) /\ DOMAIN next = DOMAIN pool /\ next[m] = new
          /\ \A x \in DOMAIN pool : x # m => next[x] = pool[x]
      BY <1>6, <2>3, <2>6, <2>7
    <2>9. ASSUME NEW q \in pool[m].holds
          PROVE  q \in Pooled(enabled) /\ LastUse(enabled, q) < first /\ LastUse(enabled, q) <= last
      <3>1. LastUse(enabled, q) <= pool[m].last /\ pool[m].last \in Nat /\ q \in Pooled(enabled)
        BY <1>7, <2>3, <2>9 DEF Laid
      <3> QED BY <1>2, <1>8, <2>3, <3>1
    <2>10. ASSUME NEW x \in DOMAIN next, NEW q \in next[x].holds
           PROVE  LastUse(enabled, q) <= next[x].last
      <3>1. CASE x # m
        BY <2>8, <2>10, <3>1 DEF Laid
      <3>2. CASE x = m
        BY <1>2, <2>6, <2>8, <2>9, <2>10, <3>2
      <3> QED BY <3>1, <3>2
    <2>11. ASSUME NEW x \in DOMAIN next, NEW q \in next[x].holds, NEW s \in next[x].holds, q # s
           PROVE  LastUse(enabled, q) < FirstUse(enabled, s) \/ LastUse(enabled, s) < FirstUse(enabled, q)
      <3>1. CASE x # m
        BY <2>8, <2>11, <3>1 DEF Laid
      <3>2. CASE x = m /\ q \in pool[m].holds /\ s \in pool[m].holds
        BY <2>3, <2>11, <3>2 DEF Laid
      <3>3. CASE x = m /\ q \in pool[m].holds /\ s = r
        BY <1>2, <2>9, <3>3
      <3>4. CASE x = m /\ q = r /\ s \in pool[m].holds
        BY <1>2, <2>9, <3>4
      <3> QED BY <2>6, <2>8, <2>11, <3>1, <3>2, <3>3, <3>4
    <2>12. Laid(enabled, next)
      BY <1>5, <2>8, <2>10, <2>11 DEF Laid
    <2>13. \A x \in DOMAIN pool : x \in DOMAIN next /\ pool[x].holds \subseteq next[x].holds
      BY <2>6, <2>8
    <2> QED BY <2>3, <2>6, <2>8, <2>12, <2>13
  <1> QED BY <1>10, <1>11

\* The pool after m lifetimes.
PlacedTo(lifetimes, m, f) ==
  f = [k \in 0 .. m |-> IF k = 0 THEN <<>> ELSE Place(f[k - 1], lifetimes[k])]

LEMMA PlacedExist == ASSUME NEW lifetimes, NEW m \in Nat PROVE \E f : PlacedTo(lifetimes, m, f)
  <1> DEFINE T == {k \in Nat : ~\E f : PlacedTo(lifetimes, k, f)}
  <1> SUFFICES ASSUME T # {} PROVE FALSE
    OBVIOUS
  <1>1. PICK k \in T : \A l \in T : k <= l
    BY NatHasLeast
  <1>2. PlacedTo(lifetimes, 0, [x \in 0 .. 0 |-> <<>>])
    BY DEF PlacedTo
  <1>3. k \in Nat /\ k # 0
    BY <1>2
  <1>4. k - 1 \in Nat /\ k - 1 \notin T
    BY <1>1, <1>3
  <1>5. PICK g : PlacedTo(lifetimes, k - 1, g)
    BY <1>4
  <1>6. PICK last : last = Place(g[k - 1], lifetimes[k])
    OBVIOUS
  <1>7. PICK f : f = [x \in 0 .. k |-> IF x = k THEN last ELSE g[x]]
    OBVIOUS
  <1>8. \A x \in 0 .. k - 1 :
          f[x] = g[x] /\ g[x] = IF x = 0 THEN <<>> ELSE Place(g[x - 1], lifetimes[x])
    <2>1. \A x \in 0 .. k - 1 : f[x] = g[x]
      BY <1>3, <1>7
    <2> QED BY <1>5, <2>1, Zenon DEF PlacedTo
  <1>9. ASSUME NEW x \in 0 .. k
        PROVE  f[x] = IF x = 0 THEN <<>> ELSE Place(f[x - 1], lifetimes[x])
    <2>1. CASE x = k
      <3>1. k - 1 \in 0 .. k - 1 /\ f[k - 1] = g[k - 1] /\ f[k] = last
        BY <1>3, <1>7, <1>8
      <3> QED BY <1>3, <1>6, <2>1, <3>1
    <2>2. CASE x # k /\ x # 0
      <3>1. x \in 0 .. k - 1 /\ x - 1 \in 0 .. k - 1
        BY <1>3, <2>2
      <3> QED BY <1>8, <2>2, <3>1
    <2>3. CASE x # k /\ x = 0
      <3>1. x \in 0 .. k - 1
        BY <1>3, <2>3
      <3> QED BY <1>8, <2>3, <3>1
    <2> QED BY <2>1, <2>2, <2>3
  <1>10. PlacedTo(lifetimes, k, f)
    BY <1>7, <1>9, Zenon DEF PlacedTo
  <1> QED BY <1>1, <1>10

\* The slots of a layout keep its resources apart: what
\* validate_no_slot_aliasing asserts of every pool.
LEMMA SlotsApart ==
  ASSUME NEW enabled, Len(enabled) \in Nat
  PROVE  Apart(enabled, Slots(ByLifetime(enabled)))
  <1>2. PICK s : s = ByLifetime(enabled)
    OBVIOUS
  <1>3. PICK len \in Nat :
          /\ len = Len(s)
          /\ \A k \in 1 .. len : \E r \in Pooled(enabled) : s[k] = Lifetime(enabled, r)
          /\ \A r \in Pooled(enabled) : \E k \in 1 .. len : s[k] = Lifetime(enabled, r)
    BY <1>2, LifetimesListed
  <1> DEFINE f == CHOOSE f : PlacedTo(s, len, f)
  <1>5. PlacedTo(s, len, f)
    BY PlacedExist, Zenon
  <1>6. Slots(s) = f[len]
    BY <1>3, Zenon DEF Slots, PlacedTo
  <1>7. PICK g : g = f
    OBVIOUS
  <1> HIDE DEF f
  <1>8. \A k \in 0 .. len : g[k] = IF k = 0 THEN <<>> ELSE Place(g[k - 1], s[k])
    BY <1>5, <1>7 DEF PlacedTo
  <1> DEFINE Good(k) == /\ Laid(enabled, g[k])
                        /\ \A l \in 1 .. k : \E x \in DOMAIN g[k] : s[l].of \in g[k][x].holds
  <1> DEFINE T == {k \in Nat : k <= len /\ ~Good(k)}
  <1>9. ASSUME T # {} PROVE FALSE
    <2>1. PICK k \in T : \A l \in T : k <= l
      BY <1>9, NatHasLeast
    <2>2. k # 0
      <3>1. 0 \in 0 .. len
        OBVIOUS
      <3>2. g[0] = <<>>
        BY <1>8, <3>1, Zenon
      <3>3. <<>> \in Seq(SlotRecords(enabled)) /\ DOMAIN <<>> = {}
        BY EmptySeq
      <3>4. Laid(enabled, g[0])
        BY <3>2, <3>3 DEF Laid
      <3>5. Good(0)
        BY <3>4
      <3> QED BY <2>1, <3>5
    <2>3. k - 1 \in Nat /\ k - 1 <= len /\ k - 1 \notin T /\ k \in 1 .. len /\ k \in 0 .. len
      BY <2>1, <2>2
    <2>4. Good(k - 1)
      BY <2>3
    <2>5. PICK r \in Pooled(enabled) : s[k] = Lifetime(enabled, r)
      BY <1>3, <2>3
    <2>6. s[k].of = r
      BY <2>5 DEF Lifetime
    <2>7. g[k] = Place(g[k - 1], Lifetime(enabled, r))
      BY <1>8, <2>2, <2>3, <2>5
    <2>8. PICK pool, next : pool = g[k - 1] /\ next = g[k]
      OBVIOUS
    <2>9. Laid(enabled, pool)
      BY <2>4, <2>8
    <2>10. /\ Laid(enabled, next) /\ \E x \in DOMAIN next : r \in next[x].holds
           /\ \A x \in DOMAIN pool : x \in DOMAIN next /\ pool[x].holds \subseteq next[x].holds
      BY <2>7, <2>8, <2>9, PlaceStep
    <2>11. ASSUME NEW l \in 1 .. k PROVE \E x \in DOMAIN next : s[l].of \in next[x].holds
      <3>1. CASE l = k
        BY <2>6, <2>10, <3>1
      <3>2. CASE l # k
        <4>1. l \in 1 .. k - 1
          BY <2>3, <3>2
        <4>2. PICK x \in DOMAIN pool : s[l].of \in pool[x].holds
          BY <2>4, <2>8, <4>1
        <4> QED BY <2>10, <4>2
      <3> QED BY <3>1, <3>2
    <2>12. Good(k)
      BY <2>8, <2>10, <2>11
    <2> QED BY <2>1, <2>12
  <1>10. Good(len)
    BY <1>9
  <1>11. PICK slots : slots = g[len]
    OBVIOUS
  <1>12. /\ Laid(enabled, slots)
         /\ \A l \in 1 .. len : \E x \in DOMAIN slots : s[l].of \in slots[x].holds
    BY <1>10, <1>11
  <1> HIDE DEF Good
  <1>13. ASSUME NEW r \in Pooled(enabled) PROVE \E x \in DOMAIN slots : r \in slots[x].holds
    <2>2. PICK l \in 1 .. len : s[l] = Lifetime(enabled, r)
      BY <1>3
    <2>3. s[l].of = r
      BY <2>2 DEF Lifetime
    <2> QED BY <1>12, <2>3
  <1>14. ASSUME NEW x \in DOMAIN slots PROVE slots[x].holds \subseteq Pooled(enabled)
    <2>1. PICK R : R = SlotRecords(enabled)
      OBVIOUS
    <2>2. slots \in Seq(R)
      BY <1>12, <2>1 DEF Laid
    <2>3. PICK held \in R : held = slots[x]
      BY <2>2
    <2> QED BY <2>1, <2>3 DEF SlotRecords
  <1>15. Apart(enabled, slots)
    BY <1>12, <1>13, <1>14 DEF Apart, Laid
  <1>16. Slots(ByLifetime(enabled)) = slots
    BY <1>2, <1>6, <1>7, <1>11
  <1> QED BY <1>15, <1>16

-----------------------------------------------------------------------------
(* What the passes find in the textures. *)

\* A layout is sound whatever is registered after it, enabled or disabled.
LEMMA SoundStays ==
  ASSUME DOMAIN passes \subseteq DOMAIN passes',
         \A k \in DOMAIN passes : passes'[k].access = passes[k].access,
         NEW l, Sound(l)
  PROVE  Sound(l)'
  <1>1. PICK enabled : enabled = l.passes
    OBVIOUS
  <1>2. enabled \in Seq(DOMAIN passes)
    BY <1>1 DEF Sound
  <1>3. enabled \in Seq(DOMAIN passes')
    <2>1. PICK A, B : A = DOMAIN passes /\ B = DOMAIN passes' /\ A \subseteq B
      OBVIOUS
    <2>2. enabled \in Seq(A)
      BY <1>2, <2>1
    <2>3. enabled \in Seq(B)
      BY <2>1, <2>2
    <2> QED BY <2>1, <2>3
  <1>4. \A p \in Positions(enabled) :
          Reads(enabled, p)' = Reads(enabled, p) /\ Writes(enabled, p)' = Writes(enabled, p)
    <2> SUFFICES ASSUME NEW p \in Positions(enabled)
                 PROVE  Reads(enabled, p)' = Reads(enabled, p) /\ Writes(enabled, p)' = Writes(enabled, p)
      OBVIOUS
    <2>1. p + 1 \in DOMAIN enabled
      BY <1>2 DEF Positions
    <2>2. enabled[p + 1] \in DOMAIN passes
      BY <1>2, <2>1
    <2> QED BY <2>2 DEF Reads, Writes
  <1>5. \A r : Users(enabled, r)' = Users(enabled, r)
    BY <1>4 DEF Users, Positions
  <1>6. \A r : FirstUse(enabled, r)' = FirstUse(enabled, r) /\ LastUse(enabled, r)' = LastUse(enabled, r)
    BY <1>5 DEF FirstUse, LastUse
  <1>7. Pooled(enabled)' = Pooled(enabled)
    BY <1>5 DEF Pooled
  <1>8. Apart(enabled, l.slots)
    BY <1>1 DEF Sound
  <1>9. Apart(enabled, l.slots)'
    BY <1>6, <1>7, <1>8 DEF Apart
  <1> QED BY <1>1, <1>3, <1>9 DEF Sound

LEMMA LayoutsStaySound ==
  ASSUME DOMAIN passes \subseteq DOMAIN passes',
         \A k \in DOMAIN passes : passes'[k].access = passes[k].access,
         Sound(layout), Sound(cached.layout)
  PROVE  /\ layout' = layout => Sound(layout)'
         /\ layout' = cached.layout => Sound(layout)'
         /\ cached' = cached => Sound(cached.layout)'
  <1>1. PICK l, m : l = layout /\ m = cached.layout
    OBVIOUS
  <1>2. Sound(l)' /\ Sound(m)'
    BY <1>1, SoundStays
  <1> QED BY <1>1, <1>2

LEMMA EmptyIsSound ==
  ASSUME NEW l, l.passes = <<>>, l.levels = <<>>, l.slots = <<>>
  PROVE  Sound(l) /\ Sound(l)'
  <1>1. /\ <<>> \in Seq(DOMAIN passes) /\ <<>> \in Seq(DOMAIN passes')
        /\ <<>> \in Seq(Seq(Nat)) /\ Len(<<>>) = 0 /\ DOMAIN <<>> = {}
    BY EmptySeq
  <1>2. Pooled(<<>>) = {} /\ Pooled(<<>>)' = {}
    BY <1>1 DEF Pooled, Users, Positions
  <1>3. Apart(<<>>, <<>>) /\ Apart(<<>>, <<>>)'
    BY <1>1, <1>2 DEF Apart
  <1> QED BY <1>1, <1>3 DEF Sound

LEMMA NoLayoutIsEmpty ==
  NoLayout.layout.passes = <<>> /\ NoLayout.layout.levels = <<>> /\ NoLayout.layout.slots = <<>>
  <1>1. PICK l : l = [passes |-> <<>>, slots |-> <<>>, surface |-> 0, levels |-> <<>>]
    OBVIOUS
  <1>2. NoLayout.layout = l
    BY <1>1 DEF NoLayout
  <1>3. l.passes = <<>> /\ l.levels = <<>> /\ l.slots = <<>>
    BY <1>1, Zenon
  <1> QED BY <1>2, <1>3

LEMMA SharingInit == PlanInit => SharingInv
  <1> SUFFICES ASSUME PlanInit PROVE SharingInv
    OBVIOUS
  <1>1. passes \in Seq([access : Accesses, enabled : BOOLEAN])
    BY FrameInitInv DEF FrameInv, PlanTypes
  <1>2. /\ phase = "idle" /\ mode = "none" /\ layout = NoLayout.layout
        /\ cached.layout = NoLayout.layout
    BY DEF PlanInit
  <1>3. PICK l : l = NoLayout.layout /\ l.passes = <<>> /\ l.levels = <<>> /\ l.slots = <<>>
    BY NoLayoutIsEmpty
  <1>4. Sound(l)
    BY <1>3, EmptyIsSound
  <1> QED BY <1>1, <1>2, <1>3, <1>4 DEF SharingInv

\* Outside of the submission only the layouts have to stay sound.
LEMMA SharingRests ==
  ASSUME SharingInv, passes' \in Seq([access : Accesses, enabled : BOOLEAN]),
         DOMAIN passes \subseteq DOMAIN passes',
         \A k \in DOMAIN passes : passes'[k].access = passes[k].access,
         phase' \notin {"record", "passes"},
         mode' \in {mode, "execute", "parallel", "projected"},
         layout' = layout \/ layout' = cached.layout \/ Sound(layout)',
         cached' = cached \/ Sound(cached.layout)'
  PROVE  SharingInv'
  <1>1. Sound(layout) /\ Sound(cached.layout) /\ mode \in {"none", "execute", "parallel", "projected"}
    BY DEF SharingInv
  <1>2. Sound(layout)' /\ Sound(cached.layout)'
    BY <1>1, LayoutsStaySound
  <1>3. mode' \in {"none", "execute", "parallel", "projected"}
    BY <1>1
  <1> QED BY <1>2, <1>3 DEF SharingInv

LEMMA ChangesKeepSharing ==
  ASSUME SharingInv,
         \/ \E access \in Accesses : AddPass(access)
         \/ \E k \in DOMAIN passes : \E enabled \in BOOLEAN : SetPassState(k, enabled)
         \/ \E size \in Surfaces : SetSurfaceSize(size)
         \/ \E count \in SampleCounts : SetSampleCount(count)
         \/ \E cap \in Budgets : SetBudget(cap)
         \/ \E before, after \in DOMAIN passes : OrderBefore(before, after)
         \/ InvalidateLayout
  PROVE  SharingInv'
  <1>1. passes \in Seq([access : Accesses, enabled : BOOLEAN])
    BY DEF SharingInv
  <1>2. phase' = "idle" /\ layout' = layout /\ mode' = mode
    BY DEF AddPass, SetPassState, SetSurfaceSize, SetSampleCount, SetBudget, OrderBefore,
           InvalidateLayout, Changing, frame
  <1>3. cached' = cached \/ cached' = NoLayout
    BY DEF AddPass, SetPassState, SetSurfaceSize, SetSampleCount, SetBudget, OrderBefore,
           InvalidateLayout
  <1>4. cached' = cached \/ Sound(cached.layout)'
    <2>1. PICK l : l = NoLayout.layout /\ l.passes = <<>> /\ l.levels = <<>> /\ l.slots = <<>>
      BY NoLayoutIsEmpty
    <2>2. Sound(l)'
      BY <2>1, EmptyIsSound
    <2> QED BY <1>3, <2>1, <2>2
  <1>5. /\ passes' \in Seq([access : Accesses, enabled : BOOLEAN])
        /\ DOMAIN passes \subseteq DOMAIN passes'
        /\ \A k \in DOMAIN passes : passes'[k].access = passes[k].access
    <2>1. CASE \E access \in Accesses : AddPass(access)
      <3>1. PICK access \in Accesses : AddPass(access)
        BY <2>1
      <3>2. PICK R : R = [access : Accesses, enabled : BOOLEAN]
        OBVIOUS
      <3>3. PICK p \in R : p = [access |-> access, enabled |-> TRUE]
        BY <3>2
      <3>4. passes' = Append(passes, p) /\ passes \in Seq(R)
        BY <1>1, <3>1, <3>2, <3>3 DEF AddPass
      <3>5. /\ passes' \in Seq(R) /\ DOMAIN passes \subseteq DOMAIN passes'
            /\ \A k \in DOMAIN passes : passes'[k] = passes[k]
        BY <3>4, AppendProperties
      <3> QED BY <3>2, <3>5
    <2>2. CASE \E k \in DOMAIN passes : \E enabled \in BOOLEAN : SetPassState(k, enabled)
      <3>1. PICK k \in DOMAIN passes, enabled \in BOOLEAN : SetPassState(k, enabled)
        BY <2>2
      <3>2. passes' = [passes EXCEPT ![k].enabled = enabled]
        BY <3>1 DEF SetPassState
      <3> QED BY <1>1, <3>2, SetPassType
    <2>3. CASE passes' = passes
      BY <1>1, <2>3
    <2>4. \/ \E access \in Accesses : AddPass(access)
          \/ \E k \in DOMAIN passes : \E enabled \in BOOLEAN : SetPassState(k, enabled)
          \/ passes' = passes
      BY DEF SetSurfaceSize, SetSampleCount, SetBudget, OrderBefore, InvalidateLayout, declarations
    <2> QED BY <2>1, <2>2, <2>3, <2>4
  <1> QED BY <1>2, <1>4, <1>5, SharingRests

\* One pass after the other is the flattened order, if not always a good one.
LEMMA FlattenedType ==
  ASSUME NEW levels \in Seq(Seq(Nat)) PROVE Flattened(levels) \in Seq(Nat)
  <1>1. PICK len \in Nat : len = Len(levels) /\ \A k \in 1 .. len : levels[k] \in Seq(Nat)
    OBVIOUS
  <1> DEFINE f == CHOOSE f : JoinedTo(levels, len, f)
  <1>2. JoinedTo(levels, len, f)
    BY JoinedExist, Zenon
  <1>3. Flattened(levels) = f[len]
    BY <1>1, Zenon DEF Flattened, JoinedTo
  <1>4. PICK g : g = f
    OBVIOUS
  <1> HIDE DEF f
  <1>5. \A k \in 0 .. len : g[k] = IF k = 0 THEN <<>> ELSE g[k - 1] \o levels[k]
    BY <1>2, <1>4 DEF JoinedTo
  <1> DEFINE T == {k \in Nat : k <= len /\ g[k] \notin Seq(Nat)}
  <1>6. ASSUME T # {} PROVE FALSE
    <2>1. PICK k \in T : \A l \in T : k <= l
      BY <1>6, NatHasLeast
    <2>2. k # 0
      <3>1. 0 \in 0 .. len
        OBVIOUS
      <3>2. g[0] = <<>>
        BY <1>5, <3>1, Zenon
      <3>3. <<>> \in Seq(Nat)
        BY EmptySeq
      <3> QED BY <2>1, <3>2, <3>3
    <2>3. k - 1 \in Nat /\ k - 1 <= len /\ k - 1 \notin T /\ k \in 1 .. len /\ k \in 0 .. len
      BY <2>1, <2>2
    <2>4. g[k - 1] \in Seq(Nat) /\ levels[k] \in Seq(Nat) /\ g[k] = g[k - 1] \o levels[k]
      BY <1>1, <1>5, <2>2, <2>3
    <2>5. g[k] \in Seq(Nat)
      BY <2>4
    <2> QED BY <2>1, <2>5
  <1>7. g[len] \in Seq(Nat)
    BY <1>6
  <1> QED BY <1>3, <1>4, <1>7

LEMMA SeqMonotone == ASSUME NEW S, NEW T, S \subseteq T PROVE Seq(S) \subseteq Seq(T)
  <1> SUFFICES ASSUME NEW s \in Seq(S) PROVE s \in Seq(T)
    OBVIOUS
  <1>1. s \in [1 .. Len(s) -> T] /\ Len(s) \in Nat
    OBVIOUS
  <1> QED BY <1>1

LEMMA GroupsType == GroupInv => groups \in Seq(Seq(Nat))
  <1> SUFFICES ASSUME GroupInv PROVE groups \in Seq(Seq(Nat))
    OBVIOUS
  <1>1. groups \in Seq(Seq(Nodes)) /\ Nodes \subseteq Nat
    BY DEF GroupInv, Nodes
  <1>2. Seq(Nodes) \subseteq Seq(Nat)
    BY <1>1, SeqMonotone
  <1>3. Seq(Seq(Nodes)) \subseteq Seq(Seq(Nat))
    BY <1>2, SeqMonotone
  <1> QED BY <1>1, <1>3

LEMMA CompiledKeepsSharing ==
  ASSUME FrameInv, SharingInv, FrameCompiled PROVE SharingInv'
  <1>1. /\ phase' = "prepare" /\ mode' = mode /\ passes' = passes
        /\ passes \in Seq([access : Accesses, enabled : BOOLEAN])
    BY DEF FrameCompiled, SharingInv, declarations
  <1>2. CASE FitsBudget
    <2>1. /\ layout' = [passes |-> Compiled.passes, slots |-> Compiled.slots,
                        surface |-> surface, levels |-> groups]
          /\ cached' = [generation |-> generation, layout |-> layout']
      BY <1>2, Zenon DEF FrameCompiled
    <2>2. PICK l : l = layout'
      OBVIOUS
    <2>3. l.passes = Enabled /\ l.slots = Slots(ByLifetime(Enabled)) /\ l.levels = groups
      <3>1. l.passes = Compiled.passes /\ l.slots = Compiled.slots /\ l.levels = groups
        BY <2>1, <2>2
      <3>2. PICK e, s : e = Enabled /\ s = Slots(ByLifetime(Enabled))
        OBVIOUS
      <3>3. Compiled = [passes |-> e, slots |-> s, surface |-> surface]
        BY <3>2, Zenon DEF Compiled
      <3>4. Compiled.passes = e /\ Compiled.slots = s
        BY <3>3
      <3> QED BY <3>1, <3>2, <3>4
    <2>4. Enabled \in Seq(DOMAIN passes) /\ Len(Enabled) \in Nat
      BY <1>1, EnabledType
    <2>5. Apart(l.passes, l.slots)
      BY <2>3, <2>4, SlotsApart
    <2>6. groups \in Seq(Seq(Nat))
      BY GroupsType DEF FrameInv, LevelsInFrame
    <2>7. Sound(l)
      BY <2>3, <2>4, <2>5, <2>6 DEF Sound
    <2>8. Sound(l)'
      BY <1>1, <2>7, SoundStays
    <2>9. cached'.layout = l
      BY <2>1, <2>2
    <2>10. Sound(layout)' /\ Sound(cached.layout)'
      BY <2>2, <2>8, <2>9
    <2> QED BY <1>1, <2>10, SharingRests
  <1>3. CASE ~FitsBudget
    <2>1. layout' = (IF cached = NoLayout THEN EmptyLayout ELSE cached.layout) /\ cached' = cached
      BY <1>3, Zenon DEF FrameCompiled
    <2>2. layout' = cached.layout \/ Sound(layout)'
      <3>1. CASE cached # NoLayout
        BY <2>1, <3>1
      <3>2. CASE cached = NoLayout
        <4>1. PICK l : l = [passes |-> <<>>, slots |-> <<>>, surface |-> surface, levels |-> <<>>]
          OBVIOUS
        <4>2. layout' = l
          BY <2>1, <3>2, <4>1 DEF EmptyLayout
        <4>3. l.passes = <<>> /\ l.levels = <<>> /\ l.slots = <<>>
          BY <4>1, Zenon
        <4>4. Sound(l)'
          BY <4>3, EmptyIsSound
        <4> QED BY <4>2, <4>4
      <3> QED BY <3>1, <3>2
    <2> QED BY <1>1, <2>1, <2>2, SharingRests
  <1> QED BY <1>2, <1>3

\* The submission begins with nothing written.
LEMMA PrepareKeepsSharing ==
  ASSUME FrameInv, SharingInv, Prepare PROVE SharingInv'
  <1>1. /\ at' = 0 /\ DOMAIN content' = {} /\ mode' = mode /\ UNCHANGED <<passes, cached, layout>>
        /\ \/ mode = "parallel" /\ order' = <<>> /\ phase' = "record"
           \/ mode # "parallel" /\ order' = Given /\ phase' = "passes"
    BY DEF Prepare, declarations
  <1>2. /\ passes \in Seq([access : Accesses, enabled : BOOLEAN])
        /\ Sound(layout) /\ Sound(cached.layout)
        /\ mode \in {"none", "execute", "parallel", "projected"}
    BY DEF SharingInv
  <1>3. Sound(layout)' /\ Sound(cached.layout)'
    BY <1>1, <1>2, LayoutsStaySound
  <1>4. CASE phase' = "record"
    <2>1. order' \in Seq(Positions(layout.passes)') /\ Len(order') = 0
      BY <1>1, <1>4, EmptySeq
    <2> QED BY <1>1, <1>2, <1>3, <1>4, <2>1 DEF SharingInv
  <1>5. CASE phase' = "passes"
    <2>1. layout.levels \in Seq(Seq(Nat)) /\ groups \in Seq(Seq(Nat))
      BY <1>2, GroupsType DEF Sound, FrameInv, LevelsInFrame
    <2>2. order' \in Seq(Nat)
      BY <1>1, <1>5, <2>1, FlattenedType DEF Given
    <2>3. DOMAIN order' = 1 .. Len(order') /\ Len(order') \in Nat
      BY <2>2
    <2>4. \A q \in Positions(layout.passes)' : ~(q < 0)
      BY DEF Positions
    <2>5. LastWriters'
      BY <1>1, <2>4 DEF LastWriters
    <2> QED BY <1>1, <1>2, <1>3, <1>5, <2>3, <2>5 DEF SharingInv
  <1> QED BY <1>1, <1>4, <1>5

LEMMA RecordKeepsSharing ==
  ASSUME SharingInv, NEW p \in Positions(layout.passes), Record(p) PROVE SharingInv'
  <1>1. /\ phase = "record" /\ phase' = "record" /\ p \notin Recorded /\ order' = Append(order, p)
        /\ UNCHANGED <<passes, cached, layout, mode, at, content>>
    BY DEF Record, declarations
  <1>2. /\ passes \in Seq([access : Accesses, enabled : BOOLEAN])
        /\ Sound(layout) /\ Sound(cached.layout)
        /\ mode \in {"none", "execute", "parallel", "projected"}
        /\ at = 0 /\ DOMAIN content = {} /\ order \in Seq(Positions(layout.passes))
        /\ \A x, y \in 1 .. Len(order) : order[x] = order[y] => x = y
    BY <1>1 DEF SharingInv
  <1>3. Sound(layout)' /\ Sound(cached.layout)'
    BY <1>1, <1>2, LayoutsStaySound
  <1>4. /\ order' \in Seq(Positions(layout.passes))
        /\ \A x, y \in 1 .. Len(order') : order'[x] = order'[y] => x = y
    BY <1>1, <1>2, RecordedOnce
  <1>5. Positions(layout.passes)' = Positions(layout.passes)
    BY <1>1 DEF Positions
  <1> QED BY <1>1, <1>2, <1>3, <1>4, <1>5 DEF SharingInv

LEMMA SubmitKeepsSharing == ASSUME SharingInv, Submit PROVE SharingInv'
  <1>1. /\ phase = "record" /\ phase' = "passes" /\ Len(order) = Len(layout.passes)
        /\ order' = InOrder(Recorded, {e \in Recorded \X Recorded : e[1] < e[2]})
        /\ UNCHANGED <<passes, cached, layout, mode, at, content>>
    BY DEF Submit, declarations
  <1>2. /\ passes \in Seq([access : Accesses, enabled : BOOLEAN])
        /\ Sound(layout) /\ Sound(cached.layout)
        /\ mode \in {"none", "execute", "parallel", "projected"}
        /\ at = 0 /\ DOMAIN content = {} /\ order \in Seq(Positions(layout.passes))
        /\ \A x, y \in 1 .. Len(order) : order[x] = order[y] => x = y
    BY <1>1 DEF SharingInv
  <1>3. Sound(layout)' /\ Sound(cached.layout)'
    BY <1>1, <1>2, LayoutsStaySound
  <1>4. PICK size \in Nat : size = Len(layout.passes)
    BY <1>2 DEF Sound
  <1>5. order \in Seq(0 .. size - 1) /\ Len(order) = size
    BY <1>1, <1>2, <1>4 DEF Positions
  <1>6. Len(order') = size /\ DOMAIN order' = 1 .. size /\ \A x \in 1 .. size : order'[x] = x - 1
    <2>1. PICK o, s : o = order /\ s = order'
      OBVIOUS
    <2>2. /\ size \in Nat /\ o \in Seq(0 .. size - 1) /\ Len(o) = size
          /\ \A x, y \in 1 .. Len(o) : o[x] = o[y] => x = y
          /\ s = InOrder(Range(o), {e \in Range(o) \X Range(o) : e[1] < e[2]})
      BY <1>1, <1>2, <1>5, <2>1 DEF Recorded
    <2>3. Len(s) = size
      BY <2>2, SortedPositions
    <2>4. s = [k \in 1 .. size |-> k - 1]
      BY <2>2, SortedPositions
    <2>5. DOMAIN s = 1 .. size /\ \A x \in 1 .. size : s[x] = x - 1
      BY <2>4
    <2> QED BY <2>1, <2>3, <2>5
  <1>7. InRegistrationOrder'
    BY <1>6 DEF InRegistrationOrder
  <1>8. \A q \in Positions(layout.passes)' : ~(q < 0)
    BY DEF Positions
  <1>9. LastWriters'
    BY <1>1, <1>2, <1>8 DEF LastWriters
  <1>10. at' = 0 /\ at' \in 0 .. Len(order')
    BY <1>1, <1>2, <1>6
  <1> QED BY <1>1, <1>2, <1>3, <1>6, <1>7, <1>9, <1>10 DEF SharingInv

\* A pass writes where its resources live.
LEMMA RunKeepsLastWriters ==
  ASSUME LastWriters, at \in Nat, Positions(layout.passes) \subseteq Nat, at \in Positions(layout.passes),
         NEW homes, homes = {Home(r) : r \in Writes(layout.passes, at)},
         content' = [x \in DOMAIN content \cup homes |->
                       IF x \in homes
                       THEN [of |-> CHOOSE r \in Writes(layout.passes, at) : Home(r) = x, by |-> at]
                       ELSE content[x]],
         at' = at + 1, UNCHANGED <<passes, layout>>
  PROVE  LastWriters'
  <1>1. /\ Positions(layout.passes)' = Positions(layout.passes)
        /\ \A q : Writes(layout.passes, q)' = Writes(layout.passes, q)
        /\ \A r : Home(r)' = Home(r)
    BY DEF Positions, Writes, Home
  <1>2. DOMAIN content' = DOMAIN content \cup homes
    OBVIOUS
  <1>3. ASSUME NEW x \in homes
        PROVE  /\ content'[x].by = at
               /\ \E w \in Writes(layout.passes, at) :
                    content'[x] = [of |-> w, by |-> at] /\ Home(w) = x
    <2>1. PICK own : own = CHOOSE r \in Writes(layout.passes, at) : Home(r) = x
      OBVIOUS
    <2>2. \E w \in Writes(layout.passes, at) : Home(w) = x
      BY <1>3
    <2>3. own \in Writes(layout.passes, at) /\ Home(own) = x
      BY <2>1, <2>2, Zenon
    <2>4. PICK c : c = [of |-> own, by |-> at]
      OBVIOUS
    <2>5. content'[x] = c
      BY <1>3, <2>1, <2>4
    <2>6. c.by = at
      BY <2>4
    <2> QED BY <2>3, <2>4, <2>5, <2>6
  <1>4. \A x \in DOMAIN content : x \notin homes => content'[x] = content[x]
    OBVIOUS
  <1>5. ASSUME NEW q \in Positions(layout.passes), q < at + 1, NEW w \in Writes(layout.passes, q)
        PROVE  Home(w) \in DOMAIN content' /\ q <= content'[Home(w)].by
    <2>1. CASE Home(w) \in homes
      BY <1>2, <1>3, <1>5, <2>1
    <2>2. CASE Home(w) \notin homes
      <3>1. q # at
        BY <1>5, <2>2
      <3>2. q < at
        BY <1>5, <3>1
      <3> QED BY <1>2, <1>4, <1>5, <2>2, <3>2 DEF LastWriters
    <2> QED BY <2>1, <2>2
  <1>6. ASSUME NEW x \in DOMAIN content'
        PROVE  \E q \in Positions(layout.passes) :
                 q < at + 1 /\ \E w \in Writes(layout.passes, q) :
                                 content'[x] = [of |-> w, by |-> q] /\ Home(w) = x
    <2>1. CASE x \in homes
      <3>1. at < at + 1
        OBVIOUS
      <3> QED BY <1>3, <2>1, <3>1
    <2>2. CASE x \notin homes
      <3>1. x \in DOMAIN content /\ content'[x] = content[x]
        BY <1>2, <1>4, <2>2
      <3>2. PICK q \in Positions(layout.passes) :
              q < at /\ \E w \in Writes(layout.passes, q) :
                          content[x] = [of |-> w, by |-> q] /\ Home(w) = x
        BY <3>1 DEF LastWriters
      <3>3. q < at + 1
        BY <3>2
      <3> QED BY <3>1, <3>2, <3>3
    <2> QED BY <2>1, <2>2
  <1>7. at' = at + 1
    OBVIOUS
  <1>8. (\A q \in Positions(layout.passes) : q < at =>
           \A w \in Writes(layout.passes, q) :
             Home(w) \in DOMAIN content /\ q <= content[Home(w)].by)'
    <2> SUFFICES ASSUME NEW q \in Positions(layout.passes)', q < at',
                        NEW w \in Writes(layout.passes, q)'
                 PROVE  Home(w)' \in DOMAIN content' /\ q <= content'[Home(w)'].by
      OBVIOUS
    <2>1. q \in Positions(layout.passes) /\ q < at + 1 /\ w \in Writes(layout.passes, q)
      BY <1>1, <1>7
    <2>2. Home(w)' = Home(w)
      BY <1>1
    <2> QED BY <1>5, <2>1, <2>2, Zenon
  <1>9. (\A x \in DOMAIN content : \E q \in Positions(layout.passes) :
            q < at /\ \E w \in Writes(layout.passes, q) :
                        content[x] = [of |-> w, by |-> q] /\ Home(w) = x)'
    <2> SUFFICES ASSUME NEW x \in DOMAIN content'
                 PROVE  (\E q \in Positions(layout.passes) :
                           q < at /\ \E w \in Writes(layout.passes, q) :
                                       content[x] = [of |-> w, by |-> q] /\ Home(w) = x)'
      OBVIOUS
    <2>1. PICK q \in Positions(layout.passes) :
            q < at + 1 /\ \E w \in Writes(layout.passes, q) :
                            content'[x] = [of |-> w, by |-> q] /\ Home(w) = x
      BY <1>6
    <2>2. PICK w \in Writes(layout.passes, q) : content'[x] = [of |-> w, by |-> q] /\ Home(w) = x
      BY <2>1
    <2>3. Home(w)' = x /\ w \in Writes(layout.passes, q)' /\ q \in Positions(layout.passes)' /\ q < at'
      BY <1>1, <1>7, <2>1, <2>2
    <2> QED BY <2>2, <2>3
  <1> QED BY <1>8, <1>9, Zenon DEF LastWriters

LEMMA RunKeepsSharing == ASSUME SharingInv, RunPass PROVE SharingInv'
  <1>1. /\ phase = "passes" /\ phase' \in {"passes", "panicked"}
        /\ UNCHANGED <<passes, cached, layout, mode, order>>
        /\ at < Len(order)
    BY DEF RunPass, declarations
  <1>2. /\ passes \in Seq([access : Accesses, enabled : BOOLEAN])
        /\ Sound(layout) /\ Sound(cached.layout)
        /\ mode \in {"none", "execute", "parallel", "projected"}
        /\ at \in 0 .. Len(order) /\ DOMAIN order = 1 .. Len(order) /\ Len(order) \in Nat
        /\ mode = "parallel" => InRegistrationOrder
        /\ InRegistrationOrder => LastWriters
    BY <1>1 DEF SharingInv
  <1>3. Sound(layout)' /\ Sound(cached.layout)'
    BY <1>1, <1>2, LayoutsStaySound
  <1>4. InRegistrationOrder' <=> InRegistrationOrder
    BY <1>1 DEF InRegistrationOrder
  <1>5. CASE order[at + 1] \in Positions(layout.passes)
    <2>1. phase' = "passes" /\ at' = at + 1
      BY <1>1, <1>5, Zenon DEF RunPass
    <2>2. at' \in 0 .. Len(order)
      BY <1>1, <1>2, <2>1
    <2>3. ASSUME InRegistrationOrder PROVE LastWriters'
      <3>1. order[at + 1] = at /\ at \in Nat
        <4>1. at + 1 \in 1 .. Len(order)
          BY <1>1, <1>2
        <4>2. order[at + 1] = (at + 1) - 1
          BY <1>2, <2>3, <4>1 DEF InRegistrationOrder
        <4> QED BY <1>2, <4>2
      <3>2. PICK homes : homes = {Home(r) : r \in Writes(layout.passes, at)}
        OBVIOUS
      <3>3. content' = [x \in DOMAIN content \cup homes |->
                          IF x \in homes
                          THEN [of |-> CHOOSE r \in Writes(layout.passes, at) : Home(r) = x, by |-> at]
                          ELSE content[x]]
        BY <1>5, <3>1, <3>2, Zenon DEF RunPass
      <3>4. Positions(layout.passes) \subseteq Nat
        BY DEF Positions
      <3> QED BY <1>1, <1>2, <1>5, <2>1, <2>3, <3>1, <3>2, <3>3, <3>4, RunKeepsLastWriters
    <2> QED BY <1>1, <1>2, <1>3, <1>4, <2>1, <2>2, <2>3 DEF SharingInv
  <1>6. CASE order[at + 1] \notin Positions(layout.passes)
    <2>1. phase' = "panicked"
      BY <1>6, Zenon DEF RunPass
    <2> QED BY <1>1, <1>2, <1>3, <2>1 DEF SharingInv
  <1> QED BY <1>5, <1>6

LEMMA SharingStutter == ASSUME SharingInv, UNCHANGED planVars PROVE SharingInv'
  <1>1. UNCHANGED <<passes, cached, layout, mode, order, phase, at, content>>
    BY DEF planVars, frame, declarations
  <1>2. Sound(layout) /\ Sound(cached.layout)
    BY DEF SharingInv
  <1>3. Sound(layout)' /\ Sound(cached.layout)'
    BY <1>1, <1>2, LayoutsStaySound
  <1>4. InRegistrationOrder' <=> InRegistrationOrder
    BY <1>1 DEF InRegistrationOrder
  <1>5. LastWriters => LastWriters'
    <2> SUFFICES ASSUME LastWriters PROVE LastWriters'
      OBVIOUS
    <2>1. /\ Positions(layout.passes)' = Positions(layout.passes)
          /\ \A q : Writes(layout.passes, q)' = Writes(layout.passes, q)
          /\ \A r : Home(r)' = Home(r)
      BY <1>1 DEF Positions, Writes, Home
    <2>2. ASSUME NEW q \in Positions(layout.passes)', q < at', NEW w \in Writes(layout.passes, q)'
          PROVE  Home(w)' \in DOMAIN content' /\ q <= content'[Home(w)'].by
      <3>1. q \in Positions(layout.passes) /\ q < at /\ w \in Writes(layout.passes, q) /\ Home(w)' = Home(w)
        BY <1>1, <2>1, <2>2
      <3>2. Home(w) \in DOMAIN content /\ q <= content[Home(w)].by
        BY <3>1 DEF LastWriters
      <3> QED BY <1>1, <3>1, <3>2
    <2>3. ASSUME NEW x \in DOMAIN content'
          PROVE  (\E q \in Positions(layout.passes) :
                    q < at /\ \E w \in Writes(layout.passes, q) :
                                content[x] = [of |-> w, by |-> q] /\ Home(w) = x)'
      <3>1. PICK q \in Positions(layout.passes) :
              q < at /\ \E w \in Writes(layout.passes, q) :
                          content[x] = [of |-> w, by |-> q] /\ Home(w) = x
        BY <1>1, <2>3 DEF LastWriters
      <3>2. PICK w \in Writes(layout.passes, q) : content[x] = [of |-> w, by |-> q] /\ Home(w) = x
        BY <3>1
      <3>3. /\ Home(w)' = x /\ w \in Writes(layout.passes, q)' /\ q \in Positions(layout.passes)'
            /\ q < at' /\ content'[x] = [of |-> w, by |-> q]
        BY <1>1, <2>1, <3>1, <3>2
      <3> QED BY <3>3
    <2> QED BY <2>2, <2>3, Zenon DEF LastWriters
  <1>6. Positions(layout.passes)' = Positions(layout.passes)
    BY <1>1 DEF Positions
  <1> QED BY <1>1, <1>3, <1>4, <1>5, <1>6 DEF SharingInv

\* The inductive invariant of the textures: a layout keeps the resources of
\* one slot apart, and a texture holds what the last pass that ran wrote there.
THEOREM SharingInvariant == PlanSpec => []SharingInv
  <1>1. FrameInv /\ SharingInv /\ [PlanNext]_planVars => SharingInv'
    <2> SUFFICES ASSUME FrameInv, SharingInv, [PlanNext]_planVars PROVE SharingInv'
      OBVIOUS
    <2>1. CASE UNCHANGED planVars
      BY <2>1, SharingStutter
    <2>2. CASE \E how \in {"execute", "parallel", "projected"} : FrameHit(how) \/ FrameMiss(how)
      <3>1. PICK how \in {"execute", "parallel", "projected"} : FrameHit(how) \/ FrameMiss(how)
        BY <2>2
      <3>2. /\ phase' \in {"prepare", "levels", "panicked"} /\ mode' = how
            /\ UNCHANGED <<passes, cached>> /\ layout' \in {layout, cached.layout}
        BY <3>1 DEF FrameHit, FrameMiss, Begin, declarations
      <3>3. passes \in Seq([access : Accesses, enabled : BOOLEAN])
        BY DEF SharingInv
      <3> QED BY <3>2, <3>3, SharingRests
    <2>3. CASE \E p \in Positions(layout.passes) : Record(p)
      BY <2>3, RecordKeepsSharing
    <2>4. CASE FrameCompiled \/ Prepare \/ Submit \/ RunPass
      BY <2>4, CompiledKeepsSharing, PrepareKeepsSharing, SubmitKeepsSharing, RunKeepsSharing
    <2>5. CASE LevelStep \/ FrameEnd
      <3>1. /\ phase' \in {"levels", "idle"} /\ mode' = mode
            /\ UNCHANGED <<passes, cached, layout>>
        BY <2>5 DEF LevelStep, FrameEnd, declarations, frame
      <3>2. passes \in Seq([access : Accesses, enabled : BOOLEAN])
        BY DEF SharingInv
      <3> QED BY <3>1, <3>2, SharingRests
    <2> QED BY <2>1, <2>2, <2>3, <2>4, <2>5, ChangesKeepSharing DEF PlanNext
  <1>2. FrameInv /\ SharingInv /\ [PlanNext]_planVars => SharingInv'
    BY <1>1
  <1> QED BY SharingInit, FramesInvariant, <1>2, PTL DEF PlanSpec

\* Two resources of one texture are not alive at once.
LEMMA HomesApart ==
  ASSUME SharingInv, NEW r \in ResourceIds, NEW s \in ResourceIds, r # s, Home(r) = Home(s),
         Users(layout.passes, r) # {}, Users(layout.passes, s) # {}
  PROVE  \/ LastUse(layout.passes, r) < FirstUse(layout.passes, s)
         \/ LastUse(layout.passes, s) < FirstUse(layout.passes, r)
  <1>1. PICK e, slots : e = layout.passes /\ slots = layout.slots
    OBVIOUS
  <1>2. Apart(e, slots)
    BY <1>1 DEF SharingInv, Sound
  <1>3. ~Resources[r].external /\ ~Resources[s].external
    <2>1. PICK x, y : /\ x = (CHOOSE z \in DOMAIN slots : r \in slots[z].holds)
                      /\ y = (CHOOSE z \in DOMAIN slots : s \in slots[z].holds)
      OBVIOUS
    <2>2. Resources[r].external => Home(r) = <<"external", r>>
      BY Zenon DEF Home
    <2>3. Resources[s].external => Home(s) = <<"external", s>>
      BY Zenon DEF Home
    <2>5. ~Resources[r].external => Home(r) = <<"slot", x>>
      BY <1>1, <2>1, Zenon DEF Home
    <2>6. ~Resources[s].external => Home(s) = <<"slot", y>>
      BY <1>1, <2>1, Zenon DEF Home
    <2>4. /\ \A z : <<"external", r>>[1] # <<"slot", z>>[1]
          /\ \A z : <<"external", s>>[1] # <<"slot", z>>[1]
          /\ <<"external", r>>[2] # <<"external", s>>[2]
      OBVIOUS
    <2> QED BY <2>2, <2>3, <2>4, <2>5, <2>6, Zenon
  <1>4. r \in Pooled(e) /\ s \in Pooled(e)
    BY <1>1, <1>3 DEF Pooled
  <1>5. PICK x, y : /\ x = (CHOOSE z \in DOMAIN slots : r \in slots[z].holds)
                    /\ y = (CHOOSE z \in DOMAIN slots : s \in slots[z].holds)
    OBVIOUS
  <1>6. x \in DOMAIN slots /\ r \in slots[x].holds
    BY <1>2, <1>4, <1>5, Zenon DEF Apart
  <1>7. y \in DOMAIN slots /\ s \in slots[y].holds
    BY <1>2, <1>4, <1>5, Zenon DEF Apart
  <1>8. Home(r) = <<"slot", x>> /\ Home(s) = <<"slot", y>>
    BY <1>1, <1>3, <1>5, Zenon DEF Home
  <1>9. x = y
    <2>1. <<"slot", x>>[2] = x /\ <<"slot", y>>[2] = y
      OBVIOUS
    <2> QED BY <1>8, <2>1, Zenon
  <1>10. LastUse(e, r) < FirstUse(e, s) \/ LastUse(e, s) < FirstUse(e, r)
    BY <1>2, <1>6, <1>7, <1>9 DEF Apart
  <1> QED BY <1>1, <1>10

\* Sharing textures is invisible to the passes of a parallel frame, whatever
\* the order they were recorded in (execute_parallel), and to any other frame
\* whose order is that of registration.
THEOREM SharingStaysInvisible == PlanSpec => []SharingIsInvisible
  <1>1. SharingInv => SharingIsInvisible
    <2> SUFFICES ASSUME SharingInv, Running, mode = "parallel" \/ InRegistrationOrder PROVE FindsItsOwn
      BY DEF SharingIsInvisible
    <2>1. /\ phase = "passes" /\ at < Len(order) /\ order[at + 1] \in Positions(layout.passes)
          /\ InRegistrationOrder /\ LastWriters
          /\ at \in 0 .. Len(order) /\ DOMAIN order = 1 .. Len(order) /\ Len(order) \in Nat
      BY DEF Running, SharingInv
    <2>2. order[at + 1] = at /\ at \in Nat /\ at \in Positions(layout.passes)
      <3>1. at + 1 \in 1 .. Len(order)
        BY <2>1
      <3>2. order[at + 1] = (at + 1) - 1
        BY <2>1, <3>1 DEF InRegistrationOrder
      <3> QED BY <2>1, <3>2
    <2>3. PICK e \in Seq(DOMAIN passes) : e = layout.passes
      BY DEF SharingInv, Sound
    <2>4. passes \in Seq([access : Accesses, enabled : BOOLEAN]) /\ Len(e) \in Nat
      BY DEF SharingInv
    <2>5. ASSUME NEW p \in Positions(e)
          PROVE  Reads(e, p) \cup Writes(e, p) \subseteq ResourceIds
      <3>1. p + 1 \in DOMAIN e
        BY <2>5 DEF Positions
      <3>2. e[p + 1] \in DOMAIN passes
        BY <3>1
      <3>3. PICK R : R = [access : Accesses, enabled : BOOLEAN]
        OBVIOUS
      <3>4. passes[e[p + 1]].access \in Accesses
        <4>1. passes \in Seq(R)
          BY <2>4, <3>3
        <4>2. PICK pass \in R : pass = passes[e[p + 1]]
          BY <3>2, <4>1
        <4> QED BY <3>3, <4>2
      <3> QED BY <3>4, PlanAssumption DEF Reads, Writes, ResourceIds
    <2>6. ASSUME NEW p \in Positions(e), NEW q \in Positions(e),
                 NEW r \in Reads(e, p) \cup Writes(e, p), NEW s \in Reads(e, q) \cup Writes(e, q),
                 r # s, Home(r) = Home(s)
          PROVE  LastUse(e, r) < FirstUse(e, s) \/ LastUse(e, s) < FirstUse(e, r)
      <3>1. p \in Users(e, r) /\ q \in Users(e, s)
        BY <2>6 DEF Users
      <3>2. r \in ResourceIds /\ s \in ResourceIds
        BY <2>5, <2>6
      <3> QED BY <2>3, <2>6, <3>1, <3>2, HomesApart
    <2>7. ASSUME NEW w \in Writes(e, at), NEW r \in (Reads(e, at) \cup Writes(e, at)) \ {w}
          PROVE  Home(w) # Home(r)
      <3>1. at \in Users(e, w) /\ at \in Users(e, r)
        BY <2>2, <2>3, <2>7 DEF Users
      <3>2. /\ FirstUse(e, w) \in Nat /\ FirstUse(e, w) <= at /\ at <= LastUse(e, w) /\ LastUse(e, w) \in Nat
            /\ FirstUse(e, r) \in Nat /\ FirstUse(e, r) <= at /\ at <= LastUse(e, r) /\ LastUse(e, r) \in Nat
        BY <2>4, <3>1, UseBounds
      <3>3. ~(LastUse(e, w) < FirstUse(e, r)) /\ ~(LastUse(e, r) < FirstUse(e, w))
        BY <2>2, <3>2
      <3> QED BY <2>2, <2>3, <2>6, <2>7, <3>3
    <2>8. ASSUME NEW r \in Reads(e, at), NEW writers,
                 writers = {q \in Positions(e) : q < at /\ r \in Writes(e, q)}, writers # {}
          PROVE  /\ Home(r) \in DOMAIN content
                 /\ content[Home(r)] = [of |-> r, by |-> Max(writers)]
      <3>1. PICK m : m = Max(writers)
        OBVIOUS
      <3>2. m \in writers /\ \A q \in writers : q <= m
        <4>1. writers \subseteq 0 .. at
          BY <2>2, <2>8 DEF Positions
        <4> QED BY <2>2, <2>8, <3>1, <4>1, MaxOfBounded
      <3>3. m \in Positions(e) /\ m < at /\ r \in Writes(e, m) /\ m \in Nat
        BY <2>8, <3>2 DEF Positions
      <3>4. Home(r) \in DOMAIN content /\ m <= content[Home(r)].by
        BY <2>1, <2>3, <3>3 DEF LastWriters
      <3>5. PICK b \in Positions(e) :
              b < at /\ \E o \in Writes(e, b) : content[Home(r)] = [of |-> o, by |-> b] /\ Home(o) = Home(r)
        BY <2>1, <2>3, <3>4 DEF LastWriters
      <3>6. PICK o \in Writes(e, b) : content[Home(r)] = [of |-> o, by |-> b] /\ Home(o) = Home(r)
        BY <3>5
      <3>7. m <= b /\ b \in Nat
        <4>1. content[Home(r)].by = b
          BY <3>6
        <4> QED BY <3>4, <4>1 DEF Positions
      <3>8. CASE o = r
        <4>1. b \in writers
          BY <2>8, <3>5, <3>8
        <4>2. b = m
          BY <3>2, <3>3, <3>7, <4>1
        <4> QED BY <3>1, <3>4, <3>6, <3>8, <4>2
      <3>9. CASE o # r
        <4>1. at \in Users(e, r) /\ m \in Users(e, r) /\ b \in Users(e, o)
          BY <2>2, <2>3, <2>8, <3>3, <3>5 DEF Users
        <4>2. /\ FirstUse(e, r) \in Nat /\ LastUse(e, r) \in Nat
              /\ FirstUse(e, r) <= m /\ at <= LastUse(e, r)
              /\ FirstUse(e, o) \in Nat /\ LastUse(e, o) \in Nat
              /\ FirstUse(e, o) <= b /\ b <= LastUse(e, o)
          BY <2>4, <4>1, UseBounds
        <4>3. ~(LastUse(e, r) < FirstUse(e, o)) /\ ~(LastUse(e, o) < FirstUse(e, r))
          BY <2>2, <3>3, <3>5, <3>7, <4>2
        <4> QED BY <2>2, <2>3, <2>6, <3>5, <3>6, <3>9, <4>3
      <3> QED BY <3>8, <3>9
    <2>9. \A r \in Reads(e, at) :
            LET writers == {q \in Positions(e) : q < at /\ r \in Writes(e, q)}
            IN  writers # {} => /\ Home(r) \in DOMAIN content
                                /\ content[Home(r)] = [of |-> r, by |-> Max(writers)]
      BY <2>8, Zenon
    <2>10. \A w \in Writes(e, at) : \A r \in (Reads(e, at) \cup Writes(e, at)) \ {w} : Home(w) # Home(r)
      BY <2>7
    <2> QED BY <2>2, <2>3, <2>9, <2>10 DEF FindsItsOwn
  <1> QED BY <1>1, SharingInvariant, PTL
=============================================================================
