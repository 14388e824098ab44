---------------------------- MODULE EngineProofs ----------------------------
(***************************************************************************)
(* The engine around the components.  Runs of a schedule keep conflicting  *)
(* systems apart and honour the promised order, for any systems, accesses, *)
(* sequence of registrations and interleaving of the systems of a level,   *)
(* and they leave what registration order leaves.  The fixed clock neither *)
(* loses nor owes time, and the simulated world depends on the tick alone, *)
(* for every tick length, cap, plan and sequence of host deltas.           *)
(***************************************************************************)
EXTENDS FrameLoop, Schedule, SequenceTheorems, WellFoundedInduction, TLAPS

-----------------------------------------------------------------------------
(* The schedule.                                                           *)

Edges == {p \in Nodes \X Nodes : p[1] < p[2]}

(* A promise of two names is kept by an edge between their indices.        *)
Kept(pair) == \E edge \in ordering : systems[edge[1]] = pair[1] /\ systems[edge[2]] = pair[2]

(* What is registered.  Edges are kept by index and promises by name.      *)
Registry ==
  /\ access \in [Systems -> Accesses]
  /\ systems \in Seq(Systems)
  /\ \A i, j \in Nodes : systems[i] = systems[j] => i = j
  /\ ordering \subseteq Edges
  /\ promised \subseteq Systems \X Systems /\ parallel \in BOOLEAN
  /\ \A pair \in promised : Kept(pair)

(* A cached plan is one of what is registered now. *)
CurrentPlan == plan \in [Nodes -> Nat] /\ IsLevelPlan(Nodes, Ordered, plan)

PlanCache == (plan = None \/ CurrentPlan) /\ (running /\ parallel => CurrentPlan)

RunTypes ==
  /\ running \in BOOLEAN /\ current \in Nat
  /\ finished \subseteq started /\ started \subseteq Nodes

(* Levels that were left are finished, and none ahead was entered; without *)
(* parallelism all that was registered earlier is finished.                *)
LevelByLevel ==
  running =>
    /\ parallel =>
         /\ \A k \in started : plan[k] <= current
         /\ \A k \in Nodes : plan[k] < current => k \in finished
    /\ ~parallel => \A k \in started : 1 .. (k - 1) \subseteq finished

ScheduleIInv == Registry /\ PlanCache /\ RunTypes /\ LevelByLevel

-----------------------------------------------------------------------------
LEMMA NodesAre == ASSUME Registry PROVE Len(systems) \in Nat /\ Nodes = 1 .. Len(systems)
  BY DEF Registry, Nodes

(* Registering a system moves the indices of those behind it. *)
LEMMA AddKeeps == ASSUME ScheduleIInv, NEW s \in Systems, AddSystem(s) PROVE ScheduleIInv'
  <1>1. Registry /\ Len(systems) \in Nat
    BY NodesAre DEF ScheduleIInv
  <1>2. /\ systems' \in Seq(Systems) /\ Len(systems') = Len(systems) + 1
        /\ \A k \in Nodes : systems'[k] = systems[k]
        /\ systems'[Len(systems) + 1] = s
        /\ \A k \in Nodes : systems[k] # s
    BY <1>1 DEF AddSystem, Registered, Registry, Nodes
  <1>3. /\ Nodes \subseteq Nodes' /\ \A k \in Nodes' : k \in Nodes \/ k = Len(systems) + 1
    BY <1>1, <1>2 DEF Nodes
  <1>4. /\ plan' = None /\ ~running
        /\ UNCHANGED <<access, ordering, parallel, promised, running, current, started, finished>>
    BY DEF AddSystem, runVars
  <1>5. \A i, j \in Nodes' : systems'[i] = systems'[j] => i = j
    BY <1>1, <1>2, <1>3 DEF Registry
  <1>6. ordering' \subseteq Edges'
    BY <1>1, <1>3, <1>4 DEF Registry, Edges
  <1>7. ASSUME NEW pair \in promised' PROVE Kept(pair)'
    <2>1. PICK edge \in ordering : systems[edge[1]] = pair[1] /\ systems[edge[2]] = pair[2]
      BY <1>1, <1>4 DEF Registry, Kept
    <2>2. edge[1] \in Nodes /\ edge[2] \in Nodes /\ edge \in ordering'
      BY <1>1, <1>4 DEF Registry, Edges
    <2>3. systems'[edge[1]] = pair[1] /\ systems'[edge[2]] = pair[2]
      BY <1>2, <2>1, <2>2
    <2> QED BY <2>2, <2>3 DEF Kept
  <1>8. Registry'
    BY <1>1, <1>2, <1>4, <1>5, <1>6, <1>7 DEF Registry
  <1> QED BY <1>3, <1>4, <1>8 DEF ScheduleIInv, PlanCache, RunTypes, LevelByLevel

LEMMA PrependKeeps == ASSUME ScheduleIInv, NEW s \in Systems, PrependSystem(s) PROVE ScheduleIInv'
  <1>1. Registry /\ Len(systems) \in Nat
    BY NodesAre DEF ScheduleIInv
  <1>2. /\ systems' \in Seq(Systems) /\ Len(systems') = Len(systems) + 1
        /\ \A k \in Nodes : systems'[k + 1] = systems[k]
        /\ systems'[1] = s
        /\ \A k \in Nodes : systems[k] # s
    BY <1>1 DEF PrependSystem, Registered, Registry, Nodes
  <1>3. /\ Nodes \subseteq Nodes' /\ \A k \in Nodes : k + 1 \in Nodes'
        /\ \A k \in Nodes' : k = 1 \/ (k - 1 \in Nodes /\ k = (k - 1) + 1)
    BY <1>1, <1>2 DEF Nodes
  <1>4. /\ plan' = None /\ ~running /\ ordering' = Shifted(ordering)
        /\ UNCHANGED <<access, parallel, promised, running, current, started, finished>>
    BY DEF PrependSystem, runVars
  <1>5. \A i, j \in Nodes' : systems'[i] = systems'[j] => i = j
    <2> SUFFICES ASSUME NEW i \in Nodes', NEW j \in Nodes', systems'[i] = systems'[j]
                 PROVE  i = j
      OBVIOUS
    <2>1. \A k \in Nodes' : k # 1 => k - 1 \in Nodes /\ systems'[k] = systems[k - 1]
      BY <1>2, <1>3
    <2>2. CASE i # 1 /\ j # 1
      <3>1. i - 1 = j - 1
        BY <1>1, <2>1, <2>2 DEF Registry
      <3>2. i = (i - 1) + 1 /\ j = (j - 1) + 1
        BY <1>3, <2>2
      <3> QED BY <3>1, <3>2
    <2>3. CASE i = 1 \/ j = 1
      BY <1>2, <2>1, <2>3
    <2> QED BY <2>2, <2>3
  <1>6. ordering' \subseteq Edges'
    <2>1. \A p \in Edges : <<p[1] + 1, p[2] + 1>> \in Edges'
      BY <1>1, <1>3 DEF Edges, Nodes
    <2> QED BY <1>1, <1>4, <2>1 DEF Shifted, Registry
  <1>7. ASSUME NEW pair \in promised' PROVE Kept(pair)'
    <2>1. PICK edge \in ordering : systems[edge[1]] = pair[1] /\ systems[edge[2]] = pair[2]
      BY <1>1, <1>4 DEF Registry, Kept
    <2> DEFINE moved == <<edge[1] + 1, edge[2] + 1>>
    <2>2. edge[1] \in Nodes /\ edge[2] \in Nodes /\ moved \in ordering'
      BY <1>1, <1>4 DEF Registry, Edges, Shifted
    <2>3. systems'[moved[1]] = pair[1] /\ systems'[moved[2]] = pair[2]
      BY <1>2, <2>1, <2>2
    <2> HIDE DEF moved
    <2> QED BY <2>2, <2>3 DEF Kept
  <1>8. Registry'
    BY <1>1, <1>2, <1>4, <1>5, <1>6, <1>7 DEF Registry
  <1> QED BY <1>3, <1>4, <1>8 DEF ScheduleIInv, PlanCache, RunTypes, LevelByLevel

LEMMA OrderKeeps ==
  ASSUME ScheduleIInv, NEW s \in Systems, NEW t \in Systems, OrderBefore(s, t) PROVE ScheduleIInv'
  <1>1. PICK b, a \in Nodes : /\ systems[b] = s /\ systems[a] = t /\ b < a
                              /\ ordering' = ordering \cup {<<b, a>>}
                              /\ plan' = (IF <<b, a>> \in ordering THEN plan ELSE None)
    BY DEF OrderBefore
  <1>2. /\ ~running /\ promised' = promised \cup {<<s, t>>}
        /\ UNCHANGED <<access, systems, parallel, running, current, started, finished>>
    BY DEF OrderBefore, runVars
  <1>3. Nodes' = Nodes /\ Edges' = Edges
    BY <1>2 DEF Nodes, Edges
  <1>4. Registry'
    <2>1. <<b, a>> \in Edges
      BY <1>1 DEF Edges
    <2>2. ordering' \subseteq Edges'
      BY <1>1, <1>3, <2>1 DEF ScheduleIInv, Registry
    <2>3. ASSUME NEW pair \in promised' PROVE Kept(pair)'
      <3>1. CASE pair \in promised
        BY <1>1, <1>2, <3>1 DEF ScheduleIInv, Registry, Kept
      <3>2. CASE pair = <<s, t>>
        <4>1. /\ <<b, a>> \in ordering'
              /\ systems'[<<b, a>>[1]] = pair[1] /\ systems'[<<b, a>>[2]] = pair[2]
          BY <1>1, <1>2, <3>2
        <4> QED BY <4>1 DEF Kept
      <3> QED BY <1>2, <2>3, <3>1, <3>2
    <2>4. promised' \subseteq Systems \X Systems
      BY <1>2 DEF ScheduleIInv, Registry
    <2> QED BY <1>2, <1>3, <2>2, <2>3, <2>4 DEF ScheduleIInv, Registry
  <1>5. PlanCache'
    <2>1. CASE <<b, a>> \in ordering
      <3>1. ordering' = ordering /\ plan' = plan
        BY <1>1, <2>1
      <3>2. Ordered' = Ordered
        BY <1>2, <1>3, <3>1 DEF Ordered, Conflict, Touched
      <3> QED BY <1>2, <1>3, <3>1, <3>2
              DEF ScheduleIInv, PlanCache, CurrentPlan, IsLevelPlan, Respects, Tight
    <2>2. CASE <<b, a>> \notin ordering
      BY <1>1, <1>2, <2>2 DEF PlanCache
    <2> QED BY <2>1, <2>2
  <1> QED BY <1>2, <1>3, <1>4, <1>5 DEF ScheduleIInv, RunTypes, LevelByLevel

(* Steps that change nothing of what is registered. *)
LEMMA RegistryStays ==
  ASSUME UNCHANGED <<access, systems, ordering, promised>>
  PROVE  Nodes' = Nodes /\ Edges' = Edges /\ Ordered' = Ordered
  BY DEF Nodes, Edges, Ordered, Conflict, Touched

LEMMA CurrentPlanStays ==
  ASSUME CurrentPlan, UNCHANGED <<access, systems, ordering, promised, plan>> PROVE CurrentPlan'
  BY RegistryStays DEF CurrentPlan, IsLevelPlan, Respects, Tight

LEMMA ModeKeeps == ASSUME ScheduleIInv, SetExecMode PROVE ScheduleIInv'
  <1>1. /\ ~running /\ parallel' \in BOOLEAN
        /\ UNCHANGED <<access, systems, ordering, plan, promised, running, current, started, finished>>
    BY DEF SetExecMode, runVars
  <1>2. Nodes' = Nodes /\ Edges' = Edges
    BY <1>1, RegistryStays
  <1>3. PlanCache'
    BY <1>1, CurrentPlanStays DEF ScheduleIInv, PlanCache
  <1>4. Registry'
    BY <1>1, <1>2 DEF ScheduleIInv, Registry, Kept
  <1> QED BY <1>1, <1>2, <1>3, <1>4 DEF ScheduleIInv, RunTypes, LevelByLevel

LEMMA BeginKeeps == ASSUME ScheduleIInv, RunBegin PROVE ScheduleIInv'
  <1>1. /\ running' = TRUE /\ current' = 0 /\ started' = {} /\ finished' = {}
        /\ UNCHANGED <<access, systems, ordering, parallel, promised>>
    BY DEF RunBegin
  <1>2. Nodes' = Nodes /\ Edges' = Edges /\ Ordered' = Ordered
    BY <1>1, RegistryStays
  <1>3. Registry'
    BY <1>1, <1>2 DEF ScheduleIInv, Registry, Kept
  <1>4. CASE parallel /\ plan = None
    <2>1. plan' \in Plans
      BY <1>4 DEF RunBegin
    <2>2. plan' \in [Nodes -> Nat] /\ IsLevelPlan(Nodes, Ordered, plan')
      BY <2>1, NodesAre DEF Plans, ScheduleIInv
    <2>3. CurrentPlan'
      BY <1>2, <2>2 DEF CurrentPlan, IsLevelPlan, Respects, Tight
    <2>4. \A k \in Nodes' : ~(plan'[k] < 0)
      BY <1>2, <2>2
    <2> QED BY <1>1, <1>3, <1>4, <2>3, <2>4 DEF ScheduleIInv, PlanCache, RunTypes, LevelByLevel
  <1>5. CASE ~(parallel /\ plan = None)
    <2>1. plan' = plan
      BY <1>5 DEF RunBegin
    <2>2. PlanCache' /\ (parallel => CurrentPlan')
      BY <1>1, <1>5, <2>1, CurrentPlanStays DEF ScheduleIInv, PlanCache
    <2>3. parallel => \A k \in Nodes' : ~(plan'[k] < 0)
      BY <1>2, <2>2 DEF CurrentPlan
    <2> QED BY <1>1, <1>3, <2>2, <2>3 DEF ScheduleIInv, RunTypes, LevelByLevel
  <1> QED BY <1>4, <1>5

LEMMA RunStepKeeps == ASSUME ScheduleIInv, RunStep PROVE ScheduleIInv'
  <1>1. UNCHANGED <<access, systems, ordering, plan, parallel, promised>>
    BY DEF RunStep, StartSystem, FinishSystem, NextLevel, RunEnd, registryVars
  <1>2. Nodes' = Nodes /\ Edges' = Edges
    BY <1>1, RegistryStays
  <1>3. running /\ running' \in BOOLEAN
    BY DEF RunStep, StartSystem, FinishSystem, NextLevel, RunEnd, ScheduleIInv, RunTypes
  <1>4. Registry' /\ PlanCache'
    <2>1. running' => running
      BY <1>3
    <2>2. PlanCache'
      BY <1>1, <2>1, CurrentPlanStays DEF ScheduleIInv, PlanCache
    <2> QED BY <1>1, <1>2, <2>2 DEF ScheduleIInv, Registry, Kept
  <1>5. /\ Len(systems) \in Nat /\ Nodes = 1 .. Len(systems)
        /\ parallel => plan \in [Nodes -> Nat]
    BY <1>3, NodesAre DEF ScheduleIInv, PlanCache, CurrentPlan
  <1>6. ASSUME NEW k \in Nodes, StartSystem(k) PROVE ScheduleIInv'
    <2>1. /\ started' = started \cup {k} /\ Ready(k)
          /\ UNCHANGED <<running, current, finished>>
      BY <1>6 DEF StartSystem
    <2>2. parallel => plan[k] = current
      BY <2>1 DEF Ready, Level
    <2>3. ~parallel => started = 1 .. k - 1 /\ finished = started
      BY <2>1 DEF Ready
    <2>4. current <= current
      BY DEF ScheduleIInv, RunTypes
    <2>5. LevelByLevel'
      BY <1>1, <1>2, <1>3, <2>1, <2>2, <2>3, <2>4 DEF ScheduleIInv, LevelByLevel
    <2> QED BY <1>2, <1>4, <2>1, <2>5 DEF ScheduleIInv, RunTypes
  <1>7. ASSUME NEW k \in Nodes, FinishSystem(k) PROVE ScheduleIInv'
    <2>1. /\ k \in started /\ finished' = finished \cup {k}
          /\ UNCHANGED <<running, current, started>>
      BY <1>7 DEF FinishSystem
    <2> QED BY <1>1, <1>2, <1>4, <2>1 DEF ScheduleIInv, RunTypes, LevelByLevel
  <1>8. CASE NextLevel
    <2>1. /\ parallel /\ Level(current) \subseteq finished /\ current' = current + 1
          /\ UNCHANGED <<running, started, finished>>
      BY <1>8 DEF NextLevel
    <2>2. current \in Nat /\ started \subseteq Nodes
      BY DEF ScheduleIInv, RunTypes
    <2>3. \A k \in started : plan[k] <= current'
      BY <1>3, <1>5, <2>1, <2>2 DEF ScheduleIInv, LevelByLevel
    <2>4. ASSUME NEW k \in Nodes, plan[k] < current' PROVE k \in finished
      <3>1. plan[k] \in Nat /\ k \in DOMAIN plan
        BY <1>5, <2>1
      <3>2. CASE plan[k] < current
        BY <1>3, <2>1, <3>2 DEF ScheduleIInv, LevelByLevel
      <3>3. CASE plan[k] = current
        BY <2>1, <3>1, <3>3 DEF Level
      <3> QED BY <2>1, <2>2, <2>4, <3>1, <3>2, <3>3
    <2>5. LevelByLevel'
      BY <1>1, <1>2, <2>1, <2>3, <2>4 DEF LevelByLevel
    <2> QED BY <1>2, <1>3, <1>4, <2>1, <2>2, <2>5 DEF ScheduleIInv, RunTypes
  <1>9. CASE RunEnd
    <2>1. ~running' /\ UNCHANGED <<current, started, finished>>
      BY <1>9 DEF RunEnd
    <2> QED BY <1>2, <1>3, <1>4, <2>1 DEF ScheduleIInv, RunTypes, LevelByLevel
  <1> QED BY <1>6, <1>7, <1>8, <1>9 DEF RunStep

LEMMA ScheduleStep == ScheduleIInv /\ [ScheduleNext]_scheduleVars => ScheduleIInv'
  <1> SUFFICES ASSUME ScheduleIInv, [ScheduleNext]_scheduleVars PROVE ScheduleIInv'
    OBVIOUS
  <1>1. CASE UNCHANGED scheduleVars
    <2>1. UNCHANGED <<access, systems, ordering, plan, parallel, promised,
                      running, current, started, finished>>
      BY <1>1 DEF scheduleVars, registryVars, runVars
    <2>2. Nodes' = Nodes /\ Edges' = Edges
      BY <2>1, RegistryStays
    <2>3. PlanCache'
      BY <2>1, CurrentPlanStays DEF ScheduleIInv, PlanCache
    <2> QED BY <2>1, <2>2, <2>3 DEF ScheduleIInv, Registry, Kept, RunTypes, LevelByLevel
  <1>2. ASSUME NEW s \in Systems, AddSystem(s) \/ PrependSystem(s) PROVE ScheduleIInv'
    BY <1>2, AddKeeps, PrependKeeps
  <1>3. ASSUME NEW s \in Systems, NEW t \in Systems, OrderBefore(s, t) PROVE ScheduleIInv'
    BY <1>3, OrderKeeps
  <1>4. CASE SetExecMode \/ RunBegin \/ RunStep
    BY <1>4, ModeKeeps, BeginKeeps, RunStepKeeps
  <1> QED BY <1>1, <1>2, <1>3, <1>4 DEF ScheduleNext

(* The plan a run follows is one of the systems and edges registered now,  *)
(* the run enters a level when all lower ones are finished, and edges kept *)
(* by index follow the systems they were promised for.                     *)
THEOREM ScheduleInvariant == ScheduleSpec => []ScheduleIInv
  <1>1. ScheduleInit => ScheduleIInv
    <2> SUFFICES ASSUME ScheduleInit PROVE ScheduleIInv
      OBVIOUS
    <2>1. Nodes = {} /\ systems \in Seq(Systems)
      BY DEF ScheduleInit, Nodes
    <2>2. Registry
      BY <2>1 DEF ScheduleInit, Registry
    <2>3. PlanCache /\ RunTypes /\ LevelByLevel
      BY DEF ScheduleInit, PlanCache, RunTypes, LevelByLevel
    <2> QED BY <2>2, <2>3 DEF ScheduleIInv
  <1> QED BY <1>1, ScheduleStep, PTL DEF ScheduleSpec

(* Two systems that conflict never run at the same time, and what was      *)
(* promised to run before a system has finished when it starts.            *)
THEOREM ConflictsNeverOverlap == ScheduleSpec => []NoConflictInFlight
  <1>1. ScheduleIInv => NoConflictInFlight
    <2> SUFFICES ASSUME ScheduleIInv PROVE NoConflictInFlight
      OBVIOUS
    <2>1. ScheduleTypeOK
      BY DEF ScheduleIInv, Registry, PlanCache, CurrentPlan, RunTypes, ScheduleTypeOK, Edges
    <2>2. \A i, j \in Nodes : i < j /\ (Conflict(systems[i], systems[j]) \/ <<i, j>> \in ordering)
             => <<i, j>> \in Ordered
      BY DEF Ordered
    <2>3. ASSUME running, NEW i \in Nodes, NEW j \in started, <<i, j>> \in Ordered, i < j
          PROVE  i \in finished
      <3>1. j \in Nodes /\ current \in Nat
        BY DEF ScheduleIInv, RunTypes
      <3>2. CASE parallel
        <4>1. plan[i] \in Nat /\ plan[j] \in Nat /\ plan[i] < plan[j]
          BY <2>3, <3>1, <3>2 DEF ScheduleIInv, PlanCache, CurrentPlan, IsLevelPlan, Respects
        <4>2. plan[j] <= current
          BY <2>3, <3>2 DEF ScheduleIInv, LevelByLevel
        <4>3. plan[i] < current
          BY <3>1, <4>1, <4>2
        <4> QED BY <2>3, <3>2, <4>3 DEF ScheduleIInv, LevelByLevel
      <3>3. CASE ~parallel
        <4>1. i \in 1 .. (j - 1)
          BY <2>3, <3>1, NodesAre DEF ScheduleIInv
        <4> QED BY <2>3, <3>3, <4>1 DEF ScheduleIInv, LevelByLevel
      <3> QED BY <3>2, <3>3
    <2>4. ASSUME running, NEW a \in InFlight, NEW b \in InFlight, a # b,
                 Conflict(systems[a], systems[b])
          PROVE  FALSE
      <3>1. a \in Nodes /\ b \in Nodes /\ a \in started \ finished /\ b \in started \ finished
        BY DEF InFlight, ScheduleIInv, RunTypes
      <3>2. Conflict(systems[b], systems[a])
        BY <2>4 DEF Conflict
      <3>3. a < b \/ b < a
        BY <2>4, <3>1, NodesAre DEF ScheduleIInv
      <3> QED BY <2>2, <2>3, <2>4, <3>1, <3>2, <3>3
    <2>5. ASSUME running, NEW a \in Nodes, NEW b \in Nodes,
                 <<systems[b], systems[a]>> \in promised, a \in started
          PROVE  b \in finished
      <3>1. Kept(<<systems[b], systems[a]>>)
        BY <2>5 DEF ScheduleIInv, Registry
      <3>2. PICK edge \in ordering : systems[edge[1]] = systems[b] /\ systems[edge[2]] = systems[a]
        BY <3>1 DEF Kept
      <3>3. /\ edge[1] \in Nodes /\ edge[2] \in Nodes /\ edge[1] < edge[2]
            /\ edge = <<edge[1], edge[2]>>
        BY DEF ScheduleIInv, Registry, Edges
      <3>4. edge[1] = b /\ edge[2] = a
        BY <3>2, <3>3 DEF ScheduleIInv, Registry
      <3> QED BY <2>2, <2>3, <2>5, <3>3, <3>4
    <2> QED BY <2>1, <2>4, <2>5 DEF NoConflictInFlight
  <1> QED BY <1>1, ScheduleInvariant, PTL

-----------------------------------------------------------------------------
(* Whatever the interleaving, a run leaves what registration order leaves. *)

\* What system n makes of the contents w that it saw.
Effect(n, w) == Written(systems[n], [x \in Touched(systems[n]) |-> w[x]], w)

NothingWritten == [x \in Keys |-> <<>>]

\* w[n] are the contents after the first n systems in registration order.
Replays(m, w) == w = [n \in 0 .. m |-> IF n = 0 THEN NothingWritten ELSE Effect(n, w[n - 1])]

Replay == CHOOSE w : Replays(Len(systems), w)

Writes(k, x) == x \in access[systems[k]].writes

\* The systems that write x and have finished are those up to n.
WrittenUpTo(x, n) == \A k \in Nodes : Writes(k, x) => (k \in finished <=> k <= n)

\* So far each system saw what it sees in registration order, and each key
\* holds what it holds there after the same writers.
AsInOrder ==
  running =>
    /\ DOMAIN saw = Nodes
    /\ \A k \in started : saw[k] = [x \in Touched(systems[k]) |-> Replay[k - 1][x]]
    /\ contents = [x \in Keys |-> contents[x]]
    /\ \A x \in Keys, n \in 0 .. Len(systems) :
         WrittenUpTo(x, n) => contents[x] = Replay[n][x]

\* A set of naturals has a least member.
LEMMA NatHasLeast ==
  ASSUME NEW S, S \subseteq Nat, S # {}
  PROVE  \E a \in S : \A b \in S : a <= b
  <1> DEFINE R == OpToRel(<, Nat)
  <1>1. \E a \in S : \A b \in S : ~(<<b, a>> \in R)
    BY NatLessThanWellFounded, WFMin, Zenon
  <1>2. ASSUME NEW a \in Nat, NEW b \in Nat, b < a
        PROVE  <<b, a>> \in R
    <2>1. <<b, a>> \in Nat \X Nat
      OBVIOUS
    <2>2. <<b, a>>[1] < <<b, a>>[2]
      BY <1>2
    <2> QED BY <2>1, <2>2 DEF OpToRel
  <1>3. PICK a \in S : \A b \in S : ~(<<b, a>> \in R)
    BY <1>1, Zenon
  <1> HIDE DEF R
  <1>4. \A b \in S : ~(b < a)
    BY <1>2, <1>3, Zenon
  <1> QED BY <1>4

\* The first systems in order leave something, however many they are.
LEMMA ReplayExists ==
  ASSUME NEW m \in Nat
  PROVE  \E w : Replays(m, w)
  <1> DEFINE T == {k \in Nat : ~\E w : Replays(k, w)}
  <1> SUFFICES ASSUME T # {} PROVE FALSE
    OBVIOUS
  <1>1. PICK k \in T : \A j \in T : k <= j
    BY NatHasLeast
  <1>2. Replays(0, [n \in 0 .. 0 |-> NothingWritten])
    BY DEF Replays
  <1>3. k \in Nat /\ k # 0
    BY <1>2
  <1>4. k - 1 \in Nat /\ k - 1 \notin T
    BY <1>1, <1>3
  <1>5. PICK w : Replays(k - 1, w)
    BY <1>4
  <1>6. PICK v : v = [n \in 0 .. k |-> IF n = k THEN Effect(k, w[k - 1]) ELSE w[n]]
    OBVIOUS
  <1>7. \A n \in 0 .. k - 1 : v[n] = w[n] /\ w[n] = IF n = 0 THEN NothingWritten ELSE Effect(n, w[n - 1])
    BY <1>3, <1>5, <1>6 DEF Replays
  <1>8. ASSUME NEW n \in 0 .. k PROVE v[n] = IF n = 0 THEN NothingWritten ELSE Effect(n, v[n - 1])
    <2>1. CASE n = k
      <3>1. k - 1 \in 0 .. k - 1 /\ v[k - 1] = w[k - 1]
        BY <1>3, <1>7
      <3> QED BY <1>3, <1>6, <2>1, <3>1
    <2>2. CASE n # k /\ n # 0
      <3>1. n \in 0 .. k - 1 /\ n - 1 \in 0 .. k - 1
        BY <1>3, <2>2
      <3> QED BY <1>7, <2>2, <3>1
    <2>3. CASE n # k /\ n = 0
      <3>1. n \in 0 .. k - 1
        BY <1>3, <2>3
      <3> QED BY <1>7, <2>3, <3>1
    <2> QED BY <2>1, <2>2, <2>3
  <1>9. Replays(k, v)
    BY <1>6, <1>8 DEF Replays
  <1> QED BY <1>9

LEMMA ReplayIs ==
  ASSUME Registry
  PROVE  /\ Replay[0] = NothingWritten
         /\ \A n \in Nodes : Replay[n] = Effect(n, Replay[n - 1])
  <1>1. Len(systems) \in Nat /\ Nodes = 1 .. Len(systems)
    BY NodesAre
  <1>2. Replays(Len(systems), Replay)
    BY <1>1, ReplayExists, Zenon DEF Replay
  <1>3. \A n \in 0 .. Len(systems) : Replay[n] = IF n = 0 THEN NothingWritten ELSE Effect(n, Replay[n - 1])
    BY <1>2 DEF Replays
  <1> QED BY <1>1, <1>3

\* A key keeps its contents over systems that do not write it.
LEMMA UnwrittenStays ==
  ASSUME Registry, NEW x \in Keys, NEW a \in 0 .. Len(systems), NEW b \in 0 .. Len(systems), a <= b,
         \A k \in Nodes : Writes(k, x) => ~(a < k /\ k <= b)
  PROVE  Replay[b][x] = Replay[a][x]
  <1> DEFINE T == {n \in Nat : a <= n /\ n <= b /\ Replay[n][x] # Replay[a][x]}
  <1> SUFFICES ASSUME T # {} PROVE FALSE
    OBVIOUS
  <1>1. Len(systems) \in Nat /\ Nodes = 1 .. Len(systems)
    BY NodesAre
  <1>2. PICK k \in T : \A j \in T : k <= j
    BY NatHasLeast
  <1>3. k # a /\ k \in Nodes /\ k - 1 \in Nat /\ a <= k - 1 /\ k - 1 <= b /\ ~(k <= k - 1)
    BY <1>1, <1>2
  <1>4. Replay[k - 1][x] = Replay[a][x]
    BY <1>2, <1>3
  <1>5. ~Writes(k, x)
    BY <1>1, <1>2, <1>3
  <1>6. Replay[k] = Effect(k, Replay[k - 1])
    BY <1>3, ReplayIs
  <1>7. Replay[k][x] = Replay[k - 1][x]
    BY <1>5, <1>6 DEF Effect, Written, Writes
  <1> QED BY <1>4, <1>7

\* What must come first is finished when a system starts.
LEMMA OrderedIsFinished ==
  ASSUME ScheduleIInv, running, NEW i \in Nodes, NEW j \in Nodes, j \in started \/ Ready(j),
         <<i, j>> \in Ordered
  PROVE  i \in finished
  <1>1. current \in Nat /\ i < j /\ Len(systems) \in Nat /\ Nodes = 1 .. Len(systems)
    BY NodesAre DEF ScheduleIInv, RunTypes, Ordered
  <1>2. CASE parallel
    <2>1. plan[i] \in Nat /\ plan[j] \in Nat /\ plan[i] < plan[j]
      BY <1>1, <1>2 DEF ScheduleIInv, PlanCache, CurrentPlan, IsLevelPlan, Respects
    <2>2. plan[j] <= current
      BY <1>1, <1>2 DEF ScheduleIInv, LevelByLevel, Ready, Level
    <2>3. plan[i] < current
      BY <1>1, <2>1, <2>2
    <2> QED BY <1>2, <2>3 DEF ScheduleIInv, LevelByLevel
  <1>3. CASE ~parallel
    <2>1. i \in 1 .. (j - 1)
      BY <1>1
    <2> QED BY <1>3, <2>1 DEF ScheduleIInv, LevelByLevel, Ready
  <1> QED BY <1>2, <1>3

\* A system and one that writes what it touches are ordered as registered.
LEMMA WritersAreOrdered ==
  ASSUME NEW j \in Nodes, NEW k \in Nodes, NEW x, Writes(j, x), x \in Touched(systems[k])
  PROVE  /\ j < k => <<j, k>> \in Ordered
         /\ k < j => <<k, j>> \in Ordered
  <1>1. Conflict(systems[j], systems[k]) /\ Conflict(systems[k], systems[j])
    BY DEF Conflict, Writes
  <1> QED BY <1>1 DEF Ordered

\* What a system declares are keys.
LEMMA TouchedAreKeys ==
  ASSUME Registry, NEW k \in Nodes
  PROVE  Touched(systems[k]) \subseteq Keys /\ \A x : Writes(k, x) => x \in Touched(systems[k])
  <1>1. systems[k] \in Systems
    BY NodesAre DEF Registry
  <1>2. access[systems[k]] \in Accesses
    BY <1>1 DEF Registry
  <1> QED BY <1>2, AccessesAssumption DEF Touched, Writes

LEMMA BeginAsInOrder == ASSUME ScheduleIInv, RunBegin PROVE AsInOrder'
  <1>1. /\ finished' = {} /\ started' = {} /\ contents' = NothingWritten
        /\ saw' = [k \in Nodes |-> None]
        /\ UNCHANGED <<access, systems, ordering, parallel, promised>>
    BY DEF RunBegin, NothingWritten
  <1>2. /\ Nodes' = Nodes /\ Replay' = Replay /\ Registry
        /\ Len(systems) \in Nat /\ Nodes = 1 .. Len(systems)
    BY <1>1, NodesAre DEF Nodes, Replay, Replays, Effect, NothingWritten, Written, Touched, ScheduleIInv
  <1>3. ASSUME NEW x \in Keys, NEW n \in 0 .. Len(systems'), WrittenUpTo(x, n)'
        PROVE  contents'[x] = Replay'[n][x]
    <2>1. \A k \in Nodes : Writes(k, x) => ~(0 < k /\ k <= n)
      BY <1>1, <1>2, <1>3 DEF WrittenUpTo, Writes
    <2>2. Replay[n][x] = Replay[0][x]
      BY <1>1, <1>2, <2>1, UnwrittenStays
    <2> QED BY <1>1, <1>2, <2>2, ReplayIs DEF NothingWritten
  <1>4. contents' = [x \in Keys |-> contents'[x]]
    BY <1>1 DEF NothingWritten
  <1> QED BY <1>1, <1>2, <1>3, <1>4 DEF AsInOrder

LEMMA StartAsInOrder ==
  ASSUME ScheduleIInv, AsInOrder, NEW k \in Nodes, StartSystem(k) PROVE AsInOrder'
  <1>1. /\ running /\ k \notin started /\ Ready(k) /\ started' = started \cup {k}
        /\ saw' = [saw EXCEPT ![k] = [x \in Touched(systems[k]) |-> contents[x]]]
        /\ UNCHANGED <<access, systems, ordering, finished, contents, running>>
    BY DEF StartSystem, registryVars
  <1>2. /\ Nodes' = Nodes /\ Replay' = Replay /\ Registry
        /\ Len(systems) \in Nat /\ Nodes = 1 .. Len(systems)
        /\ finished \subseteq started /\ started \subseteq Nodes
    BY <1>1, NodesAre
    DEF Nodes, Replay, Replays, Effect, NothingWritten, Written, Touched, ScheduleIInv, RunTypes
  <1>3. ASSUME NEW x \in Touched(systems[k]) PROVE contents[x] = Replay[k - 1][x]
    <2>1. x \in Keys /\ k - 1 \in 0 .. Len(systems)
      BY <1>2, TouchedAreKeys
    <2>2. ASSUME NEW j \in Nodes, Writes(j, x) PROVE j \in finished <=> j <= k - 1
      <3>1. CASE j < k
        <4>1. j \in finished
          BY <1>1, <2>2, <3>1, WritersAreOrdered, OrderedIsFinished
        <4> QED BY <1>2, <3>1, <4>1
      <3>2. CASE j = k
        BY <1>1, <1>2, <3>2
      <3>3. CASE k < j
        <4>1. j \in finished => k \in finished
          BY <1>1, <1>2, <2>2, <3>3, WritersAreOrdered, OrderedIsFinished
        <4> QED BY <1>1, <1>2, <3>3, <4>1
      <3> QED BY <1>2, <3>1, <3>2, <3>3
    <2>3. WrittenUpTo(x, k - 1)
      BY <2>2 DEF WrittenUpTo
    <2> QED BY <1>1, <2>1, <2>3 DEF AsInOrder
  <1>4. ASSUME NEW j \in started'
        PROVE  saw'[j] = [x \in Touched(systems[j]) |-> Replay[j - 1][x]]
    <2>1. DOMAIN saw = Nodes
      BY <1>1 DEF AsInOrder
    <2>2. CASE j = k
      BY <1>1, <1>3, <2>1, <2>2
    <2>3. CASE j # k
      BY <1>1, <2>1, <2>3 DEF AsInOrder
    <2> QED BY <2>2, <2>3
  <1>5. DOMAIN saw' = Nodes'
    BY <1>1, <1>2 DEF AsInOrder
  <1>6. Touched(systems[0])' = Touched(systems[0]) /\ \A s : Touched(s)' = Touched(s)
    BY <1>1 DEF Touched
  <1>7. ASSUME NEW x \in Keys, NEW n \in 0 .. Len(systems'), WrittenUpTo(x, n)'
        PROVE  contents'[x] = Replay'[n][x]
    <2>1. WrittenUpTo(x, n)
      BY <1>1, <1>2, <1>7 DEF WrittenUpTo, Writes
    <2> QED BY <1>1, <1>2, <2>1 DEF AsInOrder
  <1>8. contents' = [x \in Keys |-> contents'[x]]
    BY <1>1 DEF AsInOrder
  <1> QED BY <1>1, <1>2, <1>4, <1>5, <1>6, <1>7, <1>8 DEF AsInOrder

LEMMA FinishAsInOrder ==
  ASSUME ScheduleIInv, AsInOrder, NEW k \in Nodes, FinishSystem(k) PROVE AsInOrder'
  <1>1. /\ running /\ k \in started /\ k \notin finished /\ finished' = finished \cup {k}
        /\ contents' = Written(systems[k], saw[k], contents)
        /\ UNCHANGED <<access, systems, ordering, started, saw, running>>
    BY DEF FinishSystem, registryVars
  <1>2. /\ Nodes' = Nodes /\ Replay' = Replay /\ Registry
        /\ Len(systems) \in Nat /\ Nodes = 1 .. Len(systems)
        /\ finished \subseteq started /\ started \subseteq Nodes
    BY <1>1, NodesAre
    DEF Nodes, Replay, Replays, Effect, NothingWritten, Written, Touched, ScheduleIInv, RunTypes
  <1>3. contents' = [x \in Keys |-> contents'[x]]
    BY <1>1 DEF Written
  <1>4. ASSUME NEW x \in Keys, NEW n \in 0 .. Len(systems),
               \A j \in Nodes : Writes(j, x) => (j \in finished \cup {k} <=> j <= n)
        PROVE  contents'[x] = Replay[n][x]
    <2>1. CASE ~Writes(k, x)
      <3>1. WrittenUpTo(x, n)
        BY <1>4, <2>1 DEF WrittenUpTo
      <3>2. contents[x] = Replay[n][x]
        BY <1>1, <3>1 DEF AsInOrder
      <3> QED BY <1>1, <2>1, <3>2 DEF Written, Writes
    <2>2. CASE Writes(k, x)
      <3>1. k <= n /\ k - 1 \in 0 .. Len(systems) /\ k \in 0 .. Len(systems) /\ n \in Nat /\ k \in Nat
        BY <1>2, <1>4, <2>2
      <3>2. ASSUME NEW j \in Nodes, Writes(j, x), k < j PROVE ~(j <= n)
        <4>1. j \in finished => k \in finished
          BY <1>1, <1>2, <2>2, <3>2, TouchedAreKeys, WritersAreOrdered, OrderedIsFinished
        <4>2. j # k /\ j \notin finished
          BY <1>1, <1>2, <3>1, <3>2, <4>1
        <4> QED BY <1>4, <3>2, <4>2
      <3>3. WrittenUpTo(x, k - 1)
        <4> SUFFICES ASSUME NEW j \in Nodes, Writes(j, x) PROVE j \in finished <=> j <= k - 1
          BY DEF WrittenUpTo
        <4>0. j \in Nat
          BY <1>2
        <4>1. CASE j = k
          BY <1>1, <3>1, <4>1
        <4>2. CASE j < k
          <5>1. j <= n /\ j <= k - 1 /\ j # k
            BY <3>1, <4>0, <4>2
          <5> QED BY <1>4, <5>1
        <4>3. CASE k < j
          <5>1. ~(j <= n) /\ ~(j <= k - 1) /\ j # k
            BY <3>1, <3>2, <4>0, <4>3
          <5> QED BY <1>4, <5>1
        <4> QED BY <3>1, <4>0, <4>1, <4>2, <4>3
      <3>4. contents[x] = Replay[k - 1][x]
        BY <1>1, <3>1, <3>3 DEF AsInOrder
      <3>5. saw[k] = [y \in Touched(systems[k]) |-> Replay[k - 1][y]]
        BY <1>1 DEF AsInOrder
      <3>6. contents'[x] = Effect(k, Replay[k - 1])[x]
        BY <1>1, <3>4, <3>5 DEF Effect, Written
      <3>7. Replay[k] = Effect(k, Replay[k - 1])
        BY <1>2, ReplayIs
      <3>8. Replay[n][x] = Replay[k][x]
        BY <1>2, <3>1, <3>2, UnwrittenStays
      <3> QED BY <3>6, <3>7, <3>8
    <2> QED BY <2>1, <2>2
  <1>5. ASSUME NEW x \in Keys, NEW n \in 0 .. Len(systems'), WrittenUpTo(x, n)'
        PROVE  contents'[x] = Replay'[n][x]
    <2>1. \A j \in Nodes : Writes(j, x) => (j \in finished \cup {k} <=> j <= n)
      BY <1>1, <1>2, <1>5 DEF WrittenUpTo, Writes
    <2> QED BY <1>1, <1>2, <1>4, <2>1
  <1>6. \A s : Touched(s)' = Touched(s)
    BY <1>1 DEF Touched
  <1> QED BY <1>1, <1>2, <1>3, <1>5, <1>6 DEF AsInOrder

\* Levels have no gaps: when one is empty, everything has finished.
LEMMA EmptyLevelIsTheEnd ==
  ASSUME ScheduleIInv, running, RunOver PROVE finished = Nodes
  <1>1. /\ Nodes = 1 .. Len(systems) /\ Len(systems) \in Nat /\ current \in Nat
        /\ finished \subseteq Nodes
    BY NodesAre DEF ScheduleIInv, RunTypes
  <1>2. CASE parallel
    <2>1. Level(current) = {} /\ plan \in [Nodes -> Nat] /\ Tight(Nodes, Ordered, plan)
      BY <1>2 DEF RunOver, ScheduleIInv, PlanCache, CurrentPlan, IsLevelPlan
    <2> DEFINE T == {plan[k] : k \in {k \in Nodes : current < plan[k]}}
    <2>2. T = {}
      <3> SUFFICES ASSUME T # {} PROVE FALSE
        OBVIOUS
      <3>1. T \subseteq Nat
        BY <2>1
      <3>2. PICK a \in T : \A b \in T : a <= b
        BY <3>1, NatHasLeast
      <3>3. PICK k \in Nodes : current < plan[k] /\ plan[k] = a
        BY <3>2
      <3>4. plan[k] \in Nat /\ plan[k] # 0
        BY <1>1, <2>1, <3>3
      <3>5. PICK i \in Nodes : plan[k] = plan[i] + 1
        BY <2>1, <3>4 DEF Tight
      <3>6. plan[i] \in Nat /\ plan[i] # current
        BY <2>1 DEF Level
      <3>7. current < plan[i] /\ plan[i] < a
        BY <1>1, <3>3, <3>5, <3>6
      <3>8. plan[i] \in T
        BY <3>7
      <3>9. a \in Nat /\ a <= plan[i]
        BY <3>1, <3>2, <3>8
      <3> HIDE DEF T
      <3> QED BY <3>6, <3>7, <3>9
    <2>3. ASSUME NEW k \in Nodes PROVE k \in finished
      <3>1. plan[k] \in Nat /\ plan[k] # current /\ ~(current < plan[k])
        BY <2>1, <2>2 DEF Level
      <3>2. plan[k] < current
        BY <1>1, <3>1
      <3> QED BY <1>2, <3>2 DEF ScheduleIInv, LevelByLevel
    <2> QED BY <1>1, <2>3
  <1>3. CASE ~parallel
    BY <1>3 DEF RunOver
  <1> QED BY <1>2, <1>3

LEMMA OrderStep == ASSUME ScheduleIInv, AsInOrder, [ScheduleNext]_scheduleVars PROVE AsInOrder'
  <1>1. CASE RunBegin
    BY <1>1, BeginAsInOrder
  <1>2. ASSUME NEW k \in Nodes, StartSystem(k) \/ FinishSystem(k) PROVE AsInOrder'
    BY <1>2, StartAsInOrder, FinishAsInOrder
  <1>3. CASE NextLevel \/ UNCHANGED scheduleVars
    <2>1. UNCHANGED <<access, systems, running, started, finished, saw, contents>>
      BY <1>3 DEF NextLevel, scheduleVars, registryVars, runVars
    <2>2. /\ Nodes' = Nodes /\ Replay' = Replay /\ \A s : Touched(s)' = Touched(s)
          /\ \A x, n : WrittenUpTo(x, n)' <=> WrittenUpTo(x, n)
      BY <2>1 DEF Nodes, Replay, Replays, Effect, NothingWritten, Written, Touched, WrittenUpTo, Writes
    <2> QED BY <2>1, <2>2 DEF AsInOrder
  <1>4. CASE ~running'
    BY <1>4 DEF AsInOrder
  <1>5. CASE \/ \E s \in Systems : AddSystem(s) \/ PrependSystem(s)
             \/ \E s, t \in Systems : OrderBefore(s, t)
             \/ SetExecMode \/ RunEnd
    <2>1. ~running'
      BY <1>5 DEF AddSystem, PrependSystem, OrderBefore, SetExecMode, RunEnd, runVars
    <2> QED BY <1>4, <2>1
  <1> QED BY <1>1, <1>2, <1>3, <1>5 DEF ScheduleNext, RunStep

(* A run that is over has run every registered system and left what strict *)
(* registration order leaves, for any number of systems, declarations and  *)
(* edges, any cached plan and any interleaving on the pool (Schedule::run, *)
(* run_plan).                                                              *)
THEOREM RunsAreAlwaysDeterministic == ScheduleSpec => []RunsAreDeterministic
  <1>1. ScheduleInit => AsInOrder
    BY DEF ScheduleInit, AsInOrder
  <1>2. ScheduleSpec => [](ScheduleIInv /\ AsInOrder)
    <2>1. ScheduleIInv /\ AsInOrder /\ [ScheduleNext]_scheduleVars => (ScheduleIInv /\ AsInOrder)'
      BY ScheduleStep, OrderStep
    <2> QED BY <1>1, <2>1, ScheduleInvariant, PTL DEF ScheduleSpec
  <1>3. ScheduleIInv /\ AsInOrder => RunsAreDeterministic
    <2> SUFFICES ASSUME ScheduleIInv, AsInOrder, running, RunOver
                 PROVE  finished = Nodes /\ contents = SequentialWorld
      BY DEF RunsAreDeterministic
    <2>1. finished = Nodes
      BY EmptyLevelIsTheEnd
    <2>2. /\ Len(systems) \in Nat /\ Nodes = 1 .. Len(systems) /\ Registry
      BY NodesAre DEF ScheduleIInv
    <2>3. ASSUME NEW x \in Keys PROVE contents[x] = Replay[Len(systems)][x]
      <3>1. WrittenUpTo(x, Len(systems))
        BY <2>1, <2>2 DEF WrittenUpTo
      <3> QED BY <2>2, <3>1 DEF AsInOrder
    <2>4. Replay[Len(systems)] = [x \in Keys |-> Replay[Len(systems)][x]]
      <3>1. CASE Len(systems) = 0
        BY <2>2, <3>1, ReplayIs DEF NothingWritten
      <3>2. CASE Len(systems) # 0
        <4>1. Replay[Len(systems)] = Effect(Len(systems), Replay[Len(systems) - 1])
          BY <2>2, <3>2, ReplayIs
        <4>2. PICK e : e = Effect(Len(systems), Replay[Len(systems) - 1])
          OBVIOUS
        <4>3. e = [x \in Keys |-> e[x]]
          BY <4>2 DEF Effect, Written
        <4> QED BY <4>1, <4>2, <4>3
      <3> QED BY <3>1, <3>2
    <2>5. contents = Replay[Len(systems)]
      BY <2>3, <2>4 DEF AsInOrder
    <2>6. SequentialWorld = Replay[Len(systems)]
      BY DEF SequentialWorld, Replay, Replays, NothingWritten, Effect
    <2> QED BY <2>1, <2>5, <2>6
  <1> QED BY <1>2, <1>3, PTL

-----------------------------------------------------------------------------
(* The frame loop and its clock.                                           *)

USE DEF Capacity

-----------------------------------------------------------------------------
(* Arithmetic of begin_frame.                                              *)

(* Whole ticks found in a filled accumulator: the probing loop leaves less *)
(* than one tick, and finds at most one more tick than the frame may run.  *)
LEMMA ProbingLeavesRemainder ==
    ASSUME NEW c \in FixedTime, NEW d \in Nat, c.accumulator < Delta
    PROVE  /\ Filled(c, d) \in Nat
           /\ Available(c, d) \in 0 .. MaxSteps + 1
           /\ 0 <= Filled(c, d) - Available(c, d) * Delta
           /\ Filled(c, d) - Available(c, d) * Delta < Delta
  <1> DEFINE F == Filled(c, d)
             Q == F \div Delta
             A == Available(c, d)
  <1>1. c.accumulator \in Nat /\ Delta \in Nat \ {0} /\ MaxSteps \in Nat
    BY ClockAssumption DEF FixedTime
  <1>2. Delta * (MaxSteps + 1) = Delta * MaxSteps + Delta /\ Delta * MaxSteps \in Nat
    BY <1>1
  <1>3. F \in Nat /\ F <= Delta * (MaxSteps + 1)
    BY <1>1, <1>2 DEF Filled, Lesser
  <1>4. Q \in Nat /\ Q * Delta <= F /\ F < Q * Delta + Delta
    <2>1. F = Delta * Q + (F % Delta) /\ F % Delta \in 0 .. Delta - 1 /\ Q \in Nat
      BY <1>1, <1>3
    <2> HIDE DEF Q, F
    <2>2. Delta * Q = Q * Delta /\ Q * Delta \in Nat
      BY <2>1, <1>1
    <2> QED BY <2>1, <2>2, <1>1, <1>3
  <1> HIDE DEF F, Q
  <1>5. Q <= MaxSteps + 1
    <2> SUFFICES ASSUME Q >= MaxSteps + 2 PROVE FALSE
      BY <1>1, <1>4
    <2>1. PICK k \in Nat : Q = MaxSteps + 2 + k
      <3> Q - (MaxSteps + 2) \in Nat /\ Q = MaxSteps + 2 + (Q - (MaxSteps + 2))
        BY <1>1, <1>4
      <3> QED OBVIOUS
    <2>2. Q * Delta = Delta * (MaxSteps + 1) + Delta + k * Delta /\ k * Delta \in Nat
      BY <2>1, <1>1
    <2> QED BY <2>2, <1>1, <1>2, <1>3, <1>4
  <1>6. A = Q
    BY <1>1, <1>4, <1>5 DEF A, Available, Lesser, F, Q
  <1> QED BY <1>1, <1>3, <1>4, <1>5, <1>6 DEF F, A

(* begin_frame keeps the books: the delta goes to the accumulator or is    *)
(* counted as dropped, and the accumulator holds the frame's steps and     *)
(* less than one tick more.                                                *)
LEMMA BeginFrameBalances ==
    ASSUME NEW c \in FixedTime, NEW d \in Nat, c.accumulator < Delta
    PROVE  LET b == ClockBeginFrame(c, d)
           IN  /\ b \in FixedTime
               /\ b.elapsed = c.elapsed /\ b.tick = c.tick
               /\ b.steps = Steps(c, d) /\ b.current = 0
               /\ Steps(c, d) \in 0 .. MaxSteps
               /\ b.accumulator + b.dropped = c.accumulator + c.dropped + d
               /\ 0 <= b.accumulator - Steps(c, d) * Delta
               /\ b.accumulator - Steps(c, d) * Delta < Delta
  <1> DEFINE F == Filled(c, d)
             A == Available(c, d)
             S == Steps(c, d)
             P == Spare(c, d)
             b == ClockBeginFrame(c, d)
  <1>1. /\ c.accumulator \in Nat /\ c.dropped \in Nat /\ c.tick \in Nat /\ c.elapsed \in Nat
        /\ Delta \in Nat \ {0} /\ MaxSteps \in Nat
    BY ClockAssumption DEF FixedTime
  <1>2. /\ F \in Nat /\ A \in 0 .. MaxSteps + 1
        /\ 0 <= F - A * Delta /\ F - A * Delta < Delta
    BY ProbingLeavesRemainder
  <1>3. F <= c.accumulator + d
    BY <1>1, <1>2 DEF F, Filled, Lesser
  <1>4. S \in 0 .. MaxSteps /\ P \in Nat /\ A = S + P
    BY <1>1, <1>2 DEF S, P, A, Steps, Spare, Lesser
  <1>5. b = [c EXCEPT !.dropped = @ + (c.accumulator + d - F + P * Delta),
                      !.accumulator = F - P * Delta,
                      !.steps = S, !.current = 0, !.alpha = Alpha(F - P * Delta)]
    BY DEF b, ClockBeginFrame, Lost, F, S, P
  <1> HIDE DEF F, A, S, P, b
  <1>6. A * Delta = S * Delta + P * Delta /\ P * Delta \in Nat /\ S * Delta \in Nat
    BY <1>1, <1>2, <1>4
  <1> DEFINE L == F - P * Delta
             D == c.dropped + (c.accumulator + d - F + P * Delta)
  <1>7. /\ L \in Nat /\ D \in Nat
        /\ L + D = c.accumulator + c.dropped + d
        /\ 0 <= L - S * Delta /\ L - S * Delta < Delta
    BY <1>1, <1>2, <1>3, <1>6
  <1>8. Alpha(L) \in 0 .. Delta
    BY <1>1, <1>7 DEF Alpha, Lesser
  <1>9. b = [c EXCEPT !.dropped = D, !.accumulator = L, !.steps = S, !.current = 0,
                      !.alpha = Alpha(L)]
    BY <1>5 DEF FixedTime
  <1> HIDE DEF L, D
  <1>10. /\ b \in FixedTime
         /\ b.elapsed = c.elapsed /\ b.tick = c.tick
         /\ b.steps = S /\ b.current = 0
         /\ b.accumulator = L /\ b.dropped = D
    <2>1. S \in Nat /\ L \in Nat /\ D \in Nat
      BY <1>1, <1>4, <1>7
    <2> QED BY <2>1, <1>8, <1>9, Zenon DEF FixedTime
  <1> QED BY <1>4, <1>7, <1>10 DEF b, S

-----------------------------------------------------------------------------
(* The inductive invariant: the two properties, what the clock is, and     *)
(* where in a frame updates may still be owed.  Between frames none is, so *)
(* begin_frame always starts from less than one tick.                      *)

OwedOnlyBeforePostFrame ==
    left > 0 => ~replay /\ phase \in {"pre_update", "input", "fixed", "gameplay", "drain"}

ReplayHasNoFrame == replay => phase \in {"idle", "gameplay", "drain"}

ClockInv ==
    /\ clock \in FixedTime
    /\ host \in Nat
    /\ left \in Nat /\ left <= MaxSteps
    /\ replay \in BOOLEAN
    /\ OwedOnlyBeforePostFrame
    /\ ReplayHasNoFrame
    /\ TimeConserved
    /\ RemainderOnly

(* A new clock owes nothing. *)
LEMMA ClockInitially == FrameInit => ClockInv
  BY ClockAssumption
  DEF FrameInit, ClockInv, NewClock, FixedTime, OwedOnlyBeforePostFrame,
      ReplayHasNoFrame, TimeConserved, RemainderOnly

(* Every step of the loop keeps the books. *)
LEMMA ClockStep == ClockInv /\ [FrameNext]_vars => ClockInv'
  <1> SUFFICES ASSUME ClockInv, [FrameNext]_vars PROVE ClockInv'
    OBVIOUS
  <1> USE DEF ClockInv
  <1>0. /\ Delta \in Nat /\ Delta > 0 /\ MaxSteps \in Nat
        /\ clock.accumulator \in Nat /\ clock.elapsed \in Nat /\ clock.tick \in Nat
        /\ clock.steps \in Nat /\ clock.current \in Nat /\ clock.dropped \in Nat
    BY ClockAssumption DEF FixedTime
  <1>1. CASE BeginFrame
    <2>1. left = 0
      BY <1>1 DEF BeginFrame, OwedOnlyBeforePostFrame
    <2>2. clock.accumulator < Delta
      BY <1>0, <2>1 DEF RemainderOnly
    <2>3. PICK d \in FrameDeltas : /\ host' = host + d
                                   /\ clock' = ClockBeginFrame(clock, d)
                                   /\ left' = Steps(clock, d)
      BY <1>1 DEF BeginFrame
    <2>4. d \in Nat
      BY FrameAssumption
    <2>5. /\ clock' \in FixedTime
          /\ clock'.elapsed = clock.elapsed
          /\ clock'.steps = left' /\ clock'.current = 0
          /\ left' \in 0 .. MaxSteps
          /\ clock'.accumulator + clock'.dropped = clock.accumulator + clock.dropped + d
          /\ 0 <= clock'.accumulator - left' * Delta
          /\ clock'.accumulator - left' * Delta < Delta
      BY <2>2, <2>3, <2>4, BeginFrameBalances
    <2>6. ~replay /\ replay' = replay /\ phase' = "pre_update"
      BY <1>1 DEF BeginFrame
    <2>7. /\ clock'.accumulator \in Nat /\ clock'.dropped \in Nat
      BY <2>5 DEF FixedTime
    <2>8. TimeConserved'
      <3>1. host = clock.elapsed + clock.accumulator + clock.dropped
        BY <2>6 DEF TimeConserved
      <3>2. host' = clock'.elapsed + clock'.accumulator + clock'.dropped
        BY <1>0, <2>3, <2>4, <2>5, <2>7, <3>1
      <3> QED BY <3>2 DEF TimeConserved
    <2>9. RemainderOnly'
      <3>1. clock'.steps = left' /\ clock'.current = 0
        BY <2>5, Zenon
      <3>2. left' = 0 + left'
        <4>1. \A n \in 0 .. MaxSteps : n = 0 + n
          BY <1>0
        <4>2. left' \in 0 .. MaxSteps
          BY <2>5, Zenon
        <4> QED BY <4>1, <4>2, Zenon
      <3>3. clock'.steps = clock'.current + left'
        BY <3>1, <3>2, Zenon
      <3> QED BY <2>5, <3>3 DEF RemainderOnly
    <2> QED
      BY <1>0, <2>3, <2>4, <2>5, <2>6, <2>8, <2>9
      DEF OwedOnlyBeforePostFrame, ReplayHasNoFrame
  <1>2. CASE StartStep
    <2>1. /\ left > 0 /\ left' = left - 1 /\ phase = "fixed" /\ phase' = "gameplay"
          /\ clock' = ClockStartStep(clock)
          /\ host' = host /\ replay' = replay
      BY <1>2 DEF StartStep, time
    <2>2. left' \in Nat /\ left' * Delta = left * Delta - Delta /\ left' * Delta \in Nat
          /\ left * Delta \in Nat
      BY <1>0, <2>1
    <2> DEFINE L == clock.accumulator - Delta
    <2>3. L \in Nat
      <3> DEFINE owed == left * Delta
                 rest == left' * Delta
      <3>1. owed \in Nat /\ rest \in Nat /\ rest = owed - Delta
        BY <2>2
      <3>2. 0 <= clock.accumulator - owed
        BY DEF RemainderOnly
      <3> HIDE DEF owed, rest
      <3> QED BY <1>0, <3>1, <3>2
    <2>4. Alpha(L) \in 0 .. Delta
      BY <1>0, <2>3 DEF Alpha, Lesser
    <2>5. clock' = [clock EXCEPT !.accumulator = L, !.tick = clock.tick + 1,
                       !.elapsed = clock.elapsed + Delta,
                       !.current = clock.current + 1, !.alpha = Alpha(L)]
      BY <2>1 DEF ClockStartStep, FixedTime
    <2>6. clock.tick + 1 \in Nat /\ clock.elapsed + Delta \in Nat /\ clock.current + 1 \in Nat
      BY <1>0
    <2> HIDE DEF L
    <2>7. /\ clock' \in FixedTime
          /\ clock'.accumulator = L
          /\ clock'.elapsed = clock.elapsed + Delta
          /\ clock'.current = clock.current + 1
          /\ clock'.steps = clock.steps /\ clock'.dropped = clock.dropped
      BY <2>3, <2>4, <2>5, <2>6 DEF FixedTime
    <2>8. TimeConserved' /\ RemainderOnly'
      BY <1>0, <2>1, <2>2, <2>3, <2>7 DEF TimeConserved, RemainderOnly, L
    <2> QED
      BY <1>0, <2>1, <2>2, <2>7, <2>8 DEF OwedOnlyBeforePostFrame, ReplayHasNoFrame
  <1>3. CASE StartReplayStep
    <2>1. /\ replay /\ replay' = replay /\ phase' = "gameplay"
          /\ left' = left /\ host' = host
          /\ clock' = [clock EXCEPT !.accumulator = 0, !.tick = clock.tick + 1,
                          !.elapsed = clock.elapsed + Delta,
                          !.steps = 1, !.current = 1, !.alpha = 0]
      BY <1>3 DEF StartReplayStep, ClockStartReplayStep, FixedTime
    <2>2. clock.tick + 1 \in Nat /\ clock.elapsed + Delta \in Nat /\ 0 \in 0 .. Delta
      BY <1>0
    <2>3. clock' \in FixedTime /\ clock'.accumulator = 0
      BY <2>1, <2>2 DEF FixedTime
    <2>4. left = 0
      BY <2>1 DEF OwedOnlyBeforePostFrame
    <2>5. TimeConserved' /\ RemainderOnly'
      BY <1>0, <2>1, <2>3, <2>4 DEF TimeConserved, RemainderOnly
    <2> QED BY <2>1, <2>3, <2>4, <2>5 DEF OwedOnlyBeforePostFrame, ReplayHasNoFrame
  <1>4. CASE RunStage \/ LeaveFixed \/ RunGameplay \/ ApplyFixed \/ ApplyFrame
             \/ MoveStore \/ Stopped \/ UNCHANGED vars
    <2>1. UNCHANGED <<clock, host, left, replay>>
      BY <1>4 DEF RunStage, LeaveFixed, RunGameplay, ApplyFixed, ApplyFrame,
                  MoveStore, Stopped, vars, time
    <2>2. OwedOnlyBeforePostFrame' /\ ReplayHasNoFrame'
      BY <1>0, <1>4 DEF RunStage, LeaveFixed, RunGameplay, ApplyFixed, ApplyFrame,
                  MoveStore, Stopped, vars, time, After,
                  OwedOnlyBeforePostFrame, ReplayHasNoFrame
    <2>3. TimeConserved' /\ RemainderOnly'
      BY <2>1 DEF TimeConserved, RemainderOnly
    <2> QED BY <2>1, <2>2, <2>3
  <1> QED BY <1>1, <1>2, <1>3, <1>4 DEF FrameNext

(* The clock's books hold in every reachable state. *)
THEOREM ClockInvariant == FrameSpec => []ClockInv
  <1>1. FrameInit => ClockInv
    BY ClockInitially
  <1>2. ClockInv /\ [FrameNext]_vars => ClockInv'
    BY ClockStep
  <1> QED BY <1>1, <1>2, PTL DEF FrameSpec

(* Live frames lose no host time: all of it is simulated, still waiting in *)
(* the accumulator, or counted in dropped_seconds.  The accumulator holds  *)
(* exactly the updates the frame still owes and less than one tick:        *)
(* start_step never overdraws it, no lag outlives a frame.                 *)
THEOREM ClockAlwaysKeepsTime == FrameSpec => []ClockKeepsTime
  <1>1. ClockInv => ClockKeepsTime
    BY DEF ClockInv, ClockKeepsTime
  <1> QED BY <1>1, ClockInvariant, PTL
-----------------------------------------------------------------------------
(* The world is a function of the tick.                                    *)

IsSeq(q) == \E S : q \in Seq(S)

(* What every op leaves: handles were born, components have their entity. *)
Sound(w) ==
    /\ w = [born |-> w.born, alive |-> w.alive, holds |-> w.holds]
    /\ w.born \in Nat
    /\ w.alive \subseteq 1 .. w.born
    /\ DOMAIN w.holds \subseteq w.alive

(* The reference, and this tick's calls made in the world before it. *)
Reference(k) == World(load.plan, effects)[k]
Tick == IssueAll(Reference(clock.tick - 1), load.plan[clock.tick], clock.tick)

(* Where a tick stands, the world stands in the reference.                 *)
InReference ==
    /\ phase = "gameplay" => world = Reference(clock.tick - 1)
    /\ phase = "drain" => world = Tick.world /\ fixedQueue = Tick.queued
    /\ phase \notin {"gameplay", "drain"} => world = Reference(clock.tick)

LoopTypes ==
    /\ load \in Load /\ frame \in Nat /\ stored \in BOOLEAN
    /\ phase \in DOMAIN After \union {"idle", "fixed", "gameplay", "drain", "boundary"}
    /\ clock.current <= clock.steps /\ clock.steps <= MaxSteps
    /\ clock.tick + left <= MaxTicks
    /\ phase \in {"gameplay", "drain"} => clock.tick # 0

(* The queue carries ops only from a plan to its drain, and none when the  *)
(* store is away: a host that takes it has no writers in its plan.         *)
QueueOfTheTick ==
    /\ IsSeq(fixedQueue)
    /\ phase # "drain" \/ ~stored => fixedQueue = <<>>
    /\ ~stored => \A t \in 1 .. MaxTicks : load.plan[t] = <<>>

(* Frame stages have done nothing yet after a tick that has not ended. *)
EffectsSoFar ==
    /\ effects = [k \in 0 .. MaxTicks |-> effects[k]]
    /\ \A k \in 0 .. MaxTicks : IsSeq(effects[k])
    /\ \A k \in 0 .. MaxTicks :
          k > clock.tick \/ (k = clock.tick /\ phase \in {"gameplay", "drain"})
             => effects[k] = <<>>

TickInv == LoopTypes /\ Sound(world) /\ QueueOfTheTick /\ EffectsSoFar /\ InReference

(* Every frame op is in the queue or landed, in the order of its issue. *)
LandInv ==
    /\ IsSeq(landed) /\ IsSeq(frameQueue)
    /\ FrameOpsLandOnce

-----------------------------------------------------------------------------
(* What the two loops over calls and ops compute.                          *)

AppliesTo(w, q, m, f) ==
    f = [n \in 0 .. m |-> IF n = 0 THEN w ELSE ApplyOp(f[n - 1], q[n])]

IssuesTo(w, c, t, m, f) ==
    f = [n \in 0 .. m |-> IF n = 0 THEN [world |-> w, queued |-> <<>>]
                          ELSE LET i == Issue(f[n - 1].world, c[n], t)
                               IN  [world |-> ApplyAll(f[n - 1].world, i.now),
                                    queued |-> f[n - 1].queued \o i.queued]]

LEMMA NoneIsSeq == IsSeq(<<>>) /\ Len(<<>>) = 0
  <1>1. <<>> \in Seq({})
    OBVIOUS
  <1> QED BY <1>1 DEF IsSeq

\* Both recursions have a solution, which the loop then is.
LEMMA ApplyExists == ASSUME NEW w, NEW q, NEW m \in Nat PROVE \E f : AppliesTo(w, q, m, f)
  <1> DEFINE T == {k \in Nat : ~\E f : AppliesTo(w, q, k, f)}
  <1> SUFFICES ASSUME T # {} PROVE FALSE
    OBVIOUS
  <1>1. PICK k \in T : \A j \in T : k <= j
    BY NatHasLeast
  <1>2. AppliesTo(w, q, 0, [n \in 0 .. 0 |-> w])
    BY DEF AppliesTo
  <1>3. k \in Nat /\ k # 0
    BY <1>2
  <1>4. k - 1 \in Nat /\ k - 1 \notin T
    BY <1>1, <1>3
  <1>5. PICK g : AppliesTo(w, q, k - 1, g)
    BY <1>4
  <1>6. PICK f : f = [n \in 0 .. k |-> IF n = k THEN ApplyOp(g[k - 1], q[k]) ELSE g[n]]
    OBVIOUS
  <1>7. \A n \in 0 .. k - 1 : f[n] = g[n] /\ g[n] = IF n = 0 THEN w ELSE ApplyOp(g[n - 1], q[n])
    BY <1>3, <1>5, <1>6 DEF AppliesTo
  <1>8. ASSUME NEW n \in 0 .. k PROVE f[n] = IF n = 0 THEN w ELSE ApplyOp(f[n - 1], q[n])
    <2>1. CASE n = k
      <3>1. k - 1 \in 0 .. k - 1 /\ f[k - 1] = g[k - 1]
        BY <1>3, <1>7
      <3> QED BY <1>3, <1>6, <2>1, <3>1
    <2>2. CASE n # k /\ n # 0
      <3>1. n \in 0 .. k - 1 /\ n - 1 \in 0 .. k - 1
        BY <1>3, <2>2
      <3> QED BY <1>7, <2>2, <3>1
    <2>3. CASE n # k /\ n = 0
      <3>1. n \in 0 .. k - 1
        BY <1>3, <2>3
      <3> QED BY <1>7, <2>3, <3>1
    <2> QED BY <2>1, <2>2, <2>3
  <1>9. AppliesTo(w, q, k, f)
    BY <1>6, <1>8 DEF AppliesTo
  <1> QED BY <1>9

LEMMA ApplyIs ==
  ASSUME NEW w, NEW q, IsSeq(q)
  PROVE  \E f : AppliesTo(w, q, Len(q), f) /\ ApplyAll(w, q) = f[Len(q)]
  <1>1. Len(q) \in Nat
    BY DEF IsSeq
  <1>2. \E f : AppliesTo(w, q, Len(q), f)
    BY <1>1, ApplyExists
  <1> DEFINE f == CHOOSE f : AppliesTo(w, q, Len(q), f)
  <1>3. AppliesTo(w, q, Len(q), f)
    BY <1>2, Zenon
  <1>4. ApplyAll(w, q) = f[Len(q)]
    BY Zenon DEF ApplyAll, AppliesTo
  <1> QED BY <1>3, <1>4

LEMMA ApplyNothing == ASSUME NEW w PROVE ApplyAll(w, <<>>) = w
  <1>1. IsSeq(<<>>) /\ Len(<<>>) = 0
    BY NoneIsSeq
  <1>2. PICK f : AppliesTo(w, <<>>, Len(<<>>), f) /\ ApplyAll(w, <<>>) = f[Len(<<>>)]
    BY <1>1, ApplyIs
  <1>3. f[0] = w
    BY <1>1, <1>2 DEF AppliesTo
  <1> QED BY <1>1, <1>2, <1>3

\* Two queues run one after the other are one queue.
LEMMA JoinIsSeq == ASSUME NEW p, NEW q, IsSeq(p), IsSeq(q) PROVE IsSeq(p \o q) /\ <<>> \o q = q
  <1>1. PICK S : p \in Seq(S)
    BY DEF IsSeq
  <1>2. PICK S2 : q \in Seq(S2)
    BY DEF IsSeq
  <1>3. p \in Seq(S \union S2) /\ q \in Seq(S \union S2)
    BY <1>1, <1>2
  <1>4. p \o q \in Seq(S \union S2)
    BY <1>3
  <1>5. <<>> \o q = q
    BY <1>2
  <1> QED BY <1>4, <1>5 DEF IsSeq

LEMMA JoinElements ==
  ASSUME NEW p, NEW q, IsSeq(p), IsSeq(q)
  PROVE  /\ Len(p) \in Nat /\ Len(q) \in Nat /\ Len(p \o q) = Len(p) + Len(q)
         /\ \A n \in 1 .. Len(p) : (p \o q)[n] = p[n]
         /\ \A n \in 1 .. Len(q) : (p \o q)[Len(p) + n] = q[n]
  <1>1. PICK S1 : p \in Seq(S1)
    BY DEF IsSeq
  <1>2. PICK S2 : q \in Seq(S2)
    BY DEF IsSeq
  <1>3. p \in Seq(S1 \union S2) /\ q \in Seq(S1 \union S2)
    BY <1>1, <1>2
  <1> QED BY <1>3

LEMMA JoinNothing == ASSUME NEW p, IsSeq(p) PROVE p \o <<>> = p
  <1>1. PICK S : p \in Seq(S)
    BY DEF IsSeq
  <1> QED BY <1>1

LEMMA JoinAssociates ==
  ASSUME NEW p, NEW q, NEW r, IsSeq(p), IsSeq(q), IsSeq(r)
  PROVE  p \o (q \o r) = (p \o q) \o r
  <1>1. PICK S1 : p \in Seq(S1)
    BY DEF IsSeq
  <1>2. PICK S2 : q \in Seq(S2)
    BY DEF IsSeq
  <1>3. PICK S3 : r \in Seq(S3)
    BY DEF IsSeq
  <1>4. PICK S : S = S1 \union S2 \union S3
    OBVIOUS
  <1>5. p \in Seq(S) /\ q \in Seq(S) /\ r \in Seq(S)
    BY <1>1, <1>2, <1>3, <1>4
  <1>6. /\ (p \o q) \o r \in Seq(S) /\ p \o (q \o r) \in Seq(S)
        /\ Len((p \o q) \o r) = Len(p \o (q \o r))
    BY <1>5
  <1>7. ASSUME NEW i \in 1 .. Len(p \o (q \o r))
        PROVE  ((p \o q) \o r)[i] = (p \o (q \o r))[i]
    BY <1>5
  <1> QED BY <1>6, <1>7, SeqEqual

LEMMA ApplyJoin ==
  ASSUME NEW w, NEW p, NEW q, IsSeq(p), IsSeq(q)
  PROVE  ApplyAll(w, p \o q) = ApplyAll(ApplyAll(w, p), q)
  <1> DEFINE all == p \o q
             a == Len(p)
             b == Len(q)
  <1>1. /\ a \in Nat /\ b \in Nat /\ Len(all) = a + b /\ IsSeq(all)
        /\ \A n \in 1 .. a : all[n] = p[n]
        /\ \A n \in 1 .. b : all[a + n] = q[n]
    BY JoinElements, JoinIsSeq
  <1>2. PICK f : AppliesTo(w, all, Len(all), f) /\ ApplyAll(w, all) = f[Len(all)]
    BY <1>1, ApplyIs
  <1>3. PICK g : AppliesTo(w, p, a, g) /\ ApplyAll(w, p) = g[a]
    BY ApplyIs
  <1>4. PICK h : AppliesTo(g[a], q, b, h) /\ ApplyAll(g[a], q) = h[b]
    BY ApplyIs
  <1> HIDE DEF all, a, b
  <1>5. \A n \in 0 .. a + b : f[n] = IF n = 0 THEN w ELSE ApplyOp(f[n - 1], all[n])
    BY <1>1, <1>2 DEF AppliesTo
  <1>6. \A n \in 0 .. a : g[n] = IF n = 0 THEN w ELSE ApplyOp(g[n - 1], p[n])
    BY <1>3 DEF AppliesTo
  <1>7. \A n \in 0 .. b : h[n] = IF n = 0 THEN g[a] ELSE ApplyOp(h[n - 1], q[n])
    BY <1>4 DEF AppliesTo
  <1>8. f[a] = g[a]
    <2> DEFINE T == {k \in Nat : k <= a /\ f[k] # g[k]}
    <2> SUFFICES ASSUME T # {} PROVE FALSE
      BY <1>1
    <2>1. PICK k \in T : \A j \in T : k <= j
      BY NatHasLeast
    <2>2. k \in Nat /\ k <= a /\ f[k] # g[k] /\ k \in 0 .. a /\ k \in 0 .. a + b
      BY <1>1, <2>1
    <2>3. k # 0
      BY <1>5, <1>6, <2>2
    <2>4. k - 1 \in Nat /\ k - 1 <= a /\ ~(k <= k - 1) /\ k \in 1 .. a
      BY <1>1, <2>2, <2>3
    <2>5. f[k - 1] = g[k - 1]
      BY <2>1, <2>4
    <2> QED BY <1>1, <1>5, <1>6, <2>2, <2>3, <2>4, <2>5
  <1>9. f[a + b] = h[b]
    <2> DEFINE T == {k \in Nat : k <= b /\ f[a + k] # h[k]}
    <2> SUFFICES ASSUME T # {} PROVE FALSE
      BY <1>1
    <2>1. PICK k \in T : \A j \in T : k <= j
      BY NatHasLeast
    <2>2. k \in Nat /\ k <= b /\ f[a + k] # h[k] /\ k \in 0 .. b /\ a + k \in 0 .. a + b
      BY <1>1, <2>1
    <2>3. k # 0
      <3>1. a + 0 = a
        BY <1>1
      <3> QED BY <1>7, <1>8, <2>2, <3>1
    <2>4. /\ k - 1 \in Nat /\ k - 1 <= b /\ ~(k <= k - 1) /\ k \in 1 .. b
          /\ a + k # 0 /\ (a + k) - 1 = a + (k - 1)
      BY <1>1, <2>2, <2>3
    <2>5. f[a + (k - 1)] = h[k - 1]
      BY <2>1, <2>4
    <2>6. f[a + k] = ApplyOp(f[a + (k - 1)], all[a + k])
      BY <1>5, <2>2, <2>4, Zenon
    <2>7. h[k] = ApplyOp(h[k - 1], q[k])
      BY <1>7, <2>2, <2>3
    <2>8. all[a + k] = q[k]
      BY <1>1, <2>4
    <2> QED BY <2>2, <2>5, <2>6, <2>7, <2>8
  <1> QED BY <1>1, <1>2, <1>3, <1>4, <1>9 DEF all

\* Every closure of a queue leaves a sound world.
LEMMA ReserveSound ==
  ASSUME NEW w, Sound(w), NEW r, r = Reserve(w)
  PROVE  /\ Sound(r) /\ r.born = w.born + 1 /\ w.born + 1 \in r.alive /\ r.holds = w.holds
         /\ w.alive \subseteq r.alive
  <1>1. r = [born |-> w.born + 1, alive |-> w.alive \union {w.born + 1}, holds |-> w.holds]
    BY DEF Sound, Reserve
  <1> QED BY <1>1 DEF Sound

LEMMA HeldSound ==
  ASSUME NEW w, Sound(w), NEW e \in w.alive, NEW v, NEW r, r = Held(w, e, v)
  PROVE  Sound(r)
  <1>1. PICK h : h = [x \in DOMAIN w.holds \union {e} |-> IF x = e THEN v ELSE w.holds[x]]
    OBVIOUS
  <1>2. r = [born |-> w.born, alive |-> w.alive, holds |-> h]
    BY <1>1 DEF Sound, Held
  <1>3. DOMAIN h = DOMAIN w.holds \union {e}
    BY <1>1
  <1> QED BY <1>2, <1>3 DEF Sound

LEMMA BareSound ==
  ASSUME NEW w, Sound(w), NEW e, NEW r, r = Bare(w, e)
  PROVE  Sound(r) /\ r.born = w.born /\ r.alive = w.alive /\ DOMAIN r.holds = DOMAIN w.holds \ {e}
  <1>1. PICK h : h = [x \in DOMAIN w.holds \ {e} |-> w.holds[x]]
    OBVIOUS
  <1>2. r = [born |-> w.born, alive |-> w.alive, holds |-> h]
    BY <1>1 DEF Sound, Bare
  <1>3. DOMAIN h = DOMAIN w.holds \ {e}
    BY <1>1
  <1> QED BY <1>2, <1>3 DEF Sound

LEMMA OpSound ==
  ASSUME NEW w, Sound(w), NEW o
  PROVE  Sound(ApplyOp(w, o))
  <1>r. CASE o.op = "reserve"
    <2>1. ApplyOp(w, o) = Reserve(w)
      BY <1>r DEF ApplyOp
    <2> QED BY <2>1, ReserveSound
  <1>w. CASE o.op = "write" /\ o.entity \in DOMAIN w.holds
    <2>1. ApplyOp(w, o) = Held(w, o.entity, o.value)
      BY <1>w DEF ApplyOp
    <2>2. o.entity \in w.alive
      BY <1>w DEF Sound
    <2> QED BY <2>1, <2>2, HeldSound
  <1>1. CASE o.op = "create"
    <2>1. PICK r : r = Reserve(w)
      OBVIOUS
    <2>2. Sound(r) /\ w.born + 1 \in r.alive
      BY <2>1, ReserveSound
    <2>3. ApplyOp(w, o) = Held(r, w.born + 1, o.value)
      BY <1>1, <2>1 DEF ApplyOp
    <2> QED BY <2>2, <2>3, HeldSound
  <1>2. CASE o.op = "insert" /\ Reaches(w, o)
    <2>1. ApplyOp(w, o) = Held(w, o.entity, o.value)
      BY <1>2 DEF ApplyOp
    <2> QED BY <1>2, <2>1, HeldSound DEF Reaches
  <1>3. CASE o.op = "remove" /\ Reaches(w, o)
    <2>1. ApplyOp(w, o) = Bare(w, o.entity)
      BY <1>3 DEF ApplyOp
    <2> QED BY <2>1, BareSound
  <1>4. CASE o.op = "despawn"
    <2>1. PICK b : b = Bare(w, o.entity)
      OBVIOUS
    <2>2. ApplyOp(w, o) = [b EXCEPT !.alive = b.alive \ {o.entity}]
      BY <1>4, <2>1 DEF ApplyOp
    <2>3. /\ Sound(b) /\ b.born = w.born /\ b.alive = w.alive
          /\ DOMAIN b.holds = DOMAIN w.holds \ {o.entity}
      BY <2>1, BareSound
    <2>4. ApplyOp(w, o) = [born |-> b.born, alive |-> b.alive \ {o.entity}, holds |-> b.holds]
      BY <2>2, <2>3 DEF Sound
    <2> QED BY <2>3, <2>4 DEF Sound
  <1>5. CASE ~(o.op = "reserve") /\ ~(o.op = "write" /\ o.entity \in DOMAIN w.holds)
             /\ ~(o.op = "create") /\ ~(o.op = "insert" /\ Reaches(w, o))
             /\ ~(o.op = "remove" /\ Reaches(w, o)) /\ ~(o.op = "despawn")
    BY <1>5 DEF ApplyOp
  <1> QED BY <1>r, <1>w, <1>1, <1>2, <1>3, <1>4, <1>5

LEMMA ApplySound ==
  ASSUME NEW w, Sound(w), NEW q, IsSeq(q)
  PROVE  Sound(ApplyAll(w, q))
  <1>1. PICK f : AppliesTo(w, q, Len(q), f) /\ ApplyAll(w, q) = f[Len(q)]
    BY ApplyIs
  <1>2. Len(q) \in Nat
    BY DEF IsSeq
  <1> DEFINE T == {k \in Nat : k <= Len(q) /\ ~Sound(f[k])}
  <1>3. ASSUME T # {} PROVE FALSE
    <2>1. PICK k \in T : \A j \in T : k <= j
      BY <1>3, NatHasLeast
    <2>2. \A n \in 0 .. Len(q) : f[n] = IF n = 0 THEN w ELSE ApplyOp(f[n - 1], q[n])
      BY <1>1 DEF AppliesTo
    <2>3. k \in Nat /\ k <= Len(q) /\ k # 0
      BY <1>2, <2>2
    <2>4. k - 1 \in Nat /\ k - 1 <= Len(q) /\ ~(k <= k - 1)
      BY <1>2, <2>3
    <2>5. Sound(f[k - 1])
      BY <2>1, <2>4
    <2>6. f[k] = ApplyOp(f[k - 1], q[k])
      BY <1>2, <2>2, <2>3
    <2> QED BY <2>5, <2>6, OpSound
  <1> QED BY <1>1, <1>2, <1>3

\* The calls of a plan.
LEMMA IssueExists == ASSUME NEW w, NEW c, NEW t, NEW m \in Nat PROVE \E f : IssuesTo(w, c, t, m, f)
  <1> DEFINE Done(i, v, q) == [world |-> ApplyAll(v, i.now), queued |-> q \o i.queued]
             Next(g, n) == Done(Issue(g[n - 1].world, c[n], t), g[n - 1].world, g[n - 1].queued)
             start == [world |-> w, queued |-> <<>>]
             Is(k, f) == f = [n \in 0 .. k |-> IF n = 0 THEN start ELSE Next(f, n)]
             T == {k \in Nat : ~\E f : Is(k, f)}
  <1>0. ASSUME NEW k, NEW f, Is(k, f) PROVE IssuesTo(w, c, t, k, f)
    BY <1>0, Zenon DEF IssuesTo
  <1> SUFFICES ASSUME T # {} PROVE FALSE
    <2>1. CASE T = {}
      <3>1. m \notin T
        BY <2>1
      <3>2. \E f : Is(m, f)
        BY <3>1
      <3> QED BY <1>0, <3>2, Zenon
    <2> QED BY <2>1
  <1>1. PICK k \in T : \A j \in T : k <= j
    BY NatHasLeast
  <1>n. ASSUME NEW g, NEW f, NEW n, f[n - 1] = g[n - 1] PROVE Next(f, n) = Next(g, n)
    BY <1>n, Zenon
  <1> HIDE DEF Next, start, Done
  <1>2. Is(0, [n \in 0 .. 0 |-> start])
    OBVIOUS
  <1>3. k \in Nat /\ k # 0
    BY <1>2
  <1>4. k - 1 \in Nat /\ k - 1 \notin T
    BY <1>1, <1>3
  <1>5. PICK g : Is(k - 1, g)
    BY <1>4
  <1>6. PICK f : f = [n \in 0 .. k |-> IF n = k THEN Next(g, k) ELSE g[n]]
    OBVIOUS
  <1>7. \A n \in 0 .. k - 1 : f[n] = g[n] /\ g[n] = IF n = 0 THEN start ELSE Next(g, n)
    <2>1. ASSUME NEW n \in 0 .. k - 1 PROVE g[n] = IF n = 0 THEN start ELSE Next(g, n)
      BY <1>5, Zenon
    <2>2. ASSUME NEW n \in 0 .. k - 1 PROVE f[n] = g[n]
      <3>1. n \in 0 .. k /\ n # k
        BY <1>3
      <3> QED BY <1>6, <3>1, Zenon
    <2> QED BY <2>1, <2>2
  <1>8. ASSUME NEW n \in 0 .. k PROVE f[n] = IF n = 0 THEN start ELSE Next(f, n)
    <2>1. CASE n = k
      <3>1. k - 1 \in 0 .. k - 1 /\ f[k - 1] = g[k - 1]
        BY <1>3, <1>7
      <3>2. Next(f, k) = Next(g, k)
        BY <1>n, <3>1
      <3> QED BY <1>3, <1>6, <2>1, <3>2
    <2>2. CASE n # k /\ n # 0
      <3>1. n \in 0 .. k - 1 /\ n - 1 \in 0 .. k - 1
        BY <1>3, <2>2
      <3>2. Next(f, n) = Next(g, n)
        BY <1>7, <1>n, <3>1
      <3> QED BY <1>7, <2>2, <3>1, <3>2
    <2>3. CASE n # k /\ n = 0
      <3>1. n \in 0 .. k - 1
        BY <1>3, <2>3
      <3> QED BY <1>7, <2>3, <3>1
    <2> QED BY <2>1, <2>2, <2>3
  <1>9. Is(k, f)
    BY <1>6, <1>8
  <1> QED BY <1>9

LEMMA IssueIs ==
  ASSUME NEW w, NEW c, NEW t, IsSeq(c)
  PROVE  \E f : IssuesTo(w, c, t, Len(c), f) /\ IssueAll(w, c, t) = f[Len(c)]
  <1>1. Len(c) \in Nat
    BY DEF IsSeq
  <1>2. \E f : IssuesTo(w, c, t, Len(c), f)
    BY <1>1, IssueExists
  <1> DEFINE f == CHOOSE f : IssuesTo(w, c, t, Len(c), f)
  <1>3. IssuesTo(w, c, t, Len(c), f)
    BY <1>2, Zenon
  <1>4. IssueAll(w, c, t) = f[Len(c)]
    BY Zenon DEF IssueAll, IssuesTo
  <1> QED BY <1>3, <1>4

LEMMA IssueNothing ==
  ASSUME NEW w, NEW t
  PROVE  IssueAll(w, <<>>, t) = [world |-> w, queued |-> <<>>]
  <1>1. PICK f : IssuesTo(w, <<>>, t, Len(<<>>), f) /\ IssueAll(w, <<>>, t) = f[Len(<<>>)]
    BY NoneIsSeq, IssueIs
  <1>2. f[0] = [world |-> w, queued |-> <<>>]
    BY <1>1, NoneIsSeq DEF IssuesTo
  <1> QED BY <1>1, <1>2, NoneIsSeq

\* A plan queues a sequence of ops and leaves a sound world.
LEMMA CallIsSeq ==
  ASSUME NEW w, NEW call, NEW t, NEW i, i = Issue(w, call, t)
  PROVE  IsSeq(i.now) /\ IsSeq(i.queued)
  <1>1. ASSUME NEW o PROVE IsSeq(<<o>>)
    <2>1. <<o>> \in Seq({o})
      OBVIOUS
    <2> QED BY <2>1 DEF IsSeq
  <1>2. /\ i.now = <<>> \/ \E o : i.now = <<o>>
        /\ i.queued = <<>> \/ \E o : i.queued = <<o>>
    BY DEF Issue
  <1> QED BY <1>1, <1>2, NoneIsSeq

LEMMA IssueSound ==
  ASSUME NEW w, Sound(w), NEW c, IsSeq(c), NEW t
  PROVE  Sound(IssueAll(w, c, t).world) /\ IsSeq(IssueAll(w, c, t).queued)
  <1>1. PICK f : IssuesTo(w, c, t, Len(c), f) /\ IssueAll(w, c, t) = f[Len(c)]
    BY IssueIs
  <1>2. Len(c) \in Nat
    BY DEF IsSeq
  <1> DEFINE Good(n) == Sound(f[n].world) /\ IsSeq(f[n].queued)
             T == {k \in Nat : k <= Len(c) /\ ~Good(k)}
  <1>3. ASSUME T # {} PROVE FALSE
    <2>1. PICK k \in T : \A j \in T : k <= j
      BY <1>3, NatHasLeast
    <2>2. f[0] = [world |-> w, queued |-> <<>>]
      BY <1>1, <1>2 DEF IssuesTo
    <2>3. Good(0)
      BY <2>2, NoneIsSeq
    <2>4. k \in Nat /\ k <= Len(c) /\ k # 0
      BY <2>3
    <2>5. k - 1 \in Nat /\ k - 1 <= Len(c) /\ ~(k <= k - 1) /\ k \in 0 .. Len(c)
      BY <1>2, <2>4
    <2>6. Good(k - 1)
      BY <2>1, <2>5
    <2>7. PICK i : i = Issue(f[k - 1].world, c[k], t)
      OBVIOUS
    <2>8. f[k] = [world |-> ApplyAll(f[k - 1].world, i.now), queued |-> f[k - 1].queued \o i.queued]
      <3>1. f[k] = LET j == Issue(f[k - 1].world, c[k], t)
                   IN  [world |-> ApplyAll(f[k - 1].world, j.now),
                        queued |-> f[k - 1].queued \o j.queued]
        BY <1>1, <2>4, <2>5, Zenon DEF IssuesTo
      <3> QED BY <2>7, <3>1, Zenon
    <2>9. Good(k)
      BY <2>6, <2>7, <2>8, CallIsSeq, ApplySound, JoinIsSeq
    <2> QED BY <2>9
  <1> QED BY <1>1, <1>2, <1>3

-----------------------------------------------------------------------------
(* The reference world. *)

\* What a tick of plan p makes of world w.
AfterTick(p, k, w) == LET run == IssueAll(w, p[k], k) IN ApplyAll(run.world, run.queued)

FollowsPlan(p, e, m, w) ==
    w = [k \in 0 .. m |-> IF k = 0 THEN ApplyAll(EmptyWorld, e[0])
                          ELSE ApplyAll(AfterTick(p, k, w[k - 1]), e[k])]

LEMMA WorldExists == ASSUME NEW p, NEW e, NEW m \in Nat PROVE \E w : FollowsPlan(p, e, m, w)
  <1> DEFINE start == ApplyAll(EmptyWorld, e[0])
             Step(k, w) == ApplyAll(AfterTick(p, k, w), e[k])
             Is(k, f) == f = [n \in 0 .. k |-> IF n = 0 THEN start ELSE Step(n, f[n - 1])]
             T == {k \in Nat : ~\E f : Is(k, f)}
  <1>0. ASSUME NEW k, NEW f, Is(k, f) PROVE FollowsPlan(p, e, k, f)
    BY <1>0, Zenon DEF FollowsPlan
  <1> SUFFICES ASSUME T # {} PROVE FALSE
    <2>1. CASE T = {}
      <3>1. \E f : Is(m, f)
        BY <2>1
      <3> QED BY <1>0, <3>1, Zenon
    <2> QED BY <2>1
  <1>1. PICK k \in T : \A j \in T : k <= j
    BY NatHasLeast
  <1> HIDE DEF start, Step
  <1>2. Is(0, [n \in 0 .. 0 |-> start])
    OBVIOUS
  <1>3. k \in Nat /\ k # 0
    BY <1>2
  <1>4. k - 1 \in Nat /\ k - 1 \notin T
    <2>1. \A j : j \in T => k <= j
      BY <1>1
    <2> HIDE DEF T
    <2>2. k - 1 \in Nat /\ ~(k <= k - 1)
      BY <1>3
    <2> QED BY ONLY <2>1, <2>2
  <1>5. PICK g : Is(k - 1, g)
    BY <1>4
  <1>6. PICK f : f = [n \in 0 .. k |-> IF n = k THEN Step(k, g[k - 1]) ELSE g[n]]
    OBVIOUS
  <1>7. \A n \in 0 .. k - 1 : f[n] = g[n] /\ g[n] = IF n = 0 THEN start ELSE Step(n, g[n - 1])
    BY <1>3, <1>5, <1>6
  <1>8. ASSUME NEW n \in 0 .. k PROVE f[n] = IF n = 0 THEN start ELSE Step(n, f[n - 1])
    <2>1. CASE n = k
      <3>1. k - 1 \in 0 .. k - 1 /\ f[k - 1] = g[k - 1]
        BY <1>3, <1>7
      <3> QED BY <1>3, <1>6, <2>1, <3>1
    <2>2. CASE n # k /\ n # 0
      <3>1. n \in 0 .. k - 1 /\ n - 1 \in 0 .. k - 1
        BY <1>3, <2>2
      <3> QED BY <1>7, <2>2, <3>1
    <2>3. CASE n # k /\ n = 0
      <3>1. n \in 0 .. k - 1
        BY <1>3, <2>3
      <3> QED BY <1>7, <2>3, <3>1
    <2> QED BY <2>1, <2>2, <2>3
  <1>9. Is(k, f)
    BY <1>6, <1>8
  <1> QED BY <1>9

LEMMA WorldIs ==
  ASSUME NEW p, NEW e
  PROVE  /\ World(p, e)[0] = ApplyAll(EmptyWorld, e[0])
         /\ \A k \in 1 .. MaxTicks :
               World(p, e)[k] = ApplyAll(AfterTick(p, k, World(p, e)[k - 1]), e[k])
  <1> DEFINE w == CHOOSE w : FollowsPlan(p, e, MaxTicks, w)
  <1>1. MaxTicks \in Nat
    BY FrameAssumption
  <1>2. FollowsPlan(p, e, MaxTicks, w)
    BY <1>1, WorldExists, Zenon
  <1>3. World(p, e) = w
    BY Zenon DEF World, FollowsPlan, AfterTick
  <1>4. FollowsPlan(p, e, MaxTicks, World(p, e))
    BY <1>2, <1>3, Zenon
  <1>5. \A k \in 0 .. MaxTicks :
           World(p, e)[k] = IF k = 0 THEN ApplyAll(EmptyWorld, e[0])
                            ELSE ApplyAll(AfterTick(p, k, World(p, e)[k - 1]), e[k])
    BY <1>4 DEF FollowsPlan
  <1> QED BY <1>1, <1>5

\* What frame stages do after tick k shows from the world after k on.
AgreeBefore(e, d, k) == k \in 0 .. MaxTicks /\ \A j \in 0 .. k - 1 : d[j] = e[j]
SameBefore(p, e, d, k) == \A j \in 0 .. k - 1 : World(p, d)[j] = World(p, e)[j]

LEMMA WorldBefore ==
  ASSUME NEW p, NEW e, NEW d, NEW k, AgreeBefore(e, d, k)
  PROVE  SameBefore(p, e, d, k)
  <1> DEFINE T == {j \in Nat : j \in 0 .. k - 1 /\ World(p, d)[j] # World(p, e)[j]}
  <1> SUFFICES ASSUME T # {} PROVE FALSE
    BY DEF SameBefore, AgreeBefore
  <1>1. PICK j \in T : \A i \in T : j <= i
    BY NatHasLeast
  <1>2. /\ j \in Nat /\ j \in 0 .. k - 1 /\ d[j] = e[j] /\ MaxTicks \in Nat
        /\ World(p, d)[j] # World(p, e)[j]
    BY <1>1, FrameAssumption DEF AgreeBefore
  <1>3. CASE j = 0
    BY <1>2, <1>3, WorldIs
  <1>4. CASE j # 0
    <2>1. j - 1 \in Nat /\ j - 1 \in 0 .. k - 1 /\ ~(j <= j - 1) /\ j \in 1 .. MaxTicks
      BY <1>2, <1>4 DEF AgreeBefore
    <2>2. World(p, d)[j - 1] = World(p, e)[j - 1]
      BY <1>1, <2>1
    <2> QED BY <1>2, <2>1, <2>2, WorldIs
  <1> QED BY <1>3, <1>4

\* d continues what happened after tick k in e with q.
Continues(e, d, k, q) ==
  /\ k \in 0 .. MaxTicks /\ IsSeq(q) /\ IsSeq(e[k])
  /\ \A j \in 0 .. k - 1 : d[j] = e[j]
  /\ d[k] = e[k] \o q
Moves(p, e, d, k, q) == World(p, d)[k] = ApplyAll(World(p, e)[k], q)

LEMMA WorldAfter ==
  ASSUME NEW p, NEW e, NEW d, NEW k, NEW q, Continues(e, d, k, q)
  PROVE  Moves(p, e, d, k, q)
  <1>1. /\ MaxTicks \in Nat /\ k \in 0 .. MaxTicks /\ IsSeq(q) /\ IsSeq(e[k])
        /\ \A j \in 0 .. k - 1 : d[j] = e[j]
        /\ d[k] = e[k] \o q
    BY FrameAssumption DEF Continues
  <1>2. CASE k = 0
    <2>1. World(p, d)[0] = ApplyAll(EmptyWorld, d[0]) /\ World(p, e)[0] = ApplyAll(EmptyWorld, e[0])
      BY WorldIs
    <2>2. ApplyAll(EmptyWorld, e[0] \o q) = ApplyAll(ApplyAll(EmptyWorld, e[0]), q)
      BY <1>1, <1>2, ApplyJoin
    <2> QED BY <1>1, <1>2, <2>1, <2>2 DEF Moves
  <1>3. CASE k # 0
    <2>1. k - 1 \in 0 .. k - 1 /\ k \in 1 .. MaxTicks
      BY <1>1, <1>3
    <2>2. World(p, d)[k - 1] = World(p, e)[k - 1]
      <3>1. AgreeBefore(e, d, k)
        BY <1>1 DEF AgreeBefore
      <3>2. SameBefore(p, e, d, k)
        BY ONLY <3>1, WorldBefore, Zenon
      <3> QED BY <2>1, <3>2 DEF SameBefore
    <2>3. World(p, d)[k] = ApplyAll(AfterTick(p, k, World(p, e)[k - 1]), e[k] \o q)
      BY <1>1, <2>1, <2>2, WorldIs
    <2>4. World(p, e)[k] = ApplyAll(AfterTick(p, k, World(p, e)[k - 1]), e[k])
      BY <2>1, WorldIs
    <2>5. PICK a : a = AfterTick(p, k, World(p, e)[k - 1])
      OBVIOUS
    <2>6. PICK x : x = e[k]
      OBVIOUS
    <2>7. IsSeq(x)
      BY <1>1, <2>6
    <2>8. ApplyAll(a, x \o q) = ApplyAll(ApplyAll(a, x), q)
      BY ONLY <1>1, <2>7, ApplyJoin
    <2>9. World(p, d)[k] = ApplyAll(a, x \o q)
      BY ONLY <2>3, <2>5, <2>6, Zenon
    <2>10. World(p, e)[k] = ApplyAll(a, x)
      BY ONLY <2>4, <2>5, <2>6, Zenon
    <2> QED BY ONLY <2>8, <2>9, <2>10, Zenon DEF Moves
  <1> QED BY <1>2, <1>3

-----------------------------------------------------------------------------
(* Every step keeps the world at its reference. *)

LEMMA TickInitially == FrameInit => TickInv
  <1> SUFFICES ASSUME FrameInit PROVE TickInv
    OBVIOUS
  <1>1. /\ world = [born |-> 0, alive |-> {}, holds |-> <<>>] /\ fixedQueue = <<>>
        /\ phase = "idle" /\ left = 0 /\ frame = 0 /\ stored = TRUE /\ clock.tick = 0
        /\ clock.current = 0 /\ clock.steps = 0 /\ load \in Loads
        /\ effects = [k \in 0 .. MaxTicks |-> <<>>] /\ MaxTicks \in Nat
    BY FrameAssumption DEF FrameInit, EmptyWorld, NewClock
  <1>2. Sound(world)
    BY <1>1 DEF Sound
  <1>3. LoopTypes
    BY <1>1, FrameAssumption, ClockAssumption DEF LoopTypes
  <1>4. QueueOfTheTick
    BY <1>1, NoneIsSeq DEF QueueOfTheTick
  <1>5. EffectsSoFar
    BY <1>1, NoneIsSeq DEF EffectsSoFar
  <1>6. InReference
    <2>1. effects[0] = <<>> /\ world = EmptyWorld
      BY <1>1 DEF EmptyWorld
    <2>2. Reference(0) = EmptyWorld
      BY <2>1, WorldIs, ApplyNothing DEF Reference
    <2> QED BY <1>1, <2>1, <2>2 DEF InReference
  <1> QED BY <1>2, <1>3, <1>4, <1>5, <1>6 DEF TickInv

\* Steps of the clock and of the frame's phases.
LEMMA BeginTicks == ASSUME ClockInv, TickInv, BeginFrame PROVE TickInv'
  <1>1. PICK d \in FrameDeltas :
           /\ clock.tick + Steps(clock, d) <= MaxTicks
           /\ clock' = ClockBeginFrame(clock, d) /\ left' = Steps(clock, d)
    BY DEF BeginFrame
  <1>2. /\ phase = "idle" /\ ~replay /\ phase' = "pre_update" /\ frame' = frame + 1
        /\ UNCHANGED <<load, world, fixedQueue, stored, effects>>
    BY DEF BeginFrame, ops, frameOps
  <1>3. left = 0 /\ clock \in FixedTime
    BY <1>2 DEF ClockInv, OwedOnlyBeforePostFrame
  <1>4. clock.accumulator < Delta
    BY <1>3, ClockAssumption DEF ClockInv, RemainderOnly, FixedTime
  <1>5. d \in Nat
    BY FrameAssumption
  <1>6. clock'.steps = left' /\ clock'.current = 0 /\ left' \in 0 .. MaxSteps
    BY <1>1, <1>3, <1>4, <1>5, BeginFrameBalances
  <1>7. clock'.tick = clock.tick
    BY <1>1, <1>3 DEF ClockBeginFrame, FixedTime
  <1>8. LoopTypes'
    BY <1>1, <1>2, <1>6, <1>7, ClockAssumption DEF TickInv, LoopTypes, After
  <1>9. QueueOfTheTick' /\ Sound(world)'
    BY <1>2 DEF TickInv, QueueOfTheTick, Sound
  <1>10. InReference'
    BY <1>2, <1>7 DEF TickInv, InReference, Tick, Reference
  <1>11. EffectsSoFar'
    BY <1>2, <1>7 DEF TickInv, EffectsSoFar
  <1> QED BY <1>2, <1>8, <1>9, <1>10, <1>11 DEF TickInv

LEMMA StartTicks == ASSUME ClockInv, TickInv, StartStep \/ StartReplayStep PROVE TickInv'
  <1>1. /\ phase' = "gameplay" /\ phase \in {"fixed", "idle"}
        /\ UNCHANGED <<load, world, fixedQueue, stored, frame, effects>>
    BY DEF StartStep, StartReplayStep, ops, frameOps
  <1>2. /\ clock \in FixedTime /\ clock.tick \in Nat /\ left \in Nat /\ MaxSteps \in Nat \ {0}
        /\ clock.steps \in Nat /\ clock.current \in Nat /\ MaxTicks \in Nat
    BY ClockAssumption, FrameAssumption DEF ClockInv, FixedTime
  <1>3. /\ clock'.tick = clock.tick + 1 /\ clock'.tick + left' <= MaxTicks
        /\ clock'.current <= clock'.steps /\ clock'.steps <= MaxSteps
    <2>1. CASE StartStep
      <3>1. /\ clock'.tick = clock.tick + 1 /\ clock'.current = clock.current + 1
            /\ clock'.steps = clock.steps /\ left' = left - 1 /\ left > 0 /\ phase = "fixed"
        BY <1>2, <2>1 DEF StartStep, ClockStartStep, FixedTime
      <3>2. clock.steps = clock.current + left
        BY <3>1 DEF ClockInv, OwedOnlyBeforePostFrame, RemainderOnly
      <3> QED BY <1>2, <3>1, <3>2 DEF TickInv, LoopTypes
    <2>2. CASE StartReplayStep
      <3>1. /\ clock'.tick = clock.tick + 1 /\ clock'.current = 1 /\ clock'.steps = 1
            /\ left' = left /\ replay /\ clock.tick < MaxTicks
        BY <1>2, <2>2 DEF StartReplayStep, ClockStartReplayStep, FixedTime
      <3>2. left = 0
        BY <1>2, <3>1 DEF ClockInv, OwedOnlyBeforePostFrame
      <3> QED BY <1>2, <3>1, <3>2
    <2> QED BY <2>1, <2>2
  <1>4. LoopTypes'
    BY <1>1, <1>2, <1>3 DEF TickInv, LoopTypes
  <1>5. QueueOfTheTick' /\ Sound(world)'
    BY <1>1 DEF TickInv, QueueOfTheTick, Sound
  <1>6. InReference'
    <2>1. clock'.tick - 1 = clock.tick
      BY <1>2, <1>3
    <2> QED BY <1>1, <2>1 DEF TickInv, InReference, Reference
  <1>7. EffectsSoFar'
    <2>1. \A k \in 0 .. MaxTicks : k >= clock'.tick => k > clock.tick
      BY <1>2, <1>3
    <2>2. \A k \in 0 .. MaxTicks : k >= clock'.tick => effects[k] = <<>>
      BY <2>1 DEF TickInv, EffectsSoFar
    <2>3. \A k \in 0 .. MaxTicks : k > clock'.tick \/ k = clock'.tick => k >= clock'.tick
      BY <1>2, <1>3
    <2> QED BY <1>1, <2>2, <2>3 DEF TickInv, EffectsSoFar
  <1> QED BY <1>1, <1>4, <1>5, <1>6, <1>7 DEF TickInv

LEMMA GameplayTicks == ASSUME ClockInv, TickInv, RunGameplay PROVE TickInv'
  <1> DEFINE calls == load.plan[clock.tick]
             run == IssueAll(world, calls, clock.tick)
  <1>1. /\ phase = "gameplay" /\ phase' = "drain"
        /\ UNCHANGED <<clock, left, load, stored, frame, effects>>
    BY DEF RunGameplay, frameOps
  <1>2. clock.tick \in 1 .. MaxTicks /\ IsSeq(calls)
    <2>1. clock.tick \in Nat /\ left \in Nat /\ MaxTicks \in Nat /\ clock.tick # 0 /\ clock.tick + left <= MaxTicks
      BY <1>1, FrameAssumption DEF TickInv, LoopTypes, ClockInv, FixedTime
    <2>2. load.plan \in [1 .. MaxTicks -> Seq(Calls)]
      BY DEF TickInv, LoopTypes, Load
    <2> QED BY <2>1, <2>2 DEF IsSeq
  <1>3. calls = (IF stored THEN calls ELSE <<>>)
    BY <1>2 DEF TickInv, QueueOfTheTick, LoopTypes
  <1>4. fixedQueue = <<>>
    BY <1>1 DEF TickInv, QueueOfTheTick
  <1>5. Sound(run.world) /\ IsSeq(run.queued)
    BY <1>2, IssueSound DEF TickInv
  <1>6. world' = run.world /\ fixedQueue' = run.queued
    <2>1. world' = run.world /\ fixedQueue' = <<>> \o run.queued
      BY <1>3, <1>4 DEF RunGameplay
    <2> QED BY <1>5, <2>1, JoinIsSeq
  <1>7. ~stored => run.queued = <<>>
    <2>1. ASSUME ~stored PROVE run.queued = <<>>
      <3>1. calls = <<>>
        BY <1>3, <2>1
      <3> QED BY <3>1, IssueNothing
    <2> QED BY <2>1
  <1> HIDE DEF run
  <1>8. LoopTypes'
    BY <1>1 DEF TickInv, LoopTypes
  <1>9. QueueOfTheTick' /\ Sound(world)'
    BY <1>1, <1>5, <1>6, <1>7 DEF TickInv, QueueOfTheTick, Sound
  <1>10. InReference'
    <2>1. run = Tick
      BY <1>1 DEF TickInv, InReference, Tick, run
    <2>2. Tick' = Tick
      BY <1>1 DEF Tick, Reference
    <2> QED BY <1>1, <1>6, <2>1, <2>2 DEF InReference
  <1>11. EffectsSoFar'
    BY <1>1 DEF TickInv, EffectsSoFar
  <1> QED BY <1>1, <1>8, <1>9, <1>10, <1>11 DEF TickInv

LEMMA DrainTicks == ASSUME ClockInv, TickInv, ApplyFixed PROVE TickInv'
  <1>1. /\ phase = "drain" /\ phase' \in {"idle", "fixed"}
        /\ UNCHANGED <<clock, left, load, stored, frame, effects>>
    BY DEF ApplyFixed, frameOps
  <1>2. IsSeq(fixedQueue) /\ Sound(world) /\ (~stored => fixedQueue = <<>>)
    BY DEF TickInv, QueueOfTheTick
  <1>3. world' = ApplyAll(world, fixedQueue) /\ fixedQueue' = <<>>
    <2>1. CASE stored
      BY <2>1 DEF ApplyFixed, DrainFixed
    <2>2. CASE ~stored
      <3>1. world' = world /\ fixedQueue' = fixedQueue
        BY <2>2 DEF ApplyFixed, DrainFixed
      <3> QED BY <1>2, <2>2, <3>1, ApplyNothing
    <2> QED BY <2>1, <2>2
  <1>4. LoopTypes'
    BY <1>1 DEF TickInv, LoopTypes
  <1>5. Sound(world')
    BY <1>2, <1>3, ApplySound
  <1>6. QueueOfTheTick'
    BY <1>1, <1>3, NoneIsSeq DEF TickInv, QueueOfTheTick
  <1>7. InReference'
    <2>1. clock.tick \in 1 .. MaxTicks
      BY <1>1, FrameAssumption DEF TickInv, LoopTypes, ClockInv, FixedTime
    <2>2. effects[clock.tick] = <<>>
      BY <1>1, <2>1 DEF TickInv, EffectsSoFar
    <2>3. Reference(clock.tick) = ApplyAll(AfterTick(load.plan, clock.tick, Reference(clock.tick - 1)), <<>>)
      BY <2>1, <2>2, WorldIs DEF Reference
    <2>4. AfterTick(load.plan, clock.tick, Reference(clock.tick - 1)) = ApplyAll(Tick.world, Tick.queued)
      BY Zenon DEF AfterTick, Tick
    <2>5. Reference(clock.tick) = ApplyAll(Tick.world, Tick.queued)
      BY <2>3, <2>4, ApplyNothing
    <2>6. world = Tick.world /\ fixedQueue = Tick.queued
      BY <1>1 DEF TickInv, InReference
    <2>7. Reference(clock.tick)' = Reference(clock.tick)
      BY <1>1 DEF Reference
    <2> QED BY <1>1, <1>3, <2>5, <2>6, <2>7 DEF InReference
  <1>8. EffectsSoFar'
    BY <1>1 DEF TickInv, EffectsSoFar
  <1> QED BY <1>1, <1>4, <1>5, <1>6, <1>7, <1>8 DEF TickInv, Sound

\* What frame stages run between ticks joins the effects of the last one.
LEMMA BetweenTicks ==
  ASSUME ClockInv, TickInv, NEW q, IsSeq(q), Between(q),
         UNCHANGED <<clock, load>>,
         phase \notin {"gameplay", "drain"}, phase' \notin {"gameplay", "drain"}
  PROVE  Sound(world') /\ EffectsSoFar' /\ InReference'
  <1>1. /\ world' = ApplyAll(world, q)
        /\ effects' = [effects EXCEPT ![clock.tick] = effects[clock.tick] \o q]
    BY DEF Between
  <1>2. clock.tick \in 0 .. MaxTicks /\ MaxTicks \in Nat
    BY FrameAssumption DEF TickInv, LoopTypes, ClockInv, FixedTime
  <1>3. /\ effects = [k \in 0 .. MaxTicks |-> effects[k]]
        /\ \A k \in 0 .. MaxTicks : IsSeq(effects[k])
        /\ \A k \in 0 .. MaxTicks : k > clock.tick => effects[k] = <<>>
    BY DEF TickInv, EffectsSoFar
  <1>4. /\ effects' = [k \in 0 .. MaxTicks |-> effects'[k]]
        /\ effects'[clock.tick] = effects[clock.tick] \o q
        /\ \A k \in 0 .. MaxTicks : k # clock.tick => effects'[k] = effects[k]
    BY <1>1, <1>2, <1>3
  <1>5. Sound(world')
    BY <1>1, ApplySound DEF TickInv
  <1>6. EffectsSoFar'
    <2>1. ASSUME NEW k \in 0 .. MaxTicks PROVE IsSeq(effects'[k])
      <3>1. IsSeq(effects[k]) /\ IsSeq(effects[k] \o q)
        BY <1>3, JoinIsSeq
      <3>2. effects'[k] = effects[k] \/ effects'[k] = effects[k] \o q
        BY <1>4
      <3> QED BY <3>1, <3>2
    <2>2. ASSUME NEW k \in 0 .. MaxTicks, k > clock.tick PROVE effects'[k] = <<>>
      BY <1>2, <1>3, <1>4, <2>2
    <2> QED BY <1>4, <2>1, <2>2 DEF EffectsSoFar
  <1>7. InReference'
    <2>1. \A j \in 0 .. clock.tick - 1 : effects'[j] = effects[j]
      BY <1>2, <1>4
    <2>2. World(load.plan, effects')[clock.tick] = ApplyAll(World(load.plan, effects)[clock.tick], q)
      <3>1. PICK d : d = effects'
        OBVIOUS
      <3>2. PICK t : t = clock.tick
        OBVIOUS
      <3>3. PICK e : e = effects
        OBVIOUS
      <3>4. PICK p : p = load.plan
        OBVIOUS
      <3>5. Continues(e, d, t, q)
        BY <1>2, <1>3, <1>4, <2>1, <3>1, <3>2, <3>3 DEF Continues
      <3>6. World(p, d)[t] = ApplyAll(World(p, e)[t], q)
        <4>1. Moves(p, e, d, t, q)
          BY ONLY <3>5, WorldAfter, Zenon
        <4> QED BY ONLY <4>1, Zenon DEF Moves
      <3> QED BY ONLY <3>1, <3>2, <3>3, <3>4, <3>6, Zenon
    <2>3. world = World(load.plan, effects)[clock.tick]
      BY DEF TickInv, InReference, Reference
    <2> QED BY <1>1, <2>2, <2>3 DEF InReference, Reference
  <1> QED BY <1>5, <1>6, <1>7

LEMMA StageTicks == ASSUME ClockInv, TickInv, RunStage PROVE TickInv'
  <1>1. /\ phase \in {"pre_update", "input", "post_frame", "last"}
        /\ phase' \in {"input", "fixed", "boundary", "idle"}
        /\ UNCHANGED <<clock, left, load, stored, frame, fixedQueue>>
    BY DEF RunStage, After
  <1>2. \E q : IsSeq(q) /\ Between(q)
    <2>1. CASE UNCHANGED <<world, effects>>
      <3>1. ApplyAll(world, <<>>) = world
        BY ApplyNothing
      <3>2. effects = [k \in 0 .. MaxTicks |-> effects[k]] /\ clock.tick \in 0 .. MaxTicks
        BY FrameAssumption DEF TickInv, EffectsSoFar, LoopTypes, ClockInv, FixedTime
      <3>3. IsSeq(effects[clock.tick])
        BY <3>2 DEF TickInv, EffectsSoFar
      <3>4. effects[clock.tick] \o <<>> = effects[clock.tick]
        BY <3>3, JoinNothing
      <3>5. effects = [effects EXCEPT ![clock.tick] = effects[clock.tick] \o <<>>]
        BY <3>2, <3>4
      <3>6. Between(<<>>)
        BY <2>1, <3>1, <3>5 DEF Between
      <3> QED BY <3>6, NoneIsSeq
    <2>2. CASE \E call \in load.calls : FrameCall(call)
      <3>1. PICK call \in load.calls : FrameCall(call)
        BY <2>2
      <3>2. Between(Issue(world, call, -made').now)
        BY <3>1 DEF FrameCall
      <3> QED BY <3>2, CallIsSeq
    <2> QED BY <2>1, <2>2 DEF RunStage
  <1>3. Sound(world') /\ EffectsSoFar' /\ InReference'
    BY <1>1, <1>2, BetweenTicks
  <1>4. LoopTypes'
    BY <1>1 DEF TickInv, LoopTypes, After
  <1>5. QueueOfTheTick'
    BY <1>1 DEF TickInv, QueueOfTheTick
  <1> QED BY <1>1, <1>3, <1>4, <1>5 DEF TickInv, Sound

LEMMA FrameDrainTicks ==
  ASSUME ClockInv, TickInv, IsSeq(frameQueue), ApplyFrame
  PROVE  TickInv'
  <1>1. /\ phase = "boundary" /\ phase' = "last"
        /\ UNCHANGED <<clock, left, load, stored, frame, fixedQueue>>
    BY DEF ApplyFrame
  <1>2. Between(DrainFrame(frameQueue).run)
    BY DEF ApplyFrame
  <1>3. IsSeq(DrainFrame(frameQueue).run)
    BY NoneIsSeq DEF DrainFrame
  <1>4. Sound(world') /\ EffectsSoFar' /\ InReference'
    BY <1>1, <1>2, <1>3, BetweenTicks
  <1>5. LoopTypes'
    BY <1>1 DEF TickInv, LoopTypes, After
  <1>6. QueueOfTheTick'
    BY <1>1 DEF TickInv, QueueOfTheTick
  <1> QED BY <1>4, <1>5, <1>6 DEF TickInv, Sound

LEMMA QuietTicks ==
  ASSUME ClockInv, TickInv, LeaveFixed \/ MoveStore \/ Stopped \/ UNCHANGED vars
  PROVE  TickInv'
  <1>1. UNCHANGED <<clock, left, load, frame, world, fixedQueue, effects>>
    BY DEF LeaveFixed, MoveStore, Stopped, vars, ops, time, frameOps
  <1>2. phase' = phase \/ (phase = "fixed" /\ phase' = "post_frame")
    BY DEF LeaveFixed, MoveStore, Stopped, vars, time
  <1>3. \/ stored' = stored
        \/ /\ stored' = ~stored /\ phase = "idle"
           /\ \A t \in DOMAIN load.plan : load.plan[t] = <<>>
    BY DEF LeaveFixed, MoveStore, Stopped, vars, ops
  <1>4. stored' \in BOOLEAN
    BY <1>3 DEF TickInv, LoopTypes
  <1>5. LoopTypes'
    BY <1>1, <1>2, <1>4 DEF TickInv, LoopTypes, After
  <1>6. DOMAIN load.plan = 1 .. MaxTicks
    BY DEF TickInv, LoopTypes, Load
  <1>7. QueueOfTheTick'
    BY <1>1, <1>2, <1>3, <1>6 DEF TickInv, QueueOfTheTick
  <1>8. InReference'
    <2>1. Tick' = Tick /\ Reference(clock.tick)' = Reference(clock.tick)
          /\ Reference(clock.tick - 1)' = Reference(clock.tick - 1)
      BY <1>1 DEF Tick, Reference
    <2> QED BY <1>1, <1>2, <2>1 DEF TickInv, InReference
  <1>9. EffectsSoFar'
    BY <1>1, <1>2 DEF TickInv, EffectsSoFar
  <1> QED BY <1>1, <1>5, <1>7, <1>8, <1>9 DEF TickInv, Sound

-----------------------------------------------------------------------------
\* Frame ops: what is queued joins the end of what landed.
LEMMA LandStep == LandInv /\ [FrameNext]_vars => LandInv'
  <1> SUFFICES ASSUME LandInv, [FrameNext]_vars PROVE LandInv'
    OBVIOUS
  <1>0. /\ IsSeq(landed) /\ IsSeq(frameQueue)
        /\ landed \o frameQueue = issued
        /\ phase = "last" /\ stored => frameQueue = <<>>
    BY DEF LandInv, FrameOpsLandOnce
  <1>1. CASE RunStage
    <2>1. phase' # "last" /\ landed' = landed
      BY <1>1 DEF RunStage, After
    <2>2. CASE UNCHANGED <<frameQueue, issued>>
      BY <1>0, <2>1, <2>2 DEF LandInv, FrameOpsLandOnce
    <2>3. CASE \E call \in load.calls : FrameCall(call)
      <3>1. PICK call \in load.calls : FrameCall(call)
        BY <2>3
      <3>2. PICK q : q = Issue(world, call, -made').queued
        OBVIOUS
      <3>3. IsSeq(q)
        BY <3>2, CallIsSeq
      <3>4. frameQueue' = frameQueue \o q /\ issued' = issued \o q
        BY <3>1, <3>2 DEF FrameCall
      <3>5. IsSeq(frameQueue') /\ landed' \o frameQueue' = issued'
        BY <1>0, <2>1, <3>3, <3>4, JoinIsSeq, JoinAssociates
      <3> QED BY <1>0, <2>1, <3>5 DEF LandInv, FrameOpsLandOnce
    <2> QED BY <1>1, <2>2, <2>3 DEF RunStage
  <1>2. CASE ApplyFrame
    <2>1. phase' = "last" /\ UNCHANGED <<issued, stored>>
      BY <1>2 DEF ApplyFrame
    <2>2. CASE stored
      <3>1. landed' = landed \o frameQueue /\ frameQueue' = <<>>
        BY <1>2, <2>2 DEF ApplyFrame, DrainFrame
      <3>2. IsSeq(landed') /\ IsSeq(frameQueue')
        BY <1>0, <3>1, NoneIsSeq, JoinIsSeq
      <3>3. landed' \o frameQueue' = landed \o frameQueue
        BY <3>1, <3>2, JoinNothing
      <3> QED BY <1>0, <2>1, <3>1, <3>2, <3>3 DEF LandInv, FrameOpsLandOnce
    <2>3. CASE ~stored
      <3>1. landed' = landed \o <<>> /\ frameQueue' = frameQueue
        BY <1>2, <2>3 DEF ApplyFrame, DrainFrame
      <3>2. landed' = landed
        BY <1>0, <3>1, JoinNothing
      <3> QED BY <1>0, <2>1, <2>3, <3>1, <3>2 DEF LandInv, FrameOpsLandOnce
    <2> QED BY <2>2, <2>3
  <1>3. CASE BeginFrame \/ StartStep \/ LeaveFixed \/ StartReplayStep \/ RunGameplay \/ ApplyFixed
             \/ MoveStore \/ Stopped \/ UNCHANGED vars
    <2>1. UNCHANGED <<issued, landed, frameQueue>>
      BY <1>3 DEF BeginFrame, StartStep, LeaveFixed, StartReplayStep, RunGameplay, ApplyFixed,
                  MoveStore, Stopped, vars, ops, frameOps
    <2>2. phase' # "last" \/ (phase' = phase /\ stored' = stored)
      BY <1>3 DEF BeginFrame, StartStep, LeaveFixed, StartReplayStep, RunGameplay, ApplyFixed,
                  MoveStore, Stopped, vars, ops, time, frameOps
    <2> QED BY <1>0, <2>1, <2>2 DEF LandInv, FrameOpsLandOnce
  <1> QED BY <1>1, <1>2, <1>3 DEF FrameNext

(* The inductive invariant of the frame queue. *)
THEOREM LandInvariant == FrameSpec => []LandInv
  <1>1. FrameInit => LandInv
    <2>1. FrameInit => /\ issued = <<>> /\ landed = <<>> /\ frameQueue = <<>> /\ phase = "idle"
      BY DEF FrameInit
    <2>2. <<>> \o <<>> = <<>>
      BY NoneIsSeq, JoinNothing
    <2> QED BY <2>1, <2>2, NoneIsSeq DEF LandInv, FrameOpsLandOnce
  <1> QED BY <1>1, LandStep, PTL DEF FrameSpec

(* Frame ops land once, in the order they were queued; a drain that finds  *)
(* no store puts them back before any later op (apply_queue).              *)
THEOREM FrameOpsAlwaysLandOnce == FrameSpec => []FrameOpsLandOnce
  <1>1. LandInv => FrameOpsLandOnce
    BY DEF LandInv
  <1> QED BY <1>1, LandInvariant, PTL

-----------------------------------------------------------------------------
(* In every reachable state the world is where the tick puts it: at its    *)
(* reference before the plan runs, with the calls made before the drain,   *)
(* and with what frame stages did to it since.                             *)
THEOREM TicksFollowTheReference == FrameSpec => [](ClockInv /\ TickInv)
  <1>1. FrameInit => TickInv
    BY TickInitially
  <1>2. ClockInv /\ TickInv /\ LandInv /\ [FrameNext]_vars => TickInv'
    <2> SUFFICES ASSUME ClockInv, TickInv, LandInv, [FrameNext]_vars PROVE TickInv'
      OBVIOUS
    <2>1. CASE BeginFrame
      BY <2>1, BeginTicks
    <2>2. CASE StartStep \/ StartReplayStep
      BY <2>2, StartTicks
    <2>3. CASE RunGameplay
      BY <2>3, GameplayTicks
    <2>4. CASE ApplyFixed
      BY <2>4, DrainTicks
    <2>5. CASE RunStage
      BY <2>5, StageTicks
    <2>6. CASE LeaveFixed \/ MoveStore \/ Stopped \/ UNCHANGED vars
      BY <2>6, QuietTicks
    <2>7. CASE ApplyFrame
      BY <2>7, FrameDrainTicks DEF LandInv
    <2> QED BY <2>1, <2>2, <2>3, <2>4, <2>5, <2>6, <2>7 DEF FrameNext
  <1> QED BY <1>1, <1>2, ClockInvariant, LandInvariant, PTL DEF FrameSpec

(* For every tick length, cap, program, slicing of host time into frames   *)
(* and for replay: the world after tick k is what k ticks back to back make*)
(* of an empty one, given what frame stages did to the store after each of *)
(* them, and no structural op of a tick is left for the next               *)
(* (run_frame, run_fixed_step, apply_fixed_structural).                    *)
THEOREM SlicesAlwaysAgree == FrameSpec => []SlicesAgree
  <1>1. ClockInv /\ TickInv => SlicesAgree
    <2> SUFFICES ASSUME ClockInv, TickInv PROVE SlicesAgree
      OBVIOUS
    <2>1. left \in 0 .. MaxSteps
      BY ClockAssumption DEF ClockInv
    <2>2. FrameTypeOK
      BY <2>1 DEF FrameTypeOK, ClockInv, TickInv, LoopTypes, Sound
    <2>3. InReference
      BY DEF TickInv
    <2>4. phase # "drain" => fixedQueue = <<>>
      BY DEF TickInv, QueueOfTheTick
    <2> QED BY <2>2, <2>3, <2>4 DEF SlicesAgree, InReference, Reference
  <1> QED BY <1>1, TicksFollowTheReference, PTL

=============================================================================
