------------------------------ MODULE Schedule ------------------------------
(***************************************************************************)
(* crates/core/src/schedule.rs over crates/schedule/src/lib.rs: systems    *)
(* are registered with their declared accesses and explicit edges, a level *)
(* plan is computed lazily and cached, and a run executes the levels one   *)
(* after the other and the systems of a level in parallel.                 *)
(*                                                                         *)
(* Registration takes &mut self, so it never overlaps a run.  A system     *)
(* reads what it declared when it starts and writes when it ends; the      *)
(* value of a key is the history of its writes.  The plan is any plan that *)
(* satisfies the contract ComputeLevels is shown to satisfy.               *)
(***************************************************************************)
EXTENDS LevelPlan, Sequences, FiniteSets

CONSTANTS Systems,     \* systems, by name
          Keys,        \* resources and lanes, two namespaces in one set
          Accesses,    \* the declarations a system may have
          None

\* What a system declares are keys.
ASSUME AccessesAssumption ==
  \A a \in Accesses : a.reads \subseteq Keys /\ a.writes \subseteq Keys

VARIABLES access,      \* SystemAccess of each system
          systems,     \* the registered systems, in registration order
          ordering,    \* explicit edges between registration indices
          plan,        \* PlanCache: the level of each index, or None
          parallel,    \* ExecMode
          running, current, started, finished,   \* the run in progress
          saw, contents,
          promised     \* history: the pairs of names try_order_before accepted

registryVars == <<access, systems, ordering, plan, parallel, promised>>
runVars == <<running, current, started, finished, saw, contents>>
scheduleVars == <<registryVars, runVars>>

Nodes == 1 .. Len(systems)
Registered(s) == \E k \in Nodes : systems[k] = s
Touched(s) == access[s].reads \cup access[s].writes

\* RaW, WaW and WaR: the three disjointness tests of bitset_level_plan.
Conflict(s, t) ==
  \/ access[s].writes \cap Touched(t) # {}
  \/ access[t].writes \cap Touched(s) # {}

Ordered ==
  {p \in Nodes \X Nodes : p[1] < p[2] /\ (Conflict(systems[p[1]], systems[p[2]]) \/ p \in ordering)}

ScheduleInit ==
  /\ access \in [Systems -> Accesses]
  /\ systems = <<>>
  /\ ordering = {}
  /\ plan = None
  /\ parallel = TRUE
  /\ promised = {}
  /\ running = FALSE
  /\ current = 0
  /\ started = {}
  /\ finished = {}
  /\ saw = [k \in {} |-> None]
  /\ contents = [k \in Keys |-> <<>>]
-----------------------------------------------------------------------------
AddSystem(s) ==
  /\ ~running
  /\ ~Registered(s)
  /\ systems' = Append(systems, s)
  /\ plan' = None
  /\ UNCHANGED <<access, ordering, parallel, promised, runVars>>

\* Mutant of Shifted: prepend_system leaves the edges where they were.
BugShifted(edges) == edges

Shifted(edges) == {<<p[1] + 1, p[2] + 1>> : p \in edges}

PrependSystem(s) ==
  /\ ~running
  /\ ~Registered(s)
  /\ systems' = <<s>> \o systems
  /\ ordering' = Shifted(ordering)
  /\ plan' = None
  /\ UNCHANGED <<access, parallel, promised, runVars>>

\* Unknown names and backward edges are refused and leave the schedule alone;
\* a repeated edge changes nothing either.
OrderBefore(s, t) ==
  /\ ~running
  /\ \E b, a \in Nodes :
       /\ systems[b] = s /\ systems[a] = t
       /\ b < a
       /\ ordering' = ordering \cup {<<b, a>>}
       /\ plan' = IF <<b, a>> \in ordering THEN plan ELSE None
  /\ promised' = promised \cup {<<s, t>>}
  /\ UNCHANGED <<access, systems, parallel, runVars>>

SetExecMode ==
  /\ ~running
  /\ parallel' = ~parallel
  /\ UNCHANGED <<access, systems, ordering, plan, promised, runVars>>
-----------------------------------------------------------------------------
\* The plans that the contract of compute_levels allows; there is one.
Plans == {p \in [Nodes -> 0 .. Len(systems)] : IsLevelPlan(Nodes, Ordered, p)}

\* Sequential mode computes no plan.
RunBegin ==
  /\ ~running
  /\ running' = TRUE
  /\ IF parallel /\ plan = None THEN plan' \in Plans ELSE UNCHANGED plan
  /\ current' = 0
  /\ started' = {}
  /\ finished' = {}
  /\ saw' = [k \in Nodes |-> None]
  /\ contents' = [k \in Keys |-> <<>>]
  /\ UNCHANGED <<access, systems, ordering, parallel, promised>>

Level(l) == {k \in DOMAIN plan : plan[k] = l}

\* Mutant of Ready: nodes of the next level start while the level still runs.
BugReady(k) ==
  IF parallel THEN k \in Level(current) \cup Level(current + 1)
  ELSE k \in Nodes /\ started = 1 .. k - 1 /\ finished = started

\* A level's nodes run in any order and overlap; without parallelism the
\* registration order is strict.
Ready(k) ==
  IF parallel THEN k \in Level(current)
  ELSE k \in Nodes /\ started = 1 .. k - 1 /\ finished = started

StartSystem(k) ==
  /\ running
  /\ k \notin started
  /\ Ready(k)
  /\ started' = started \cup {k}
  /\ saw' = [saw EXCEPT ![k] = [x \in Touched(systems[k]) |-> contents[x]]]
  /\ UNCHANGED <<registryVars, running, current, finished, contents>>

Written(s, seen, w) ==
  [x \in Keys |-> IF x \in access[s].writes THEN Append(w[x], [by |-> s, saw |-> seen]) ELSE w[x]]

FinishSystem(k) ==
  /\ running
  /\ k \in started \ finished
  /\ finished' = finished \cup {k}
  /\ contents' = Written(systems[k], saw[k], contents)
  /\ UNCHANGED <<registryVars, running, current, started, saw>>

\* Mutant of NextLevel: the level is not advanced.
BugNextLevel ==
  /\ running /\ parallel
  /\ Level(current) # {} /\ Level(current) \subseteq finished
  /\ UNCHANGED scheduleVars

\* for_each returns when every node of the level has returned.
NextLevel ==
  /\ running /\ parallel
  /\ Level(current) # {} /\ Level(current) \subseteq finished
  /\ current' = current + 1
  /\ UNCHANGED <<registryVars, running, started, finished, saw, contents>>

RunOver == IF parallel THEN Level(current) = {} ELSE finished = Nodes

RunEnd ==
  /\ running
  /\ RunOver
  /\ running' = FALSE
  /\ UNCHANGED <<registryVars, current, started, finished, saw, contents>>

RunStep ==
  \/ \E k \in Nodes : StartSystem(k) \/ FinishSystem(k)
  \/ NextLevel
  \/ RunEnd

ScheduleNext ==
  \/ \E s \in Systems : AddSystem(s) \/ PrependSystem(s)
  \/ \E s, t \in Systems : OrderBefore(s, t)
  \/ SetExecMode
  \/ RunBegin
  \/ RunStep

ScheduleSpec == ScheduleInit /\ [][ScheduleNext]_scheduleVars

\* A run in progress makes progress: the pool runs the systems of a level and
\* a system's run() returns.
ScheduleFairSpec == ScheduleSpec /\ WF_scheduleVars(RunStep)
-----------------------------------------------------------------------------
InFlight == started \ finished

\* The variables have their types.
ScheduleTypeOK ==
  /\ access \in [Systems -> Accesses]
  /\ systems \in Seq(Systems)
  /\ ordering \subseteq Nodes \X Nodes
  /\ plan = None \/ DOMAIN plan \subseteq Nodes
  /\ parallel \in BOOLEAN /\ running \in BOOLEAN
  /\ current \in Nat
  /\ finished \subseteq started
  /\ started \subseteq Nodes

\* A system never runs while another one that it conflicts with is running:
\* this is what makes the unsynchronised part of every system race-free.  Every
\* edge that try_order_before accepted, by name, holds in every run, also after
\* systems were prepended and indices moved.
NoConflictInFlight ==
  /\ ScheduleTypeOK
  /\ running =>
       /\ \A a, b \in InFlight : a # b => ~Conflict(systems[a], systems[b])
       /\ \A a, b \in Nodes :
            (<<systems[b], systems[a]>> \in promised /\ a \in started) => b \in finished

\* The contents after the first n systems in registration order.
SequentialWorld ==
  LET w[n \in 0 .. Len(systems)] ==
        IF n = 0 THEN [k \in Keys |-> <<>>]
        ELSE Written(systems[n], [x \in Touched(systems[n]) |-> w[n - 1][x]], w[n - 1])
  IN  w[Len(systems)]

\* A run that is over has run every registered system, whatever plan was
\* cached, and however the systems of a level interleaved it leaves the contents
\* that strict registration order leaves: runs are deterministic.
RunsAreDeterministic ==
  (running /\ RunOver) => finished = Nodes /\ contents = SequentialWorld

\* A run that begins ends: no level waits for a system that nothing starts.
RunsEnd == running ~> ~running
=============================================================================
