--------------------------- MODULE ComputeLevels ---------------------------
(***************************************************************************)
(* crates/schedule/src/lib.rs: compute_levels, the loop that every         *)
(* scheduler of the engine gets its parallel levels from.  One step is one *)
(* turn of the inner loop, one turn of the outer loop, or one turn of the  *)
(* loop that collects the groups.  Nodes are numbered from 0 as there.     *)
(* FramePlan runs these loops for the passes of a frame.                   *)
(***************************************************************************)
EXTENDS LevelPlan, Sequences

VARIABLES n,              \* number of nodes
          ordered,        \* the pairs i < j for which ordered(i, j) is true
          level,
          j, i, best,     \* the two loops
          grouped,        \* how many nodes the last loop has seen
          groups          \* the result: a sequence of sequences of nodes

levelVars == <<n, ordered, level, j, i, best, grouped, groups>>

Nodes == 0 .. n - 1

LevelsInit ==
  /\ n \in Nat
  /\ ordered \in SUBSET {p \in Nodes \X Nodes : p[1] < p[2]}
  /\ level = [k \in Nodes |-> 0]
  /\ j = 1
  /\ i = 0
  /\ best = 0
  /\ grouped = 0
  /\ groups = <<>>

\* Mutant of Better: the predecessor's own level is taken.
BugBetter(prev_level) == IF best >= prev_level THEN best ELSE prev_level

\* best.max(prev_level + 1)
Better(prev_level) == IF best >= prev_level + 1 THEN best ELSE prev_level + 1

Inner ==
  /\ j < n /\ i < j
  /\ best' = IF <<i, j>> \in ordered THEN Better(level[i]) ELSE best
  /\ i' = i + 1
  /\ UNCHANGED <<n, ordered, level, j, grouped, groups>>

Outer ==
  /\ j < n /\ i = j
  /\ level' = [level EXCEPT ![j] = best]
  /\ j' = j + 1
  /\ i' = 0
  /\ best' = 0
  /\ UNCHANGED <<n, ordered, grouped, groups>>

LoopsDone == j >= n

\* resize_with(l + 1, Vec::new)
Resized(l) ==
  [k \in 1 .. (IF Len(groups) <= l THEN l + 1 ELSE Len(groups)) |->
     IF k <= Len(groups) THEN groups[k] ELSE <<>>]

Group ==
  /\ LoopsDone /\ grouped < n
  /\ groups' = [Resized(level[grouped]) EXCEPT ![level[grouped] + 1] = Append(@, grouped)]
  /\ grouped' = grouped + 1
  /\ UNCHANGED <<n, ordered, level, j, i, best>>

Finished == LoopsDone /\ grouped = n

LevelsNext == Inner \/ Outer \/ Group

LevelsSpec == LevelsInit /\ [][LevelsNext]_levelVars
-----------------------------------------------------------------------------
\* When the loops are done, the levels are the level plan of the relation they
\* were given: dependents above their predecessors and no higher than needed.
LevelsAreAPlan == LoopsDone => IsLevelPlan(Nodes, ordered, level)
=============================================================================
