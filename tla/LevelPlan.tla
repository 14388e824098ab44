----------------------------- MODULE LevelPlan -----------------------------
(***************************************************************************)
(* What a level plan is (crates/schedule/src/lib.rs, the doc comment of    *)
(* compute_levels): node j sits one level above its highest predecessor,   *)
(* a node without predecessors on level 0.  Nodes are registration         *)
(* indices, so a predecessor always has a smaller index.                   *)
(***************************************************************************)
EXTENDS Integers

\* Predecessors always end up on a lower level: levels may run in parallel.
Respects(nodes, ordered, level) ==
  \A i, j \in nodes : (i < j /\ <<i, j>> \in ordered) => level[i] < level[j]

\* No node waits longer than it must, and so no level is empty.
Tight(nodes, ordered, level) ==
  \A j \in nodes :
    \/ level[j] = 0
    \/ \E i \in nodes : i < j /\ <<i, j>> \in ordered /\ level[j] = level[i] + 1

IsLevelPlan(nodes, ordered, level) ==
  /\ Respects(nodes, ordered, level)
  /\ Tight(nodes, ordered, level)
=============================================================================
