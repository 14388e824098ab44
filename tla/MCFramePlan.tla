---------------------------- MODULE MCFramePlan ----------------------------
(***************************************************************************)
(* FramePlan with two pooled resources of one format, a multisampled one   *)
(* of the same format and an external output: every plan of four passes    *)
(* over these accesses as it stands, and shorter ones that are changed.    *)
(***************************************************************************)
EXTENDS FramePlan

Texture(format, multisampled, external) ==
    [format |-> format, multisampled |-> multisampled, external |-> external,
     imported |-> FALSE]

MCResources == <<Texture("rgba8", FALSE, FALSE), Texture("rgba8", FALSE, FALSE),
                 Texture("rgba8", TRUE, FALSE), Texture("none", FALSE, TRUE)>>

Access(reads, writes) == [reads |-> reads, writes |-> writes]

MCAccesses == {Access({}, {1}), Access({1}, {2}), Access({}, {3}), Access({2}, {3}),
               Access({1}, {4}), Access({3}, {4})}

Plans(k) == [1 .. k -> MCAccesses]
MCDeclarations ==
    {[passes |-> p, changes |-> 0] : p \in Plans(0) \cup Plans(4)} \cup
    {[passes |-> p, changes |-> 1] : p \in Plans(3)} \cup
    {[passes |-> p, changes |-> 2] : p \in Plans(2)}

\* Less than two textures of the larger surface, or no budget.
MCBudgets == {2, Unbounded}
=============================================================================
