------------------------- MODULE MCInstanceRecords -------------------------
\* InstanceRecords for TLC: one slot is recycled, model matrices are
\* interchangeable.
EXTENDS InstanceRecords, TLC

MCDrawn == {e \in Entity : e.id = 0 \/ e.gen = 0}
MCSymmetry == Permutations(Values)
=============================================================================
