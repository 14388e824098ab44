\* Two slots that are each recycled once, two threads that destroy; two writers
\* and a reader of a lock-free lane whose freed addresses are handed out again.
SPECIFICATION StoreSpec
CONSTANTS
  GenModulus = 3
  MaxIds = 2
  MaxRecycles = 1
  Destroyers = {t1, t2}
  RwLanes = {hot}
  LockFreeLanes = {swap}
  None = None
  Writers = {w1, w2}
  Readers = {r1}
  Rounds = 2
  Addresses = {a1, a2, a3, a4}
  Null = Null
SYMMETRY MCSymmetry
INVARIANTS FreeListExact DestroyedLeavesNothing SnapshotsAreSafe
PROPERTIES RegistrySpec LiveComponentStays LaneSpec LaneCallsReturn
