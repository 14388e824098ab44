\* Two pooled textures of one format, one that becomes multisampled, an external
\* one; an empty lane, one below the threshold and two above it; three slots of
\* poses, the first with two entities in turn, and a log one entry fills.
SPECIFICATION WorkSpec
CONSTANTS
    Resources <- MCResources
    Accesses <- MCAccesses
    Declarations <- MCDeclarations
    Surfaces = {1, 2}
    SampleCounts = {1, 4}
    Budgets <- MCBudgets
    Kernels = {k1, k2}
    Lengths = {0, 1, 2, 3}
    Threshold = 2
    MaxCalls = 4
    Ids = {0, 1, 2}
    Gens = {0, 1}
    Values = {v1, v2}
    ChangeIdCap = 1
    Drawn <- MCDrawn
CHECK_DEADLOCK FALSE
SYMMETRY MCSymmetry
INVARIANTS
    LevelsAreAPlan
    SharingIsInvisible
    FrameIsCurrent
    ModelsCurrent
    MotionIsOwn
PROPERTY OneRunPerCall
