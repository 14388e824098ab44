\* Snapshots that fit, that fit only after an eviction, and that are denied;
\* two scene files, one of them watched.
SPECIFICATION DataSpec
CONSTANTS
    Ids = {1, 2}
    Sizes = {1, 2, 5}
    Cap = 3
    Snapshots = TRUE
    MaxBytes = 4
    Files = {"editor/scene.ron", "assets/other.ron"}
    Watched = "editor/scene.ron"
    Counts = {0, 2}
    MaxBodies = 2
    MaxSaves = 2
    MaxLoads = 1
    MaxCrashes = 1
INVARIANTS
    HistoryIsBounded
    SceneFileIsWhole
    EditsAreNoticed
    VersionTellsChange
PROPERTIES
    UndoFollowsTheLine
    OwnSavesStayPut
