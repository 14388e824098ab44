SPECIFICATION RemoteSpec
CONSTANTS
    Pages = {p1}
    Slots = {1, 2}
    MaxConns = 2
    Environments <- MCEnvironments
    p1 = p1
CHECK_DEADLOCK FALSE
INVARIANTS
    NothingSilentlyLost
    AnsweredMeansVisible
    StopIsComplete
PROPERTIES
    SceneNeverGoesBack
    PagesCatchUp
