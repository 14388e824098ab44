\* A pool of one thread or of two.
SPECIFICATION FairExactSpec
CONSTANTS
    Threads = {t1, t2}
    Pools = {{t1}, {t1, t2}}
    MaxEdits = 2
    MaxJobs = 3
PROPERTIES
    SwapKeepsTheView
    FreshResultLands
    EverySubmissionIsAnswered
CHECK_DEADLOCK FALSE
