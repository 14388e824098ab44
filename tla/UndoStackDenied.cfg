\* One snapshot alone may exceed the budget.
CONSTANTS
    Ids = {1, 2}
    Sizes = {1, 2, 5}
    Cap = 3
    Snapshots = TRUE
    MaxBytes = 4
SPECIFICATION UndoSpec
PROPERTY DenialLeavesHistory
