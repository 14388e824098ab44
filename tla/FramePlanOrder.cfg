\* The same plans; the claim about the order of execute alone.
SPECIFICATION PlanSpec
CONSTANTS
    Resources <- MCResources
    Accesses <- MCAccesses
    Declarations <- MCDeclarations
    Surfaces = {1, 2}
    SampleCounts = {1, 4}
    Budgets <- MCBudgets
CHECK_DEADLOCK FALSE
INVARIANT FlattenedOrderIsValid
