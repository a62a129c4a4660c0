CONSTANTS
    Families = {"plain", "trylocks", "wrappers", "three", "orders", "again", "addresses", "recursion", "bindings", "others"}
    Units <- MCUnits
    MaxDepth = 4
    MaxRounds = 2
    MaxRecursionOrders = 2
    MaxOrdersExamined = 6
    MaxRelatedSites = 2
SPECIFICATION Spec
INVARIANTS TypeOK HeldLocksAreHeld RacesReported DeadlocksReported ReacquisitionsReported CycleSearchExact
CHECK_DEADLOCK FALSE
