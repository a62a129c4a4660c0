CONSTANTS
    Families = {"guarded"}
    Units <- MCUnits
    MaxDepth = 4
    MaxRounds = 4
    MaxRecursionOrders = 2
    MaxOrdersExamined = 6
    MaxRelatedSites = 2
SPECIFICATION Spec
INVARIANT HeldLocksAreHeld
CHECK_DEADLOCK FALSE
