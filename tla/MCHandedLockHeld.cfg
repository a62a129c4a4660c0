CONSTANTS
    Families = {"alwaysAgain"}
    Units <- MCUnits
    MaxDepth = 4
    MaxRounds = 4
    MaxRecursionOrders = 2
    MaxOrdersExamined = 6
    MaxRelatedSites = 2
SPECIFICATION Spec
INVARIANT ReacquisitionsReported
CHECK_DEADLOCK FALSE
