CONSTANTS
    Families = {"called"}
    Units <- MCUnits
    MaxDepth = 5
    MaxThreads = 3
    MaxOffset = 64
    MaxRanges = 2
    MaxCallerRounds = 3
    MaxRounds = 4
    MaxRelatedSites = 2
    MaxSettleRounds = 6
SPECIFICATION Spec
INVARIANT PlacedRacesReported
CHECK_DEADLOCK FALSE
