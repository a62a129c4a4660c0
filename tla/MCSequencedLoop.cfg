CONSTANTS
  Units <- MCUnits
  Families = {"looped"}
  MaxDepth = 3
  MaxThreads = 4
  MaxBlocks = 2
  MaxHandleSteps = 2
  MaxJoinedParameters = 2
  MaxJoinDepth = 2
  MaxOccurrences = 4
SPECIFICATION Spec
INVARIANT SequencedNeverTogether
CHECK_DEADLOCK FALSE
