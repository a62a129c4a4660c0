CONSTANTS
  Units <- MCUnits
  Families = {"plain", "std", "helpers", "recursion", "short", "handed", "assigned", "nested", "turns", "arrays",
              "arguments", "locals", "handlers", "waits", "forks", "throws"}
  MaxDepth = 3
  MaxThreads = 4
  MaxBlocks = 2
  MaxHandleSteps = 2
  MaxJoinedParameters = 2
  MaxJoinDepth = 2
  MaxOccurrences = 4
SPECIFICATION Spec
INVARIANTS
  TypeOK
  LiveThreadsAreLive
  OverlapsKnown
  SequencedNeverTogether
  ParallelAccessesKnown
  MissingJoinsReported
  LifetimesJudged
  CallGraphRulesJudged
CHECK_DEADLOCK FALSE
