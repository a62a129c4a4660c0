SPECIFICATION Spec
CONSTANTS
  N = 3
  Workers = {w1, w2}
  EnabledRules <- Racing
  Contents <- TwoKinds
  Rewrites <- Rebuilt
  Garbage = Garbage
  Missing = Missing
  NoFacts = NoFacts
  NoUnit = NoUnit
  Pending = Pending
CHECK_DEADLOCK FALSE
INVARIANTS LiveUnitsBounded OneTaskPerUnit ReadsOnlySettledFacts EveryUnitAccountedOnce
PROPERTIES ImplementsService FailureIsFinal Termination
