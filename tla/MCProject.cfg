SPECIFICATION Spec
CHECK_DEADLOCK FALSE
CONSTANTS
  Families <- Everything
  RuleSets <- EveryRule
INVARIANTS
  GateMissesNothing
  UnitOrderIrrelevant
  NarrowSelectionAgrees
  JudgedByProgram
