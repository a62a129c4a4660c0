SPECIFICATION Spec
CONSTANTS
  Diagnostics <- Few
  Notices = {"limit"}
  MaxPerUnit = 2
  MaxUnits = 3
CHECK_DEADLOCK FALSE
INVARIANTS
  NothingLost
  CheckerOrderIrrelevant
  ExitCodeIsHonest
