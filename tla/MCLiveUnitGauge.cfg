SPECIFICATION Spec
CONSTANTS
  Threads = {t1, t2, t3}
  MaxVisits = 2
CHECK_DEADLOCK FALSE
INVARIANTS PeakIsExact
PROPERTIES PeakNeverFalls EnterReturns
