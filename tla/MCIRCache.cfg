SPECIFICATION Spec
CONSTANTS
  Runs = {r1, r2}
  Texts <- FewTexts
  Includers <- OneIncludes
  Gone = Gone
  Absent = Absent
  MaxStarts = 3
  MaxMishaps = 2
CHECK_DEADLOCK FALSE
SYMMETRY RunSymmetry
CONSTRAINT Undisturbed
INVARIANTS
  TypeOK
  EntryIsFresh
  StoredIsComplete
  CacheOnlySlows
