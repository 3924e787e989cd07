SPECIFICATION Spec
CONSTANTS
  Keys = {a, b}
  a = a
  b = b
  Retention = 1
  MinDiffs = 2
  PerSecond = 2
  StepsBack = TRUE
  Overtakes = FALSE
  Failures = 0
  MaxTime = 3
  MaxChanges = 3
  MaxSnapshots = 1
CHECK_DEADLOCK FALSE
SYMMETRY KeySymmetry
INVARIANTS
  HistoryKept
