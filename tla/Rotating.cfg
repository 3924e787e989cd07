SPECIFICATION Spec
CONSTANTS
  Keys = {a, b}
  a = a
  b = b
  Retention = 1
  MinDiffs = 2
  PerSecond = 2
  StepsBack = FALSE
  Overtakes = TRUE
  Failures = 1
  MaxTime = 3
  MaxChanges = 3
  MaxSnapshots = 1
CHECK_DEADLOCK FALSE
SYMMETRY KeySymmetry
INVARIANTS HistoryKept Anchored RewriteFaithful RotatesOnce
PROPERTIES SplitInTwo
