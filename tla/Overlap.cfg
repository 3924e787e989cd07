SPECIFICATION Spec
CONSTANTS
  Keys = {a, b}
  a = a
  b = b
  f = f
  Flushers = {f}
  AllowClose = TRUE
  WriteErrors = TRUE
  MinDiffs = 4
  MaxTx = 3
  MaxSnapshots = 0
  MaxCrashes = 0
CHECK_DEADLOCK FALSE
SYMMETRY KeySymmetry
INVARIANTS LossMeansDuplicate
