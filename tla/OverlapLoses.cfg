SPECIFICATION Spec
CONSTANTS
  Keys = {a, b}
  a = a
  b = b
  f = f
  Flushers = {f}
  AllowClose = FALSE
  WriteErrors = FALSE
  MinDiffs = 9
  MaxTx = 3
  MaxSnapshots = 0
  MaxCrashes = 0
CHECK_DEADLOCK FALSE
SYMMETRY KeySymmetry
INVARIANTS NoLostChange
