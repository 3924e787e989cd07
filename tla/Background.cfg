SPECIFICATION Spec
CONSTANTS
  Keys = {a, b}
  a = a
  b = b
  Flushers = {}
  AllowClose = FALSE
  WriteErrors = TRUE
  MinDiffs = 2
  MaxTx = 4
  MaxSnapshots = 1
  MaxCrashes = 1
CHECK_DEADLOCK FALSE
SYMMETRY KeySymmetry
INVARIANTS TypeOK NoLostChange Recoverable OrderedLog FramesInPlace
