SPECIFICATION Spec
CONSTANTS
  Keys = {a, b}
  a = a
  b = b
  Flushers = {}
  AllowClose = FALSE
  WriteErrors = TRUE
  MinDiffs = 9
  MaxTx = 4
  MaxSnapshots = 0
  MaxCrashes = 2
CHECK_DEADLOCK FALSE
PROPERTIES ImplementsDurableStore
