SPECIFICATION FairSpec
CONSTANTS
  Keys = {a, b}
  a = a
  b = b
  Flushers = {}
  AllowClose = TRUE
  WriteErrors = TRUE
  MinDiffs = 2
  MaxTx = 3
  MaxSnapshots = 1
  MaxCrashes = 0
CHECK_DEADLOCK FALSE
INVARIANTS CloseSaves SnapshotsExact
PROPERTIES
  EventuallySaved
  SnapshotServed
  CloseEnds
