SPECIFICATION Spec
CONSTANTS
  t = t
  u = u
  Threads = {t, u}
  MaxRecords = 3
  MaxCrashes = 1
  ShortWrites = TRUE
CHECK_DEADLOCK FALSE
SYMMETRY ThreadSymmetry
INVARIANTS ReadsBack BinaryDetects PointsAtTear
PROPERTIES AppendOnly
