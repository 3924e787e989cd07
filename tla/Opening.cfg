SPECIFICATION Spec
CONSTANTS
  kanta1 = kanta1
  kanta2 = kanta2
  opener1 = opener1
  opener2 = opener2
  Instances = {kanta1, kanta2}
  Openers = {opener1, opener2}
  Nobody = Nobody
  MaxOpens = 3
  MaxRecords = 2
  MaxFailures = 2
CHECK_DEADLOCK FALSE
SYMMETRY OpeningSymmetry
INVARIANTS
  OneWriter
  ChainedLog
  ClosedIsQuiet
  OpenedIsServed
PROPERTIES
  DeletesNoRecords
