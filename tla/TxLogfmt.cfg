SPECIFICATION Spec
CONSTANTS
  t = t
  u = u
  a = a
  b = b
  Tasks = {t, u}
  Keys <- MCKeys
  Vals <- MCVals
  Start <- MCStart
  Blank <- MCBlank
  Valid <- MCValid
  MaxTx = 2
CHECK_DEADLOCK FALSE
PROPERTIES
  AbortQueuesNothing
