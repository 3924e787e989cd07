\* Every algorithm on every input of its set; there is one step.
SPECIFICATION Spec
CONSTANTS
  Within <- MCWithin
  None = None
INVARIANTS
  DiffRestores LogTellsAll HitsAreSeen GrepFindsAdditions
  MigratesOnceInOrder RangesSelect CommandTells CallbacksServe
CHECK_DEADLOCK FALSE
