SPECIFICATION FairSpec
CONSTANTS
  None = None
  Devices = {d1, d2}
  Paths = {1, 2}
  Contents = {c1, c2, c3}
  MaxWrites = 3
  MaxIdle = 4
INVARIANTS
  BaseIsApplied
  Materializable
PROPERTIES
  EditsSurvive
  NeverBackwards
  EventuallyConverged
CHECK_DEADLOCK FALSE
