SPECIFICATION Spec
CONSTANTS
  MaxTasks = 3
  MaxDrops = 1
  MaxByHand = 1
  CatchUp = 2
  EarlyCloses = FALSE
INVARIANT ConnectedIsBacked
CHECK_DEADLOCK FALSE
