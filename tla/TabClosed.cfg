SPECIFICATION Spec
CONSTANTS
  MaxTasks = 3
  MaxDrops = 1
  MaxByHand = 1
  CatchUp = 2
  EarlyCloses = FALSE
INVARIANT ClosedTabsLetGo
CHECK_DEADLOCK FALSE
