SPECIFICATION FairSpec
CONSTANTS
  MaxTasks = 3
  MaxDrops = 2
  MaxByHand = 1
  CatchUp = 2
  EarlyCloses = FALSE
INVARIANTS TypeOK ConnectingIsWorkedOn PatientTabsAreBacked
PROPERTIES ReachableTabsSettle ClosedTabsGoQuiet
CHECK_DEADLOCK FALSE
