SPECIFICATION FairSpec
CONSTANTS
  MaxEdits = 1
  MaxRemoteNews = 1
  ErrorAnswers <- MCNoErrors
  StreamOpensInHold = FALSE
  FailedSwaps = FALSE
  OverlappingPuts = FALSE
PROPERTIES EditsReachServer LaunchSyncRuns
CHECK_DEADLOCK FALSE
