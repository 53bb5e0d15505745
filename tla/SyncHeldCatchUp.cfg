SPECIFICATION FairSpec
CONSTANTS
  MaxEdits = 1
  MaxRemoteNews = 0
  ErrorAnswers <- MCNoErrors
  StreamOpensInHold = TRUE
  FailedSwaps = FALSE
  OverlappingPuts = FALSE
PROPERTY EditsReachServer
CHECK_DEADLOCK FALSE
