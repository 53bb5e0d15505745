SPECIFICATION Spec
CONSTANTS
  MaxEdits = 2
  MaxRemoteNews = 1
  ErrorAnswers <- MCAnyErrors
  StreamOpensInHold = TRUE
  FailedSwaps = TRUE
  OverlappingPuts = FALSE
INVARIANTS TypeOK OfflineMeansRetrying EditAccounted
CHECK_DEADLOCK FALSE
