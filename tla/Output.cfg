SPECIFICATION FairSpec
CONSTANTS
  MaxItems = 4
  MaxChannels = 2
  MaxStreams = 4
  MaxBuffered = 2
  MaxBatch = 2
INVARIANTS TypeOK InOrder SubscribersAttached
PROPERTIES KeepsPromise TerminalHearsAll
CHECK_DEADLOCK FALSE
