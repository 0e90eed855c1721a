SPECIFICATION FairSpec
CONSTANTS
  FramesCap = 1
  QueueCap = 2
  MaxBackoff = 2
  MaxFaults = 1
  MaxVerbs = 3
CHECK_DEADLOCK FALSE
INVARIANTS TypeOK OneHandle VerbsAccountedFor
PROPERTIES OwnReportsOnly StaleReaderSettles Reconnects ShutdownEnds
