SPECIFICATION FairSpec
CONSTANTS
  Tags <- MCTags
  Running <- MCRunning
  Rank <- MCRank
  NumberOf <- MCNumberOf
  Ascii <- MCAscii
  Hashes <- MCHashes
  DevWords <- MCDevWords
  MaxInt = 1000
  Levels <- MCLevels
  NoticeLevel = 12
  FirstDelay = 1
  RecheckInterval = 2
  MinimumInterval = 4
  FailureBackoff = 2
  MaxRequests = 1
  MaxLives = 2
CHECK_DEADLOCK FALSE
INVARIANTS StatusIsLastAnswer 
PROPERTIES NoticeNotRepeated RequestsSpaced NoticeAppears ShutdownEnds
