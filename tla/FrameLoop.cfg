SPECIFICATION FairSpec
CONSTANTS
  Segments = 2
  StatusEveryN = 3
  TickPeriod = 3
  QueueCap = 1
  Verbs <- MCVerbs
  Pages <- MCPages
  Channels <- MCManual
  Alerts <- MCAlert
  MaxWire = 2
  MaxFaults = 1
CHECK_DEADLOCK FALSE
INVARIANTS TypeOK SelfCorrecting AlertStable
  
