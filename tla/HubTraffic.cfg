SPECIFICATION Spec
CONSTANTS
  Clients = {c1}
  Snapshots <- MCSnapshots
  SampleKinds <- MCScope
  Requests <- MCControlRequests
  MaxClients = 1
  AllowControl = TRUE
  SendBuffer = 1
  ChanCap = 1
  SnapCap = 1
  SampleCap = 1
  Deadband = 2
  MaxSeq = 2
  None = None
CHECK_DEADLOCK FALSE
INVARIANTS InSync BroadcastCurrent
PROPERTIES ImplementsFeed RegressionIsReplay
