SPECIFICATION Spec
CONSTANTS
  Clients = {c1}
  Snapshots <- MCOneSnapshot
  SampleKinds <- MCNoSamples
  Requests <- MCResync
  MaxClients = 1
  AllowControl = TRUE
  SendBuffer = 1
  ChanCap = 1
  SnapCap = 1
  SampleCap = 0
  Deadband = 1
  MaxSeq = 1
  None = None
CHECK_DEADLOCK FALSE
INVARIANTS SurvivesDisappearance
