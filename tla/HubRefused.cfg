SPECIFICATION Spec
CONSTANTS
  Clients = {c1, c2}
  Snapshots <- MCOneSnapshot
  SampleKinds <- MCNoSamples
  Requests <- MCRefusedRequests
  MaxClients = 1
  AllowControl = FALSE
  SendBuffer = 1
  ChanCap = 1
  SnapCap = 1
  SampleCap = 0
  Deadband = 1
  MaxSeq = 1
  None = None
CHECK_DEADLOCK FALSE
INVARIANTS SurvivesRefusedClient
