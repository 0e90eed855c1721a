SPECIFICATION FairSpec
CONSTANTS
  Clients = {c1, c2}
  Snapshots <- MCOneSnapshot
  SampleKinds <- MCNoSamples
  Requests <- MCFreeze
  MaxClients = 1
  AllowControl = FALSE
  SendBuffer = 1
  ChanCap = 1
  SnapCap = 1
  SampleCap = 0
  Deadband = 1
  MaxSeq = 1
  None = None
CHECK_DEADLOCK FALSE
INVARIANTS TypeOK HubNeverSelfCrashes ClientLifecycle
PROPERTIES OnlyRefusalClosesUnderReader UnregisterServed ClosedChannelHangsUp
