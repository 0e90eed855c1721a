SPECIFICATION FairSpec
CONSTANTS
  Clients = {c1, c2}
  Verbs <- MCPerChannel
  OperatorSteps = TRUE
  QueueCap = 1
  SnapCap = 1
  MaxFaults = 1
INVARIANTS GateExact
PROPERTIES GateCatchesUp
