SPECIFICATION Spec
CONSTANTS
  RangeCount = 2
  Clients = {c1}
  Buttons <- MCButtons
  Verbs <- MCSteps
  ChannelButtons = {0, 1}
  Powers = {150}
  QueueCap = 1
  OutCap = 1
 
PROPERTIES LockedInAuto
