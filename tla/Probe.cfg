SPECIFICATION FairSpec
CONSTANTS
  Starts <- MCStarts
  ChannelTargets <- MCChannelTargets
  RangeTargets <- MCRangeTargets
  ChannelCount = 1
  RangeCount = 1
  ModeSteps = 8
  ChannelSteps = 4
  RangeSteps = 4
  Tries = 2
  LastCmd = 6
  FramesPerCmd = 2
  OtherFrames = 1
  MaxFaults = 1
CHECK_DEADLOCK FALSE
INVARIANTS SweepAsPromised NothingGivenUp 
PROPERTY ProbeEnds
