SPECIFICATION FairSpec
CONSTANT MaxWire = 2
CHECK_DEADLOCK FALSE
PROPERTY InterruptEnds
