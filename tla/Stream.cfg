CONSTANTS
  Size = 3
  MaxSeq = 4
  MaxResets = 2
  MaxRec = 2
  MaxSwitch = 1
  MaxQueue = 2
  NoFrame = NoFrame
SPECIFICATION StreamFairSpec
INVARIANTS ExactlyOnceWhileClean AtMostOneLateFrame MuxFollowsMode
PROPERTIES StopStopsMonitor ClientDrains
CHECK_DEADLOCK FALSE
