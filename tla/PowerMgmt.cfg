CONSTANTS
  Timeout = 2
  MaxLag = 1
  MaxCycles = 1
  MaxBoots = 3
  MaxRequests = 2
SPECIFICATION FairSpec
INVARIANTS KeptAwake StateFollowsMode TasksHaveRadio
PROPERTY IdleNodeSleeps
CHECK_DEADLOCK FALSE
