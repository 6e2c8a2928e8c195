CONSTANTS
  WaveLen = 1
  CodeLen = 2
  MaxChanges = 2
  MaxRequests = 1
SPECIFICATION LedFairSpec
INVARIANTS LedShows CodeDecodes
 
CHECK_DEADLOCK FALSE
