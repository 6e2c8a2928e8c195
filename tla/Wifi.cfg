CONSTANTS
  MaxRetry = 2
  MaxApFlips = 1
  MaxUpdates = 1
  MaxEvents = 3
SPECIFICATION FairSpec
INVARIANTS OneReconnectPerToken WaiterIsServed RetryBudget
PROPERTIES ReconnectEnds GoodNetworkConnects
CHECK_DEADLOCK FALSE
