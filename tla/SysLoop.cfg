CONSTANTS
  QueueSize = 1
  MaxRequests = 1
SPECIFICATION FairSpec
INVARIANTS OneEventPerToken SyncTokenBacked
PROPERTIES CallersReturn ServicesGoOn
CHECK_DEADLOCK FALSE
