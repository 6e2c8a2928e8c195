CONSTANTS
  MaxRetry = 2
  MaxApFlips = 2
  MaxUpdates = 1
  MaxEvents = 3
SPECIFICATION Spec
CHECK_DEADLOCK FALSE
INVARIANT FailureIsRetried
