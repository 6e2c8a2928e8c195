CONSTANTS
  MaxLen = 3
  Samples = 4
  Confusing = {1}
  Readers = {monitor}
  MaxLosses = 1
  MaxResets = 1
SPECIFICATION Spec
INVARIANTS InsideBuffer ReadIsWhole AtMostTwice ResyncBound
CHECK_DEADLOCK FALSE
