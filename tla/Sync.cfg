CONSTANTS
  PrimaryMaxRetry = 1
  Timeout = 2
  Controllers = {c1, c2}
  Announcing = {c1}
  MaxInbox = 1
  MaxFlips = 2
SPECIFICATION SyncFairSpec
INVARIANTS SuccessIsAnswered OneController
PROPERTIES SyncGoesOn DiscoveryEnds
CHECK_DEADLOCK FALSE
