CONSTANTS
  missing = missing
  n1 = n1
  n2 = n2
  Nets = {n1, n2}
  MaxFps = 3
  TargetFps = 2
  Raw <- MCRaw
  MaxWrites = 2
  MaxCrashes = 2
SPECIFICATION Spec
INVARIANTS ProvisioningSurvives CanBeFound
PROPERTIES BootIsSane
SYMMETRY NetsAlike
CHECK_DEADLOCK FALSE
