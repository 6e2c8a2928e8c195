CONSTANTS
  NReports = 1
  NFlush = 1
  Readers = {r1}
  Admins = {a1}
  Requests = {"hard_reset", "soft_reset", "on", "calibrate", "tare", "disable"}
  MaxGens = 2
  MaxCalls = 1
  MaxFaults = 1
SPECIFICATION Spec
INVARIANTS ReportsTrue
CHECK_DEADLOCK FALSE
