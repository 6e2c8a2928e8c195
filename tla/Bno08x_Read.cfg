CONSTANTS
  NReports = 1
  NFlush = 1
  Readers = {r1}
  Admins = {a1}
  Requests = {"hard_reset"}
  MaxGens = 1
  MaxCalls = 1
  MaxFaults = 0
SPECIFICATION FairSpec
PROPERTIES ReportsAreFetched CallersReturn
CHECK_DEADLOCK FALSE
