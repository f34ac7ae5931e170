SPECIFICATION FairSpec
CONSTANTS
  a1 = a1
  j1 = j1
  j2 = j2
  r1 = r1
  Accounts = {a1}
  Jobs = {j1}
  AccountOf <- OneAccount
  Requests = {r1}
  None = None
  Flags = {}
  MaxWorkers = 1
  MaxCrashes = 0
  World = {"budget", "stall", "overlap", "raise"}
INVARIANTS
  BudgetStopReachesProc
  MarkersAreDropped
PROPERTIES
  StopIsAskedFor
  JobsClose
CHECK_DEADLOCK FALSE
