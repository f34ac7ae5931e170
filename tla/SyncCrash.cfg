SPECIFICATION Spec
CONSTANTS
  a1 = a1
  j1 = j1
  j2 = j2
  r1 = r1
  Accounts = {a1}
  Jobs = {j1, j2}
  AccountOf <- OneAccount
  Requests = {r1}
  None = None
  Flags = {"suspended"}
  MaxWorkers = 1
  MaxCrashes = 1
  World = {"refuse", "raise", "hang"}
INVARIANTS
  PendingIsQueued
  SyncingHasRunningJob
  
  OneLiveEntry
PROPERTIES
  JobTableSpec
CHECK_DEADLOCK FALSE
