SPECIFICATION FairSpec
CONSTANTS
  a1 = a1
  j1 = j1
  j2 = j2
  r1 = r1
  Accounts = {a1}
  Jobs = {j1, j2}
  AccountOf <- OneAccount
  Requests = {}
  None = None
  Flags = {"suspended"}
  MaxWorkers = 1
  MaxCrashes = 1
  World = {"refuse", "budget"}
PROPERTIES
  InterruptedResumes
CHECK_DEADLOCK FALSE
