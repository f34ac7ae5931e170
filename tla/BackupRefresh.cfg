SPECIFICATION FairSpec
CONSTANTS
  Policies = {p1}
  MaxJobs = 1
  Keep = 1
  MaxWorkers = 2
  MaxCrashes = 0
  World = {"wedge", "refresh"}
PROPERTY StalledRunsClose
CHECK_DEADLOCK FALSE
