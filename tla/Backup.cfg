SPECIFICATION FairSpec
CONSTANTS
  Policies = {p1}
  MaxJobs = 2
  Keep = 1
  MaxWorkers = 2
  MaxCrashes = 1
  World = {"wedge", "refresh", "slow"}
INVARIANTS RunningHasJob MarkerIsCurrent EntriesEnd
PROPERTIES LedgerSpec RunsClose
CHECK_DEADLOCK FALSE
