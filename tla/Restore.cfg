SPECIFICATION FairSpec
CONSTANTS
  a1 = a1
  a2 = a2
  f1 = f1
  f2 = f2
  Accounts = {a1}
  Files = {f1, f2}
  OriginOf <- OneEach
  MaxJobs = 1
  MaxWorkers = 1
  MaxCancels = 1
  Quota = 2
  Bars = {"suspended"}
  MaxCrashes = 1
  World = {"raise", "lost"}
INVARIANTS StagedUntilDelivered EarlyCancelWins  TempUsersAreOwned
PROPERTIES SubmittedJobsEnd
CHECK_DEADLOCK FALSE
