SPECIFICATION MCSpec
CONSTANTS
  s1 = s1
  s2 = s2
  Snapshots = {s1}
  MaxRecs = 2
  World = {"raise", "logout", "rmtree"}
  MaxTasks = 2
  NumUsers = 2
  MaxCrashes = 1
INVARIANTS ReadyHasFiles NoOrphanTrees OneActiveTask
PROPERTIES MountsExpire TasksClose
CHECK_DEADLOCK FALSE
