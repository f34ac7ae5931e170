SPECIFICATION FairSpec
CONSTANTS
  s1 = s1
  s2 = s2
  s3 = s3
  f1 = f1
  f2 = f2
  f3 = f3
  m1 = m1
  m2 = m2
  m3 = m3
  Kind = "home"
  Stores = {s1, s2}
  Files = {f1, f2}
  Migrations = {m1, m2}
  None = None
  MaxCrashes = 2
  World = {"raise", "torn", "late_crash"}

  
PROPERTIES
  MigrationEnds
CHECK_DEADLOCK FALSE
