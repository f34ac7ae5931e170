SPECIFICATION Spec
CONSTANTS
  s1 = s1
  s2 = s2
  s3 = s3
  f1 = f1
  f2 = f2
  f3 = f3
  m1 = m1
  m2 = m2
  m3 = m3
  Kind = "account"
  Stores = {s1, s2}
  Files = {f1}
  Migrations = {m1}
  None = None
  MaxCrashes = 1
  World = {"late_crash"}
SYMMETRY Symmetry
INVARIANTS
  NothingLost
CHECK_DEADLOCK FALSE
