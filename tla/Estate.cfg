SPECIFICATION MCSpec
CONSTANTS
  Scenes = {"people", "stores", "reads", "tokens", "oauth"}
  u1 = u1
  u2 = u2
  u3 = u3
  a1 = a1
  a2 = a2
  g1 = g1
  s1 = s1
  s2 = s2
  adm = adm
  n1 = n1
  n2 = n2
  x1 = x1
  r1 = r1
  b1 = b1
  k1 = k1
  k2 = k2
  t1 = t1
  None = None
  Users = {u1, u2, u3}
  Accounts = {a1, a2}
  Groups = {g1}
  Stores = {s1, s2}
  Names = {adm, n1, n2, x1, r1}
  Reserved = {r1}
  AdminName = adm
  Fold <- Folding
  AdminGroup = TRUE
  MaxWaiting = 1
  Browsers = {b1}
  Nonces = {k1, k2}
  MaxFlights = 2
  Tokens = {t1}
  MaxCalls = 1
INVARIANTS CallbackHitsItsAccount SurfacesAgree 
PROPERTIES LastAdminLeavesByRole  ConnectedAccountsStay
CHECK_DEADLOCK FALSE
