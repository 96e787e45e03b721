SPECIFICATION FairSpec
CONSTANTS
  t1 = t1
  t2 = t2
  b1 = b1
  b2 = b2
  Tabs = {t1}
  Jars = {b1}
  JarOf <- OneTab
  Requests = {r1, r2}
  Passwords = {p1, p2}
  Uses = {"register", "login", "call", "password", "logout", "reload"}
  None = None
  AccessTtl = 1
  RefreshTtl = 2
  MaxFails = 1
  Horizon = 2
PROPERTIES RequestsSettle
