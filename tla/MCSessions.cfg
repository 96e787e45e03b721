SPECIFICATION Spec
CONSTANTS
  t1 = t1
  t2 = t2
  b1 = b1
  b2 = b2
  Tabs = {t1, t2}
  Jars = {b1, b2}
  JarOf <- TwoBrowsers
  Requests = {r1, r2, r3}
  Passwords = {p1}
  Uses = {"login", "call", "logout", "reload"}
  None = None
  AccessTtl = 1
  RefreshTtl = 2
  MaxFails = 1
  Horizon = 1
SYMMETRY Symmetry
INVARIANTS TypeOK RevokedStaysRevoked OneRefreshPerTab ActsOnce SignedOutStaysOut
