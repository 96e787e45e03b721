SPECIFICATION FairSpec
CONSTANTS
  Pages = {p1}
  Files = {f1}
  Jobs = {j1}
  Sockets = {k1, k2}
  None = None
  MaxAttempts = 2
  Reports = 1
  MaxUpsets = 1
INVARIANTS TypeOK FollowsCurrentJob EndIsCommitted NeverBlank
PROPERTY EndReachesPage
