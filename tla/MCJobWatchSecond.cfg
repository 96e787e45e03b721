SPECIFICATION Spec
CONSTANTS
  Pages = {p1}
  Files = {f1}
  Jobs = {j1, j2}
  Sockets = {k1, k2}
  None = None
  MaxAttempts = 1
  Reports = 1
  MaxUpsets = 0
INVARIANT EndIsOfGivenJob
