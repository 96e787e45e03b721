SPECIFICATION Spec
CONSTANTS
  Jobs = {j1}
  Inputs = {i1}
  Outputs = {o1, o2}
  Runs = {r1, r2}
  Clients = {c1}
  Sweeps = {}
  Types = {"image", "default"}
  None = None
  MaxAttempts = 2
  MaxStalled = 1
  MaxCrashes = 1
  MaxLockLosses = 1
  MaxDrops = 1
SYMMETRY Symmetry
INVARIANTS TypeOK QueueAndRowAgree
