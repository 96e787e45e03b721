SPECIFICATION FairSpec
CONSTANTS
  Jobs = {j1}
  Inputs = {i1}
  Outputs = {o1, o2}
  Runs = {r1}
  Clients = {c1}
  Sweeps = {}
  Types = {"image"}
  None = None
  MaxAttempts = 2
  MaxStalled = 1
  MaxCrashes = 1
  MaxLockLosses = 0
  MaxDrops = 1
PROPERTY JobsSettle
