SPECIFICATION Spec
CONSTANTS
  Jobs = {j1}
  Inputs = {i1}
  Outputs = {o1, o2}
  Runs = {r1}
  Clients = {c1}
  Sweeps = {s1}
  Types = {"image"}
  None = None
  MaxAttempts = 2
  MaxStalled = 0
  MaxCrashes = 1
  MaxLockLosses = 0
  MaxDrops = 0
SYMMETRY Symmetry
INVARIANTS InFlightInputKept OutputHasBytes OutputIsOwn
