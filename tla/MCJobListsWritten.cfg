SPECIFICATION Spec
CONSTANTS
  Lists = {"recent"}
  Jobs = {j1}
  None = None
  MaxAttempts = 1
  Reports = 1
  MaxUpsets = 1
  MaxLooks = 3
\* The bounds end every behaviour.
CHECK_DEADLOCK FALSE
INVARIANT OnlyLiveUpdatesWritten
