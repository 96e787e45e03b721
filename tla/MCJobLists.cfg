SPECIFICATION FairSpec
CONSTANTS
  Lists = {"all", "active"}
  Jobs = {j1}
  None = None
  MaxAttempts = 1
  Reports = 1
  MaxUpsets = 1
  MaxLooks = 3
INVARIANTS TypeOK ShownEndIsCommitted AnsweredEndStands
PROPERTY EndNotTakenBack RowLearnsEnd
\* The bounds end every behaviour.
CHECK_DEADLOCK FALSE
