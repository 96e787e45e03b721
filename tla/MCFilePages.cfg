SPECIFICATION FairSpec
CONSTANTS
  MaxFiles = 2
  Limit = 1
  None = None
  MaxDeletes = 1
  MaxUpsets = 1
  MaxLooks = 2
  Made = 1
INVARIANTS TypeOK ShownIsCurrent
PROPERTY ClickDeletes
\* The bounds end every behaviour.
CHECK_DEADLOCK FALSE
