SPECIFICATION FairSpec
CONSTANTS
  MaxAsks = 2
  Calls = {c1}
  None = None
  Ttl = 3
  Margin = 2
  MaxFails = 1
  MaxLooks = 3
  Horizon = 4
INVARIANTS TypeOK FileStaysOwn
PROPERTY GuestHasAMinute ZoneAppears CallsEnd
\* The bounds end every behaviour.
CHECK_DEADLOCK FALSE
