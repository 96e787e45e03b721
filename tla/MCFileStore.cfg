SPECIFICATION FairSpec
CONSTANTS
  Files = {f1}
  NoFile = NoFile
  Requests = {r1, r2, r3}
  Sweeps = {s1, s2}
  Sizes = {0, 1, 2}
  MaxFileSize = 1
  PresignedTtl = 1
  PendingTtl = 3
  ReplyLatency = 1
  UploadTime = 1
  Horizon = 6
  MaxFaults = 2
INVARIANTS TypeOK PromptConfirmKept SweptStaysEmpty
PROPERTY FollowsLifecycle AbandonedIsReclaimed
