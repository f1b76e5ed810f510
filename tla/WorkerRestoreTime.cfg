SPECIFICATION FairSpec
CONSTANTS
  Restores = {r1, r2}
  Writers = {}
  Seed = seed
  NoRestore = none
  LeaseTTL = 1
  StagingTTL = 4
  Lag = 1
  LastStart = 1
  MaxClock = 7
  ReplyMayBeLost = TRUE
INVARIANTS
  OneDataset
PROPERTIES
  CutoverComplete
  LeftoversReclaimed
