SPECIFICATION Spec
CONSTANTS
  Restores = {r1, r2}
  Writers = {w1}
  Seed = seed
  NoRestore = none
  LeaseTTL = 1
  StagingTTL = 1
  Lag = 0
  LastStart = 2
  MaxClock = 2
  ReplyMayBeLost = FALSE
SYMMETRY Symmetry
INVARIANTS
  Searchable
  FailureReportedTruly
PROPERTIES
  OnlyOverlappingWritesSurvive
  KeepsPromise
