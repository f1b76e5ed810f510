SPECIFICATION Spec
CONSTANTS
  Workers = {i1, i2}
  MaxStamp = 3
  Earlier = 1
  Kinds = {"s3", "webdav"}
  PageKeys = 1
  Keeps = {0, 1}
  Times = {3}
  DefaultKeep = 2
  SlotLen = 2
  DayLen = 4
  Offset = 2
  MaxClock = 6
  MaxSaves = 1
SYMMETRY Symmetry
INVARIANTS
  NewestKept
  RetentionHonest
  RowTrue
PROPERTIES
  DailyOnce
