SPECIFICATION FairSpec
CONSTANTS
  Job = job
  Requests = {q1}
  Order <- MCOrder
  DayLen = 3
  GcTime = 2
  Times <- MCTimes
  Schedule <- MCSchedule
  Keeps = {1}
  MaxStamp = 2
  MaxSaves = 1
INVARIANTS
  LastUploaded
  NewestKept
PROPERTIES
  OnSchedule
  JobEnds
