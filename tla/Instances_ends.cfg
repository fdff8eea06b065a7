\* Two batches that share their drives: both end, and they lock as DriveLock says.
SPECIFICATION FairSpec
CONSTANTS
  Procs = {p1, p2}
  Shared = {d1, d2}
  Kinds = {"run"}
  MaxRuns = 2
  Length = 1
PROPERTIES
  EveryCommandEnds
  LockSpec
CHECK_DEADLOCK FALSE
