\* The bridge may lose any answer, as a USB bridge does.
SPECIFICATION FairSpec
CONSTANTS
  Length = 2
  StallPolls = 1
  ExtendedRetries = 1
  LogSize = 2
  Hours = 0
  ByHand = 1
  Blips = {"state", "log"}
INVARIANTS
  VerdictIsNew
CHECK_DEADLOCK FALSE
