\* The bridge may lose an answer about the test's state, never one about the
\* log (a bridge that hides the log hides it always); somebody else may start
\* or end a test once.
SPECIFICATION FairSpec
CONSTANTS
  Length = 2
  StallPolls = 1
  ExtendedRetries = 1
  LogSize = 1
  Hours = 1
  ByHand = 1
  Blips = {"state"}
INVARIANTS
  VerdictIsNew
  StoppedDriveRests
  CutShortIsNoVerdict
PROPERTIES
  Returns
CHECK_DEADLOCK FALSE
