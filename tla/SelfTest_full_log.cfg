\* A log that is full of passes, and a test that passes within the hour.
SPECIFICATION FairSpec
CONSTANTS
  Length = 2
  StallPolls = 1
  ExtendedRetries = 1
  LogSize = 2
  Hours = 1
  ByHand = 0
  Blips = {}
INVARIANTS
  NewEntryIsSeen
CHECK_DEADLOCK FALSE
