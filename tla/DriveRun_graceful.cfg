\* Nobody stops or kills the run: it is the drive that comes and goes, refuses,
\* overheats and fails, and the guard that pauses the pass.
SPECIFICATION FairSpec
CONSTANTS
  Size = 2
  Chunks = {1, 2}
  MaxReconnects = 1
  MaxWriteFailures = 2
  SmartAvailable = TRUE
  VolatileCache = FALSE
  Signals = FALSE
  Kills = FALSE
  EmitFaults = FALSE
INVARIANTS
  InterruptedPassResumes
  TruncatedFailSaysWhy
PROPERTIES
  SessionEnds
CHECK_DEADLOCK FALSE
