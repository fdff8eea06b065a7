\* The child is killed while it reports an aborted run.
SPECIFICATION Spec
CONSTANTS
  Size = 2
  Chunks = {1}
  MaxReconnects = 1
  MaxWriteFailures = 2
  SmartAvailable = TRUE
  VolatileCache = FALSE
  Signals = FALSE
  Kills = TRUE
  EmitFaults = FALSE
INVARIANT InterruptedPassResumes
CHECK_DEADLOCK FALSE
