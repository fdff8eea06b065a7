\* The guard aborts the extended self-test.
SPECIFICATION Spec
CONSTANTS
  Size = 2
  Chunks = {1}
  MaxReconnects = 1
  MaxWriteFailures = 2
  SmartAvailable = TRUE
  VolatileCache = FALSE
  Signals = FALSE
  Kills = FALSE
  EmitFaults = FALSE
INVARIANT IncompleteStaysResumable
CHECK_DEADLOCK FALSE
