\* A drive that is a whole number of chunks long, killed before fsync.
SPECIFICATION Spec
CONSTANTS
  Size = 2
  Chunks = {1}
  MaxReconnects = 1
  MaxWriteFailures = 2
  SmartAvailable = TRUE
  VolatileCache = TRUE
  Signals = FALSE
  Kills = TRUE
  EmitFaults = FALSE
INVARIANT FlushedBeforeVerify
CHECK_DEADLOCK FALSE
