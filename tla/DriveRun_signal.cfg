\* A signal during the erase or the verify, and one during a verify that has found
\* something.  Each of the two is violated; TLC stops at the first.
SPECIFICATION Spec
CONSTANTS
  Size = 2
  Chunks = {1}
  MaxReconnects = 1
  MaxWriteFailures = 2
  SmartAvailable = TRUE
  VolatileCache = FALSE
  Signals = TRUE
  Kills = FALSE
  EmitFaults = FALSE
INVARIANTS
  InterruptedPassResumes
  TruncatedFailSaysWhy
CHECK_DEADLOCK FALSE
