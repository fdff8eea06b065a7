\* A drive whose length is no multiple of the chunk, on a bridge that may lose
\* what it has not committed; the child may be stopped and killed and the power
\* may go.
SPECIFICATION Spec
CONSTANTS
  Size = 3
  Chunks = {2}
  MaxReconnects = 1
  MaxWriteFailures = 1
  VolatileCache = TRUE
  Kills = TRUE
  SmartAvailable = FALSE
  Signals = TRUE
  EmitFaults = TRUE
INVARIANTS
  CertifiedDriveIsZero
  VerifiedPrefixIsAccounted
  ErasedPrefixIsAccounted
  FlushedBeforeVerify
PROPERTIES
  EvidenceIsKept
  Promised
CHECK_DEADLOCK FALSE
