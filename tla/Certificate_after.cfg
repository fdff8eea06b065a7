\* Phase 7 raises before the kernel log is swept, and the report shows the hours of
\* its before-snapshot.  Each of the two is violated; TLC stops at the first.
SPECIFICATION Spec
CONSTANTS
  MaxSessions = 2
  MaxResets = 0
  Readings = {"unavailable", "ok", "worn", "failing"}
  Raises = {"after"}
  Kills = FALSE
  Rotates = FALSE
  ByHand = TRUE
  Midway = TRUE
INVARIANTS
  KernelFaultsFail
  CertifiedTestFollowsWipe
CHECK_DEADLOCK FALSE
