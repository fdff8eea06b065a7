\* Kills and resumes at every step, and every command on the report.
SPECIFICATION Spec
CONSTANTS
  MaxSessions = 2
  MaxResets = 0
  Readings = {"ok", "failing"}
  Raises = {}
  Kills = TRUE
  Rotates = FALSE
  ByHand = TRUE
  Midway = FALSE
INVARIANTS
  KernelFaultsFail
  CertificateIsWhole
  CertifiedTestFollowsWipe
PROPERTIES
  FailStands
CHECK_DEADLOCK FALSE
