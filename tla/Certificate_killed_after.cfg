\* A kill after the after-snapshot: of a session that was cut short, and of one
\* that was not, where a recheck then reads the report an earlier session left.
\* Each of the two is violated; TLC stops at the first.
SPECIFICATION Spec
CONSTANTS
  MaxSessions = 3
  MaxResets = 0
  Readings = {"ok"}
  Raises = {}
  Kills = TRUE
  Rotates = FALSE
  ByHand = TRUE
  Midway = TRUE
INVARIANTS
  AbnormalExitIsIncomplete
  CertifiedTestFollowsWipe
CHECK_DEADLOCK FALSE
