\* A run left at the gate and resumed; a test that was skipped, and run by hand
\* later.  Each of the two is violated; TLC stops at the first.
SPECIFICATION Spec
CONSTANTS
  MaxSessions = 2
  MaxResets = 0
  Readings = {"unavailable", "ok", "worn", "failing"}
  Raises = {}
  Kills = FALSE
  Rotates = FALSE
  ByHand = TRUE
  Midway = TRUE
INVARIANTS
  PassIsTested
  SkippedIsUntested
CHECK_DEADLOCK FALSE
