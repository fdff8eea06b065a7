\* smartctl raises wherever it may, the journal may rotate, and nothing is killed.
SPECIFICATION Spec
CONSTANTS
  MaxSessions = 2
  MaxResets = 1
  Readings = {"ok", "failing"}
  Raises = {"short", "extended", "after"}
  Kills = FALSE
  Rotates = TRUE
  ByHand = FALSE
  Midway = TRUE
INVARIANTS
  AbnormalExitIsIncomplete
CHECK_DEADLOCK FALSE
