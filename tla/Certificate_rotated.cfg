\* The journal keeps the end of the run only.
SPECIFICATION Spec
CONSTANTS
  MaxSessions = 1
  MaxResets = 1
  Readings = {"unavailable", "ok", "worn", "failing"}
  Raises = {}
  Kills = FALSE
  Rotates = TRUE
  ByHand = TRUE
  Midway = TRUE
PROPERTIES
  FailStandsRotated
CHECK_DEADLOCK FALSE
