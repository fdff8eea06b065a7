\* After the abort the pass goes on.
SPECIFICATION Spec
CONSTANTS
  Temps = {45, 50, 55, 60}
  ResumeC = 45
  PauseC = 55
  AbortC = 60
  AbortAfter = 2
  AllowsPause = TRUE
  Work = 3
  MaxPause = 4
PROPERTIES
  AbortStopsTransfers
CHECK_DEADLOCK FALSE
