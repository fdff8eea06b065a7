\* The extended self-test, which the guard cannot pause.
SPECIFICATION Spec
CONSTANTS
  Temps = {45, 50, 55, 60}
  ResumeC = 45
  PauseC = 55
  AbortC = 60
  AbortAfter = 2
  AllowsPause = FALSE
  Work = 3
  MaxPause = 4
INVARIANTS
  TypeOK
PROPERTIES
  AbortStopsTransfers
CHECK_DEADLOCK FALSE
