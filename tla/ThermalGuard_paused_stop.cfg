\* A signal while the worker is paused.
SPECIFICATION FairSpec
CONSTANTS
  Temps = {45, 50, 55, 60}
  ResumeC = 45
  PauseC = 55
  AbortC = 60
  AbortAfter = 1
  AllowsPause = TRUE
  Work = 2
  MaxPause = 1
PROPERTIES
  StopIsAnswered
CHECK_DEADLOCK FALSE
