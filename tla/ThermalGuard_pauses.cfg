\* The pause an abort ends, one that is open when the pass ends, a periodic
\* checkpoint after a pause.  Each of the three is violated; TLC stops at the first.
SPECIFICATION Spec
CONSTANTS
  Temps = {45, 50, 55, 60}
  ResumeC = 45
  PauseC = 55
  AbortC = 60
  AbortAfter = 2
  AllowsPause = TRUE
  Work = 3
  MaxPause = 4
INVARIANTS
  AbortedPauseIsReal
  PauseIsNotLost
PROPERTIES
  CheckpointCarriesPauses
CHECK_DEADLOCK FALSE
