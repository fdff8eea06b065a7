\* The write and verify passes, with reconnects, stops and kills, both threads
\* scheduled fairly.
SPECIFICATION FairSpec
CONSTANTS
  Temps = {45, 50, 55, 60}
  ResumeC = 45
  PauseC = 55
  AbortC = 60
  AbortAfter = 2
  AllowsPause = TRUE
  Work = 2
  MaxPause = 2
INVARIANTS
  PausedDriveRests
  PausesAreReal
PROPERTIES
  AbortIsSustained
  PeakIsKept
  CooledWorkerMoves
CHECK_DEADLOCK FALSE
