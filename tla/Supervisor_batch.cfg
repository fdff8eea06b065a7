\* More drives than jobs, one of them with an old report, children that crash
\* or hang at any point, a stop and a second interrupt.
SPECIFICATION FairSpec
CONSTANTS
  Drives = {d1, d2, d3}
  Jobs = 2
  MaxInterrupts = 1
  DoubleInterrupt = TRUE
  Reported = {d1}
INVARIANTS
  AtMostJobs
  ResultsAreTheChildrens
  NoDriveIsForgotten
  LockCoversChild
PROPERTIES
  BatchPromised
  StopEnds
CHECK_DEADLOCK FALSE
