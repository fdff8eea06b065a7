\* A child that dies before its report, of a drive that has an old one; a stop
\* between the test for it and the fork; a child the stop does not reach.  Each of
\* the three is violated; TLC stops at the first.
SPECIFICATION Spec
CONSTANTS
  Drives = {d1, d2}
  Jobs = 2
  MaxInterrupts = 1
  DoubleInterrupt = FALSE
  Reported = {d1}
INVARIANTS
  CrashIsNotCertified
PROPERTIES
  NoStartAfterStop
  KilledAfterAsked
CHECK_DEADLOCK FALSE
