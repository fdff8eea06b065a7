\* The epoch a kill left open is closed when the run opens the next one: another
\* drive's lines in between are counted.  KilledOrNot is violated.
SPECIFICATION Spec
CONSTANTS
  Drives = {mine, other}
  Mine = mine
  Names = {sdb, sdc}
  Ports = {p1, p2}
  Nowhere = Nowhere
  MaxTime = 3
  MaxLines = 2
  MaxPlugs = 2
  MaxOpens = 3
INVARIANTS
  KilledOrNot
SYMMETRY Alike
CHECK_DEADLOCK FALSE
