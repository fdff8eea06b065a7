\* Two drives, two ports, two names; a disconnect, a reconnect elsewhere, a
\* kill, and another drive in the old place.
SPECIFICATION Spec
CONSTANTS
  Drives = {mine, other}
  Mine = mine
  Names = {sdb, sdc}
  Ports = {p1, p2}
  Nowhere = Nowhere
  MaxTime = 3
  MaxLines = 2
  MaxPlugs = 2
  MaxOpens = 3
INVARIANTS
  OwnFaultsAreCounted
  OnlyOwnFaultsAreCounted
SYMMETRY Alike
CHECK_DEADLOCK FALSE
