\* With a solid state drive in a bay: no caller of evaluate hands it smartctl's
\* answer, and the drive is written.  SolidStateIsRefused is violated.
SPECIFICATION Spec
CONSTANTS
  Drives = {a, b, c}
  Silent = {a, b}
  Mute = {}
  Solid = {c}
  Bays = {bay1, bay2}
  Runs = {r1, r2}
  MaxMoves = 3
  MaxUses = 1
  HandsOff = TRUE
  Away = Away
INVARIANTS
  SolidStateIsRefused
CHECK_DEADLOCK FALSE
