\* ReturnIsSurvived is violated: the drive is back, udev has not made its link
\* yet, and guarded_open ends the run.
SPECIFICATION Spec
CONSTANTS
  Drives = {a, b, c}
  Silent = {a, b}
  Mute = {}
  Solid = {}
  Bays = {bay1, bay2}
  Runs = {r1, r2}
  MaxMoves = 3
  MaxUses = 1
  HandsOff = TRUE
  Away = Away
PROPERTIES
  ReturnIsSurvived
CHECK_DEADLOCK FALSE
