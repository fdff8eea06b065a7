\* HandsOff FALSE: a silent drive that waits for its slot in the batch is swapped
\* for another of its model, and written.  OnlyTheConfirmedIsWritten is violated.
SPECIFICATION Spec
CONSTANTS
  Drives = {a, b, c}
  Silent = {a, b}
  Mute = {}
  Solid = {}
  Bays = {bay1, bay2}
  Runs = {r1, r2}
  MaxMoves = 3
  MaxUses = 1
  HandsOff = FALSE
  Away = Away
INVARIANTS
  OnlyTheConfirmedIsWritten
CHECK_DEADLOCK FALSE
