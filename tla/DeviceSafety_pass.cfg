\* Two drives without a serial and one that shows its own, two bays.
SPECIFICATION Spec
CONSTANTS
  Drives = {a, b, c}
  Silent = {a, b}
  Mute = {b}
  Solid = {}
  Bays = {bay1, bay2}
  Runs = {r1, r2}
  MaxMoves = 4
  MaxUses = 1
  HandsOff = TRUE
  Away = Away
INVARIANTS
  OnlyTheConfirmedIsWritten
  OneRunOneDrive
  InUseIsLeftAlone
  TokenNamesTheDrives
CHECK_DEADLOCK FALSE
