\* A drive that shows a serial and two that have only an ATA serial, two bays,
\* directories of the old scheme, two instances.
SPECIFICATION Spec
CONSTANTS
  Drives = {a, c, d}
  Silent = {c, d}
  Mute = {}
  Bays = {bay1, bay2}
  Procs = {p, q}
  MaxMoves = 3
  MaxRuns = 2
  None = None
INVARIANTS
  OneHistory
  AskedIsAnswered
PROPERTIES
  HistoryIsKept
  SilentReportIsKept
SYMMETRY Alike
CHECK_DEADLOCK FALSE
