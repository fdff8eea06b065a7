\* "It cannot prove the directory is its own" (output_dir_for) holds of a report
\* and not of a checkpoint: state.json has no serial to compare for a drive that
\* shows none, and another such drive in the bay starts over it.  A violation.
SPECIFICATION Spec
CONSTANTS
  Drives = {c, d}
  Silent = {c, d}
  Mute = {}
  Bays = {bay1}
  Procs = {p}
  MaxMoves = 2
  MaxRuns = 2
  None = None
PROPERTIES
  SilentCheckpointIsKept
CHECK_DEADLOCK FALSE
