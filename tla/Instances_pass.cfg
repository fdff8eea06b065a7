\* Two instances of every command on one drive.
SPECIFICATION Spec
CONSTANTS
  Procs = {p1, p2}
  Shared = {d1}
  Kinds = {"run", "plan", "resume", "recheck"}
  MaxRuns = 2
  Length = 1
INVARIANTS
  OneWriterPerDrive
CHECK_DEADLOCK FALSE
