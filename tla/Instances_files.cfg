\* What is read and written without the lock: a second run, or a plan, while a run
\* is at work; two resumes of one interrupted run; a recheck while the drive is
\* run again.  Each of the three is violated; TLC stops at the first.
SPECIFICATION Spec
CONSTANTS
  Procs = {p1, p2}
  Shared = {d1}
  Kinds = {"run", "plan", "resume", "recheck"}
  MaxRuns = 2
  Length = 2
INVARIANTS
  CheckpointBelongsToRunner
PROPERTIES
  ResumeKeepsFindings
  RecheckLeavesRunsAlone
CHECK_DEADLOCK FALSE
