------------------------------ MODULE DriveState ------------------------------
(***************************************************************************)
(* The checkpoint of one drive's run (state.py) and the arithmetic the     *)
(* passes do on it.  A drive is Size logical blocks; a pass moves over it  *)
(* in transfers of a chunk, whose length an operator may change between    *)
(* `run` and `resume` (--chunk-size).  Findings are sets of blocks: the    *)
(* ranges and counters of the code, without their order and their cap.     *)
(***************************************************************************)
EXTENDS Integers

CONSTANTS
  Size,     (* logical blocks of the drive                                 *)
  Chunks    (* the chunk lengths, in blocks, a session may be started with *)

ASSUME SizeAssumption ==
  /\ Size \in Nat \ {0}
  /\ Chunks \subseteq Nat \ {0}
  /\ Chunks # {}

Blocks  == 0 .. (Size - 1)
Offsets == 0 .. Size

SHORT_TEST    == 2
ERASE         == 4
VERIFY        == 5
EXTENDED_TEST == 6
SMART_AFTER   == 7
REPORT        == 8
Phases == {SHORT_TEST, ERASE, VERIFY, EXTENDED_TEST, SMART_AFTER, REPORT}

(* What the report says of the extended self-test, the wordings that grade *)
(* alike taken together.  "unmeasured": skipped, without SMART, not        *)
(* started, or inconclusive.                                               *)
ExtStatus == {"not_run", "unmeasured", "passed", "failed", "interrupted"}

DriveStates ==
  [phase         : Phases,
   offset        : Offsets,         \* phase_offset
   eraseDone     : Offsets,         \* erase_findings.bytes_done
   verifyDone    : Offsets,         \* verify_findings.bytes_done
   badWrites     : SUBSET Blocks,   \* write_error_ranges
   badReads      : SUBSET Blocks,   \* read_error_ranges
   nonzero       : SUBSET Blocks,   \* nonzero_ranges
   abandoned     : BOOLEAN,         \* write_abandoned
   erased        : BOOLEAN,         \* erase_performed
   verified      : BOOLEAN,         \* verify_performed
   stoppedOnFail : BOOLEAN,
   extTest       : ExtStatus]

(* The state `run` leaves behind before the gate: phases 0 to 2 are over.  *)
FreshState ==
  [phase |-> SHORT_TEST, offset |-> 0, eraseDone |-> 0, verifyDone |-> 0,
   badWrites |-> {}, badReads |-> {}, nonzero |-> {}, abandoned |-> FALSE,
   erased |-> FALSE, verified |-> FALSE, stoppedOnFail |-> FALSE,
   extTest |-> "not_run"]

-----------------------------------------------------------------------------
(* Bug_ operators are mutations of the definition that follows them: each  *)
(* is a plausible slip in the code, kept to show that a property sees it.  *)

Bug_LoadWithoutFindings(saved) ==
  [FreshState EXCEPT !.phase = saved.phase, !.offset = saved.offset,
                     !.erased = saved.erased, !.verified = saved.verified]

(* DriveState.load: a new object with every serialised field read back.    *)
Load(saved) ==
  [FreshState EXCEPT
     !.phase         = saved.phase,
     !.offset        = saved.offset,
     !.eraseDone     = saved.eraseDone,
     !.verifyDone    = saved.verifyDone,
     !.badWrites     = saved.badWrites,
     !.badReads      = saved.badReads,
     !.nonzero       = saved.nonzero,
     !.abandoned     = saved.abandoned,
     !.erased        = saved.erased,
     !.verified      = saved.verified,
     !.stoppedOnFail = saved.stoppedOnFail,
     !.extTest       = saved.extTest]

Bug_ResumeOffset(m, chunk) == ((m.offset + chunk - 1) \div chunk) * chunk

(* Where an interrupted phase restarts: rounded down to a chunk boundary.  *)
ResumeOffset(m, chunk) == (m.offset \div chunk) * chunk

Bug_CarriedOffset(m, phase, chunk) == ResumeOffset(m, chunk)

(* A carried offset is valid only in the phase it was recorded in.         *)
StartOffsetFor(m, phase, chunk) ==
  IF m.phase = phase THEN ResumeOffset(m, chunk) ELSE 0

(* enter_phase: the caller checkpoints the result at once.                 *)
EnterPhase(m, phase, at) == [m EXCEPT !.phase = phase, !.offset = at]

Bug_ClampChunk(at, chunk) == chunk

(* The transfer at `at`, the last one clamped to what is left.             *)
ClampChunk(at, chunk) == IF Size - at >= chunk THEN chunk ELSE Size - at
ChunkAt(at, chunk)    == at .. (at + ClampChunk(at, chunk) - 1)

(* The position of the pass the phase runs.                                *)
Done(m) == IF m.phase = ERASE THEN m.eraseDone ELSE m.verifyDone
SetDone(m, at) ==
  IF m.phase = ERASE THEN [m EXCEPT !.eraseDone = at]
                     ELSE [m EXCEPT !.verifyDone = at]

(* A FAIL condition the passes themselves have found.                      *)
HasFailed(m) == m.badWrites \cup m.badReads \cup m.nonzero # {}
=============================================================================
