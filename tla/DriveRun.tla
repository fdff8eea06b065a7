------------------------------- MODULE DriveRun -------------------------------
(***************************************************************************)
(* One drive from the confirmation gate to its report: the child process   *)
(* of supervisor.run_drive, the phases of DrivePipeline, the two passes of *)
(* blockio, and the state.json every `resume` starts again from.           *)
(*                                                                         *)
(* An action ends where the code's next durable write, device transfer or  *)
(* wait is, so a crash can fall between any two of them.  `mem` is the     *)
(* child's DriveState and is lost with it; `ckpt` is state.json.           *)
(***************************************************************************)
EXTENDS DriveState

CONSTANTS
  MaxReconnects,     (* io.reconnect_max_per_phase                         *)
  MaxWriteFailures,  (* io.max_consecutive_write_failures                  *)
  SmartAvailable,    (* the bridge lets SMART through: tests and guard run *)
  VolatileCache,     (* the bridge may lose writes it has not been asked   *)
                     (* to commit, when power or the cable goes            *)
  Signals,           (* the operator or systemd may stop the run           *)
  Kills,             (* the child may be killed, or the host lose power    *)
  EmitFaults         (* writing or rendering the report may raise          *)

ASSUME LimitsAssumption ==
  /\ MaxReconnects \in Nat
  /\ MaxWriteFailures \in Nat \ {0}
  /\ {SmartAvailable, VolatileCache, Signals, Kills, EmitFaults}
        \subseteq BOOLEAN

VARIABLES
  surface,     (* what a read of each block returns, and why               *)
  ckpt,        (* state.json                                               *)
  mem,         (* the child's DriveState; FreshState when there is none    *)
  pc,          (* where the child is; "idle" when there is none            *)
  opts,        (* --chunk-size and --stop-on-fail of the session           *)
  cursor,      (* `offset` of zero_fill and verify_zero                    *)
  reconnects,  (* of this pass                                             *)
  failures,    (* consecutive_failures of zero_fill                        *)
  stop,        (* the child's stop flag                                    *)
  hot,         (* the thermal guard has aborted the session                *)
  stoppedAt,   (* stopped_at: <<phase, offset>> of an unfinished session   *)
  gateFailed,  (* phases 1-2 found the drive failing: it must stay as it is*)
  report       (* the grade in report.json, "none" before the first one    *)

locals == <<opts, cursor, reconnects, failures, stop, hot, stoppedAt>>
vars == <<surface, ckpt, mem, pc, locals, gateFailed, report>>

(* "old": never overwritten; "stale": a write was acknowledged and did not *)
(* stay; "cached": acknowledged, not yet committed; "zero": committed.     *)
Contents == {"old", "stale", "cached", "zero"}
Dirty(b) == surface[b] \in {"old", "stale"}
Cached   == {b \in Blocks : surface[b] = "cached"}

Controls == {"idle", "start", "open", "io", "paused", "through", "flush",
             "closing", "covered", "waiting", "erased", "verified", "test",
             "after", "report", "emit", "restore"}

Finished == <<>>      \* stopped_at = None
Options  == [chunk : Chunks, stopOnFail : BOOLEAN]

NoOptions == [chunk |-> CHOOSE c \in Chunks : TRUE, stopOnFail |-> FALSE]

Grades   == {"PASS", "CAUTION", "FAIL", "INCOMPLETE"}

Certified == report \in {"PASS", "CAUTION"}

-----------------------------------------------------------------------------
(* Shared pieces.                                                          *)

Persist(m) == mem' = m /\ ckpt' = m          \* checkpoint(force=True)

(* The locals of _run_pass and of its loop, gone when they return.         *)
PassOver == cursor' = 0 /\ reconnects' = 0 /\ failures' = 0

(* The exception handlers of run_drive: remember where the run stopped and *)
(* go on to the after-snapshot and an INCOMPLETE report.                   *)
Unwind(m) ==
  /\ stoppedAt' = <<m.phase, m.offset>>
  /\ pc' = "after"
  /\ PassOver

(* The progress callback after a transfer: not due, due without a          *)
(* checkpoint (every second), due with one (every 30 seconds).             *)
Progress(m) ==
  LET ticked == [m EXCEPT !.offset = Done(m)] IN
  \/ mem' = m      /\ UNCHANGED ckpt
  \/ mem' = ticked /\ UNCHANGED ckpt
  \/ Persist(ticked)

StopRequested == stop \/ (opts.stopOnFail /\ HasFailed(mem))

(* The loop of zero_fill and verify_zero: about to look for a stop,        *)
(* waiting at the guard's closed gate, or let through to its transfer.     *)
InLoop == pc \in {"io", "paused", "through"}

(* The pass makes its next transfer: no stop is asked and the gate is      *)
(* open, or the worker has waited at the gate and does not look again.     *)
Transfers ==
  /\ cursor < Size
  /\ \/ pc = "io" /\ ~StopRequested
     \/ pc = "through"

InPass(phase) == Transfers /\ mem.phase = phase

LoseCache ==
  \E lost \in SUBSET Cached :
    surface' = [b \in Blocks |-> IF b \in lost THEN "stale" ELSE surface[b]]

ProcessGone ==
  /\ pc' = "idle"
  /\ mem' = FreshState
  /\ PassOver
  /\ stop' = FALSE /\ hot' = FALSE /\ stoppedAt' = Finished
  /\ opts' = NoOptions

-----------------------------------------------------------------------------
(* Starting a session.                                                     *)

(* run_drive is entered with a state just read, or just prepared; a drive  *)
(* the gate rejected is reported and nothing else (skip_erase).            *)
Launch(skipErase) ==
  /\ pc = "idle"
  /\ \E c \in Chunks, f \in BOOLEAN : opts' = [chunk |-> c, stopOnFail |-> f]
  /\ mem' = Load(ckpt)
  /\ pc' = IF skipErase THEN "report" ELSE "start"
  /\ UNCHANGED <<surface, ckpt, cursor, reconnects, failures, stop, hot,
                 stoppedAt, gateFailed, report>>

(* `run`: the disk object the gate marked is the one the child gets.       *)
Run == ckpt.phase = SHORT_TEST /\ Launch(gateFailed)

(* `resume`: any checkpoint below the report phase, and a disk object      *)
(* inventory.scan has just made, which carries no skip_erase.              *)
Resume == ckpt.phase < REPORT /\ Launch(FALSE)

EnterErase ==
  /\ pc = "start"
  /\ mem.phase <= ERASE
  /\ Persist(EnterPhase(mem, ERASE, StartOffsetFor(mem, ERASE, opts.chunk)))
  /\ pc' = "open"
  /\ reconnects' = 0
  /\ UNCHANGED <<surface, opts, cursor, failures, stop, hot, stoppedAt,
                 gateFailed, report>>

(* An abandoned erase leaves nothing to verify.                            *)
EnterVerify ==
  /\ \/ pc = "start" /\ mem.phase = VERIFY
     \/ pc = "erased"
  /\ LET m == EnterPhase(mem, VERIFY, StartOffsetFor(mem, VERIFY, opts.chunk))
     IN  IF m.abandoned
         THEN Persist([m EXCEPT !.verified = FALSE]) /\ pc' = "verified"
         ELSE Persist(m) /\ pc' = "open"
  /\ reconnects' = 0
  /\ UNCHANGED <<surface, opts, cursor, failures, stop, hot, stoppedAt,
                 gateFailed, report>>

(* A run killed in phase 7 has only the report left to do.                 *)
PassesBehind ==
  /\ pc = "start"
  /\ mem.phase > EXTENDED_TEST
  /\ pc' = "after"
  /\ UNCHANGED <<surface, ckpt, mem, locals, gateFailed, report>>

-----------------------------------------------------------------------------
(* _run_pass: open, transfer, close; and again after a disconnect.         *)

InterruptedAtOpen ==
  /\ pc = "open" /\ stop
  /\ Unwind(mem)
  /\ UNCHANGED <<surface, ckpt, mem, opts, stop, hot, gateFailed, report>>

NothingLeft ==
  /\ pc = "open" /\ ~stop
  /\ ResumeOffset(mem, opts.chunk) >= Size
  /\ pc' = "covered"
  /\ PassOver
  /\ UNCHANGED <<surface, ckpt, mem, opts, stop, hot, stoppedAt, gateFailed,
                 report>>

(* guarded_open succeeds; the runner starts at the rounded offset and says *)
(* so in bytes_done.                                                       *)
OpenPass ==
  /\ pc = "open" /\ ~stop
  /\ LET at == ResumeOffset(mem, opts.chunk) IN
     /\ at < Size
     /\ cursor' = at
     /\ mem' = SetDone(mem, at)
  /\ ckpt' = mem
  /\ failures' = 0
  /\ pc' = "io"
  /\ UNCHANGED <<surface, opts, reconnects, stop, hot, stoppedAt, gateFailed,
                 report>>

(* A write the bridge acknowledges: it keeps any part of it.               *)
WriteChunk ==
  /\ InPass(ERASE)
  /\ LET chunk == ChunkAt(cursor, opts.chunk)
         next  == cursor + ClampChunk(cursor, opts.chunk)
     IN
     /\ \E kept \in SUBSET chunk :
          surface' = [b \in Blocks |->
                        IF b \in kept
                        THEN IF VolatileCache THEN "cached" ELSE "zero"
                        ELSE IF b \in chunk THEN "stale" ELSE surface[b]]
     /\ cursor' = next
     /\ Progress([mem EXCEPT !.eraseDone = next])
  /\ failures' = 0
  /\ pc' = "io"
  /\ UNCHANGED <<opts, reconnects, stop, hot, stoppedAt, gateFailed, report>>

Bug_RecordWriteError(m, chunk) == m

RecordWriteError(m, chunk) == [m EXCEPT !.badWrites = @ \cup chunk]

(* A media error on a write is a finding; too many in a row end the erase. *)
RefuseChunk ==
  /\ InPass(ERASE)
  /\ LET next == cursor + ClampChunk(cursor, opts.chunk)
         m    == RecordWriteError([mem EXCEPT !.eraseDone = next],
                                  ChunkAt(cursor, opts.chunk))
     IN
     IF failures + 1 < MaxWriteFailures
     THEN /\ cursor' = next
          /\ Progress(m)
          /\ pc' = "io"
          /\ failures' = failures + 1
     ELSE /\ mem' = [m EXCEPT !.abandoned = TRUE]
          /\ pc' = "flush"
          /\ cursor' = 0 /\ failures' = 0
          /\ UNCHANGED ckpt
  /\ UNCHANGED <<surface, opts, reconnects, stop, hot, stoppedAt, gateFailed,
                 report>>

RecordNonzero(m, chunk) ==
  [m EXCEPT !.nonzero = @ \cup {b \in chunk : Dirty(b)}]

ReadChunk ==
  /\ InPass(VERIFY)
  /\ LET next == cursor + ClampChunk(cursor, opts.chunk) IN
     /\ cursor' = next
     /\ Progress(RecordNonzero([mem EXCEPT !.verifyDone = next],
                               ChunkAt(cursor, opts.chunk)))
  /\ pc' = "io"
  /\ UNCHANGED <<surface, opts, reconnects, failures, stop, hot, stoppedAt,
                 gateFailed, report>>

(* The failing chunk is read again block by block; what then reads back is *)
(* still checked for zeros.  No progress callback on this path.            *)
Bug_NarrowReadError(m, chunk, unread) ==
  [m EXCEPT !.badReads = @ \cup unread]

NarrowReadError(m, chunk, unread) ==
  RecordNonzero([m EXCEPT !.badReads = @ \cup unread], chunk \ unread)

ReadErrorChunk ==
  /\ InPass(VERIFY)
  /\ LET chunk == ChunkAt(cursor, opts.chunk)
         next  == cursor + ClampChunk(cursor, opts.chunk)
     IN
     /\ \E unread \in SUBSET chunk :
          mem' = NarrowReadError([mem EXCEPT !.verifyDone = next], chunk, unread)
     /\ cursor' = next
  /\ pc' = "io"
  /\ UNCHANGED <<surface, ckpt, opts, reconnects, failures, stop, hot,
                 stoppedAt, gateFailed, report>>

(* A stop that is not the signal's is --stop-on-fail's, and is disclosed.  *)
Bug_NoteStop(m) == m

NoteStop(m) == IF stop THEN m ELSE [m EXCEPT !.stoppedOnFail = TRUE]

(* The loop ends: at the end of the device, or asked to stop.              *)
EndLoop ==
  /\ pc = "io"
  /\ cursor = Size \/ StopRequested
  /\ mem' = IF cursor < Size THEN NoteStop(mem) ELSE mem
  /\ pc' = IF mem.phase = ERASE THEN "flush" ELSE "closing"
  /\ cursor' = 0 /\ failures' = 0
  /\ UNCHANGED <<surface, ckpt, opts, reconnects, stop, hot, stoppedAt,
                 gateFailed, report>>

Bug_FlushCache ==
  /\ pc = "flush"
  /\ pc' = "closing"
  /\ UNCHANGED <<surface, ckpt, mem, locals, gateFailed, report>>

(* fsync: commit the bridge's cache before the verify begins.              *)
FlushCache ==
  /\ pc = "flush"
  /\ surface' = [b \in Blocks |-> IF b \in Cached THEN "zero" ELSE surface[b]]
  /\ pc' = "closing"
  /\ UNCHANGED <<ckpt, mem, locals, gateFailed, report>>

(* Only now is a thermal abort looked at.                                  *)
ClosePass ==
  /\ pc = "closing"
  /\ LET m == [mem EXCEPT !.offset = Done(mem)] IN
     /\ Persist(m)
     /\ IF hot THEN Unwind(m)
        ELSE pc' = "covered" /\ PassOver /\ UNCHANGED stoppedAt
  /\ UNCHANGED <<surface, opts, stop, hot, gateFailed, report>>

Bug_CountedReconnects == reconnects

CountedReconnects == reconnects + 1

(* ENODEV: the disconnect loses what the bridge had not committed.         *)
Vanish ==
  /\ Transfers
  /\ IF VolatileCache THEN LoseCache ELSE UNCHANGED surface
  /\ LET m == [mem EXCEPT !.offset = Done(mem)] IN
     /\ Persist(m)
     /\ IF CountedReconnects > MaxReconnects
        THEN Unwind(m)
        ELSE /\ pc' = "waiting"
             /\ reconnects' = CountedReconnects
             /\ cursor' = 0 /\ failures' = 0
             /\ UNCHANGED stoppedAt
  /\ UNCHANGED <<opts, stop, hot, gateFailed, report>>

DeviceReturns ==
  /\ pc = "waiting"
  /\ pc' = "open"
  /\ UNCHANGED <<surface, ckpt, mem, locals, gateFailed, report>>

(* Nothing came back in time, more than one thing did, or a stop was asked.*)
GiveUpWaiting ==
  /\ pc = "waiting"
  /\ Unwind(mem)
  /\ UNCHANGED <<surface, ckpt, mem, opts, stop, hot, gateFailed, report>>

(* Any other exception: a refused open, a write-protected bridge, an       *)
(* errno that is not a media error, a failing fsync, smartctl.             *)
Fault ==
  /\ \/ pc = "open" /\ ~stop /\ ResumeOffset(mem, opts.chunk) < Size
     \/ Transfers
     \/ pc \in {"flush", "test"}
  /\ IF VolatileCache /\ pc = "flush" THEN LoseCache ELSE UNCHANGED surface
  /\ Unwind(mem)
  /\ UNCHANGED <<ckpt, mem, opts, stop, hot, gateFailed, report>>

-----------------------------------------------------------------------------
(* The phases after their pass.                                            *)

(* An abandoned fill did not cover the device, nor did one cut short.      *)
EraseCoverage(m) == ~m.abandoned /\ m.eraseDone >= Size

ConcludeErase ==
  /\ pc = "covered" /\ mem.phase = ERASE
  /\ Persist([mem EXCEPT !.erased = EraseCoverage(mem)])
  /\ pc' = "erased"
  /\ UNCHANGED <<surface, locals, gateFailed, report>>

Bug_VerifyCoverage(m) == TRUE

VerifyCoverage(m) == m.verifyDone >= Size

ConcludeVerify ==
  /\ pc = "covered" /\ mem.phase = VERIFY
  /\ Persist([mem EXCEPT !.verified = VerifyCoverage(mem)])
  /\ pc' = "verified"
  /\ UNCHANGED <<surface, locals, gateFailed, report>>

(* Without a reason of its own to skip it, the test is run unless          *)
(* --skip-extended-test says otherwise.                                    *)
EnterExtended ==
  /\ \/ pc = "start" /\ mem.phase = EXTENDED_TEST
     \/ pc = "verified"
  /\ LET m == EnterPhase(mem, EXTENDED_TEST, 0)
         skipped == \/ opts.stopOnFail /\ HasFailed(mem)
                    \/ mem.abandoned
                    \/ ~SmartAvailable
     IN  \/ Persist([m EXCEPT !.extTest = "unmeasured"]) /\ pc' = "after"
         \/ ~skipped /\ Persist(m) /\ pc' = "test"
  /\ UNCHANGED <<surface, locals, gateFailed, report>>

(* How run_selftest can end: cut short by the guard, by the signal, or by  *)
(* itself.                                                                 *)
TestOutcomes ==
  IF hot THEN {"passed", "unmeasured"}
  ELSE {"passed", "failed", "unmeasured"}
       \cup (IF stop THEN {"interrupted"} ELSE {})

(* The only _check_stop that follows a phase.                              *)
ExtendedTest ==
  /\ pc = "test"
  /\ \E r \in TestOutcomes :
       LET m == [mem EXCEPT !.extTest = r] IN
       /\ Persist(m)
       /\ IF stop THEN Unwind(m)
          ELSE pc' = "after" /\ PassOver /\ UNCHANGED stoppedAt
  /\ UNCHANGED <<surface, opts, stop, hot, gateFailed, report>>

(* The guard's thread runs beside a pass and beside the self-test.  An     *)
(* abort opens the gate.                                                   *)
GuardAborts ==
  /\ SmartAvailable /\ ~hot
  /\ InLoop \/ pc \in {"flush", "test"}
  /\ hot' = TRUE
  /\ pc' = IF pc = "paused" THEN "through" ELSE pc
  /\ UNCHANGED <<surface, ckpt, mem, opts, cursor, reconnects, failures, stop,
                 stoppedAt, gateFailed, report>>

(* The drive is too hot: the worker, past its stop check, waits at the     *)
(* gate and sees neither a stop nor the device from there.                 *)
GateHolds ==
  /\ SmartAvailable
  /\ pc = "io" /\ cursor < Size /\ ~StopRequested
  /\ pc' = "paused"
  /\ UNCHANGED <<surface, ckpt, mem, locals, gateFailed, report>>

(* The guard has read a temperature at which it opens the gate.            *)
GateOpens ==
  /\ pc = "paused"
  /\ pc' = "through"
  /\ UNCHANGED <<surface, ckpt, mem, locals, gateFailed, report>>

(* phase7_smart_after; an exception in it changes nothing below.           *)
AfterSnapshot ==
  /\ pc = "after"
  /\ Persist(EnterPhase(mem, SMART_AFTER, 0))
  /\ pc' = "report"
  /\ UNCHANGED <<surface, locals, gateFailed, report>>

BuildReport ==
  /\ pc = "report"
  /\ Persist(EnterPhase(mem, REPORT, 0))
  /\ pc' = "emit"
  /\ UNCHANGED <<surface, locals, gateFailed, report>>

(* What SMART and the kernel log add to the passes' own findings.          *)
Health == {"clean", "worn", "failing"}

Bug_Grade(m, health) ==
  IF health = "failing" \/ m.extTest = "failed" THEN "FAIL"
  ELSE IF HasFailed(m) /\ m.verified THEN "FAIL"
  ELSE IF health = "worn" \/ m.extTest # "passed" THEN "CAUTION"
  ELSE "PASS"

(* grade.evaluate on the part of the report this run decides: unfinished,  *)
(* then failed, then not covered, then the cautions.                       *)
Grade(m, health) ==
  IF stoppedAt # Finished \/ hot \/ m.extTest = "interrupted" THEN "INCOMPLETE"
  ELSE IF HasFailed(m) \/ m.extTest = "failed" \/ health = "failing" \/ gateFailed
       THEN "FAIL"
  ELSE IF ~m.erased \/ ~m.verified THEN "INCOMPLETE"
  ELSE IF m.extTest # "passed" \/ health = "worn" THEN "CAUTION"
  ELSE "PASS"

(* emit: report.json first, then the renderings, then the checkpoint.  An  *)
(* exception here leaves run_drive with the checkpoint where it is.        *)
WriteReport ==
  \E health \in Health : report' = Grade(mem, health)

EmitReport ==
  /\ pc = "emit"
  /\ WriteReport
  /\ pc' = "restore"
  /\ UNCHANGED <<surface, ckpt, mem, locals, gateFailed>>

EmitFails ==
  /\ EmitFaults
  /\ pc = "emit"
  /\ WriteReport \/ UNCHANGED report
  /\ ProcessGone
  /\ UNCHANGED <<surface, ckpt, gateFailed>>

Bug_RestoredCheckpoint == mem

(* An unfinished run's checkpoint goes back to where it stopped.           *)
RestoredCheckpoint ==
  IF stoppedAt = Finished THEN mem
  ELSE EnterPhase(mem, stoppedAt[1], stoppedAt[2])

Exit ==
  /\ pc = "restore"
  /\ ckpt' = RestoredCheckpoint
  /\ ProcessGone
  /\ UNCHANGED <<surface, gateFailed, report>>

-----------------------------------------------------------------------------
(* What can happen to the child.                                           *)

Signal ==
  /\ Signals
  /\ pc # "idle" /\ ~stop
  /\ stop' = TRUE
  /\ UNCHANGED <<surface, ckpt, mem, pc, opts, cursor, reconnects, failures,
                 hot, stoppedAt, gateFailed, report>>

Kill ==
  /\ Kills
  /\ pc # "idle"
  /\ ProcessGone
  /\ UNCHANGED <<surface, ckpt, gateFailed, report>>

(* The host or the enclosure loses power, whether a run is going or not.   *)
PowerCut ==
  /\ Kills /\ VolatileCache
  /\ LoseCache
  /\ ProcessGone
  /\ UNCHANGED <<ckpt, gateFailed, report>>

-----------------------------------------------------------------------------
Init ==
  /\ surface = [b \in Blocks |-> "old"]
  /\ ckpt = FreshState
  /\ mem = FreshState
  /\ pc = "idle"
  /\ opts = NoOptions
  /\ cursor = 0 /\ reconnects = 0 /\ failures = 0
  /\ stop = FALSE /\ hot = FALSE /\ stoppedAt = Finished
  /\ gateFailed \in BOOLEAN
  /\ report = "none"

(* Steps the code takes by itself once a session runs.                     *)
Step ==
  \/ EnterErase \/ EnterVerify \/ PassesBehind
  \/ InterruptedAtOpen \/ NothingLeft \/ OpenPass
  \/ WriteChunk \/ RefuseChunk \/ ReadChunk \/ ReadErrorChunk
  \/ EndLoop \/ FlushCache \/ ClosePass \/ GiveUpWaiting
  \/ ConcludeErase \/ ConcludeVerify
  \/ EnterExtended \/ ExtendedTest
  \/ AfterSnapshot \/ BuildReport \/ EmitReport \/ Exit

Environment ==
  \/ Run \/ Resume
  \/ Vanish \/ DeviceReturns \/ Fault \/ EmitFails
  \/ GuardAborts \/ GateHolds \/ GateOpens
  \/ Signal \/ Kill \/ PowerCut

Next == Step \/ Environment

Spec == Init /\ [][Next]_vars

(* A running child is scheduled, and device calls, smartctl and the wait   *)
(* for a device return: each has a timeout of its own or the kernel's.     *)
(* The wait at the thermal gate has none, and a guard that reads no more   *)
(* temperatures never opens it: GateOpens is not fair.                     *)
FairSpec == Spec /\ WF_vars(Step)

-----------------------------------------------------------------------------
(* Properties.                                                             *)

(* Types of the variables.                                                 *)
TypeOK ==
  /\ surface \in [Blocks -> Contents]
  /\ ckpt \in DriveStates
  /\ mem \in DriveStates
  /\ pc \in Controls
  /\ opts \in Options
  /\ cursor \in Offsets
  /\ reconnects \in 0 .. MaxReconnects
  /\ failures \in 0 .. MaxWriteFailures
  /\ stop \in BOOLEAN
  /\ hot \in BOOLEAN
  /\ stoppedAt \in {Finished} \cup (Phases \X Offsets)
  /\ gateFailed \in BOOLEAN
  /\ report \in Grades \cup {"none"}

(* A drive graded PASS or CAUTION reads back as zero everywhere, whatever  *)
(* crashes, disconnects, resumes, changed chunk lengths and silently lost  *)
(* writes its run went through: the claim the report makes to a buyer      *)
(* ("confirmed all N bytes read back as zero", build_report and evaluate). *)
CertifiedDriveIsZero == Certified => \A b \in Blocks : ~Dirty(b)

(* What the checkpoint of a verify says was covered was: every block below *)
(* its offset that is not zero is among the findings saved with it.  This  *)
(* is SPEC 9.1's rule that an offset must never be ahead of its findings.  *)
VerifiedPrefixIsAccounted ==
  \A b \in Blocks :
    /\ Dirty(b)
    /\ ckpt.verified \/ (ckpt.phase = VERIFY /\ b < ckpt.offset)
    => b \in ckpt.nonzero \cup ckpt.badReads

(* The same for the erase: a block the checkpoint passes over, or counts   *)
(* as erased, was written or is recorded as having refused the write.      *)
ErasedPrefixIsAccounted ==
  \A b \in Blocks :
    /\ surface[b] = "old"
    /\ ckpt.erased \/ (ckpt.phase = ERASE /\ b < ckpt.offset)
    => b \in ckpt.badWrites

(* No verify reads a surface the bridge may still lose (zero_fill's fsync).*)
FlushedBeforeVerify == mem.phase = VERIFY /\ InLoop => Cached = {}

(* A finding once checkpointed is in every later checkpoint of the run.    *)
EvidenceIsKept ==
  [][/\ ckpt.badWrites \subseteq ckpt'.badWrites
     /\ ckpt.badReads \subseteq ckpt'.badReads
     /\ ckpt.nonzero \subseteq ckpt'.nonzero]_ckpt

(* A FAIL is a verdict, an unfinished measurement is not: no later session *)
(* of the same run turns a report of FAIL into one a buyer may see.        *)
FailIsFinal == [][report = "FAIL" => ~Certified']_report

(* An erase that stopped before the end, without the drive having failed,  *)
(* is what the next `resume` does, and so is a verify (SPEC 8.2,           *)
(* supervisor.py 151-155).                                                 *)
InterruptedPassResumes ==
  pc = "idle" /\ ~gateFailed /\ ~HasFailed(ckpt) =>
    /\ ckpt.eraseDone < Size => ckpt.phase <= ERASE
    /\ ckpt.verifyDone < Size => ckpt.phase <= VERIFY

(* A FAIL that does not rest on the whole surface says what cut it short;  *)
(* a stopped run is INCOMPLETE and never FAIL (SPEC 8.2).                  *)
TruncatedFailSaysWhy ==
  /\ pc = "restore" /\ report = "FAIL" /\ ~mem.verified
  => mem.abandoned \/ mem.stoppedOnFail \/ gateFailed

(* A drive whose last report is INCOMPLETE can be resumed.                 *)
IncompleteStaysResumable ==
  pc = "idle" /\ report = "INCOMPLETE" => ckpt.phase < REPORT

(* A drive that failed the pre-erase gate is never written to (SPEC 15).   *)
RejectedDriveIsUntouched ==
  gateFailed => \A b \in Blocks : surface[b] = "old"

(* Crashes, lost writes and realigned offsets included, a run only does    *)
(* what the abstract Wipe allows: a verified block is never written or     *)
(* lost again, no finding is given up, and a certificate rests on all of   *)
(* the surface (SPEC 9.1, evaluate).                                       *)
Accounted ==
  {b \in Blocks : ckpt.verified \/ (ckpt.phase = VERIFY /\ b < ckpt.offset)}

Promise == INSTANCE Wipe WITH
  dirty <- {b \in Blocks : Dirty(b)},
  found <- ckpt.badWrites \cup ckpt.badReads \cup ckpt.nonzero,
  sure  <- Accounted,
  grade <- report

Promised == Promise!Spec

(* A session ends, with its report or without, however often the device    *)
(* leaves and returns (the reconnects of a pass are counted) and however   *)
(* often the guard pauses the pass, unless one pause never ends:           *)
(* wait_if_paused waits without a timeout.                                 *)
SessionEnds ==
  []<>(pc # "paused") => ((pc # "idle") ~> (pc = "idle"))
=============================================================================
