# DrivePrep, verified

TLA+ models of [DrivePrep](../src/README.md), which zero-fills used hard disks,
reads every sector back, runs their self-tests, watches kernel log and
temperature, and issues a graded report to a buyer. What has to be right is that
report: it must never certify a drive that was not erased, not read back or not
healthy, whatever crashed, vanished, overheated or was interrupted during the
day a run takes. The models are about that, and about who may touch a drive and
its files at the same time.

All definitions are translated from `src/driveprep`; `PROJECT.json` maps each
to its lines. Comments cite `src/docs/SPEC.md` by section where a property is a
promise the project makes.

## 1. The system

| Component | State it keeps | Operations | Hard about it | What makes it correct |
|---|---|---|---|---|
| `state.py` drive state | `DriveState`, `state.json` (atomic replace) | `enter_phase`, `checkpoint`, `load`, `resume_offset`, `find_resumable` | crash between any two checkpoints; offset rounding; chunk length changed between sessions | an offset is never ahead of its findings; a finding is never lost |
| `blockio.py` passes | `offset`, `PassFindings`, consecutive failures | `zero_fill`, `verify_zero`, narrowing of a failed read | media errors, vanishing device, volatile bridge cache, last partial chunk | every block is written or recorded, read or recorded; fsync before verify |
| `pipeline.py` drive pipeline | the phases, reconnect counters, `thermal_state`, `kernel_events` | phases 0–8, `_run_pass`, `_check_stop`, `_wait_for_device` | stops, aborts and exceptions anywhere; what a phase leaves behind when it is cut short | an unfinished run is INCOMPLETE and resumable at the phase it stopped in |
| `supervisor.py` `run_drive` | the child: stop flag, `stopped_at` | exception handlers, phases 7 and 8 after a failure, restored checkpoint | a kill between the report and the restored checkpoint | the same |
| `supervisor.py` `Supervisor` | pending, `_children`, `_results`, queue, `_stopping` | dispatch, `_reap`, signal handler, `_kill_overdue_children`, `_summarize` | handler and children between any two steps of the loop; the queue read before `is_alive` | at most `--jobs`; every drive run and recorded; a stopped batch ends |
| `supervisor.py` `DriveLock` | one flock per drive | acquire, release, inherited by children | several instances; children that outlive the parent | one writer per drive |
| `thermal.py` guard | `_resume`, `_stop`, two clocks, `ThermalState` | poll thread: sample, pause, resume, abort; worker: `wait_if_paused`, `stop` | two threads, missing readings, reconnect starts a new guard | a closed gate holds; hysteresis; abort only for heat that lasted; pauses counted once |
| `grade.py` rubric | none | `evaluate`, `smart_gate` | order of the rules; absence of data | nothing unfinished or failed is certified |
| `commands/run.py`, `resume.py`, `batch.py` | selected drives, states | prepare, phases 1–2, token, locks, `run_locked` | what is read before a lock and used under it; what `resume` skips | a drive the gate rejected stays untouched; one writer of `state.json` |
| `commands/documents.py` | `report.json` | `recheck`, `report --rescan-kernel-log`, `--operator-disconnect` | stale or rotated sources; no lock | no command softens a FAIL; a verdict is entered only for a test after the erase |
| `smart.py` self-tests | the drive's log and the test it runs | `run_selftest`: start, poll, stall deadline, retry, abort | an old entry in a log with no identity; a bridge that loses answers; a test somebody else starts; the guard's abort next to the poll loop | a verdict is that of a new entry; a stopped drive is left at rest; the call returns |
| `identity.py` locators, `kernlog.py` | `LocatorHistory.epochs` | `open_epoch`, `close_current`, `sweep` | a drive that comes back under another name while another drive takes its own; a kill with an epoch open; rotated journal | every line of the drive in a pass is counted, none of another drive |
| `safety.py`, `identity.py`, `inventory.py` | identity, token, an open descriptor | `evaluate`, `compute_token`, `confirm`, `guarded_open`, `match_stored_drive` | the world changes between plan, gate, open, checks, reconnect and resume; docks that give a by-id name to the bay; drives without a serial | only the drive that was confirmed is written, and none in use |
| `runs.py` stored runs | a directory per drive with `state.json`, `report.json` | `output_dir_for`, `prepare_states`, `stored_aliases`, `select_runs` | drives moving between bays, directories of the older naming scheme, two instances at once | no history is replaced, split, or shown for another drive |
| `report`, `log`, `cli`, tools | none that matters later | rendering, parsing | — | not modelled: pure output and formatting |

Interactions: `run` prepares a `state.json` per drive, runs phases 1–2 in the
parent, asks for the token, locks the drives and starts the supervisor. The
supervisor forks one child per drive, which goes through phases 4–8
(`run_drive`) and puts its exit code on a queue. Each pass starts a guard thread
that gates the worker between two chunks. A child that dies leaves `state.json`;
`resume` starts again from it. The documents commands rewrite `report.json` and
`state.json` afterwards. Instances share nothing but these files and the locks.

`PROJECT.json` lists under `hazards` the lines where this is hard to test, each
with the property that would catch it going wrong, or why none does yet.

## 2. Modules

```
DriveState <- DriveRun <- DriveRun_proofs        one drive, phases 4 to 8
              ThermalGuard <- ThermalGuard_proofs guard thread and worker of a pass
              Supervisor <- Supervisor_proofs     a batch: parent and children
              Certificate <- Certificate_proofs   all sessions of a run and what grades it
DriveLock  <- Instances, Supervisor_proofs        the locks; several processes on shared files
              SelfTest <- SelfTest_proofs         one self-test: caller, bridge, drive
              DeviceSafety <- DeviceSafety_proofs which drive is opened and written
              Locators <- MCLocators, Locators_proofs     kernel log and drive names
              StoredRuns <- MCStoredRuns, StoredRuns_proofs  whose run a directory holds
Wipe          the abstract run; DriveRun implements it
Batch         the abstract batch; Supervisor implements it
DriveLock     the abstract lock; Instances and Supervisor implement it
```

The system is seen at several grains, each keeping the control the others
abstract:

**`DriveState`, `DriveRun`.** A drive is `Size` blocks, each `old` (never
overwritten), `stale` (a write was acknowledged and did not stay), `cached`
(acknowledged by a bridge that may lose it) or `zero`. `mem` is the child's
`DriveState`, `ckpt` is `state.json`; an action ends at the next durable write,
device transfer or wait, so a kill falls between any two. `pc` walks
`run_drive`: `start`, `open`–`io`–`flush`–`closing`–`covered` (`_run_pass`),
`erased`, `verified`, `test`, `after`, `report`, `emit`, `restore`. Actions:
`WriteChunk`, `RefuseChunk`, `ReadChunk`, `ReadErrorChunk` (the iterations of
the two loops with `Progress`, the callback, which may be not due, due, or due
with a checkpoint), `Vanish`/`DeviceReturns`/`GiveUpWaiting` (reconnect),
`Fault` (any other exception), `FlushCache` (fsync), `ClosePass`, the
`Conclude*` and `Enter*` of the phases, `EmitReport` with the part of
`grade.evaluate` this run decides, `Exit` with the checkpoint put back.
`Signal`, `Kill`, `PowerCut`, `GuardAborts` come from outside, and so does the thermal
gate before each transfer: `GateHolds` takes a worker past its stop check from `io` to
`paused`, `GateOpens` (or an abort, which opens the gate too) from there to `through`,
where only the transfer is left. Readings and thresholds are `ThermalGuard`'s.

**`Wipe`.** What a run promises, without passes, offsets, checkpoints or
sessions: `dirty` blocks, findings `found`, blocks that are `sure`, and a `grade`.
A step may write, lose a write, or go back to an older record, but nothing sure is
touched, no finding is given up, what becomes sure is clean or found, and a grade of PASS
or CAUTION needs every block sure, nothing found and no FAIL before it.
`DriveRun!Promised` is `Wipe!Spec` under

    dirty <- blocks of the surface (or of the bridge's cache) that are not zero
    found <- the findings of state.json
    sure  <- Accounted: what state.json says was verified
    grade <- the report

so a resume that rounds an offset down, a restored checkpoint and a power cut are all
steps of `Wipe` or stutter.

**`ThermalGuard`.** Time is counted in polls. The polling thread is two steps,
the wait (`BeginPoll`) and the answer of smartctl (`Unreadable`, or `Evaluate`,
one disjunct per branch of `_evaluate`); the worker is the loop of a pass:
stop check, gate, transfer with callback, `stop()` up to the join, join with
`_close_pause`, `_absorb_thermal` and checkpoint. Reconnects start a new guard.
With `AllowsPause = FALSE` the worker is the self-test's poll loop. Five history
variables say what really happened (time since a reading below the abort
threshold, polls the gate was closed, hottest reading, transfers begun since the
gate closed); no action reads them.

**`Supervisor`.** One parent action per statement of `Supervisor.run` that
another process or the handler can tell apart: pop, `proc.start()`, the entry in
`_children`, the two halves of `_reap`, the kill of overdue children, the final
drain, `_summarize`, unlock. `Interrupt` runs between any two of them. A child
inherits the parent's handler and `_children` at the fork, and keeps them until
`Boot`; the consequences are in `Tell`. Children boot, report, answer, exit, or
die anywhere.

**`Batch`.** What a batch promises, without the parent's loop, its queue, its two looks at a
child and the clocks: a drive goes from `waiting` to `chosen`, `working` and `gone`; it is
chosen while a job is free and nobody has asked to stop; its child may certify once and
answer once, `ok` only if it certified (`failed` is also an exception after
report.json was written); the summary tells of each drive what
its child said, `died` only if it said nothing, and lists it by what its child certified.
`Supervisor!BatchPromised` is `Batch!Spec` under

    stage     <- whether the drive is popped, and what its child is
    certified <- the report, an earlier run's not counted
    said      <- what the child put on the queue
    told      <- _results, once the index is written
    listed    <- the index

so where the handler runs, what is still on the queue and which half of `_reap` sees a
child are steps of `Batch` or of none. Two things the code does are in `Batch`, since
they are promises it does not break by accident: a drive popped before the stop is
started after it, and one without a report of its own is listed by an earlier one.
`Supervisor_stop` has the sentences of SPEC that say otherwise.

**`Certificate`.** The whole life of one run's report: phases 1–2 with the gate,
one step per phase of each session with every way it may end, `resume`,
`grade.evaluate` with the whole order of its rules, and the three commands that
rewrite a report. SMART attributes are classes (`ok`, `worn`, `failing`,
`unavailable`); the journal knows of I/O errors, USB resets and whether it still
covers the run; the newest entry of the drive's self-test log is dated against
the hours of both snapshots. With `Midway` the operator also rechecks a run that is not
over; the report is then of an earlier session. `happened`, `broken`, `fresh` are history.

**`DriveLock`.** The flock of each drive, who holds it, which drives a process has locked and
which it works on. A process is what shares an open file description. `Locked`,
`Refused`, `Begun`, `Finished`, `GivenUp` are what one may do.

**`Instances`** (EXTENDS `DriveLock`). Two or more processes over one output root, a step per
access to `state.json`, `report.json` or a lock; the work of a run is a few pieces, each
of which may find something and may checkpoint.

**`SelfTest`.** Each smartctl call is a step of the caller: `ReadBefore`
(`log_before`), `Start`, `AskState`, `AskLog`, `ReadEntry`, and `Wedged` and `StopTest`
with `smartctl -X`. Between two of them the drive progresses, finishes, fails, forgets,
and logs later (`pending` to `entries`, the oldest falls out), somebody starts or ends a
test by hand, the guard decides and then aborts (two steps, another thread),
the run is told to stop. A signature is what `_log_signature` sees, without knowing which
test wrote the entry. `Record` is the end of phase 2 or 6.

**`DeviceSafety`.** Bays of a dock, drives of one model and size, some without a serial
(`Silent`), of which some show smartctl none either (`Mute`). `Plan`, `Select`, `Probe`,
`Confirm`/`Decline`, `Open`, `CheckIdentity`, `Recheck`, `Write`, `Vanish`, `Return`,
`Finish`, `Stop`, `Resume` are the code; a path is the bay's by-id name, or the kernel name
that may have passed to another drive. `PullOut`, `PlugIn`, `UdevLinks`, `TakeIntoUse`
happen between any two. A declined plan leaves the checkpoints of its drives, which
`resume` then takes up, or the next `run` overwrites. `own` is the drive the operator was shown and
`wrote` what a run has written: history.

**`Locators`.** The epochs of one run with their stamps, whole seconds, its two passes,
reconnects and kills, and `journal`, the lines of the kernel about any drive, each
with the name or the port it is about. Whose line it really is and whether a pass was open
are history. `Sweep` is the matching by window and mark.

**`StoredRuns`.** A directory is a bay and a serial or, of the older scheme, a bay alone.
`state` and `report` record the owner's serials as the files do (masked or not); instances
choose a directory (`Choose`), write the fresh state (`Save`) before they lock
(`Lock`), checkpoint, reconnect in another bay, conclude, emit, put the
checkpoint back, die. `Selected` is `select_runs`. The owner of a file is history.

`Bug_*` operators are plausible slips of the definition that follows them. Each
property of a passing run is violated when one of them (or of the definitions
`PROJECT.json` names under `mutants`) replaces the original.

## 3. Runs

### Properties that hold

| Run | Question | Bounds |
|---|---|---|
| `crash` (DriveRun) | Volatile cache, lost writes, kills, power cuts, disconnects and resumes at every step: is any offset ahead of its findings, any finding dropped, any certified drive not zero, any step none of `Wipe`'s? | `Size` 3, chunk 2, so the last transfer is partial; 1 reconnect per pass; 2 write failures in a row; SMART absent |
| `graceful` (DriveRun) | If only the drive misbehaves: does every session end, and is one cut short left where `resume` takes it up? | `Size` 2, chunks 1 and 2, 1 reconnect per pass, 2 write failures in a row, SMART present: the guard pauses and aborts; fair |
| `thermal` (ThermalGuard) | Does the gate hold; are aborts for heat that lasted; do checkpoints carry the peak and count pauses that were pauses; does a worker paused for heat move again? | temperatures 45, 50, 55, 60 (the two thresholds of the gate, one between, the abort); abort after 2 polls; 2 chunks; pauses up to 2 polls; fair |
| `batch` (Supervisor) | At most `--jobs` children; every answer recorded, every drive run; locks outlive children; any step none of `Batch`'s; does a stopped batch end, also with a child that hangs? | 3 drives, one with the report of an earlier run, 2 jobs, 1 stop and a second interrupt after it, fair |
| `cert_pass` (Certificate) | Kills and resumes at every step, every command: is what a certificate says of passes, kernel log and extended test true, and does a FAIL stand? | 2 sessions, readings `ok`, `failing`, no USB resets, rechecks only of runs that are over |
| `cert_raise` (Certificate) | smartctl raising in phases 2, 6, 7 and every abnormal exit, with a rotating journal: does one certify? | 2 sessions, 1 USB reset, readings `ok`, `failing`, no self-test started by hand |
| `inst_pass` (Instances) | Two instances, every command, crashes: two at work on one drive? | 1 drive, 2 runs begun |
| `selftest` (SelfTest) | Whose result is the verdict; is the drive left at rest; what is recorded of a test cut short; does the call return? | a test of 2 steps, 1 poll to the deadline, 1 retry, a log of 1 entry, 1 hour, 1 test by hand; a bridge that loses states or hides the log; fair |
| `safety` (DeviceSafety) | Drives swapped, replugged, taken into use at every step: is any but the confirmed one written, or one in use? | 3 drives, one silent, one silent and mute, 2 bays, 2 runs, 4 moves, 1 use, `HandsOff` |
| `locators` (MCLocators) | Renamed drives, kills: is any line of the drive missed, any of another counted? | 2 drives, 2 ports, 2 names, 3 seconds, 2 lines, 2 plugs, 3 opens |
| `stored` (MCStoredRuns) | Two instances, bays, the older naming scheme: is any history replaced, split, mistaken? | 3 drives, 2 of them silent, 2 bays, 2 runs or resumes, 3 moves |

Two further configurations pass and are kept beside these:
`ThermalGuard_selftest.cfg` (types, and the poll loop of the extended self-test, where an abort
does stop the work: `AbortStopsTransfers`) and `Instances_ends.cfg` (two batches
that lock shared drives in either order both end, `EveryCommandEnds`, and lock as `DriveLock`
says, `LockSpec`).

Why the bounds are enough. In `DriveRun` what matters of a drive is a block
behind the offset, one at it and one ahead, a whole and a partial transfer, and a
chunk length that does not divide the offset; `Size` 3 with chunk 2 and `Size` 2
with chunks 1 and 2 have them all. One reconnect is taken and one is refused;
with two write failures one is tolerated and one ends the erase. The number of
sessions is not bounded. In `ThermalGuard` each comparison of the code is made
with a value on either side of it and, for `>=` and `<=`, on it; the clocks go
one beyond the limit. The thermal pause is told apart up to `MaxPause` polls,
which is one poll and more than one. In `Supervisor` three drives over two jobs give
a drive that waits for a slot that another frees; one drive has
the report of an earlier run (`Reported`), the others none; drives do not see each other's reports. In `Certificate` the second session is the
one in which the first one's leftovers matter; the theorems are of any number. (A third
session brings something new only with a kill and a recheck between two sessions:
`Certificate_killed_after.cfg` has three.) Commands are unbounded. Both runs leave out `worn`, and
`cert_pass` the resets: they decide between `PASS` and `CAUTION` only, and both
certified grades are treated alike. `cert_raise` leaves out the tests an operator starts
by hand (`ByHand`), which bear on `CertifiedTestFollowsWipe` only, a property of
`cert_pass`. In `Instances` two processes and two begun runs make an older and a
newer run of a drive.
In `SelfTest` a test of two steps has a percentage that changes and one that stays, one retry
is the code's default and is spent, and a log of one entry is at its limit with the first; a
second test by hand would start from the same states. In `DeviceSafety` four moves swap two
drives between two bays, or replace one by its twin and put it back. In `Locators`
three seconds tell before, at and after a stamp apart, two lines let one of the drive be next
to one of another, and three opens are a pass, its continuation after a reconnect or a kill,
and the second pass. In `StoredRuns` two runs are one that leaves something and one
that finds it, from any mix of directories of the older scheme; the same bounds with three
runs and two moves pass as well, in four minutes.
The theorems of section 5 remove the bounds for most of these properties.

`CHECK_DEADLOCK FALSE` is in every cfg because the systems stop: a reported run
has nothing to resume, a batch ends, bounds on sessions are reached.

### Fairness

- `DriveRun`: weak fairness of `Step`, what the child does by itself. A device call,
  smartctl and the wait for a device each have a timeout or the kernel's. The wait at the
  thermal gate has none (`_resume.wait()`), so `GateOpens` is not fair, and `SessionEnds`
  speaks of the behaviours in which no pause lasts for ever; `ThermalGuard_unreadable` shows
  one that does, `CooledWorkerMoves` says when it ends. What the
  drive, the operator or the host do (`Environment`) is never forced. The return of a
  vanished device is not fair: `GiveUpWaiting` is what ends the wait, after
  `reconnect_wait_s`.
- `ThermalGuard`: each of the two threads keeps running; temperatures,
  reconnects and signals are not forced.
- `Supervisor`: the parent's loop and the clock; a child that answered or was
  killed exits. A child that runs is not forced to do anything, it may hang in a
  read; that is what the grace period is for.
- `SelfTest`: weak fairness of `Host`, the caller's loop: its sleep ends, and every
  smartctl call has a timeout. Drive, guard and everybody else are never forced.
- `Instances`: each process goes on; nobody has to give a command. The locks
  are never waited for (`LOCK_NB`). That a session of a drive ends is assumed here; when it
  does is `DriveRun`'s matter.

### Where code and promise differ

Each configuration below checks sentences of `SPEC.md`, `README`, a comment or a message,
and TLC shows steps of the code that contradict them. One is a run of `PROJECT.json`,
where `findings` quotes the sentence and says which lines do it:

| Run | What happens |
|---|---|
| `rejected` | `resume` erases a drive that the gate rejected. |

The others are checked with `tlc -config X.cfg M`, M being the part of the name
before the first underscore (`MCLocators`, `MCStoredRuns` for the last two); the comment of the
definition each of them checks names its sentence. Where one names
several, each is violated; TLC stops at the first, leave it out to see the next.

| Configuration | What happens |
|---|---|
| `DriveRun_signal` | A signal during the erase ends the pass, not the phase: the stop is seen after `enter_phase` of the verify, and `resume` verifies a half-erased drive (which then reads back nonzero). One phase later the rest of the verify is never done. With a finding and `--stop-on-fail` the stop is not seen at all: FAIL instead of INCOMPLETE. |
| `DriveRun_kill_report` | A kill between phase 7 and the restored checkpoint leaves an unfinished erase at phase 7. A report that cannot be written (`EmitFaults = TRUE`, without the kill) leaves it at phase 8, where nothing resumes it. |
| `Certificate_killed_after` | The same window, seen from the certificate: resumed at phase 7, a run cut short in the extended test is certified. And a recheck, which "will not touch a drive that has since been re-erased or is mid-run", takes the older report of such a run: the next session erases and verifies again, and the certificate cites a test from before that. |
| `DriveRun_hot_test` | A thermal abort of the extended test is INCOMPLETE but not resumable. |
| `DriveRun_unflushed` | Killed before the fsync at the end of the erase, the verify starts without it. |
| `ThermalGuard_abort` | A thermal abort opens the gate and the pass continues to its end. |
| `ThermalGuard_unreadable` | A drive that stops reporting its temperature while paused is paused for ever. |
| `ThermalGuard_paused_stop` | A paused worker does not see the signal. |
| `ThermalGuard_pauses` | Pause time that continues to count after an abort, that is lost when a reading races with `stop()`, that a checkpoint lacks. |
| `Supervisor_stop` | The drive of a child that crashed is listed with an earlier run's grade, or with the child's own certificate if it came that far; a drive is started after the stop; a child is killed after the grace period without having been signalled. |
| `Certificate_untested` | A run left at the gate and resumed is a PASS without a short test; after a recheck a passed test is still reported as skipped. |
| `Certificate_after` | smartctl raising in phase 7 skips the kernel-log sweep, the report counts no events; and with the before-snapshot in the report, a test that ended during the erase is promoted. |
| `Certificate_rotated` | A rescan of a journal that kept only the run's end replaces recorded errors. |
| `Instances_files` | `run`, also in plan mode, saves fresh state over that of a run at work. A resume works on from a state it read before the lock. A recheck rewrites files of a drive that is being run. |
| `DeviceSafety_solid` | No caller of `evaluate` hands it smartctl's answer, so the refusal of solid state drives is never reached. |
| `DeviceSafety_queued_twin` | Without `HandsOff`: a silent drive that waits for its slot is swapped for another of its model, and that one is written. |
| `DeviceSafety_unlinked` | A drive that is back before udev has made its link ends the run in `guarded_open` instead of being gone on with. |
| `SelfTest_lost_log` | If `log_before` could not be read, and the log can be later, an old entry is the verdict. |
| `SelfTest_full_log` | In a full log of like entries with like hours a new one cannot be told. |
| `Locators_killed` | The epoch a kill left open is closed when the run opens the next one, a day later perhaps: another drive's lines in between count. |
| `StoredRuns_silent` | The checkpoint of a drive that shows no serial is started over by another such drive. |

Where such a behaviour would break a property that a passing run checks, the run's
constants exclude its cause and the configuration beside it has the excluded case:
`cert_pass` has no raising smartctl, no rotation and no recheck of a run that is not over
(`_after`, `_rotated`, `_killed_after`), `cert_raise` no kills (`_killed_after`), `graceful`
neither signals nor kills nor reports that cannot be written (`_signal`, `_kill_report`) and, in `SessionEnds`, no pause that never ends (`ThermalGuard_unreadable`), `crash` takes a length that is no multiple of the chunk
(`_unflushed`), `selftest` a bridge that hides the log always or never (`_lost_log`), and
`safety` has hands that leave silent drives alone between match and open
(`HandsOff`; `_queued_twin`). `OnlyOwnFaultsAreCounted` is of runs that were not killed (`_killed`),
`SilentReportIsKept` of reports and of directories no two instances used at once (`_silent`).
`LockCoversChild` names its one exception itself: a second interrupt leaves the parent by an exception (`parent = "fled"`) and unlocks a drive
its child may still write to.

## 4. Properties and what they mean

The main ones. *Certified* is PASS or CAUTION, what a buyer may be shown.

- `CertifiedDriveIsZero`: a certified drive reads back zero everywhere.
- `VerifiedPrefixIsAccounted`, `ErasedPrefixIsAccounted`: SPEC 9.1, an offset is never
  ahead of its findings, on disk, at every moment.
- `EvidenceIsKept`, `FailIsFinal`: a saved finding stays; a FAIL stays.
- `Promised`: all of this in one, as a refinement: the run does only what `Wipe` allows.
- `FlushedBeforeVerify`: no verify reads what a bridge may still lose.
- `InterruptedPassResumes`, `TruncatedFailSaysWhy`, `SessionEnds`: what is left of a session that did not finish, and that every one ends
  unless one pause never does.
- `PausedDriveRests`, `AbortIsSustained`, `PausesAreReal`,
  `PeakIsKept`, `CooledWorkerMoves`: the two threads. `AbortStopsTransfers` holds for
  the self-test and not for the passes.
- `AtMostJobs`, `ResultsAreTheChildrens`, `NoDriveIsForgotten`,
  `LockCoversChild`, `StopEnds`: the batch. `BatchPromised`: what its operator and its
  reader see of it, as a refinement of `Batch`.
- `CertificateIsWhole`, `KernelFaultsFail`, `CertifiedTestFollowsWipe`,
  `AbnormalExitIsIncomplete`, `FailStands`: the report against the drive, over
  sessions and commands.
- `OneWriterPerDrive`: the locks.
- `VerdictIsNew`, `StoppedDriveRests`, `CutShortIsNoVerdict`, `Returns`: a self-test's
  verdict is of a test that ended since it was asked for, a run that was stopped leaves no
  test of its own running, heat is not the drive's failure, and no drive hangs the call.
- `OnlyTheConfirmedIsWritten`, `OneRunOneDrive`, `InUseIsLeftAlone`,
  `TokenNamesTheDrives`: between the look and the write.
- `EpochsFollowOneAnother`, `OwnFaultsAreCounted`, `OnlyOwnFaultsAreCounted`: the
  kernel log's lines against whose they were.
- `HistoryIsKept`, `SilentReportIsKept`, `OneHistory`, `AskedIsAnswered`: the
  directories.

## 5. What is proved

TLAPS checks the theorems below for all values of the constants that satisfy the
named assumptions (`SizeAssumption`, `LimitsAssumption`, `ThermalAssumption`,
`SupervisorAssumption`, `CertificateAssumption`, `InstancesAssumption`, `SelfTestAssumption`,
`DeviceSafetyAssumption`, `LocatorsAssumption`, `StoredRunsAssumption`, which takes finitely
many drives and bays, and `NamesDiffer`: what output_dir_for composes is neither a serial
nor a by-id name): any drive size, chunk lengths, limits, drives, jobs, processes,
thresholds, retries. A hypothesis beyond these is written in the theorem's ASSUME, and a
configuration beside the runs shows what happens without it.

**`DriveRun_proofs`.** `TypeCorrect`; then `RunInvariant`, `Spec => []IInv`. The properties
speak of `ckpt` only and are not inductive: what the next checkpoint will say
is decided by memory, and what `Exit` will put back by `stoppedAt`. So `IInv`
says `Sound` of three drive states, `ckpt`, `mem` and `RestoredCheckpoint`;
`Sound` is that everything behind an offset or coverage flag is written or
recorded, verified or recorded. `ControlOK` ties `pc` to phase, cursor and
checkpoint, `VerdictOK` says a verdict is out of reach of `resume`, `EvidenceOK`
that memory has every finding the checkpoint has. The proof has one step per
action and one lemma per way a drive state changes (`SoundWrite`, `SoundRead`,
`SoundOpen`, `SoundLose`...). It gives `EraseIsAccounted`,
`EvidenceSurvives` and `VerdictStands` without further assumptions, and
`VerifyIsAccounted`, `CertificateIsTrue`, `CacheIsFlushed` and the refinement
`RunKeepsPromise` (`Spec => Promised`) under

    CacheIsCommitted == ~VolatileCache \/ \A c \in Chunks : Size % c # 0

that is, the bridge loses nothing it acknowledged, or no chunk length divides the
drive. That is not a convenience of the proof: without it `DriveRun_unflushed.cfg` gives a
counterexample of `FlushedBeforeVerify`. The refinement is by the same invariant: a step that
changes the surface is no verify's step, so it touches no accounted block; a step that
changes `state.json` adds to its findings (`EvidenceOK`) and what it newly accounts for is
clean or found (`Sound`).

`FailSaysWhy` and `CutPassResumes` are of sessions nobody stops or kills (`~Signals`,
`~Kills`), the second also of reports that can be written (`~EmitFaults`). Their invariant
`PassesOK` says of what is on disk between sessions, and during one of what `Exit` will put
back, that it is `Complete`: the passes before its phase went to the end of the device or
the drive has failed, a verify that did not says so itself (`Told`), and an offset at the
end of a phase is one the pass really reached. `SessionOK` adds what each place of
`run_drive` owes to that: a pass comes to `flush`, `closing` or `covered` only with its
whole range done or with the drive given up. Each hypothesis is needed: a signal breaks both
(`DriveRun_signal`), a kill the first conjunct of `Complete` (`DriveRun_kill_report`).

**`ThermalGuard_proofs`.** `TypeCorrect`, `PauseHolds`, `HeatLasted`, from
`overFor <= calm` (the guard counts no more heat than there was), and from what
an open gate and a worker past a closed one owe (`Rested`). `PausesCountOnce` and
`PeakSurvives` from `Books`, the accounts of a pass: what the run has absorbed, what the
guard has seen since and the pause still open add up to no more than the polls the gate was
closed (`Counted`), and the peak is the hotter of the run's and the guard's (`Peaked`), where a
guard that was absorbed counts no more (`Placed`, `Held`). Sums that are cut off at
`MaxPause` are the difficulty (`CappedSum`).

**`Supervisor_proofs`.** `TypeCorrect`, `JobsAreBounded`, `AnswersArrive`, `EveryDriveIsRun`,
`LocksOutliveChildren`, for every constant. `IInv`: every living child is registered or being
registered; the slots count the one being registered; an answer is on the queue until it is in
the results and only a child that is gone is recorded as dead; the loop ends with
every child buried and every answer read.

`BatchKeepsPromise` (`Spec => BatchPromised`, every constant) needs `ReportInv` beside
it: a report of this batch is its child's (`Owns`), which answers by it and may then be at any
place but its beginning, and the index is written once (`Unlisted`). The proof has one lemma
for the parent (`PromiseParent`), one for signals (`PromiseSignal`: `Tell` may kill
children at their beginning, which is `Batch!Stop` with those `lost`) and one for the
children. `Pop` is `Choose` because `IInv` counts slots, `Summarize` is itself because
`IInv` has every answer read by then.

The rest of the module is about the lock, in three steps. `OneOwner` (`LockSpec =>
[]OneWriterPerDrive`): a process works on what it holds, and what it holds is locked by nobody
else (`LockInv`). `CommandsLock` (`Root!Spec => LockSpec`): `Root`, an instance of `Instances`
with constants and variables of its own, takes and leaves locks as `DriveLock` says, for which
only `TodoInv` is needed, that what is yet to be locked are drives. Together they give
`OneWriter`, the property of `inst_pass`, for any number of instances, drives and commands;
`RootTypesCorrect` holds under the assumptions of `Instances`. `BatchLocks` closes the gap
between the two grains: an instance is one process to `Instances`, and a parent with
children to `Supervisor`. With

    held <- every drive, while locked and the parent or a child lives
    busy <- the drives of the living children

each step of a batch is one of such a process or a stutter: a child is forked under
the lock of its drive, and the lock is given up when no child lives, be it by the parent's
`finally` or, where the parent was killed, by the kernel after the last child. One step is
not, and the theorem names it (`Flees`), as `LockCoversChild` does: the unlocking after a second
interrupt, with children that may live. So two operators never write to one drive,
save after that.

**`Certificate_proofs`.** `TypeCorrect`, `WholeCertificate` (every constant),
`FailIsKept` (every constant), `KernelFaultsCount` (smartctl answers in phase 7, `~Rotates`:
otherwise `Certificate_after`, `_rotated`), `AbnormalExitCounts` (`~Kills`: otherwise
`Certificate_killed_after`), `TestFollowsWipe` (smartctl answers in phase 7, and `~Kills \/
~Midway`: otherwise `Certificate_after`, `_killed_after`). `IInv`: nothing survives a process; a report with no cut
flag is the last one, and goes on saying what the state says; every report is
graded by the rubric. `FaultInv`, `SweepInv` and `BrokenInv` relate the journal
and the exits to it. `OriginInv` is where a verdict of the extended test may come from: from a
session that came through both passes after the last erase (`Order`, `Owed`), or from a
recheck that dates the newest entry after hours which only a session past its passes
writes (`OldHours`, `Dating`). The step TLC refuted at first was the recheck of a killed
run's older report, which is why `Midway` is a constant of the model.

**`SelfTest_proofs`.** `TypeCorrect`; `StoppedTestEnds`, for every constant, from `RestInv`: after
the guard's abort a test of this run can only be the one whose `smartctl -t` was already on
its way, and the caller is then at the top of the loop, which stops it, or has raised.
`OnlyNewEntriesCount` and `CutShortCounts` if no single answer about the log is lost
(`"log" \notin Blips`: otherwise `SelfTest_lost_log`), from `LogInv`: until the drive logs
something the log looks as `log_before` did, so a log that looks different, and every
entry read after it, is of a drive that has logged since.

**`DeviceSafety_proofs`.** `TypeCorrect`, `LeftAlone`, `TokenBinds`; `RightDrive` and
`OneDrive` under

    HandsOff \/ Silent = {}

which `DeviceSafety_queued_twin.cfg` shows to be needed. `UseInv` carries what the open
descriptor is known not to be in use for; `OwnInv`, that a run has the identity of
its own drive from the selection on, that a descriptor which passed `CheckIdentity` is the
own drive's, and that a silent drive that is waited for does not leave.

**`Locators_proofs`.** `TypeCorrect`, `EpochsFollow`, `OwnCounted`, `OthersNotCounted`, for any
number of drives, names, ports, lines and seconds. `EpochInv`: only the last epoch may be open, it
is if a pass is, and it has the place of the drive the pass has. `OwnInv`: every line of the drive
that fell in a pass is covered by an epoch, by window and mark, at every moment and not only when
it is swept. `OthersInv`: a run that was not killed has no epoch open between its passes, so the
lines others have then are outside all of them.

**`StoredRuns_proofs`.** `TypeCorrect`, `HistoryStays`, `Unsplit`, `SilentStays`. `HomeInv`: a directory
and the instances at work in it belong to the drive of its name, to the one drive that left
it under the older scheme, or to the drives that show no serial. `OneInv`: where an old directory
is a drive's, the new one does not exist and nobody is on the way to it. `TrueInv` and `SoleInv`,
for the silent drives: files name the ATA serial of their owner, and an instance that joined
no other is alone in its directory. `AnswersAreRight` from the same invariants: what is told of
a stored run is told of its owner, so a serial is an alias of its drive's runs alone, and
two different owners under one bay's name are two hits, which select_runs refuses.

Types are proved (`TypeCorrect`) rather than listed in a run.

Every safety property that a passing run checks is proved. Only model-checked are the five
under fairness, `SessionEnds`, `CooledWorkerMoves`, `StopEnds`, `Returns`, `EveryCommandEnds`,
which are out of the prover's reach, and what the further configurations check
(`AbortStopsTransfers`). No module declares a RECURSIVE operator, and no result rests on an
induction over data.

## 6. What is not modelled

- The data of a drive beyond zero or not, `Range` merging and the caps on findings,
  throughput, 4K alignment; chunk sizes that are no multiple of a block.
- How a single eligibility rule finds its answer (sysfs, lsblk, mdstat, fstab, zpool, the
  holders of a stack): a drive is `claimed` or `configured`, which stands for all of them.
  Class, size and model of drives are alike, so the serial decides; the token's hash is taken
  to be injective. The choice among several by-id names, and names that carry a serial, which
  are the easy case, are left out.
- The parsing of smartctl's output and log pages; a self-test's `Readings` are classes. The
  wording by which the kernel log's lines are classified: a line that matches no pattern is
  not in `journal`. Faults in phase 6: no locator epoch covers it, in the code either.
- Masked serials are one value; two that were masked cannot be told apart.
- `multiprocessing.Queue` is atomic: its feeder thread and pipe are left out, and so
  is a child killed while it holds the queue's lock (listed as a hazard).
- Report rendering, listings, logs, exit codes, estimates, progress display,
  the systemd unit, the sample generator: no state the properties see.
- `DriveRun` and `Certificate` do not go through `DeviceSafety`: in them a session works on the right
  disk, or `Fault` ends it.
- Several drives in `DriveRun`: drives share nothing but the parent, which is
  `Supervisor`, and instances, which is `Instances`.
- Time, except in polls (`ThermalGuard`) and as "the grace period is over"
  (`Supervisor`).

## 7. Plan

Done, in this order: `DriveState`, `DriveRun` and proofs (the erase and its certificate),
`ThermalGuard`, `Supervisor`, `Certificate`, `Instances`; then `SelfTest`, `DeviceSafety`,
`Locators`, `StoredRuns`, with their proofs, `Wipe` and
`Batch` and the refinements, `DriveLock` between `Instances` and `Supervisor`. Cheaper runs made room
for later ones: they became the configurations beside the runs, or theorems.

Next:

1. What `DriveRun` and `Supervisor` say of one child as a module of its own that both
   refine: today `Supervisor`'s child (boots, reports, answers, dies) is `DriveRun`'s by reading.
2. Pure algorithms with a reference definition: `Range` merging with its cap, narrowing,
   chunk sizing, the leaf disks of a stack of mappings.
3. `StoredRuns` and `Instances` as one: what `report`, `print` and `recheck` find while a run
   of another instance is at work.

`Certificate` is not shown to implement `Wipe`: it has no surface, only what a pass says of
it, so the mapping would repeat its own definitions. What it adds to `DriveRun`, the sessions
and commands after the run, is stated by its own properties.
