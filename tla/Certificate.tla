------------------------------ MODULE Certificate ------------------------------
(***************************************************************************)
(* What a drive's grade rests on, and who may change it afterwards: phases *)
(* 1 and 2 before the gate, the sessions of phases 4 to 8 (one step per    *)
(* phase; DriveRun has their inside), `resume`, and the commands that      *)
(* rewrite a finished report: `recheck`, `report --rescan-kernel-log` and  *)
(* `report --operator-disconnect`.                                         *)
(*                                                                         *)
(* One run of one drive, nobody else at work on it (see Instances).  Every *)
(* phase ends in a forced checkpoint, so `state` is both memory and        *)
(* state.json; what a process keeps to itself is in `at`, `skip`, `cut`,   *)
(* `left`.                                                                 *)
(***************************************************************************)
EXTENDS Naturals

CONSTANTS
  MaxSessions,  (* bound: the run and its resumes                          *)
  MaxResets,    (* bound: USB resets in the kernel log                     *)
  Readings,     (* what SMART may say of the drive, before and after       *)
  Raises,       (* the phases in which smartctl may raise                  *)
  Kills,        (* a process may be killed, or the host lose power         *)
  Rotates,      (* the journal may lose lines of the run                   *)
  ByHand,       (* tests may be run by hand, or be left over               *)
  Midway        (* the operator rechecks a run that is not over, too       *)

ASSUME CertificateAssumption ==
  /\ {MaxSessions, MaxResets} \subseteq Nat
  /\ Readings \subseteq {"unavailable", "ok", "worn", "failing"}
  /\ Raises \subseteq {"short", "extended", "after"}
  /\ {Kills, Rotates, ByHand, Midway} \subseteq BOOLEAN

VARIABLES
  at,        (* the step a process is at; "idle" when there is none        *)
  skip,      (* disk.skip_erase                                            *)
  cut,       (* the flags that make the session's report INCOMPLETE        *)
  left,      (* stopped_at: the phase to put back, or NotLeft              *)
  state,     (* state.json                                                 *)
  report,    (* report.json                                                *)
  journal,   (* what the journal holds of the run                          *)
  entry,     (* the newest entry of the drive's self-test log              *)
  sessions,  (* how many there were                                        *)
  (* History:                                                              *)
  happened,  (* there was an I/O error during the run                      *)
  broken,    (* phases 4 to 6 were last left abnormally                    *)
  fresh      (* the extended test on record came after the last pass       *)

process == <<at, skip, cut, left>>
world   == <<journal, entry>>
history == <<happened, broken, fresh>>
vars    == <<process, state, report, world, sessions, history>>

Smarts   == {"none", "unavailable", "ok", "worn", "failing"}
Verdicts == {"passed", "failed"}
Tested   == Verdicts \cup {"inconclusive", "interrupted"}      \* run: true
Tests    == Tested \cup {"refused", "skipped", "unavailable",
                         "already_failed", "none"}
Flags    == {"interrupted", "disconnects", "aborted"}
Grades   == {"none", "PASS", "CAUTION", "FAIL", "INCOMPLETE"}

NotLeft == 0
Report8 == 8

States == [phase : 0..8, smart : Smarts, short : Tests, ext : Tests,
           skipped : BOOLEAN, erased : BOOLEAN, verified : BOOLEAN,
           bad : BOOLEAN]

(* hours: the snapshot whose power_on_hours the report shows.              *)
Reports == [smart : Smarts, hours : {"before", "after"}, short : Tests,
            ext : Tests, skipped : BOOLEAN, erased : BOOLEAN, verified : BOOLEAN,
            bad : BOOLEAN, faults : BOOLEAN, resets : 0..MaxResets,
            excused : 0..MaxResets, cut : SUBSET Flags, grade : Grades]

Journals == [faults : BOOLEAN, resets : 0..MaxResets, whole : BOOLEAN]

(* An entry's lifetime_hours against the hours of the before-snapshot and  *)
(* of the report; and whether the test really came after the last pass.    *)
Entries  == [verdict : Verdicts \cup {"unfinished", "none"},
             pastBefore : BOOLEAN, pastReport : BOOLEAN, pastWipe : BOOLEAN]

NoReport == [smart |-> "none", hours |-> "before", short |-> "none", ext |-> "none",
             skipped |-> FALSE, erased |-> FALSE, verified |-> FALSE,
             bad |-> FALSE, faults |-> FALSE, resets |-> 0, excused |-> 0,
             cut |-> {}, grade |-> "none"]

-----------------------------------------------------------------------------
(* grade.evaluate, on a report or on the probe of smart_gate.              *)

Incomplete(r) == r.cut # {} \/ r.ext = "interrupted"

(* A bug: the kernel log does not count.                                   *)
Bug_Failed(r) ==
  r.smart = "failing" \/ "failed" \in {r.short, r.ext} \/ r.bad

Failed(r) ==
  r.smart = "failing" \/ "failed" \in {r.short, r.ext} \/ r.bad \/ r.faults

(* Nothing found, but not everything looked at.                            *)
Limited(r) ==
  \/ r.smart \in {"none", "unavailable"}
  \/ r.skipped
  \/ \E test \in {r.short, r.ext} : test \in {"inconclusive", "refused"}
  \/ r.short = "interrupted"

Blemished(r) == r.smart = "worn" \/ r.resets > r.excused

(* A bug: a pass that was cut short counts as one that found nothing.      *)
Bug_Covered(r) == r.erased

Covered(r) == r.erased /\ r.verified

Grade(r) ==
  IF Incomplete(r) THEN "INCOMPLETE"
  ELSE IF Failed(r) THEN "FAIL"
  ELSE IF ~Covered(r) THEN "INCOMPLETE"
  ELSE IF Limited(r) \/ Blemished(r) THEN "CAUTION"
  ELSE "PASS"

Graded(r) == [r EXCEPT !.grade = Grade(r)]

-----------------------------------------------------------------------------
(* Phases 1 and 2, in the parent.                                          *)

(* The process ends; what it kept to itself is gone.                       *)
Gone == at' = "idle" /\ skip' = FALSE /\ cut' = {} /\ left' = NotLeft

SmartBefore ==
  /\ at = "smart"
  /\ \E smart \in Readings :
       state' = [state EXCEPT !.phase = 1, !.smart = smart]
  /\ at' = "gate"
  /\ UNCHANGED <<skip, cut, left, report, world, sessions, history>>

(* smart_gate, which may raise: then the short test decides.               *)
SmartGate ==
  /\ at = "gate"
  /\ \/ /\ state.smart = "failing"
        /\ skip' = TRUE
        /\ at' = "confirm"
     \/ /\ state.smart # "failing" \/ "short" \in Raises
        /\ at' = "short"
        /\ UNCHANGED skip
  /\ UNCHANGED <<cut, left, state, report, world, sessions, history>>

ShortTest ==
  /\ at = "short"
  /\ at' = "confirm"
  /\ \E short \in IF state.smart = "unavailable" THEN {"unavailable"}
                  ELSE Verdicts \cup {"inconclusive"} :
       /\ state' = [state EXCEPT !.phase = 2, !.short = short]
       /\ skip' = (short = "failed")
  /\ UNCHANGED <<cut, left, report, world, sessions, history>>

(* The exception is caught; the drive stays in the batch.                  *)
ShortTestRaises ==
  /\ at = "short"
  /\ "short" \in Raises /\ state.smart # "unavailable"
  /\ at' = "confirm"
  /\ state' = [state EXCEPT !.phase = 2]
  /\ UNCHANGED <<skip, cut, left, report, world, sessions, history>>

(* Plan mode, which ends after phase 1; a token that is not confirmed; an  *)
(* interrupt: state.json stays as it is.                                   *)
LeaveGate ==
  /\ at \in {"gate", "short", "confirm"}
  /\ Gone
  /\ UNCHANGED <<state, report, world, sessions, history>>

-----------------------------------------------------------------------------
(* Phases 4 to 8, in the child.                                            *)

Confirm ==
  /\ at = "confirm"
  /\ at' = IF skip THEN "report"
           ELSE IF state.phase <= 5 THEN "passes"
           ELSE IF state.phase = 6 THEN "extended" ELSE "after"
  /\ UNCHANGED <<skip, cut, left, state, report, world, sessions, history>>

(* The kernel logs what happens to the drive; sessions add up.             *)
Logged ==
  \E fault \in BOOLEAN, resets \in journal.resets..MaxResets :
    /\ journal' = [journal EXCEPT !.faults = @ \/ fault, !.resets = resets]
    /\ happened' = (happened \/ fault)

Wiped == fresh' = FALSE /\ entry' = [entry EXCEPT !.pastWipe = FALSE]

(* Erase and verify end: at the end of the drive, at what they found, or,  *)
(* with a signal during the verify, wherever they are.                     *)
Passes ==
  /\ at = "passes"
  /\ at' = "extended"
  /\ \E bad \in {state.bad, TRUE}, verified \in BOOLEAN :
       \E erased \in IF state.phase = 5 THEN {state.erased} ELSE {TRUE, ~bad} :
         /\ state' = [state EXCEPT !.phase = 5, !.bad = bad, !.erased = erased,
                                   !.verified = verified]
         /\ broken' = ~(erased /\ verified)
  /\ Logged
  /\ Wiped
  /\ UNCHANGED <<skip, cut, left, report, sessions>>

(* A bug: an exception that is none of the named ones sets no flag.        *)
Bug_OtherFlags == {}

(* What is neither a thermal abort nor too many disconnects, a signal or   *)
(* any exception, counts as interrupted.                                   *)
OtherFlags == {"interrupted"}

(* The handlers of run_drive.                                              *)
CutFlags == {{"aborted"}, {"disconnects"}, OtherFlags}

(* A signal, an abort or an exception in phase 4 or 5; a signal in phase 4 *)
(* is seen in phase 5.                                                     *)
PassesCut ==
  /\ at = "passes"
  /\ at' = "after"
  /\ \E phase \in {4, 5}, bad \in {state.bad, TRUE}, flags \in CutFlags :
       /\ phase >= state.phase
       /\ \E erased \in {state.erased, state.phase < phase} :
            state' = [state EXCEPT !.phase = phase, !.bad = bad,
                                   !.erased = erased, !.verified = FALSE]
       /\ left' = phase
       /\ cut' = flags
  /\ Logged
  /\ Wiped
  /\ broken' = TRUE
  /\ UNCHANGED <<skip, report, sessions>>

(* A test ends and tops the log.                                           *)
Logs(verdict) ==
  \E before \in BOOLEAN : \E later \in {FALSE, before} :
    entry' = [verdict |-> verdict, pastBefore |-> before, pastReport |-> later,
              pastWipe |-> TRUE]

Conclude(test) ==
  /\ state' = [state EXCEPT !.phase = 6, !.ext = test]
  /\ IF test \in Verdicts
     THEN fresh' = TRUE /\ Logs(test) ELSE UNCHANGED <<fresh, entry>>

ShortOfTheEnd == ~(state.erased /\ state.verified)

(* --skip-extended-test                                                    *)
SkipExtended ==
  /\ at = "extended"
  /\ at' = "after"
  /\ state' = [state EXCEPT !.phase = 6, !.ext = "skipped", !.skipped = TRUE]
  /\ broken' = ShortOfTheEnd
  /\ UNCHANGED <<skip, cut, left, report, world, sessions, happened, fresh>>

ExtendedTest ==
  /\ at = "extended"
  /\ at' = "after"
  /\ \/ state.smart = "unavailable" /\ Conclude("unavailable")
     \/ state.bad /\ Conclude("already_failed")      \* --stop-on-fail
     \/ /\ state.smart # "unavailable"
        /\ \E test \in Verdicts \cup {"inconclusive", "refused"} : Conclude(test)
  /\ broken' = ShortOfTheEnd
  /\ UNCHANGED <<skip, cut, left, report, journal, sessions, happened>>

(* The guard aborts: whatever is not a pass is inconclusive, and the run   *)
(* goes on to its end.                                                     *)
ExtendedTooHot ==
  /\ at = "extended" /\ state.smart # "unavailable"
  /\ at' = "after"
  /\ \E test \in {"passed", "inconclusive"} : Conclude(test)
  /\ cut' = {"aborted"}
  /\ broken' = TRUE
  /\ UNCHANGED <<skip, left, report, journal, sessions, happened>>

(* _check_stop raises whatever the test said; smartctl's own exceptions    *)
(* leave no result.                                                        *)
ExtendedCut ==
  /\ at = "extended" /\ state.smart # "unavailable"
  /\ at' = "after"
  /\ \/ \E test \in Tested \cup {"refused"} : Conclude(test)
     \/ /\ "extended" \in Raises
        /\ state' = [state EXCEPT !.phase = 6]
        /\ UNCHANGED <<fresh, entry>>
  /\ cut' = OtherFlags /\ left' = 6
  /\ broken' = TRUE
  /\ UNCHANGED <<skip, report, journal, sessions, happened>>

(* build_report, from the SMART data and the kernel events it is left with. *)
Built(smart, hours, faults, resets) ==
  Graded([smart |-> smart, hours |-> hours, short |-> state.short,
          ext |-> state.ext, skipped |-> state.skipped,
          erased |-> state.erased, verified |-> state.verified,
          bad |-> state.bad, faults |-> faults, resets |-> resets,
          excused |-> 0, cut |-> cut, grade |-> "none"])

(* Phase 8, and the checkpoint put back when the session was cut short.    *)
Emit(r) ==
  /\ report' = r
  /\ state' = [state EXCEPT !.phase = IF left = NotLeft THEN Report8 ELSE left]
  /\ entry' = [entry EXCEPT !.pastReport = r.hours = "before" /\ @]
  /\ Gone
  /\ UNCHANGED <<journal, sessions, history>>

(* Phase 7 checkpoints on its own; phase 8 follows.                        *)
SmartAfter ==
  /\ at = "after"
  /\ at' = "report"
  /\ state' = [state EXCEPT !.phase = 7]
  /\ UNCHANGED <<skip, cut, left, report, world, sessions, history>>

(* A rejected drive is reported without phase 7.                           *)
ReportRejected ==
  /\ at = "report" /\ skip
  /\ Emit(Built(state.smart, "before", FALSE, 0))

ReportRun ==
  /\ at = "report" /\ ~skip
  /\ \E smart \in IF state.smart = "unavailable" THEN {"unavailable"}
                  ELSE Readings \cup {"unavailable"} :
       Emit(Built(smart, "after", journal.faults, journal.resets))

(* refresh raises before the kernel log is swept: the before-snapshot      *)
(* stands in, and the counts are those of an empty KernelEvents.           *)
ReportUnswept ==
  /\ at = "report" /\ ~skip
  /\ "after" \in Raises /\ state.smart # "unavailable"
  /\ Emit(Built(state.smart, "before", FALSE, 0))

Killed ==
  /\ Kills /\ at # "idle"
  /\ Gone
  /\ broken' = (broken \/ at \in {"passes", "extended"})
  /\ UNCHANGED <<state, report, world, sessions, happened, fresh>>

(* find_resumable; the gate is passed again, phases 1 and 2 are not.       *)
Resume ==
  /\ at = "idle" /\ state.phase < Report8
  /\ sessions < MaxSessions
  /\ sessions' = sessions + 1
  /\ at' = "confirm"
  /\ UNCHANGED <<skip, cut, left, state, report, world, history>>

-----------------------------------------------------------------------------
(* Commands on the finished report.                                        *)

HasReport == at = "idle" /\ report.grade # "none"

(* A bug: a recorded verdict may be replaced.                              *)
Bug_Recheckable(r) ==
  r.ext \in {"inconclusive", "interrupted", "skipped", "none", "failed"}

Recheckable(r) == r.ext \in {"inconclusive", "interrupted", "skipped", "none"}

(* A bug: the hours of the before-snapshot date the entry.                 *)
Bug_Dated(r) == r.smart \notin {"none", "unavailable"} /\ entry.pastBefore

(* "cannot date the self-test", "it predates this erase".                  *)
Dated(r) ==
  /\ r.smart \notin {"none", "unavailable"}
  /\ IF r.hours = "after" THEN entry.pastReport ELSE entry.pastBefore

Recheck ==
  /\ HasReport
  /\ Midway \/ state.phase = Report8
  /\ entry.verdict # "none"
  /\ Recheckable(report) /\ Dated(report)
  /\ LET test == IF entry.verdict = "unfinished" THEN "inconclusive"
                 ELSE entry.verdict
     IN /\ report' = Graded([report EXCEPT !.ext = test])
        /\ state' = [state EXCEPT !.ext = test]
  /\ fresh' = (entry.verdict \in Verdicts /\ entry.pastWipe)
  /\ UNCHANGED <<process, world, sessions, happened, broken>>

(* A bug: more may be excused than was recorded.                           *)
Bug_Excusable(r) == 0..(r.resets + 1)

Excusable(r) == 0..r.resets

(* report --operator-disconnect                                            *)
Excuse ==
  /\ HasReport
  /\ \E count \in Excusable(report) :
       report' = Graded([report EXCEPT !.excused = count])
  /\ UNCHANGED <<process, state, world, sessions, history>>

(* report --rescan-kernel-log: an empty sweep counts only while the        *)
(* journal still covers the run.                                           *)
Rescan ==
  /\ HasReport
  /\ journal.faults \/ journal.resets > 0 \/ journal.whole
  /\ report' = Graded([report EXCEPT !.faults = journal.faults,
                                     !.resets = journal.resets])
  /\ UNCHANGED <<process, state, world, sessions, history>>

-----------------------------------------------------------------------------
(* The world.                                                              *)

(* A test the drive was left with, or one started by hand, ends while the  *)
(* passes run, or with no process there.                                   *)
DriveTests ==
  /\ ByHand
  /\ at \in {"idle", "passes"}
  /\ \E verdict \in Verdicts \cup {"unfinished"} : Logs(verdict)
  /\ UNCHANGED <<process, state, report, journal, sessions, history>>

Rotate ==
  /\ Rotates
  /\ \E faults \in {FALSE, journal.faults}, resets \in 0..journal.resets :
       journal' = [faults |-> faults, resets |-> resets, whole |-> FALSE]
  /\ UNCHANGED <<process, state, report, entry, sessions, history>>

-----------------------------------------------------------------------------
Init ==
  /\ at = "smart" /\ skip = FALSE /\ cut = {} /\ left = NotLeft
  /\ state = [phase |-> 0, smart |-> "none", short |-> "none",
              ext |-> "none", skipped |-> FALSE, erased |-> FALSE,
              verified |-> FALSE, bad |-> FALSE]
  /\ report = NoReport
  /\ journal = [faults |-> FALSE, resets |-> 0, whole |-> TRUE]
  /\ entry = [verdict |-> "none", pastBefore |-> FALSE, pastReport |-> FALSE,
              pastWipe |-> FALSE]
  /\ sessions = 1
  /\ happened = FALSE /\ broken = FALSE /\ fresh = FALSE

PreGate  == SmartBefore \/ SmartGate \/ ShortTest \/ ShortTestRaises \/ LeaveGate
Session  == Confirm \/ Passes \/ PassesCut \/ SkipExtended \/ ExtendedTest
            \/ ExtendedTooHot \/ ExtendedCut \/ SmartAfter \/ ReportRejected
            \/ ReportRun \/ ReportUnswept \/ Killed \/ Resume
Commands == Recheck \/ Excuse \/ Rescan

Next == PreGate \/ Session \/ Commands \/ DriveTests \/ Rotate

Spec == Init /\ [][Next]_vars

-----------------------------------------------------------------------------
TypeOK ==
  /\ at \in {"idle", "smart", "gate", "short", "confirm", "passes", "extended",
            "after", "report"}
  /\ {skip, happened, broken, fresh} \subseteq BOOLEAN
  /\ cut \subseteq Flags /\ left \in {NotLeft, 4, 5, 6}
  /\ state \in States /\ report \in Reports
  /\ journal \in Journals /\ entry \in Entries
  /\ sessions \in Nat

Certified == report.grade \in {"PASS", "CAUTION"}

(* "Any abnormal exit from phases 4-6 is incomplete" (SPEC 10.2): a drive  *)
(* whose run last left them before their end is not graded PASS or         *)
(* CAUTION, whatever way it left (run_drive's handlers, grade.evaluate).   *)
AbnormalExitIsIncomplete == broken => ~Certified

(* "Any kernel-log I/O error or medium error for this device during the    *)
(* run" fails it (SPEC 10.2), across resumes, rechecks and excuses.        *)
KernelFaultsFail == happened => ~Certified

(* "No PASS above an erase block saying verification never finished": the  *)
(* drive behind a certificate was covered by both passes, without a        *)
(* finding, whichever session or command wrote the report.                 *)
CertificateIsWhole ==
  Certified => state.erased /\ state.verified /\ ~state.bad

(* The test a certificate reports began after the passes it speaks for:    *)
(* "an old self-test from before the erase" is never promoted (cmd_recheck).*)
CertifiedTestFollowsWipe ==
  Certified /\ report.ext = "passed" => fresh

(* No command softens a FAIL, while the journal still covers the run.      *)
FailStands ==
  [][at = "idle" /\ journal.whole /\ report.grade = "FAIL"
       => report'.grade = "FAIL"]_vars

(* The same, whatever the journal has lost: cmd_report's rescan "keeps its *)
(* existing counts rather than gaining a fresh set of zeros".              *)
FailStandsRotated ==
  [][at = "idle" /\ report.grade = "FAIL" => report'.grade = "FAIL"]_vars

(* A drive whose self-tests were not run is no PASS (SPEC 10.2).           *)
PassIsTested ==
  report.grade = "PASS" => report.short = "passed" /\ report.ext = "passed"

(* A report does not call skipped a test whose verdict it has: the         *)
(* operator "should get the real outcome" (cmd_recheck).                   *)
SkippedIsUntested == report.skipped => report.ext \notin Verdicts
=============================================================================
