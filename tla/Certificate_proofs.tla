--------------------------- MODULE Certificate_proofs ---------------------------
(***************************************************************************)
(* What a certificate rests on, for any number of sessions and USB resets. *)
(***************************************************************************)
EXTENDS Certificate, TLAPS

(* Before the end, a process still knows its flags.                        *)
Concluding == {"after", "report"}

(* A report of a run that was not cut short: the last one.                 *)
Final == report.grade # "none" /\ report.cut = {}

(* The process: nothing survives it, a phase to put back means a flag, and *)
(* a drive the gate rejected goes straight to its report.                  *)
ProcessInv ==
  /\ at = "idle" => cut = {} /\ left = NotLeft
  /\ left # NotLeft => cut # {}
  /\ at \notin Concluding => left = NotLeft
  /\ skip => at \in {"confirm", "report"}

(* The report: graded by the rubric; and once it is final, no session      *)
(* follows, so it goes on saying what the state says.                      *)
ReportInv ==
  /\ report.grade # "none" => report.grade = Grade(report)
  /\ Final => /\ at = "idle" /\ state.phase = Report8
              /\ report.erased = state.erased
              /\ report.verified = state.verified
              /\ report.bad = state.bad

IInv == TypeOK /\ ProcessInv /\ ReportInv

(* The kernel log, while it loses nothing and every sweep is made.         *)
FaultInv ==
  /\ happened => journal.faults
  /\ happened => at \notin {"smart", "gate", "short"} /\ ~skip
  /\ happened /\ Final => report.faults

(* The kernel log against the report, as long as it is whole.              *)
SweepInv == journal.whole /\ report.faults => journal.faults

(* Abnormal exits, while nothing is killed.                                *)
BrokenInv ==
  /\ broken => at \notin {"smart", "gate", "short"} /\ ~skip
  /\ at = "idle" => state.phase # 7
  /\ at \notin Concluding \cup {"idle"} => state.phase < 7
  /\ broken /\ at \in Concluding /\ cut = {} => ShortOfTheEnd
  /\ broken /\ Final => ShortOfTheEnd
-----------------------------------------------------------------------------
(* Grading a report changes its grade and nothing else.                    *)
LEMMA GradedType ==
  ASSUME NEW r \in Reports
  PROVE  /\ Graded(r) \in Reports
         /\ Graded(r).grade = Grade(r) /\ Grade(r) # "none"
         /\ Grade(Graded(r)) = Grade(r)
         /\ \A f \in DOMAIN r \ {"grade"} : Graded(r)[f] = r[f]
         /\ DOMAIN r = DOMAIN Graded(r)
<1>1. Grade(r) \in Grades \ {"none"}
  BY DEF Grade, Grades
<1>2. /\ Graded(r) \in Reports
      /\ Graded(r).grade = Grade(r)
      /\ \A f \in DOMAIN r \ {"grade"} : Graded(r)[f] = r[f]
      /\ DOMAIN r = DOMAIN Graded(r)
  BY <1>1 DEF Graded, Reports
<1>3. Grade(Graded(r)) = Grade(r)
  BY DEF Graded, Grade, Reports, Incomplete, Failed, Covered, Limited, Blemished
<1> QED BY <1>1, <1>2, <1>3

(* What build_report hands over.                                           *)
LEMMA BuiltType ==
  ASSUME TypeOK, NEW smart \in Smarts, NEW hours \in {"before", "after"},
         NEW faults \in BOOLEAN, NEW resets \in 0..MaxResets
  PROVE  LET r == Built(smart, hours, faults, resets)
         IN /\ r \in Reports
            /\ r.grade = Grade(r) /\ r.grade # "none"
            /\ r.cut = cut /\ r.hours = hours /\ r.faults = faults
            /\ r.erased = state.erased /\ r.verified = state.verified
            /\ r.bad = state.bad /\ r.ext = state.ext
<1> DEFINE r0 == [smart |-> smart, hours |-> hours, short |-> state.short,
                  ext |-> state.ext, skipped |-> state.skipped,
                  erased |-> state.erased, verified |-> state.verified,
                  bad |-> state.bad, faults |-> faults, resets |-> resets,
                  excused |-> 0, cut |-> cut, grade |-> "none"]
<1>1. r0 \in Reports
  BY CertificateAssumption DEF TypeOK, Reports, States, Grades
<1>2. Built(smart, hours, faults, resets) = Graded(r0)
  BY DEF Built
<1>3. DOMAIN r0 \ {"grade"} = {"smart", "hours", "short", "ext", "skipped",
        "erased", "verified", "bad", "faults", "resets", "excused", "cut"}
  OBVIOUS
<1> HIDE DEF r0
<1>4. /\ Graded(r0) \in Reports
      /\ Graded(r0).grade = Grade(Graded(r0)) /\ Graded(r0).grade # "none"
      /\ Graded(r0).cut = r0.cut /\ Graded(r0).hours = r0.hours
      /\ Graded(r0).faults = r0.faults /\ Graded(r0).erased = r0.erased
      /\ Graded(r0).verified = r0.verified /\ Graded(r0).bad = r0.bad
      /\ Graded(r0).ext = r0.ext
  BY <1>1, <1>3, GradedType
<1> QED BY <1>2, <1>4 DEF r0
-----------------------------------------------------------------------------
(* A report that a command rewrites keeps its grade in step with itself.   *)
LEMMA Regraded ==
  ASSUME NEW r \in Reports, report' = Graded(r)
  PROVE  /\ report' \in Reports /\ report'.grade = Grade(report')
         /\ report'.grade # "none"
         /\ report'.cut = r.cut /\ report'.faults = r.faults
         /\ report'.erased = r.erased /\ report'.verified = r.verified
         /\ report'.bad = r.bad /\ report'.ext = r.ext
         /\ report'.smart = r.smart /\ report'.short = r.short
         /\ report'.hours = r.hours
<1>1. DOMAIN r \ {"grade"} = {"smart", "hours", "short", "ext", "skipped",
        "erased", "verified", "bad", "faults", "resets", "excused", "cut"}
  BY DEF Reports
<1> QED BY <1>1, GradedType

LEMMA InvariantInit == Init => IInv
<1> SUFFICES ASSUME Init PROVE IInv
  OBVIOUS
<1>1. state \in States
  BY DEF Init, States, Smarts, Tests
<1>2. report \in Reports
  BY CertificateAssumption DEF Init, NoReport, Reports, Smarts, Tests, Flags, Grades
<1>3. journal \in Journals /\ entry \in Entries
  BY CertificateAssumption DEF Init, Journals, Entries
<1>4. TypeOK
  BY <1>1, <1>2, <1>3 DEF Init, TypeOK, NotLeft
<1>5. ProcessInv /\ ReportInv
  BY DEF Init, ProcessInv, ReportInv, Final, Concluding, NoReport
<1> QED BY <1>4, <1>5 DEF IInv

(* A process at work has no final report behind it, and while it writes    *)
(* none only its own steps matter.                                         *)
LEMMA ProcessStep ==
  ASSUME IInv, at # "idle", report' = report,
         state' \in States, journal' \in Journals, entry' \in Entries,
         at' \in {"idle", "smart", "gate", "short", "confirm", "passes",
                  "extended", "after", "report"},
         {skip', happened', broken', fresh'} \subseteq BOOLEAN,
         cut' \subseteq Flags, left' \in {NotLeft, 4, 5, 6}, sessions' = sessions,
         ProcessInv'
  PROVE  IInv'
<1>1. TypeOK'
  BY DEF IInv, TypeOK
<1>2. ReportInv'
  BY DEF IInv, ReportInv, Final
<1> QED BY <1>1, <1>2 DEF IInv

(* A phase 8 leaves a report, and nothing else of the process.             *)
LEMMA EmitStep ==
  ASSUME IInv, at = "report",
         NEW smart \in Smarts, NEW hours \in {"before", "after"},
         NEW faults \in BOOLEAN, NEW resets \in 0..MaxResets,
         Emit(Built(smart, hours, faults, resets))
  PROVE  /\ IInv'
         /\ report'.faults = faults /\ report'.cut = cut
         /\ report'.hours = hours /\ report'.ext = state.ext
         /\ state'.erased = state.erased /\ state'.verified = state.verified
         /\ state'.ext = state.ext
<1> DEFINE r == Built(smart, hours, faults, resets)
<1>1. /\ r \in Reports
      /\ r.grade = Grade(r) /\ r.grade # "none"
      /\ r.cut = cut /\ r.hours = hours /\ r.faults = faults
      /\ r.erased = state.erased /\ r.verified = state.verified
      /\ r.bad = state.bad /\ r.ext = state.ext
  BY BuiltType DEF IInv
<1> HIDE DEF r
<1>2. /\ report' = r
      /\ state' = [state EXCEPT !.phase = IF left = NotLeft THEN Report8 ELSE left]
      /\ entry' = [entry EXCEPT !.pastReport = r.hours = "before" /\ @]
      /\ Gone
      /\ UNCHANGED <<journal, sessions, history>>
  BY DEF r, Emit
<1>3. state' \in States /\ entry' \in Entries
  <2>1. state' \in States
    BY <1>2 DEF IInv, TypeOK, States, NotLeft, Report8
  <2>2. \E b \in BOOLEAN : entry' = [entry EXCEPT !.pastReport = b]
    BY <1>2
  <2> QED BY <2>1, <2>2 DEF IInv, TypeOK, Entries
<1>4. TypeOK'
  BY <1>1, <1>2, <1>3 DEF IInv, TypeOK, Gone, NotLeft, history
<1>5. ProcessInv'
  BY <1>2 DEF Gone, ProcessInv
<1>6. ReportInv'
  BY <1>1, <1>2 DEF IInv, TypeOK, ProcessInv, ReportInv, Final, Gone, States, Report8
<1> QED BY <1>1, <1>2, <1>4, <1>5, <1>6 DEF IInv, TypeOK, States

(* A command rewrites the report of a drive that is idle.                  *)
LEMMA CommandStep ==
  ASSUME IInv, HasReport, NEW r \in Reports, report' = Graded(r),
         r.cut = report.cut, r.erased = report.erased,
         r.verified = report.verified, r.bad = report.bad,
         NEW test \in Tests, state' \in {state, [state EXCEPT !.ext = test]},
         UNCHANGED <<process, world, sessions, happened, broken>>,
         fresh' \in BOOLEAN
  PROVE  IInv'
<1>1. TypeOK'
  BY Regraded DEF IInv, TypeOK, process, world, States
<1>2. ProcessInv'
  BY DEF IInv, ProcessInv, process, Concluding
<1>3. ReportInv'
  BY Regraded DEF IInv, TypeOK, ReportInv, Final, HasReport, process, States
<1> QED BY <1>1, <1>2, <1>3 DEF IInv

(* What the commands leave as it was.                                      *)
LEMMA RecheckIs ==
  ASSUME IInv, Recheck
  PROVE  /\ report' \in Reports /\ report'.grade = Grade(report')
         /\ report'.cut = report.cut /\ report'.faults = report.faults
         /\ report'.hours = report.hours /\ report'.grade # "none"
         /\ report'.bad = report.bad /\ report'.smart = report.smart
         /\ report'.short = report.short
         /\ report.ext # "failed" /\ report'.ext # "interrupted"
         /\ UNCHANGED <<state.erased, state.verified>>
<1>1. PICK test \in Tests \ {"interrupted"} :
        /\ report' = Graded([report EXCEPT !.ext = test])
        /\ state' = [state EXCEPT !.ext = test]
  <2>1. entry.verdict \in Verdicts \cup {"unfinished", "none"}
    BY DEF IInv, TypeOK, Entries
  <2> QED BY <2>1 DEF Recheck, Tests, Tested, Verdicts
<1>2. [report EXCEPT !.ext = test] \in Reports /\ report \in Reports
  BY DEF IInv, TypeOK, Reports
<1>3. report.ext # "failed"
  BY DEF Recheck, Recheckable
<1>4. UNCHANGED <<state.erased, state.verified>>
  BY <1>1 DEF IInv, TypeOK, States
<1> QED BY <1>1, <1>2, <1>3, <1>4, Regraded DEF Reports

LEMMA ExcuseIs ==
  ASSUME IInv, Excuse
  PROVE  /\ report' \in Reports /\ report'.grade = Grade(report')
         /\ report'.cut = report.cut /\ report'.faults = report.faults
         /\ report'.hours = report.hours /\ report'.grade # "none"
         /\ report'.bad = report.bad /\ report'.smart = report.smart
         /\ report'.short = report.short /\ report'.ext = report.ext
<1>1. PICK count \in 0..report.resets :
        report' = Graded([report EXCEPT !.excused = count])
  BY DEF Excuse, Excusable
<1>2. [report EXCEPT !.excused = count] \in Reports /\ report \in Reports
  BY <1>1, CertificateAssumption DEF IInv, TypeOK, Reports
<1> QED BY <1>1, <1>2, Regraded DEF Reports

LEMMA RescanIs ==
  ASSUME IInv, Rescan
  PROVE  /\ report' \in Reports /\ report'.grade = Grade(report')
         /\ report'.cut = report.cut /\ report'.faults = journal.faults
         /\ report'.hours = report.hours /\ report'.grade # "none"
         /\ report'.bad = report.bad /\ report'.smart = report.smart
         /\ report'.short = report.short /\ report'.ext = report.ext
<1> DEFINE r == [report EXCEPT !.faults = journal.faults, !.resets = journal.resets]
<1>1. r \in Reports /\ report \in Reports
  BY DEF IInv, TypeOK, Reports, Journals
<1>2. report' = Graded(r)
  BY DEF Rescan
<1> QED BY <1>1, <1>2, Regraded DEF Reports

(* One checkpoint: a phase, and what the phase found.                      *)
LEMMA Phased ==
  ASSUME NEW s \in States, NEW p \in {1, 2, 4, 5, 6},
         NEW t, t = [s EXCEPT !.phase = p]
  PROVE  t \in States
<1>1. p \in 0..8
  OBVIOUS
<1> QED BY <1>1 DEF States

LEMMA NewEntry ==
  ASSUME NEW verdict \in Verdicts \cup {"unfinished"}, Logs(verdict)
  PROVE  entry' \in Entries
<1>1. PICK before \in BOOLEAN, later \in BOOLEAN :
        entry' = [verdict |-> verdict, pastBefore |-> before, pastReport |-> later,
                  pastWipe |-> TRUE]
  BY DEF Logs
<1> QED BY <1>1 DEF Entries, Verdicts

LEMMA InvariantStep == IInv /\ [Next]_vars => IInv'
<1> SUFFICES ASSUME IInv, [Next]_vars PROVE IInv'
  OBVIOUS
<1> USE DEF NotLeft, Report8
<1>t. state \in States /\ skip \in BOOLEAN
  BY DEF IInv, TypeOK
<1>1. CASE PreGate
  <2>1. CASE SmartBefore
    <3>1. PICK smart \in Smarts : state' = [state EXCEPT !.phase = 1, !.smart = smart]
      BY <2>1, CertificateAssumption DEF SmartBefore, Smarts
    <3>a. [state EXCEPT !.smart = smart] \in States
      BY <1>t DEF States
    <3>b. state' = [[state EXCEPT !.smart = smart] EXCEPT !.phase = 1]
      BY <3>1, <1>t DEF States
    <3>s. state' \in States
      BY <3>a, <3>b, Phased, Zenon
    <3>2. ProcessInv'
      BY <2>1 DEF SmartBefore, IInv, ProcessInv, Concluding
    <3> QED BY <2>1, <3>s, <3>2, ProcessStep DEF SmartBefore, IInv, TypeOK, world, history
  <2>2. CASE SmartGate
    <3>1. ProcessInv' /\ skip' \in BOOLEAN /\ at' \in {"confirm", "short"}
      <4>1. CASE skip' = TRUE /\ at' = "confirm" /\ UNCHANGED <<cut, left>>
        BY <2>2, <4>1 DEF SmartGate, IInv, ProcessInv, Concluding
      <4>2. CASE at' = "short" /\ UNCHANGED <<skip, cut, left>>
        BY <2>2, <4>2, <1>t DEF SmartGate, IInv, ProcessInv, Concluding
      <4> QED BY <2>2, <4>1, <4>2 DEF SmartGate
    <3> QED BY <2>2, <3>1, ProcessStep DEF SmartGate, IInv, TypeOK, world, history
  <2>3. CASE ShortTest
    <3>1. PICK short \in Tests : /\ state' = [state EXCEPT !.phase = 2, !.short = short]
                                 /\ skip' = (short = "failed")
      BY <2>3 DEF ShortTest, Tests, Tested, Verdicts
    <3>a. [state EXCEPT !.short = short] \in States
      BY <1>t DEF States
    <3>b. state' = [[state EXCEPT !.short = short] EXCEPT !.phase = 2]
      BY <3>1, <1>t DEF States
    <3>2. state' \in States
      BY <3>a, <3>b, Phased, Zenon
    <3>3. ProcessInv' /\ skip' \in BOOLEAN
      BY <2>3, <3>1 DEF ShortTest, IInv, ProcessInv, Concluding
    <3> QED BY <2>3, <3>2, <3>3, ProcessStep DEF ShortTest, IInv, TypeOK, world, history
  <2>4. CASE ShortTestRaises
    <3>1. state' \in States
      BY <2>4 DEF ShortTestRaises, IInv, TypeOK, States
    <3>2. ProcessInv'
      BY <2>4 DEF ShortTestRaises, IInv, ProcessInv, Concluding
    <3> QED BY <2>4, <3>1, <3>2, ProcessStep
            DEF ShortTestRaises, IInv, TypeOK, world, history
  <2>5. CASE LeaveGate
    <3>1. ProcessInv'
      BY <2>5 DEF LeaveGate, Gone, IInv, ProcessInv, Concluding
    <3> QED BY <2>5, <3>1, ProcessStep DEF LeaveGate, Gone, IInv, TypeOK, world, history
  <2> QED BY <1>1, <2>1, <2>2, <2>3, <2>4, <2>5 DEF PreGate
<1>2. CASE Session
  <2>1. CASE Confirm
    <3>1. ProcessInv' /\ at' \in {"report", "passes", "extended", "after"}
      BY <2>1 DEF Confirm, IInv, ProcessInv, Concluding
    <3> QED BY <2>1, <3>1, ProcessStep DEF Confirm, IInv, TypeOK, world, history
  <2>2. ASSUME Logged PROVE journal' \in Journals /\ happened' \in BOOLEAN
    <3>1. PICK fault \in BOOLEAN, resets \in journal.resets..MaxResets :
            /\ journal' = [journal EXCEPT !.faults = @ \/ fault, !.resets = resets]
            /\ happened' = (happened \/ fault)
      BY <2>2 DEF Logged
    <3>2. \E b \in BOOLEAN : journal' = [journal EXCEPT !.faults = b, !.resets = resets]
      BY <3>1
    <3>3. resets \in 0..MaxResets
      BY CertificateAssumption DEF IInv, TypeOK, Journals
    <3> QED BY <3>1, <3>2, <3>3 DEF IInv, TypeOK, Journals
  <2>3. ASSUME Wiped PROVE entry' \in Entries /\ fresh' \in BOOLEAN
    BY <2>3 DEF Wiped, IInv, TypeOK, Entries
  <2>4. CASE Passes
    <3>1. PICK bad \in BOOLEAN, verified \in BOOLEAN, erased \in BOOLEAN :
            /\ state' = [state EXCEPT !.phase = 5, !.bad = bad, !.erased = erased,
                                      !.verified = verified]
            /\ broken' = ~(erased /\ verified)
      BY <2>4, <1>t DEF Passes, States
    <3> DEFINE s == [state EXCEPT !.bad = bad, !.erased = erased, !.verified = verified]
    <3>a. s \in States
      BY <1>t DEF States
    <3>b. state' = [s EXCEPT !.phase = 5]
      BY <3>1, <1>t DEF States
    <3>2. state' \in States /\ broken' \in BOOLEAN
      BY <3>1, <3>a, <3>b, Phased
    <3>3. ProcessInv'
      BY <2>4 DEF Passes, IInv, ProcessInv, Concluding
    <3> QED BY <2>2, <2>3, <2>4, <3>2, <3>3, ProcessStep DEF Passes, IInv, TypeOK
  <2>5. CASE PassesCut
    <3>1. PICK phase \in {4, 5}, bad \in BOOLEAN, erased \in BOOLEAN :
            /\ state' = [state EXCEPT !.phase = phase, !.bad = bad,
                                      !.erased = erased, !.verified = FALSE]
            /\ left' = phase /\ cut' \in CutFlags
      <4>1. PICK phase \in {4, 5}, bad \in {state.bad, TRUE} :
              /\ \E erased \in {state.erased, state.phase < phase} :
                   state' = [state EXCEPT !.phase = phase, !.bad = bad,
                                          !.erased = erased, !.verified = FALSE]
              /\ left' = phase /\ cut' \in CutFlags
        BY <2>5 DEF PassesCut
      <4>2. {state.bad, TRUE, state.erased, state.phase < phase} \subseteq BOOLEAN
        BY <1>t DEF States
      <4> QED BY <4>1, <4>2
    <3> DEFINE s == [state EXCEPT !.bad = bad, !.erased = erased, !.verified = FALSE]
    <3>a. s \in States
      BY <1>t DEF States
    <3>b. state' = [s EXCEPT !.phase = phase]
      BY <3>1, <1>t DEF States
    <3>2. state' \in States
      BY <3>a, <3>b, Phased, Zenon
    <3>3. cut' \subseteq Flags /\ cut' # {}
      BY <3>1 DEF CutFlags, OtherFlags, Flags
    <3>4. ProcessInv'
      BY <2>5, <3>3 DEF PassesCut, IInv, ProcessInv, Concluding
    <3> QED BY <2>2, <2>3, <2>5, <3>1, <3>2, <3>3, <3>4, ProcessStep
            DEF PassesCut, IInv, TypeOK
  <2>6. ASSUME NEW test \in Tests, Conclude(test)
        PROVE  /\ state' \in States /\ entry' \in Entries /\ fresh' \in BOOLEAN
    <3>a. [state EXCEPT !.ext = test] \in States
      BY <1>t DEF States
    <3>b. state' = [[state EXCEPT !.ext = test] EXCEPT !.phase = 6]
      BY <2>6, <1>t DEF Conclude, States
    <3>1. state' \in States
      BY <3>a, <3>b, Phased, Zenon
    <3>2. entry' \in Entries /\ fresh' \in BOOLEAN
      BY <2>6, NewEntry DEF Conclude, IInv, TypeOK
    <3> QED BY <3>1, <3>2
  <2>7. ASSUME state' \in States, entry' \in Entries, fresh' \in BOOLEAN,
               broken' \in BOOLEAN, at = "extended", at' = "after",
               cut' \subseteq Flags, left' \in {NotLeft, 6}, left' # NotLeft => cut' # {},
               UNCHANGED <<skip, report, journal, sessions, happened>>
        PROVE  IInv'
    <3>1. ProcessInv'
      BY <2>7 DEF IInv, ProcessInv, Concluding
    <3> QED BY <2>7, <3>1, ProcessStep DEF IInv, TypeOK
  <2>8. (left = NotLeft /\ cut \subseteq Flags) \/ at \in Concluding
    BY DEF IInv, TypeOK, ProcessInv
  <2>9. CASE SkipExtended
    <3>a. [state EXCEPT !.ext = "skipped", !.skipped = TRUE] \in States
      BY <1>t DEF States, Tests
    <3>b. state' = [[state EXCEPT !.ext = "skipped", !.skipped = TRUE] EXCEPT !.phase = 6]
      BY <2>9, <1>t DEF SkipExtended, States
    <3>1. state' \in States
      BY <3>a, <3>b, Phased, Zenon
    <3> QED BY <2>7, <2>8, <2>9, <3>1 DEF SkipExtended, ShortOfTheEnd, IInv, TypeOK,
                                          world, Concluding
  <2>10. CASE ExtendedTest
    <3>1. /\ state' \in States /\ entry' \in Entries /\ fresh' \in BOOLEAN
      BY <2>6, <2>10 DEF ExtendedTest, Tests, Tested, Verdicts
    <3> QED BY <2>7, <2>8, <2>10, <3>1 DEF ExtendedTest, ShortOfTheEnd, Concluding
  <2>11. CASE ExtendedTooHot
    <3>1. /\ state' \in States /\ entry' \in Entries /\ fresh' \in BOOLEAN
      BY <2>6, <2>11 DEF ExtendedTooHot, Tests, Tested, Verdicts
    <3> QED BY <2>7, <2>8, <2>11, <3>1 DEF ExtendedTooHot, Flags, Concluding
  <2>12. CASE ExtendedCut
    <3>1. /\ state' \in States /\ entry' \in Entries /\ fresh' \in BOOLEAN
      <4>1. CASE \E test \in Tested \cup {"refused"} : Conclude(test)
        BY <2>6, <4>1 DEF Tests, Tested, Verdicts
      <4>2. CASE state' = [state EXCEPT !.phase = 6] /\ UNCHANGED <<fresh, entry>>
        BY <4>2 DEF IInv, TypeOK, States
      <4> QED BY <2>12, <4>1, <4>2 DEF ExtendedCut
    <3> QED BY <2>7, <2>12, <3>1 DEF ExtendedCut, OtherFlags, Flags
  <2>13. CASE SmartAfter
    BY <2>13 DEF SmartAfter, IInv, TypeOK, ProcessInv, ReportInv, Final, Concluding,
                States, world, history
  <2>14. CASE ReportRejected
    <3>1. state.smart \in Smarts /\ 0 \in 0..MaxResets
      BY CertificateAssumption DEF IInv, TypeOK, States
    <3> QED BY <2>14, <3>1, EmitStep DEF ReportRejected
  <2>15. CASE ReportRun
    <3>1. journal.faults \in BOOLEAN /\ journal.resets \in 0..MaxResets
      BY DEF IInv, TypeOK, Journals
    <3>2. PICK smart \in Smarts :
            Emit(Built(smart, "after", journal.faults, journal.resets))
      BY <2>15, CertificateAssumption DEF ReportRun, Smarts
    <3> QED BY <2>15, <3>1, <3>2, EmitStep DEF ReportRun
  <2>16. CASE ReportUnswept
    <3>1. state.smart \in Smarts /\ 0 \in 0..MaxResets
      BY CertificateAssumption DEF IInv, TypeOK, States
    <3> QED BY <2>16, <3>1, EmitStep DEF ReportUnswept
  <2>17. CASE Killed
    BY <2>17 DEF Killed, Gone, IInv, TypeOK, ProcessInv, ReportInv, Final,
                 Concluding, world
  <2>18. CASE Resume
    BY <2>18 DEF Resume, IInv, TypeOK, ProcessInv, ReportInv, Final, Concluding,
                 world, history
  <2> QED BY <1>2, <2>1, <2>4, <2>5, <2>9, <2>10, <2>11, <2>12, <2>13, <2>14, <2>15,
             <2>16, <2>17, <2>18 DEF Session
<1>3. CASE Commands
  <2>1. CASE Recheck
    <3>1. PICK test \in Tests :
            /\ report' = Graded([report EXCEPT !.ext = test])
            /\ state' = [state EXCEPT !.ext = test]
      <4>1. entry.verdict \in Verdicts \cup {"unfinished", "none"}
        BY DEF IInv, TypeOK, Entries
      <4> QED BY <2>1, <4>1 DEF Recheck, Tests, Tested, Verdicts
    <3>2. [report EXCEPT !.ext = test] \in Reports
      BY DEF IInv, TypeOK, Reports
    <3>3. report \in Reports /\ fresh' \in BOOLEAN
      BY <2>1 DEF Recheck, IInv, TypeOK
    <3> QED BY <2>1, <3>1, <3>2, <3>3, CommandStep DEF Recheck, Reports
  <2>2. CASE Excuse
    <3>1. PICK count \in 0..report.resets :
            report' = Graded([report EXCEPT !.excused = count])
      BY <2>2 DEF Excuse, Excusable
    <3>2. [report EXCEPT !.excused = count] \in Reports
      BY <3>1, CertificateAssumption DEF IInv, TypeOK, Reports
    <3>3. report \in Reports /\ fresh' \in BOOLEAN /\ "none" \in Tests
      BY <2>2 DEF Excuse, history, IInv, TypeOK, Tests
    <3> QED BY <2>2, <3>1, <3>2, <3>3, CommandStep DEF Excuse, Reports, history
  <2>3. CASE Rescan
    <3> DEFINE r == [report EXCEPT !.faults = journal.faults,
                                   !.resets = journal.resets]
    <3>1. r \in Reports
      BY DEF IInv, TypeOK, Reports, Journals
    <3>2. report \in Reports /\ fresh' \in BOOLEAN /\ "none" \in Tests
      BY <2>3 DEF Rescan, history, IInv, TypeOK, Tests
    <3> QED BY <2>3, <3>1, <3>2, CommandStep DEF Rescan, Reports, history
  <2> QED BY <1>3, <2>1, <2>2, <2>3 DEF Commands
<1>4. CASE DriveTests
  <2>1. entry' \in Entries
    BY <1>4, NewEntry DEF DriveTests, Verdicts
  <2> QED BY <1>4, <2>1 DEF DriveTests, process, history, IInv, TypeOK, ProcessInv,
                            ReportInv, Final, Concluding
<1>5. CASE Rotate
  <2>1. PICK faults \in BOOLEAN, resets \in 0..journal.resets :
          journal' = [faults |-> faults, resets |-> resets, whole |-> FALSE]
    BY <1>5 DEF Rotate, IInv, TypeOK, Journals
  <2>2. journal' \in Journals
    BY <2>1, CertificateAssumption DEF IInv, TypeOK, Journals
  <2> QED BY <1>5, <2>2 DEF Rotate, process, history, IInv, TypeOK, ProcessInv,
                            ReportInv, Final, Concluding
<1>6. CASE UNCHANGED vars
  BY <1>6 DEF vars, process, world, history, IInv, TypeOK, ProcessInv, ReportInv,
              Final, Concluding
<1> QED BY <1>1, <1>2, <1>3, <1>4, <1>5, <1>6 DEF Next

LEMMA Invariance == Spec => []IInv
BY InvariantInit, InvariantStep, PTL DEF Spec

(* The type invariant of the module.                                       *)
THEOREM TypeCorrect == Spec => []TypeOK
<1>1. IInv => TypeOK
  BY DEF IInv
<1> QED BY Invariance, <1>1, PTL

(* The drive behind a certificate was covered by both passes without a     *)
(* finding: run_drive puts back the checkpoint of whatever was cut short,  *)
(* so no session comes after a report that may be one.                     *)
THEOREM WholeCertificate == Spec => []CertificateIsWhole
<1>1. IInv => CertificateIsWhole
  BY DEF IInv, TypeOK, ReportInv, Final, CertificateIsWhole, Certified, Reports,
         Grade, Incomplete, Failed, Covered
<1> QED BY Invariance, <1>1, PTL
-----------------------------------------------------------------------------
(* The steps that leave the report, the journal and the history alone.     *)
Quiet == UNCHANGED <<report, journal, happened>>

LEMMA FaultStep ==
  ASSUME "after" \notin Raises, ~Rotates, IInv, FaultInv, [Next]_vars
  PROVE  FaultInv'
<1>1. ASSUME Quiet, at # "idle" => ~Final,
             happened => at' \notin {"smart", "gate", "short"} /\ ~skip'
      PROVE  FaultInv'
  BY <1>1 DEF Quiet, FaultInv, Final
<1>2. at # "idle" => ~Final
  BY DEF IInv, ReportInv
<1>3. ASSUME Logged, at \in {"passes"}, at' \in {"extended", "after"},
             UNCHANGED <<skip, report>>
      PROVE  FaultInv'
  <2>1. PICK fault \in BOOLEAN, resets \in journal.resets..MaxResets :
          /\ journal' = [journal EXCEPT !.faults = @ \/ fault, !.resets = resets]
          /\ happened' = (happened \/ fault)
    BY <1>3 DEF Logged
  <2>2. journal'.faults = (journal.faults \/ fault)
    BY <2>1 DEF IInv, TypeOK, Journals
  <2> QED BY <1>2, <1>3, <2>1, <2>2 DEF FaultInv, Final, IInv, ProcessInv
<1>4. CASE PreGate
  BY <1>1, <1>2, <1>4 DEF PreGate, SmartBefore, SmartGate, ShortTest, ShortTestRaises,
     LeaveGate, Gone, Quiet, FaultInv, world, history
<1>5. CASE Session
  <2>1. CASE Passes
    BY <1>3, <2>1 DEF Passes
  <2>2. CASE PassesCut
    BY <1>3, <2>2 DEF PassesCut
  <2>3. CASE ReportRejected
    <3>1. ~happened /\ happened' = happened /\ journal' = journal
      BY <2>3 DEF ReportRejected, Emit, FaultInv, history
    <3> QED BY <3>1 DEF FaultInv
  <2>4. CASE ReportRun
    <3>1. PICK smart \in Smarts :
            Emit(Built(smart, "after", journal.faults, journal.resets))
      BY <2>4, CertificateAssumption DEF ReportRun, Smarts
    <3>2. report'.faults = journal.faults
      BY <2>4, <3>1, EmitStep DEF ReportRun, IInv, TypeOK, Journals
    <3> QED BY <3>1, <3>2 DEF Emit, Gone, history, FaultInv
  <2>5. CASE ReportUnswept
    BY <2>5 DEF ReportUnswept
  <2>6. CASE \/ Confirm \/ SkipExtended \/ SmartAfter \/ Resume \/ Killed
             \/ ExtendedTest \/ ExtendedTooHot \/ ExtendedCut
    BY <1>1, <1>2, <2>6 DEF Confirm, SkipExtended, SmartAfter, Resume, Killed, Gone,
       ExtendedTest, ExtendedTooHot, ExtendedCut, Quiet, FaultInv, world, history
  <2> QED BY <1>5, <2>1, <2>2, <2>3, <2>4, <2>5, <2>6 DEF Session
<1>6. CASE Commands
  <2>1. HasReport /\ UNCHANGED <<process, journal, happened>>
    BY <1>6 DEF Commands, Recheck, Excuse, Rescan, world, history
  <2>2. /\ report'.cut = report.cut
        /\ report'.faults \in {report.faults, journal.faults}
    <3>1. CASE Recheck
      BY <3>1, RecheckIs
    <3>2. CASE Excuse
      BY <3>2, ExcuseIs
    <3>3. CASE Rescan
      BY <3>3, RescanIs
    <3> QED BY <1>6, <3>1, <3>2, <3>3 DEF Commands
  <2> QED BY <2>1, <2>2 DEF HasReport, process, FaultInv, Final
<1>7. CASE DriveTests \/ Rotate \/ UNCHANGED vars
  BY <1>1, <1>2, <1>7 DEF DriveTests, Rotate, Quiet, FaultInv, vars, process, history, world
<1> QED BY <1>4, <1>5, <1>6, <1>7 DEF Next

(* While smartctl answers in phase 7 and the journal loses nothing, no     *)
(* resume, recheck or excuse turns a kernel-log error into a certificate.  *)
THEOREM KernelFaultsCount ==
  ASSUME "after" \notin Raises, ~Rotates
  PROVE  Spec => []KernelFaultsFail
<1>1. Init => FaultInv
  BY DEF Init, FaultInv, Final, NoReport
<1>2. IInv /\ FaultInv => KernelFaultsFail
  BY DEF IInv, ReportInv, FaultInv, Final, KernelFaultsFail, Certified, Grade,
         Incomplete, Failed
<1> QED BY <1>1, <1>2, FaultStep, Invariance, PTL DEF Spec
-----------------------------------------------------------------------------
LEMMA SweepStep ==
  ASSUME IInv, SweepInv, [Next]_vars
  PROVE  SweepInv'
<1>1. ASSUME UNCHANGED <<report, journal>> PROVE SweepInv'
  BY <1>1 DEF SweepInv
<1>2. ASSUME Logged, report' = report PROVE SweepInv'
  <2>1. PICK fault \in BOOLEAN, resets \in journal.resets..MaxResets :
          journal' = [journal EXCEPT !.faults = @ \/ fault, !.resets = resets]
    BY <1>2 DEF Logged
  <2>2. journal'.faults = (journal.faults \/ fault) /\ journal'.whole = journal.whole
    BY <2>1 DEF IInv, TypeOK, Journals
  <2> QED BY <1>2, <2>2 DEF SweepInv
<1>3. ASSUME at = "report", NEW smart \in Smarts, NEW hours \in {"before", "after"},
             NEW faults \in {FALSE, journal.faults}, NEW resets \in 0..MaxResets,
             Emit(Built(smart, hours, faults, resets))
      PROVE  SweepInv'
  <2>1. report'.faults = faults
    <3>1. faults \in BOOLEAN
      BY <1>3 DEF IInv, TypeOK, Journals
    <3> QED BY <1>3, <3>1, EmitStep
  <2> QED BY <1>3, <2>1 DEF Emit, SweepInv
<1>4. /\ state.smart \in Smarts /\ 0 \in 0..MaxResets
      /\ journal.resets \in 0..MaxResets /\ Readings \cup {"unavailable"} \subseteq Smarts
  BY CertificateAssumption DEF IInv, TypeOK, States, Journals, Smarts
<1>5. CASE PreGate
  BY <1>1, <1>5 DEF PreGate, SmartBefore, SmartGate, ShortTest, ShortTestRaises,
     LeaveGate, world
<1>6. CASE Session
  <2>1. CASE Passes \/ PassesCut
    BY <1>2, <2>1 DEF Passes, PassesCut
  <2>2. CASE ReportRejected
    BY <1>3, <1>4, <2>2 DEF ReportRejected
  <2>3. CASE ReportRun
    BY <1>3, <1>4, <2>3 DEF ReportRun
  <2>4. CASE ReportUnswept
    BY <1>3, <1>4, <2>4 DEF ReportUnswept
  <2>5. CASE \/ Confirm \/ SkipExtended \/ SmartAfter \/ Resume \/ Killed
             \/ ExtendedTest \/ ExtendedTooHot \/ ExtendedCut
    BY <1>1, <2>5 DEF Confirm, SkipExtended, SmartAfter, Resume, Killed, ExtendedTest,
       ExtendedTooHot, ExtendedCut, world
  <2> QED BY <1>6, <2>1, <2>2, <2>3, <2>4, <2>5 DEF Session
<1>7. CASE Commands
  <2>1. journal' = journal
    BY <1>7 DEF Commands, Recheck, Excuse, Rescan, world
  <2>2. report'.faults \in {report.faults, journal.faults}
    BY <1>7, RecheckIs, ExcuseIs, RescanIs DEF Commands
  <2> QED BY <2>1, <2>2 DEF SweepInv
<1>8. CASE DriveTests \/ UNCHANGED vars
  BY <1>1, <1>8 DEF DriveTests, vars, world
<1>9. CASE Rotate
  BY <1>9 DEF Rotate, SweepInv
<1> QED BY <1>5, <1>6, <1>7, <1>8, <1>9 DEF Next

(* What a command may change without softening a FAIL.                     *)
LEMMA FailKept ==
  ASSUME IInv, report.grade = "FAIL", report'.grade = Grade(report'),
         report'.cut = report.cut, report'.bad = report.bad,
         report'.smart = report.smart, report'.short = report.short,
         report.faults => report'.faults, report'.ext # "interrupted",
         report.ext = "failed" => report'.ext = "failed"
  PROVE  report'.grade = "FAIL"
<1>1. ~Incomplete(report) /\ Failed(report)
  BY DEF IInv, ReportInv, Grade
<1>2. ~Incomplete(report') /\ Failed(report')
  BY <1>1 DEF Incomplete, Failed
<1> QED BY <1>2 DEF Grade

(* No sequence of commands softens a FAIL while the journal is whole: not  *)
(* recheck, which leaves a recorded verdict alone, not an excuse, and not  *)
(* a rescan, which finds again what the run's own sweep found.             *)
THEOREM FailIsKept == Spec => FailStands
<1>1. Init => SweepInv
  BY DEF Init, SweepInv, NoReport
<1>2. IInv /\ SweepInv /\ [Next]_vars
        => [at = "idle" /\ journal.whole /\ report.grade = "FAIL"
              => report'.grade = "FAIL"]_vars
  <2> SUFFICES ASSUME IInv, SweepInv, [Next]_vars, at = "idle", journal.whole,
                      report.grade = "FAIL"
               PROVE  report'.grade = "FAIL"
    OBVIOUS
  <2>1. ~Incomplete(report)
    BY DEF IInv, ReportInv, Grade
  <2>2. CASE Recheck
    BY <2>2, RecheckIs, FailKept
  <2>3. CASE Excuse
    BY <2>1, <2>3, ExcuseIs, FailKept DEF Incomplete
  <2>4. CASE Rescan
    BY <2>1, <2>4, RescanIs, FailKept DEF Incomplete, SweepInv
  <2>5. CASE PreGate \/ DriveTests \/ Rotate \/ UNCHANGED vars
    BY <2>5 DEF PreGate, SmartBefore, SmartGate, ShortTest, ShortTestRaises, LeaveGate,
                DriveTests, Rotate, vars
  <2>6. CASE Session
    BY <2>6 DEF Session, Confirm, Passes, PassesCut, SkipExtended, ExtendedTest,
                ExtendedTooHot, ExtendedCut, SmartAfter, ReportRejected, ReportRun,
                ReportUnswept, Killed, Resume
  <2> QED BY <2>2, <2>3, <2>4, <2>5, <2>6 DEF Next, Commands
<1> QED BY <1>1, <1>2, SweepStep, Invariance, PTL DEF Spec, FailStands

-----------------------------------------------------------------------------
LEMMA BrokenStep ==
  ASSUME ~Kills, IInv, BrokenInv, [Next]_vars
  PROVE  BrokenInv'
<1>1. (at # "idle" => ~Final) /\ (skip => at \in {"confirm", "report"})
  BY DEF IInv, ReportInv, ProcessInv
<1>0. state.phase \in 0..8
  BY DEF IInv, TypeOK, States
<1>2. CASE PreGate
  <2>1. state'.phase < 7
    <3>1. state \in States /\ state.phase < 7
      BY <1>2 DEF PreGate, SmartBefore, SmartGate, ShortTest, ShortTestRaises,
                  LeaveGate, BrokenInv, Concluding, IInv, TypeOK
    <3>2. CASE SmartBefore
      BY <3>1, <3>2 DEF SmartBefore, States
    <3>3. CASE ShortTest
      <4>1. PICK short : state' = [state EXCEPT !.phase = 2, !.short = short]
        BY <3>3 DEF ShortTest
      <4>2. state'.phase = 2
        BY <3>1, <4>1 DEF States
      <4> QED BY <4>2
    <3>5. CASE ShortTestRaises
      BY <3>1, <3>5 DEF ShortTestRaises, States
    <3>4. CASE SmartGate \/ LeaveGate
      BY <3>1, <3>4 DEF SmartGate, LeaveGate
    <3> QED BY <1>2, <3>2, <3>3, <3>4, <3>5 DEF PreGate
  <2>2. CASE SmartBefore \/ SmartGate \/ ShortTest \/ ShortTestRaises
    <3>1. ~broken /\ broken' = broken /\ at' \notin Concluding \cup {"idle"}
      BY <2>2 DEF SmartBefore, SmartGate, ShortTest, ShortTestRaises, history, BrokenInv,
                  Concluding
    <3> QED BY <2>1, <3>1 DEF BrokenInv
  <2>3. CASE LeaveGate
    BY <1>1, <2>1, <2>3 DEF LeaveGate, Gone, BrokenInv, Concluding, Final, history
  <2> QED BY <1>2, <2>2, <2>3 DEF PreGate
<1>3. CASE Session
  <2>1. CASE Confirm
    BY <1>0, <1>1, <2>1 DEF Confirm, BrokenInv, Concluding, Final, history
  <2>2. CASE Passes
    <3>1. state'.phase < 7
      BY <2>2 DEF Passes, IInv, TypeOK, States
    <3> QED BY <1>1, <2>2, <3>1 DEF Passes, BrokenInv, Concluding, Final
  <2>3. CASE PassesCut
    <3>1. cut' # {}
      BY <2>3 DEF PassesCut, CutFlags, OtherFlags
    <3> QED BY <1>1, <2>3, <3>1 DEF PassesCut, BrokenInv, Concluding, Final
  <2>4. CASE SkipExtended \/ ExtendedTest
    <3>1. UNCHANGED <<state.erased, state.verified>>
      BY <2>4 DEF SkipExtended, ExtendedTest, Conclude, IInv, TypeOK, States
    <3>2. /\ at = "extended" /\ at' = "after" /\ broken' = ShortOfTheEnd
          /\ UNCHANGED <<skip, report>>
      BY <2>4 DEF SkipExtended, ExtendedTest
    <3>3. broken' => ShortOfTheEnd'
      BY <3>1, <3>2 DEF ShortOfTheEnd
    <3> QED BY <1>1, <3>2, <3>3 DEF BrokenInv, Concluding, Final
  <2>5. CASE ExtendedTooHot \/ ExtendedCut
    BY <1>1, <2>5 DEF ExtendedTooHot, ExtendedCut, OtherFlags, BrokenInv, Concluding,
                      Final
  <2>6. CASE SmartAfter
    <3>1. UNCHANGED <<state.erased, state.verified>>
      BY <2>6 DEF SmartAfter, IInv, TypeOK, States
    <3> QED BY <1>1, <2>6, <3>1 DEF SmartAfter, ShortOfTheEnd, BrokenInv, Concluding,
                                    Final, history
  <2>7. ASSUME at = "report", NEW smart \in Smarts, NEW hours \in {"before", "after"},
               NEW faults \in BOOLEAN, NEW resets \in 0..MaxResets,
               Emit(Built(smart, hours, faults, resets))
        PROVE  BrokenInv'
    <3>1. /\ report'.cut = cut
          /\ state'.erased = state.erased /\ state'.verified = state.verified
      BY <2>7, EmitStep
    <3>2. state'.phase # 7
      BY <2>7 DEF Emit, IInv, TypeOK, States, NotLeft, Report8
    <3> QED BY <2>7, <3>1, <3>2 DEF Emit, Gone, history, ShortOfTheEnd, BrokenInv,
                                    Concluding, Final
  <2>8. /\ state.smart \in Smarts /\ 0 \in 0..MaxResets /\ journal.faults \in BOOLEAN
        /\ journal.resets \in 0..MaxResets /\ Readings \cup {"unavailable"} \subseteq Smarts
    BY CertificateAssumption DEF IInv, TypeOK, States, Journals, Smarts
  <2>9. CASE ReportRejected
    BY <2>7, <2>8, <2>9 DEF ReportRejected
  <2>10. CASE ReportRun
    BY <2>7, <2>8, <2>10 DEF ReportRun
  <2>11. CASE ReportUnswept
    BY <2>7, <2>8, <2>11 DEF ReportUnswept
  <2>12. CASE Resume
    <3>1. ~Final /\ state.phase < 7
      BY <1>0, <2>12 DEF Resume, IInv, ReportInv, BrokenInv, Report8
    <3> QED BY <2>12, <3>1 DEF Resume, BrokenInv, Concluding, Final, history
  <2>13. CASE Killed
    BY <2>13 DEF Killed
  <2> QED BY <1>3, <2>1, <2>2, <2>3, <2>4, <2>5, <2>6, <2>9, <2>10, <2>11, <2>12, <2>13
          DEF Session
<1>4. CASE Commands
  <2>1. /\ HasReport /\ UNCHANGED <<process, broken>>
        /\ UNCHANGED <<state.phase, state.erased, state.verified>>
    BY <1>4 DEF Commands, Recheck, Excuse, Rescan, history, IInv, TypeOK, States
  <2>2. report'.cut = report.cut
    BY <1>4, RecheckIs, ExcuseIs, RescanIs DEF Commands
  <2> QED BY <2>1, <2>2 DEF HasReport, process, ShortOfTheEnd, BrokenInv, Concluding,
                            Final
<1>5. CASE DriveTests \/ Rotate \/ UNCHANGED vars
  BY <1>5 DEF DriveTests, Rotate, vars, process, history, BrokenInv, Concluding, Final,
              ShortOfTheEnd
<1> QED BY <1>2, <1>3, <1>4, <1>5 DEF Next

(* While nothing is killed, no drive that left phases 4 to 6 before their  *)
(* end is certified, whatever smartctl raises and whoever resumes it.      *)
THEOREM AbnormalExitCounts ==
  ASSUME ~Kills
  PROVE  Spec => []AbnormalExitIsIncomplete
<1>1. Init => BrokenInv
  BY DEF Init, BrokenInv, Final, NoReport
<1>2. IInv /\ BrokenInv => AbnormalExitIsIncomplete
  BY DEF IInv, ReportInv, BrokenInv, Final, ShortOfTheEnd, AbnormalExitIsIncomplete,
         Certified, Grade, Incomplete, Covered
<1> QED BY <1>1, <1>2, BrokenStep, Invariance, PTL DEF Spec

-----------------------------------------------------------------------------
(* Where a passed extended test on record may be older than the last pass: *)
(* while the run is still on its way to the test, or its report is going   *)
(* to say that it was cut short, or the drive was never erased.            *)
Stale == state.ext = "passed" /\ ~fresh

AtGate == at \in {"smart", "gate", "short"} => state.ext = "none" /\ ~state.erased

Rejected == skip => ~state.erased /\ left = NotLeft /\ state.ext = "none"

(* A report with the hours of the before-snapshot is a rejected drive's.   *)
OldHours ==
  report.grade # "none" /\ report.hours = "before"
    => at = "idle" /\ state.phase = Report8 /\ ~state.erased

(* No pass comes after the test, unless a recheck put one on record.       *)
Order ==
  /\ at # "idle" => state.phase < Report8
  /\ at = "passes" => state.phase <= 5
  /\ ~Midway => /\ state.ext # "none" => state.phase >= 6
                /\ left \in {4, 5} => state.ext = "none"

Owed ==
  Stale =>
    /\ ~Midway => at = "idle" /\ state.phase = Report8
    /\ \/ at \in {"passes", "extended"}
       \/ at \in Concluding /\ left # NotLeft
       \/ at \in {"idle", "confirm"} /\ state.phase <= 6
       \/ at = "idle" /\ ~state.erased

(* What the log gained since the report was written, it gained after the   *)
(* last pass.                                                              *)
Dating ==
  at = "idle" /\ state.phase = Report8 /\ report.hours = "after"
    => (entry.pastReport => entry.pastWipe)

Same == Final => report.ext = state.ext

(* Unless the run was killed, a session leaves its phase put back.         *)
PutBack == Kills \/ (at = "idle" => state.phase # 7)

OriginInv == AtGate /\ Rejected /\ OldHours /\ Order /\ Owed /\ Dating /\ Same

LEMMA OriginInit == Init => OriginInv
BY DEF Init, NoReport, OriginInv, AtGate, Rejected, OldHours, Order, Owed, Stale,
       Dating, Same, Final, NotLeft, Report8, Concluding

(* The phases of the state, and what the commands may not touch.           *)
LEMMA OriginGate ==
  ASSUME IInv, OriginInv, PreGate
  PROVE  OriginInv'
<1>1. /\ at \in {"smart", "gate", "short", "confirm"}
      /\ at' \in {"gate", "short", "confirm", "idle"}
      /\ at' # "idle" => at # "confirm"
      /\ left' = NotLeft /\ UNCHANGED <<report, entry, fresh>>
  <2>1. CASE SmartBefore
    BY <2>1 DEF SmartBefore, world, history, IInv, ProcessInv, Concluding
  <2>2. CASE SmartGate
    BY <2>2 DEF SmartGate, world, history, IInv, ProcessInv, Concluding
  <2>3. CASE ShortTest
    BY <2>3 DEF ShortTest, world, history, IInv, ProcessInv, Concluding
  <2>4. CASE ShortTestRaises
    BY <2>4 DEF ShortTestRaises, world, history, IInv, ProcessInv, Concluding
  <2>5. CASE LeaveGate
    BY <2>5 DEF LeaveGate, Gone, world, history
  <2> QED BY <2>1, <2>2, <2>3, <2>4, <2>5 DEF PreGate
<1>t. state \in States /\ ~Final
  BY <1>1 DEF IInv, TypeOK, ReportInv
<1>2. UNCHANGED <<state.ext, state.erased>> /\ (at' = "idle" => state' = state /\ ~skip')
  <2>1. CASE SmartBefore
    BY <1>t, <2>1 DEF SmartBefore, States
  <2>2. CASE ShortTest
    <3>1. PICK short \in Tests : state' = [state EXCEPT !.phase = 2, !.short = short]
      BY <2>2 DEF ShortTest, Tests, Tested, Verdicts
    <3> QED BY <1>t, <2>2, <3>1 DEF ShortTest, States
  <2>3. CASE ShortTestRaises
    BY <1>t, <2>3 DEF ShortTestRaises, States
  <2>4. CASE SmartGate \/ LeaveGate
    BY <1>1, <2>4 DEF SmartGate, LeaveGate, Gone
  <2> QED BY <2>1, <2>2, <2>3, <2>4 DEF PreGate
<1>u. report.grade # "none" => report.hours # "before"
  BY <1>1 DEF OriginInv, OldHours
<1>p. state'.phase < Report8
  <2>1. CASE SmartBefore
    BY <1>t, <2>1 DEF SmartBefore, States, Report8
  <2>2. CASE ShortTest
    <3>1. PICK short \in Tests : state' = [state EXCEPT !.phase = 2, !.short = short]
      BY <2>2 DEF ShortTest, Tests, Tested, Verdicts
    <3> QED BY <1>t, <3>1 DEF States, Report8
  <2>3. CASE ShortTestRaises
    BY <1>t, <2>3 DEF ShortTestRaises, States, Report8
  <2>4. CASE SmartGate \/ LeaveGate
    BY <1>1, <2>4 DEF SmartGate, LeaveGate, OriginInv, Order
  <2> QED BY <2>1, <2>2, <2>3, <2>4 DEF PreGate
<1>3. CASE at' # "idle"
  <2>1. state.ext = "none" /\ ~state.erased
    BY <1>1, <1>3 DEF OriginInv, AtGate
  <2>2. state'.ext = "none" /\ ~state'.erased
    BY <1>2, <2>1
  <2> QED BY <1>1, <1>3, <1>u, <1>t, <1>p, <2>2 DEF OriginInv, AtGate, Rejected,
             OldHours, Order, Owed, Stale, Dating, Same, Final, NotLeft, Concluding
<1>4. CASE at' = "idle"
  <2>1. state' = state /\ ~skip'
    BY <1>2, <1>4
  <2>2. Owed'
    BY <1>1, <1>4, <2>1 DEF OriginInv, AtGate, Owed, Stale, Concluding
  <2>3. Order'
    BY <1>1, <1>4, <2>1 DEF OriginInv, Order, NotLeft
  <2> QED BY <1>1, <1>4, <1>t, <1>u, <1>p, <2>1, <2>2, <2>3
          DEF OriginInv, AtGate, Rejected, OldHours, Dating, Same, Final, Report8
<1> QED BY <1>3, <1>4

(* A session at work writes no report; what it must keep in order is its   *)
(* own.                                                                    *)
LEMMA OriginAtWork ==
  ASSUME IInv, OriginInv, at # "idle", report' = report,
         at' \in {"confirm", "passes", "extended", "after", "report"},
         Rejected', Order', Owed'
  PROVE  OriginInv'
BY DEF IInv, ReportInv, OriginInv, AtGate, OldHours, Dating, Same, Final

LEMMA OriginExtended ==
  ASSUME IInv, OriginInv, at = "extended", at' = "after", report' = report,
         skip' = skip, left' \in {left, 6}, state'.phase = 6,
         \/ state'.ext = state.ext /\ fresh' = fresh /\ left' = 6
         \/ state'.ext = "passed" => fresh'
  PROVE  OriginInv'
<1>1. left = NotLeft /\ ~skip
  BY DEF IInv, ProcessInv, Concluding
<1>2. Owed'
  BY DEF OriginInv, Owed, Stale, Concluding, NotLeft
<1>3. Order'
  BY <1>1 DEF OriginInv, Order, Report8, NotLeft
<1> QED BY <1>1, <1>2, <1>3, OriginAtWork DEF Rejected

(* Phase 8.                                                                *)
LEMMA OriginEmit ==
  ASSUME IInv, OriginInv, at = "report",
         NEW smart \in Smarts, NEW hours \in {"before", "after"},
         NEW faults \in BOOLEAN, NEW resets \in 0..MaxResets,
         Emit(Built(smart, hours, faults, resets)),
         hours = "before" => skip
  PROVE  OriginInv'
<1>1. /\ report'.hours = hours /\ report'.ext = state.ext
      /\ state'.ext = state.ext /\ state'.erased = state.erased
  BY EmitStep
<1>2. /\ at' = "idle" /\ ~skip' /\ left' = NotLeft /\ fresh' = fresh
      /\ state'.phase = IF left = NotLeft THEN Report8 ELSE left
  BY DEF Emit, Gone, history, IInv, TypeOK, States
<1>3. hours = "after" => ~entry'.pastReport
  <2>1. entry' = [entry EXCEPT !.pastReport = report'.hours = "before" /\ @]
    BY DEF Emit
  <2> QED BY <1>1, <2>1 DEF IInv, TypeOK, Entries
<1>4. left \in {NotLeft, 4, 5, 6}
  BY DEF IInv, TypeOK
<1>5. Order'
  BY <1>1, <1>2, <1>4 DEF OriginInv, Order, NotLeft, Report8
<1>6. Owed'
  BY <1>1, <1>2, <1>4 DEF OriginInv, Owed, Stale, Concluding, NotLeft
<1>7. OldHours'
  BY <1>1, <1>2 DEF OriginInv, OldHours, Rejected
<1> QED BY <1>1, <1>2, <1>3, <1>5, <1>6, <1>7
        DEF OriginInv, AtGate, Rejected, Dating, Same

LEMMA OriginSession ==
  ASSUME "after" \notin Raises, ~Kills \/ ~Midway, IInv, PutBack, OriginInv, Session
  PROVE  OriginInv'
<1>t. state \in States /\ state.phase \in 0..8
  BY DEF IInv, TypeOK, States
<1>1. CASE Confirm
  <2>1. Order'
    BY <1>1, <1>t DEF Confirm, OriginInv, Order
  <2>2. Owed'
    BY <1>1, <1>t DEF Confirm, OriginInv, Owed, Stale, Rejected, Concluding, history
  <2> QED BY <1>1, <2>1, <2>2, OriginAtWork DEF Confirm, OriginInv, Rejected
<1>2. ASSUME at = "passes", report' = report, skip' = skip, fresh' = FALSE,
             state'.phase \in {4, 5}, state'.ext = state.ext,
             \/ at' = "extended" /\ left' = left
             \/ at' = "after" /\ left' \in {4, 5}
      PROVE  OriginInv'
  <2>1. left = NotLeft /\ ~skip
    BY <1>2 DEF IInv, ProcessInv, Concluding
  <2>2. ~Midway => state.ext = "none"
    BY <1>2, <1>t DEF OriginInv, Order
  <2>3. Order'
    BY <1>2, <2>1, <2>2 DEF Order, Report8, NotLeft
  <2>4. Owed'
    BY <1>2, <2>2 DEF Owed, Stale, Concluding, NotLeft
  <2>5. Rejected'
    BY <1>2, <2>1 DEF Rejected
  <2>6. at # "idle" /\ at' \in {"confirm", "passes", "extended", "after", "report"}
    BY <1>2
  <2> QED BY <1>2, <2>3, <2>4, <2>5, <2>6, OriginAtWork
<1>3. CASE Passes
  <2>1. PICK bad, verified, erased :
          state' = [state EXCEPT !.phase = 5, !.bad = bad, !.erased = erased,
                                 !.verified = verified]
    BY <1>3 DEF Passes
  <2>2. state'.phase = 5 /\ state'.ext = state.ext
    BY <1>t, <2>1 DEF States
  <2> QED BY <1>2, <1>3, <2>2 DEF Passes, Wiped
<1>4. CASE PassesCut
  <2>1. PICK phase, bad, erased :
          /\ left' = phase
          /\ state' = [state EXCEPT !.phase = phase, !.bad = bad,
                                    !.erased = erased, !.verified = FALSE]
    BY <1>4 DEF PassesCut
  <2>2. state'.phase = phase /\ state'.ext = state.ext
    BY <1>t, <2>1 DEF States
  <2> QED BY <1>2, <1>4, <2>1, <2>2 DEF PassesCut, Wiped
<1>5. ASSUME NEW test, Conclude(test)
      PROVE  state'.phase = 6 /\ (state'.ext = "passed" => fresh')
  <2>1. state'.phase = 6 /\ state'.ext = test
    BY <1>5, <1>t DEF Conclude, States
  <2> QED BY <1>5, <2>1 DEF Conclude, Verdicts
<1>6. CASE SkipExtended
  <2>1. state'.phase = 6 /\ state'.ext = "skipped"
    BY <1>6, <1>t DEF SkipExtended, States
  <2> QED BY <1>6, <2>1, OriginExtended DEF SkipExtended
<1>7. CASE ExtendedTest
  <2>1. state'.phase = 6 /\ (state'.ext = "passed" => fresh')
    BY <1>5, <1>7 DEF ExtendedTest
  <2> QED BY <1>7, <2>1, OriginExtended DEF ExtendedTest
<1>8. CASE ExtendedTooHot
  <2>1. state'.phase = 6 /\ (state'.ext = "passed" => fresh')
    BY <1>5, <1>8 DEF ExtendedTooHot
  <2> QED BY <1>8, <2>1, OriginExtended DEF ExtendedTooHot
<1>9. CASE ExtendedCut
  <2>1. CASE \E test \in Tested \cup {"refused"} : Conclude(test)
    <3>1. state'.phase = 6 /\ (state'.ext = "passed" => fresh')
      BY <1>5, <2>1
    <3> QED BY <1>9, <3>1, OriginExtended DEF ExtendedCut
  <2>2. CASE state' = [state EXCEPT !.phase = 6] /\ UNCHANGED <<fresh, entry>>
    <3>1. state'.phase = 6 /\ state'.ext = state.ext
      BY <1>t, <2>2 DEF States
    <3> QED BY <1>9, <2>2, <3>1, OriginExtended DEF ExtendedCut
  <2> QED BY <1>9, <2>1, <2>2 DEF ExtendedCut
<1>10. CASE SmartAfter
  <2>1. /\ state'.phase = 7 /\ state'.ext = state.ext /\ state'.erased = state.erased
        /\ at = "after" /\ at' = "report"
        /\ UNCHANGED <<skip, left, report, fresh>>
    BY <1>10, <1>t DEF SmartAfter, States, history
  <2>2. Order' /\ Rejected'
    BY <2>1 DEF OriginInv, Order, Rejected, Report8
  <2>3. Owed'
    BY <2>1 DEF OriginInv, Owed, Stale, Concluding
  <2> QED BY <2>1, <2>2, <2>3, OriginAtWork
<1>11. /\ state.smart \in Smarts /\ 0 \in 0..MaxResets /\ journal.faults \in BOOLEAN
       /\ journal.resets \in 0..MaxResets /\ Readings \cup {"unavailable"} \subseteq Smarts
  BY CertificateAssumption DEF IInv, TypeOK, States, Journals, Smarts
<1>12. CASE ReportRejected
  BY <1>11, <1>12, OriginEmit DEF ReportRejected
<1>13. CASE ReportRun
  <2>1. PICK smart \in Smarts :
          Emit(Built(smart, "after", journal.faults, journal.resets))
    BY <1>11, <1>13 DEF ReportRun
  <2> QED BY <1>11, <1>13, <2>1, OriginEmit DEF ReportRun
<1>14. CASE ReportUnswept
  BY <1>14 DEF ReportUnswept
<1>15. CASE Killed
  <2>1. /\ at # "idle" /\ at' = "idle" /\ ~skip' /\ left' = NotLeft /\ ~Midway
        /\ UNCHANGED <<state, report, entry, fresh>>
    BY <1>15 DEF Killed, Gone, world
  <2>2. Owed'
    BY <2>1 DEF OriginInv, Owed, Stale
  <2>3. state.phase < 8 /\ ~Final
    BY <2>1 DEF OriginInv, Order, Report8, IInv, ReportInv
  <2> QED BY <1>t, <2>1, <2>2, <2>3 DEF OriginInv, AtGate, Rejected, OldHours, Order, Dating,
             Same, Final, Report8, NotLeft
<1>16. CASE Resume
  <2>1. /\ at = "idle" /\ at' = "confirm" /\ state.phase < 8 /\ ~skip'
        /\ UNCHANGED <<left, state, report, entry, fresh>>
    BY <1>16 DEF Resume, Report8, world, history, IInv, ProcessInv
  <2>2. Midway => state.phase <= 6
    BY <1>t, <2>1 DEF PutBack
  <2>3. Owed'
    BY <2>1, <2>2 DEF OriginInv, Owed, Stale, Concluding, Report8
  <2>4. Order'
    BY <2>1 DEF OriginInv, Order, Report8
  <2> QED BY <2>1, <2>3, <2>4 DEF OriginInv, AtGate, Rejected, OldHours, Dating, Same,
             Final, Report8, IInv, ReportInv
<1> QED BY <1>1, <1>3, <1>4, <1>6, <1>7, <1>8, <1>9, <1>10, <1>12, <1>13, <1>14,
           <1>15, <1>16 DEF Session

LEMMA OriginCommand ==
  ASSUME ~Kills \/ ~Midway, IInv, PutBack, OriginInv, Commands
  PROVE  OriginInv'
<1>t. state \in States /\ state.phase \in 0..8
  BY DEF IInv, TypeOK, States
<1>1. /\ at = "idle" /\ at' = "idle" /\ report.grade # "none"
      /\ UNCHANGED <<skip, left, entry>>
  BY DEF Commands, Recheck, Excuse, Rescan, HasReport, process, world
<1>2. report'.hours = report.hours /\ report'.cut = report.cut
  BY RecheckIs, ExcuseIs, RescanIs DEF Commands
<1>3. CASE Recheck
  <2>1. PICK test \in Tests :
          /\ state' = [state EXCEPT !.ext = test] /\ report'.ext = test
          /\ test = "passed" => (fresh' = entry.pastWipe)
    <3>1. PICK test \in Tests :
            /\ report' = Graded([report EXCEPT !.ext = test])
            /\ state' = [state EXCEPT !.ext = test]
            /\ test = "passed" => (fresh' = entry.pastWipe)
      <4>1. /\ entry.verdict \in Verdicts \cup {"unfinished", "none"}
            /\ entry.pastWipe \in BOOLEAN
        BY DEF IInv, TypeOK, Entries
      <4> QED BY <1>3, <4>1 DEF Recheck, Tests, Tested, Verdicts
    <3>2. [report EXCEPT !.ext = test] \in Reports /\ report \in Reports
      BY DEF IInv, TypeOK, Reports
    <3>3. [report EXCEPT !.ext = test].ext = test
      BY <3>2 DEF Reports
    <3>4. report'.ext = test
      BY <3>1, <3>2, <3>3, Regraded
    <3> QED BY <3>1, <3>4
  <2>2. /\ state'.phase = state.phase /\ state'.erased = state.erased
        /\ state'.ext = test
    BY <1>t, <2>1 DEF States
  <2>3. Midway \/ state.phase = Report8
    BY <1>3 DEF Recheck
  <2>4. Order'
    BY <1>1, <2>2, <2>3 DEF OriginInv, Order, Report8, IInv, ProcessInv, NotLeft
  <2>5. ASSUME Stale', state.phase = Report8
        PROVE  ~state.erased
    <3>1. ~entry.pastWipe
      BY <2>1, <2>2, <2>5 DEF Stale
    <3>2. report.hours = "after" => entry.pastReport
      BY <1>3 DEF Recheck, Dated
    <3>3. report.hours = "before"
      BY <1>1, <2>5, <3>1, <3>2 DEF OriginInv, Dating, IInv, TypeOK, Reports
    <3> QED BY <1>1, <3>3 DEF OriginInv, OldHours
  <2>6. state.phase <= 6 \/ state.phase = Report8
    BY <1>1, <1>t, <2>3 DEF PutBack, Report8
  <2>7. Owed'
    BY <1>1, <2>2, <2>3, <2>5, <2>6 DEF Owed
  <2> QED BY <1>1, <1>2, <2>1, <2>2, <2>4, <2>7
          DEF OriginInv, AtGate, Rejected, OldHours, Dating, Same, IInv, ProcessInv
<1>4. CASE Excuse \/ Rescan
  <2>1. /\ UNCHANGED <<state, fresh>> /\ report'.ext = report.ext
        /\ report'.grade # "none"
    BY <1>4, ExcuseIs, RescanIs DEF Excuse, Rescan, history
  <2> QED BY <1>1, <1>2, <2>1 DEF OriginInv, AtGate, Rejected, OldHours, Order, Owed,
             Stale, Dating, Same, Final
<1> QED BY <1>3, <1>4 DEF Commands

(* While smartctl answers in phase 7, and nobody rechecks a run that was   *)
(* killed and not gone on with: a certificate that reports a passed        *)
(* extended test speaks of one that came after the erase and the verify.   *)
THEOREM TestFollowsWipe ==
  ASSUME "after" \notin Raises, ~Kills \/ ~Midway
  PROVE  Spec => []CertifiedTestFollowsWipe
<1>1. IInv /\ PutBack /\ OriginInv /\ [Next]_vars => OriginInv'
  <2> SUFFICES ASSUME IInv, PutBack, OriginInv, [Next]_vars PROVE OriginInv'
    OBVIOUS
  <2>1. CASE DriveTests
    <3>1. entry'.pastWipe
      BY <2>1 DEF DriveTests, Logs
    <3> QED BY <2>1, <3>1 DEF DriveTests, process, history, OriginInv, AtGate, Rejected,
               OldHours, Order, Owed, Stale, Dating, Same, Final
  <2>2. CASE Rotate \/ UNCHANGED vars
    BY <2>2 DEF Rotate, vars, process, world, history, OriginInv, AtGate, Rejected,
               OldHours, Order, Owed, Stale, Dating, Same, Final
  <2> QED BY <2>1, <2>2, OriginGate, OriginSession, OriginCommand DEF Next
<1>2. Spec => []PutBack
  <2>1. CASE Kills
    <3>1. PutBack
      BY <2>1 DEF PutBack
    <3> QED BY <3>1, PTL
  <2>2. CASE ~Kills
    <3>1. Init => BrokenInv
      BY DEF Init, BrokenInv, Final, NoReport
    <3>2. IInv /\ BrokenInv /\ [Next]_vars => BrokenInv'
      BY <2>2, BrokenStep
    <3>3. BrokenInv => PutBack
      BY DEF BrokenInv, PutBack
    <3> QED BY <3>1, <3>2, <3>3, Invariance, PTL DEF Spec
  <2> QED BY <2>1, <2>2
<1>3. IInv /\ OriginInv => CertifiedTestFollowsWipe
  <2> SUFFICES ASSUME IInv, OriginInv, Certified, report.ext = "passed"
               PROVE  fresh
    BY DEF CertifiedTestFollowsWipe
  <2>1. report.grade = Grade(report)
    BY DEF IInv, ReportInv, Certified
  <2>2. Final /\ report.erased
    BY <2>1 DEF Certified, Final, Grade, Incomplete, Covered
  <2>3. at = "idle" /\ state.phase = Report8 /\ state.erased /\ state.ext = "passed"
    BY <2>2 DEF IInv, ReportInv, OriginInv, Same
  <2> QED BY <2>3 DEF OriginInv, Owed, Stale, Concluding, Report8
<1> QED BY OriginInit, <1>1, <1>2, <1>3, Invariance, PTL DEF Spec
=============================================================================
