------------------------------- MODULE SelfTest -------------------------------
(***************************************************************************)
(* One self-test of one drive: smart.run_selftest, the drive it asks and   *)
(* the bridge it asks through, and around it phase2_short_test or          *)
(* phase6_extended_test with its thermal guard.                            *)
(*                                                                         *)
(* Each smartctl call is a step.  Between two of them the drive works on,  *)
(* fails, forgets or logs, somebody starts or ends a test by hand, the     *)
(* guard aborts and the run is told to stop.                               *)
(***************************************************************************)
EXTENDS Naturals, Sequences

CONSTANTS
  Length,          (* bound: the steps remaining_percent goes down in      *)
  StallPolls,      (* bound: polls without progress within the deadline    *)
  ExtendedRetries, (* selftest.extended_stall_retries                      *)
  LogSize,         (* bound: entries the drive's log has room for          *)
  Hours,           (* bound: power-on hours that pass                      *)
  ByHand,          (* bound: tests that somebody else starts or ends       *)
  Blips            (* which answers the bridge may lose now and then, a    *)
                   (* subset of {"state", "log"}                           *)

ASSUME SelfTestAssumption ==
  /\ Length \in Nat \ {0} /\ StallPolls \in Nat /\ ExtendedRetries \in Nat
  /\ LogSize \in Nat \ {0} /\ Hours \in Nat /\ ByHand \in Nat
  /\ Blips \subseteq {"state", "log"}

VARIABLES
  (* The drive and its bridge.                                             *)
  test,     (* what the drive is running                                   *)
  pending,  (* tests that ended and are not in the log yet, oldest first   *)
  entries,  (* its self-test log, newest first                             *)
  logged,   (* history: it has logged one since log_before was read        *)
  hours,    (* power-on hours of the newest entry                          *)
  byHand,   (* tests others have started or ended                          *)
  opaque,   (* the bridge never lets the log through                       *)
  (* run_selftest.                                                         *)
  kind,     (* "short" in phase 2, "long" in phase 6                       *)
  pc,
  attempt,  (* of the for loop, from 0                                     *)
  before,   (* log_before                                                  *)
  seen,     (* seen_running                                                *)
  answer,   (* state, remaining of this poll                               *)
  lastLeft, (* last_remaining                                              *)
  quiet,    (* polls since last_change                                     *)
  result,   (* the SelfTestResult's status                                 *)
  evidence, (* history: an entry had been logged when the status was read  *)
  (* The run around it.                                                    *)
  stop,     (* the child's stop flag                                       *)
  guard,    (* the thermal guard: it watches, has decided, or has aborted  *)
  refused   (* history: smartctl -X did not get through                    *)

drive == <<test, pending, entries, logged>>
world == <<hours, byHand, opaque>>
poll  == <<seen, answer, lastLeft, quiet>>
call  == <<kind, attempt, before>>
run   == <<stop, guard>>
vars  == <<drive, world, poll, call, run, pc, result, evidence, refused>>

Kinds    == {"short", "long"}
NoTest   == [kind |-> "none", left |-> 0, ours |-> FALSE]
Tests    == [kind : Kinds, left : 1..Length, ours : BOOLEAN]
Statuses == {"completed_without_error", "completed:_read_failure",
             "aborted_by_host"}      \* the last for a reset, too
Results  == Statuses \cup {"none", "could_not_start", "interrupted",
                           "inconclusive", "raised"}
Retries  == IF kind = "long" THEN ExtendedRetries ELSE 0

(* _should_stop() or guard.aborted; nothing stops the short test, which    *)
(* the parent runs.                                                        *)
hot        == guard # "watching"
ShouldStop == kind = "long" /\ (stop \/ hot)

-----------------------------------------------------------------------------
(* What smartctl may answer.                                               *)

NoAnswer == [state |-> "unreadable", left |-> 0]

(* _selftest_state                                                         *)
StateAnswers ==
  {IF test = NoTest THEN [state |-> "idle", left |-> 0]
   ELSE [state |-> "running", left |-> test.left]}
  \cup IF "state" \in Blips THEN {NoAnswer} ELSE {}

NoLog == [count |-> 0, top |-> <<>>, read |-> FALSE]
NoEntry == <<>>

(* What can be told of an entry: not which test wrote it.                  *)
Visible(e) == <<e.kind, e.status, e.hours>>

(* _log_signature of a log that was read.                                  *)
Signature ==
  [count |-> Len(entries), read |-> TRUE,
   top |-> IF entries = <<>> THEN NoEntry ELSE Visible(Head(entries))]

(* _log_signature(_selftest_log(...)): None if it was not read.            *)
LogAnswers ==
  IF opaque THEN {NoLog}
  ELSE {Signature} \cup IF "log" \in Blips THEN {NoLog} ELSE {}

(* What comes after `test` when it ends for the reason `status`.           *)
Ended(status) ==
  /\ test' = NoTest
  /\ pending' = Append(pending, <<test.kind, status>>)

(* abort_selftest: an error is only logged.                                *)
Abort ==
  \/ /\ IF test = NoTest THEN UNCHANGED <<test, pending>>
        ELSE Ended("aborted_by_host")
     /\ UNCHANGED refused
  \/ refused' = TRUE /\ UNCHANGED <<test, pending>>

(* The locals of _run_selftest_once, at its beginning and when it is over. *)
NoPoll == seen' = FALSE /\ answer' = NoAnswer /\ lastLeft' = 0 /\ quiet' = 0

Returned(status) ==
  /\ result' = status
  /\ pc' = "done"
  /\ before' = NoLog /\ NoPoll

-----------------------------------------------------------------------------
(* _run_selftest_once.                                                     *)

ReadBefore ==
  /\ pc = "before"
  /\ before' \in LogAnswers
  /\ logged' = FALSE
  /\ pc' = "start"
  /\ UNCHANGED <<test, pending, entries, world, poll, kind, attempt, run,
                 result, evidence, refused>>

(* smartctl -t.  Of its exit status only bits 0 and 1 count, so a drive    *)
(* that is busy with another test has "started" too.                       *)
Started == IF test = NoTest
           THEN [kind |-> kind, left |-> Length, ours |-> TRUE] ELSE test

Start ==
  /\ pc = "start"
  /\ \/ /\ test' = Started
        /\ pc' = "top"
        /\ UNCHANGED <<poll, before, result>>
     \/ Returned("could_not_start") /\ UNCHANGED test
     \/ (* _run raises: the call timed out, and the test may have begun.   *)
        Returned("raised") /\ test' \in {test, Started}
  /\ UNCHANGED <<pending, entries, logged, world, kind, attempt, run,
                 evidence, refused>>

(* The top of the loop, and the sleep; a stop that cuts the sleep short    *)
(* comes back here.                                                        *)
Sleep ==
  /\ pc = "top" /\ ~ShouldStop
  /\ pc' = "ask"
  /\ UNCHANGED <<drive, world, poll, call, run, result, evidence, refused>>

(* A bug: the test is left to itself when the run stops.                   *)
Bug_StopTest ==
  /\ pc = "top" /\ ShouldStop
  /\ Returned("interrupted")
  /\ UNCHANGED <<drive, world, kind, attempt, run, evidence, refused>>

StopTest ==
  /\ pc = "top" /\ ShouldStop
  /\ Abort
  /\ Returned("interrupted")
  /\ UNCHANGED <<entries, logged, world, kind, attempt, run, evidence>>

(* monotonic() - last_change > deadline_stall                              *)
Overdue == quiet >= StallPolls

(* A bug: every answer that the test is running counts as progress.        *)
Bug_AskState ==
  /\ pc = "ask"
  /\ answer' \in StateAnswers
  /\ seen' = (seen \/ answer'.state = "running")
  /\ IF answer'.state = "running"
     THEN lastLeft' = answer'.left /\ quiet' = 0 /\ pc' = "top"
     ELSE pc' = "asklog" /\ UNCHANGED <<lastLeft, quiet>>
  /\ UNCHANGED <<drive, world, call, run, result, evidence, refused>>

AskState ==
  /\ pc = "ask"
  /\ answer' \in StateAnswers
  /\ seen' = (seen \/ answer'.state = "running")
  /\ \/ /\ answer'.state = "running" /\ answer'.left # lastLeft
        /\ lastLeft' = answer'.left /\ quiet' = 0
        /\ pc' = "top"
     \/ /\ answer'.state = "running" /\ answer'.left = lastLeft
        /\ IF Overdue THEN pc' = "wedged" /\ UNCHANGED quiet
           ELSE pc' = "top" /\ quiet' = quiet + 1
        /\ UNCHANGED lastLeft
     \/ /\ answer'.state # "running"
        /\ pc' = "asklog"
        /\ UNCHANGED <<lastLeft, quiet>>
  /\ UNCHANGED <<drive, world, call, run, result, evidence, refused>>

(* A bug: a drive that has stopped testing must have logged the result.    *)
Bug_IsNew(sig) == answer.state = "idle" /\ seen

(* Is the entry a new one?                                                 *)
IsNew(sig) ==
  /\ sig # before
  /\ before.read \/ (answer.state = "idle" /\ seen)

(* Without news past the deadline and not running, there is nothing to     *)
(* abort and nothing to retry.                                             *)
AskLog ==
  /\ pc = "asklog"
  /\ \E sig \in LogAnswers :
       \/ IsNew(sig) /\ pc' = "read" /\ UNCHANGED <<poll, before, result>>
       \/ /\ ~IsNew(sig) /\ Overdue
          /\ Returned("inconclusive")
       \/ /\ ~IsNew(sig) /\ ~Overdue
          /\ pc' = "top" /\ quiet' = quiet + 1
          /\ UNCHANGED <<seen, answer, lastLeft, before, result>>
  /\ UNCHANGED <<drive, world, kind, attempt, run, evidence, refused>>

(* Past the deadline and running: aborted, and in phase 6 begun afresh.    *)
Wedged ==
  /\ pc = "wedged"
  /\ Abort
  /\ \/ /\ attempt < Retries
        /\ attempt' = attempt + 1 /\ pc' = "before"
        /\ before' = NoLog /\ NoPoll
        /\ UNCHANGED result
     \/ attempt = Retries /\ Returned("inconclusive") /\ UNCHANGED attempt
  /\ UNCHANGED <<entries, logged, world, kind, run, evidence>>

(* _entry_is_kind, and there is an entry.                                  *)
IsKind(sig) == sig.top # NoEntry /\ sig.top[1] = kind

(* last_selftest_entry, by a query of its own.                             *)
ReadEntry ==
  /\ pc = "read"
  /\ \E sig \in LogAnswers :
       \/ /\ IsKind(sig)
          /\ Returned(sig.top[2])
          /\ evidence' = logged
       \/ /\ ~IsKind(sig)
          /\ Returned("inconclusive")
          /\ UNCHANGED evidence
  /\ UNCHANGED <<drive, world, kind, attempt, run, refused>>

(* A bug: what the guard cut short stands as it was read.                  *)
Bug_Record ==
  /\ pc = "done"
  /\ pc' = "recorded"
  /\ UNCHANGED <<drive, world, poll, call, run, result, evidence, refused>>

(* The end of phase 2 or 6: what is recorded of a test the guard aborted.  *)
Record ==
  /\ pc = "done"
  /\ pc' = "recorded"
  /\ result' = IF /\ hot
                  /\ result \notin {"completed_without_error", "raised"}
               THEN "inconclusive" ELSE result
  /\ UNCHANGED <<drive, world, poll, call, run, evidence, refused>>

-----------------------------------------------------------------------------
(* The thermal guard of phase 6, and the stop of the run: one of them, as  *)
(* should_stop does not tell them apart.                                   *)

Overheat ==
  /\ kind = "long" /\ guard = "watching" /\ ~stop
  /\ pc \notin {"done", "recorded"}
  /\ guard' = "aborting"
  /\ UNCHANGED <<drive, world, poll, call, stop, pc, result, evidence,
                 refused>>

GuardAborts ==
  /\ guard = "aborting"
  /\ guard' = "aborted"
  /\ Abort
  /\ UNCHANGED <<entries, logged, world, poll, call, stop, pc, result,
                 evidence>>

StopAsked ==
  /\ kind = "long" /\ ~stop /\ ~hot /\ pc # "recorded"
  /\ stop' = TRUE
  /\ UNCHANGED <<drive, world, poll, call, guard, pc, result, evidence,
                 refused>>

-----------------------------------------------------------------------------
(* The drive.                                                              *)

(* What the drive does when the phase is over is nobody's concern here.    *)
Watched == pc # "recorded"

host == <<poll, call, run, pc, result, evidence, refused>>

Progress ==
  /\ Watched /\ test # NoTest /\ test.left > 1
  /\ test' = [test EXCEPT !.left = @ - 1]
  /\ UNCHANGED <<pending, entries, logged, world, host>>

Finish ==
  /\ Watched /\ test # NoTest
  /\ \/ test.left = 1 /\ Ended("completed_without_error")
     \/ Ended("completed:_read_failure")
     \/ Ended("aborted_by_host")
  /\ UNCHANGED <<entries, logged, world, host>>

(* The oldest entry gives way when the log is full.  The power-on hours    *)
(* count only here.                                                        *)
DriveLogs ==
  /\ Watched /\ pending # <<>>
  /\ pending' = Tail(pending)
  /\ logged' = TRUE
  /\ hours' \in hours..Hours
  /\ LET e == [kind |-> Head(pending)[1], status |-> Head(pending)[2],
               hours |-> hours']
         longer == <<e>> \o entries
     IN entries' = SubSeq(longer, 1, IF Len(longer) > LogSize THEN LogSize
                                     ELSE Len(longer))
  /\ UNCHANGED <<test, byHand, opaque, host>>

SomebodyElse ==
  /\ Watched /\ byHand < ByHand
  /\ byHand' = byHand + 1
  /\ \/ /\ test = NoTest
        /\ \E k \in Kinds :
             test' = [kind |-> k, left |-> Length, ours |-> FALSE]
        /\ UNCHANGED pending
     \/ test # NoTest /\ Ended("aborted_by_host")
  /\ UNCHANGED <<entries, logged, hours, opaque, host>>

-----------------------------------------------------------------------------
(* The log of a drive that was never tested, or one full of passes of the  *)
(* kind of test that is about to be started.                               *)
Passed  == [kind |-> kind, status |-> "completed_without_error", hours |-> 0]
OldLogs == {<<>>, [i \in 1..LogSize |-> Passed]}

Init ==
  /\ kind \in Kinds
  /\ test = NoTest /\ pending = <<>>
  /\ entries \in OldLogs /\ logged = FALSE
  /\ hours = 0 /\ byHand = 0 /\ opaque \in BOOLEAN
  /\ pc = "before" /\ attempt = 0
  /\ before = NoLog
  /\ seen = FALSE /\ answer = NoAnswer /\ lastLeft = 0 /\ quiet = 0
  /\ result = "none" /\ evidence = FALSE
  /\ stop = FALSE /\ guard = "watching" /\ refused = FALSE

Host ==
  \/ ReadBefore \/ Start \/ Sleep \/ StopTest \/ AskState \/ AskLog
  \/ Wedged \/ ReadEntry \/ Record

Around ==
  \/ Overheat \/ GuardAborts \/ StopAsked \/ Progress \/ Finish \/ DriveLogs
  \/ SomebodyElse

Next == Host \/ Around

Spec == Init /\ [][Next]_vars

(* The child goes on; the drive, the guard and everybody else may not.     *)
FairSpec == Spec /\ WF_vars(Host)
-----------------------------------------------------------------------------
(* Properties.                                                             *)

TypeOK ==
  /\ test \in Tests \cup {NoTest}
  /\ pending \in Seq(Kinds \X Statuses)
  /\ entries \in Seq([kind : Kinds, status : Statuses, hours : 0..Hours])
  /\ Len(entries) \in 0..LogSize /\ logged \in BOOLEAN
  /\ hours \in 0..Hours /\ byHand \in 0..ByHand /\ opaque \in BOOLEAN
  /\ kind \in Kinds /\ attempt \in 0..Retries
  /\ before.read \in BOOLEAN
  /\ pc \in {"before", "start", "top", "ask", "asklog", "wedged",
             "read", "done", "recorded"}
  /\ seen \in BOOLEAN /\ lastLeft \in 0..Length /\ quiet \in 0..StallPolls
  /\ answer \in [state : {"running", "idle", "unreadable"}, left : 0..Length]
  /\ result \in Results /\ evidence \in BOOLEAN
  /\ stop \in BOOLEAN /\ guard \in {"watching", "aborting", "aborted"}
  /\ refused \in BOOLEAN

(* A pass, or a failure that keeps the drive from being erased, is read    *)
(* from an entry the drive has logged since this test was asked for, and   *)
(* never from the newest of the old ones (_run_selftest_once).             *)
VerdictIsNew ==
  /\ pc = "recorded"
  /\ result \in {"completed_without_error", "completed:_read_failure"}
  => evidence

(* After a stop, and after a thermal abort at any point of the poll, of    *)
(* the retry or of the start, the drive is not left testing -- unless      *)
(* smartctl -X did not get through.                                        *)
StoppedDriveRests ==
  /\ pc = "recorded" /\ ~refused
  /\ result = "interrupted" \/ (guard = "aborted" /\ result # "raised")
  => ~test.ours

(* A test that a stop or the guard cut short is not recorded as the        *)
(* drive's failure, nor as a pass it had not finished: of a hot drive      *)
(* nothing but a pass it logged stands (phase6_extended_test).             *)
CutShortIsNoVerdict ==
  /\ pc = "recorded" /\ hot /\ result # "raised"
  => \/ result = "inconclusive"
     \/ result = "completed_without_error" /\ evidence

(* Whatever the drive does -- finish, fail, hang at some percentage, stop  *)
(* without logging anything, or be tested by somebody else -- the call     *)
(* returns: a stall is noticed, and a retry is the last one.               *)
Returns == <>(pc = "recorded")

(* _log_signature is "enough of the self-test log to tell whether a new    *)
(* entry has appeared".                                                    *)
NewEntryIsSeen ==
  pc = "asklog" /\ before.read /\ logged => Signature # before
===============================================================================
