------------------------------- MODULE Instances -------------------------------
(***************************************************************************)
(* Several DrivePrep processes over one output root: `run` with and        *)
(* without --execute, `resume` and `recheck`, what each reads and writes   *)
(* of a drive's state.json and report.json, and the per-drive lock         *)
(* (runs.prepare_states, batch.acquire_locks, cmd_resume, cmd_recheck).    *)
(*                                                                         *)
(* A step of a process is what it does between two accesses to the files   *)
(* or the locks.  The phases of a run are `Length` pieces of work.         *)
(***************************************************************************)
EXTENDS DriveLock, Naturals

CONSTANTS
  Kinds,    (* the commands that are given                                 *)
  MaxRuns,  (* bound: runs begun                                           *)
  Length    (* bound: pieces of work in a run                              *)

ASSUME InstancesAssumption ==
  /\ Kinds \subseteq {"run", "plan", "resume", "recheck"}
  /\ MaxRuns \in Nat \ {0} /\ Length \in Nat \ {0}

VARIABLES
  runs,     (* how many were begun: the newest run_id                      *)
  saved,    (* state.json                                                  *)
  report,   (* report.json                                                 *)
  kind,     (* what a process was started as                               *)
  pc,       (* where it is                                                 *)
  todo,     (* drives it has yet to lock, or the drive it rechecks         *)
  mem       (* its copies: of the states, or of the report it rechecks     *)

files == <<saved, report>>
own   == <<kind, pc, todo, mem>>
vars  == <<runs, files, own, locks>>

Runs   == 0..MaxRuns
NoRun  == 0

(* test: the extended test's verdict was entered by a recheck.             *)
States  == [run : Runs, done : 0..Length, found : BOOLEAN, over : BOOLEAN,
            test : BOOLEAN]
Nothing == [run |-> NoRun, done |-> 0, found |-> FALSE, over |-> FALSE,
            test |-> FALSE]

(* find_resumable                                                          *)
Resumable == {d \in Shared : saved[d].run # NoRun /\ ~saved[d].over}

-----------------------------------------------------------------------------
(* The beginning of a command, without a lock.                             *)

Becomes(p, k, where, drives) ==
  /\ kind' = [kind EXCEPT ![p] = k]
  /\ pc' = [pc EXCEPT ![p] = where]
  /\ todo' = [todo EXCEPT ![p] = drives]

(* cmd_run: prepare_states saves a fresh state for every selected drive.   *)
Prepare(p) ==
  /\ pc[p] = "idle" /\ runs < MaxRuns
  /\ runs' = runs + 1
  /\ \E k \in Kinds \cap {"run", "plan"}, selected \in SUBSET Shared \ {{}} :
       LET fresh == [d \in Shared |->
                       IF d \in selected THEN [Nothing EXCEPT !.run = runs + 1]
                       ELSE saved[d]]
       IN /\ Becomes(p, k, "lock", selected)
          /\ saved' = fresh
          /\ mem' = [mem EXCEPT ![p] = fresh]
  /\ UNCHANGED <<report, locks>>

(* cmd_resume: loads what is resumable; writes nothing.                    *)
Load(p) ==
  /\ pc[p] = "idle" /\ "resume" \in Kinds
  /\ \E selected \in SUBSET Resumable \ {{}} :
       Becomes(p, "resume", "lock", selected)
  /\ mem' = [mem EXCEPT ![p] = saved]
  /\ UNCHANGED <<runs, files, locks>>

-----------------------------------------------------------------------------
(* acquire_locks, run_locked                                               *)

(* In the order of the inventory for `run`, of the directories for resume. *)
TryLock(p) ==
  /\ pc[p] = "lock"
  /\ \E d \in todo[p] :
       /\ Refused(p, d) \/ Locked(p, d)
       /\ todo' = [todo EXCEPT ![p] = @ \ {d}]
  /\ UNCHANGED <<runs, files, kind, pc, mem>>

Locks(p) ==
  /\ pc[p] = "lock" /\ todo[p] = {}
  /\ pc' = [pc EXCEPT ![p] = "work"]
  /\ UNCHANGED <<runs, files, kind, todo, mem, locks>>

Leaves(p) ==
  /\ GivenUp(p)
  /\ pc' = [pc EXCEPT ![p] = "idle"]
  /\ todo' = [todo EXCEPT ![p] = {}]
  /\ mem' = [mem EXCEPT ![p] = [d \in Shared |-> Nothing]]
  /\ UNCHANGED kind

-----------------------------------------------------------------------------
(* The locked part.                                                        *)

AtWork(p, d) == pc[p] = "work" /\ d \in busy[p]

Quits(p, d) ==
  /\ busy' = [busy EXCEPT ![p] = @ \ {d}]
  /\ UNCHANGED <<runs, lock, kind, pc, todo, held>>

(* Plan mode: phase 1 checkpoints, and the gate ends the command.          *)
Plan(p, d) ==
  /\ AtWork(p, d) /\ kind[p] = "plan"
  /\ saved' = [saved EXCEPT ![d] = mem[p][d]]
  /\ Quits(p, d)
  /\ UNCHANGED <<report, mem>>

(* A bug: the last piece is done again.                                    *)
Bug_Unfinished(s) == s.done <= Length

Unfinished(s) == s.done < Length

(* A piece of a pass; the checkpoint may not be due.                       *)
Work(p, d) ==
  /\ AtWork(p, d) /\ kind[p] \in {"run", "resume"}
  /\ Unfinished(mem[p][d])
  /\ \E found \in {mem[p][d].found, TRUE} :
       LET s == [mem[p][d] EXCEPT !.done = @ + 1, !.found = found]
       IN /\ mem' = [mem EXCEPT ![p][d] = s]
          /\ saved' \in {saved, [saved EXCEPT ![d] = s]}
  /\ UNCHANGED <<runs, report, kind, pc, todo, locks>>

(* Phase 8; a session that was stopped puts its checkpoint back.           *)
Emit(p, d) ==
  /\ AtWork(p, d) /\ kind[p] \in {"run", "resume"}
  /\ \E over \in {~Unfinished(mem[p][d]), FALSE} :
       LET s == [mem[p][d] EXCEPT !.over = over]
       IN /\ saved' = [saved EXCEPT ![d] = s]
          /\ report' = [report EXCEPT ![d] = s]
  /\ Quits(p, d)
  /\ UNCHANGED mem

(* run_locked's finally                                                    *)
Release(p) ==
  /\ pc[p] = "work" /\ busy[p] = {}
  /\ Leaves(p)
  /\ UNCHANGED <<runs, files>>

(* The kernel drops the locks of a process that is gone.                   *)
Crash(p) ==
  /\ pc[p] # "idle"
  /\ Leaves(p)
  /\ UNCHANGED <<runs, files>>

-----------------------------------------------------------------------------
(* cmd_recheck, without a lock: report.json, the drive's log, report.json, *)
(* state.json twice.                                                       *)

RecheckReads(p) ==
  /\ pc[p] = "idle" /\ "recheck" \in Kinds
  /\ \E d \in Shared :
       /\ report[d].run # NoRun /\ ~report[d].test
       /\ Becomes(p, "recheck", "rechecked", {d})
       /\ mem' = [mem EXCEPT ![p][d] = report[d]]
  /\ UNCHANGED <<runs, files, locks>>

RecheckReports(p) ==
  /\ pc[p] = "rechecked"
  /\ \E d \in todo[p] :
       /\ report' = [report EXCEPT ![d] = [mem[p][d] EXCEPT !.test = TRUE]]
       /\ mem' = [mem EXCEPT ![p][d] = saved[d]]
  /\ pc' = [pc EXCEPT ![p] = "rechecked_state"]
  /\ UNCHANGED <<runs, saved, kind, todo, locks>>

RecheckSaves(p) ==
  /\ pc[p] = "rechecked_state"
  /\ \E d \in todo[p] : saved' = [saved EXCEPT ![d] = [mem[p][d] EXCEPT !.test = TRUE]]
  /\ Leaves(p)
  /\ UNCHANGED <<runs, report>>

-----------------------------------------------------------------------------
(* There may be an interrupted run, with a finding or without.             *)
Init ==
  /\ \E found \in BOOLEAN, run \in {NoRun, 1} :
       LET s == [Nothing EXCEPT !.run = run, !.found = found /\ run = 1]
       IN /\ runs = run
          /\ saved = [d \in Shared |-> s] /\ report = [d \in Shared |-> s]
  /\ LockInit
  /\ kind = [p \in Procs |-> "run"]
  /\ pc = [p \in Procs |-> "idle"]
  /\ todo = [p \in Procs |-> {}]
  /\ mem = [p \in Procs |-> [d \in Shared |-> Nothing]]

Begin(p) == Prepare(p) \/ Load(p) \/ RecheckReads(p)

(* What a process does without being told to or killed.                    *)
Step(p) ==
  \/ TryLock(p) \/ Locks(p) \/ Release(p) \/ RecheckReports(p) \/ RecheckSaves(p)
  \/ \E d \in Shared : Plan(p, d) \/ Work(p, d) \/ Emit(p, d)

Next == \E p \in Procs : Begin(p) \/ Step(p) \/ Crash(p)

Spec     == Init /\ [][Next]_vars
FairSpec == Spec /\ \A p \in Procs : WF_vars(Step(p))

-----------------------------------------------------------------------------
TypeOK ==
  /\ runs \in Runs
  /\ saved \in [Shared -> States] /\ report \in [Shared -> States]
  /\ lock \in [Shared -> SUBSET Procs]
  /\ kind \in [Procs -> {"run", "plan", "resume", "recheck"}]
  /\ pc \in [Procs -> {"idle", "lock", "work", "rechecked", "rechecked_state"}]
  /\ {todo, held, busy} \subseteq [Procs -> SUBSET Shared]
  /\ mem \in [Procs -> [Shared -> States]]

(* Whatever drives two batches share and in whatever order they lock them, *)
(* both come to an end: a drive that is held is dropped, never waited for. *)
EveryCommandEnds == \A p \in Procs : pc[p] # "idle" ~> pc[p] = "idle"

(* state.json is that of the run at work on the drive: no second instance  *)
(* overwrites "this run's checkpoint" (cmd_run).                           *)
CheckpointBelongsToRunner ==
  \A p \in Procs : \A d \in busy[p] : saved[d].run = mem[p][d].run

(* A resume goes on from what its drive's state.json says, and loses no    *)
(* finding of the run it resumes (cmd_resume).                             *)
ResumeKeepsFindings ==
  [][\A d \in Shared :
       saved[d].found /\ saved'[d].run = saved[d].run => saved'[d].found]_vars

(* A recheck "will not touch a drive that has since been re-erased or is   *)
(* mid-run" (cmd_recheck).                                                 *)
RecheckLeavesRunsAlone ==
  [][\A p \in Procs : RecheckReports(p) =>
       \A d \in todo[p] : /\ report[d].run = mem[p][d].run
                          /\ \A q \in Procs : d \notin busy[q]]_vars
=============================================================================
