------------------------------- MODULE Supervisor -------------------------------
(***************************************************************************)
(* The parent of a batch: one child process per drive, at most Jobs at a   *)
(* time, its signal handler, the queue the children answer on, and the     *)
(* batch index.                                                            *)
(*                                                                         *)
(* The handler runs between any two steps of the loop, so every step ends  *)
(* where another process, or the handler, can see a difference.  A child   *)
(* is what the parent can see of DriveRun: it boots, writes a report, puts *)
(* its exit code on the queue and exits, or dies at any point before.      *)
(***************************************************************************)
EXTENDS FiniteSets, Naturals

CONSTANTS
  Drives,
  Jobs,              (* --jobs                                             *)
  MaxInterrupts,     (* bound: the signals the parent receives             *)
  DoubleInterrupt,   (* the operator may interrupt twice within            *)
                     (* shutdown.double_interrupt_s                        *)
  Reported           (* the drives with the report of an earlier run       *)

ASSUME SupervisorAssumption ==
  /\ IsFiniteSet(Drives)
  /\ Jobs \in Nat \ {0}
  /\ MaxInterrupts \in Nat
  /\ DoubleInterrupt \in BOOLEAN
  /\ Reported \subseteq Drives

VARIABLES
  parent,      (* where Supervisor.run is                                  *)
  pending,     (* drives not yet popped                                    *)
  popped,      (* the drive between pending.pop and its entry in children  *)
  children,    (* _children                                                *)
  results,     (* _results                                                 *)
  queue,       (* put by the children, not yet read                        *)
  stopping,    (* _stopping                                                *)
  overdue,     (* child_grace_s have passed since _last_interrupt          *)
  interrupts,  (* how many signals so far                                  *)
  locked,      (* the flocks are held: no LOCK_UN on what all share        *)
  index,       (* the grade of each drive in the batch index               *)
  proc,        (* the state of each drive's child                          *)
  lonely,      (* the child was forked with no sibling registered          *)
  asked,       (* the child's stop flag, while its phases look at it       *)
  put,         (* what the child put (history)                             *)
  report       (* report.json                                              *)

loop   == <<pending, popped, children, results, index>>
stops  == <<stopping, overdue, interrupts>>
kids   == <<proc, lonely, asked, put, report>>
vars   == <<parent, loop, queue, stops, locked, kids>>

NoDrive == {}

(* "failed": any code but EXIT_OK, returned or by an exception.            *)
Codes   == {"ok", "failed"}
Results == {"none", "died"} \cup Codes

(* "stale": the certificate of an earlier run of the drive.                *)
Reports == {"none", "stale", "good", "bad"}

(* The batch is over, was left by SystemExit, or its parent was killed.    *)
Ends == {"over", "fled", "gone"}

Alive   == {"forked", "running", "reported", "answered", "dying"}
Living  == {d \in Drives : proc[d] \in Alive}
Started == {d \in Drives : proc[d] # "none"}

-----------------------------------------------------------------------------
(* The loop of Supervisor.run.                                             *)

(* A bug: the loop ends with its children.                                 *)
Bug_Top == IF children # {} THEN "dispatch" ELSE "finish"

Top == IF pending # {} \/ children # {} THEN "dispatch" ELSE "finish"

(* A bug: a stop is only looked at when the loop ends.                     *)
Bug_DispatchOn == pending # {} /\ Cardinality(children) < Jobs

(* A bug: one child too many.                                              *)
Bug_CanDispatch ==
  pending # {} /\ Cardinality(children) <= Jobs /\ ~stopping

CanDispatch ==
  pending # {} /\ Cardinality(children) < Jobs /\ ~stopping

Pop ==
  /\ parent = "dispatch"
  /\ CanDispatch
  /\ \E d \in pending : popped' = {d} /\ pending' = pending \ {d}
  /\ parent' = "start"
  /\ UNCHANGED <<children, results, index, queue, stops, locked, kids>>

(* proc.start(): the child inherits _children and the handler as they are. *)
Start ==
  /\ parent = "start"
  /\ parent' = "register"
  /\ \E d \in popped :
       /\ proc' = [proc EXCEPT ![d] = "forked"]
       /\ lonely' = [lonely EXCEPT ![d] = (children = {})]
  /\ UNCHANGED <<loop, queue, stops, locked, asked, put, report>>

Register ==
  /\ parent = "register"
  /\ parent' = "dispatch"
  /\ children' = children \cup popped
  /\ popped' = NoDrive
  /\ UNCHANGED <<pending, results, index, queue, stops, locked, kids>>

StopDispatching ==
  /\ parent = "dispatch"
  /\ ~CanDispatch
  /\ parent' = "drain"
  /\ UNCHANGED <<loop, queue, stops, locked, kids>>

ReadQueue ==
  /\ results' = [d \in Drives |-> IF d \in queue THEN put[d] ELSE results[d]]
  /\ queue' = {}

(* _reap, its first half and its second: a child may answer and exit in    *)
(* between.                                                                *)
Drain ==
  /\ parent = "drain"
  /\ parent' = "check"
  /\ ReadQueue
  /\ UNCHANGED <<pending, popped, children, index, stops, locked, kids>>

Bury ==
  /\ parent = "check"
  /\ parent' = "overdue"
  /\ LET dead == children \ Living IN
       /\ children' = children \ dead
       /\ results' = [d \in Drives |->
            IF d \in dead /\ results[d] = "none" THEN "died" ELSE results[d]]
  /\ UNCHANGED <<pending, popped, index, queue, stops, locked, kids>>

(* A bug: a stop leaves the loop with children still in it.                *)
Bug_KillOverdue ==
  /\ parent = "overdue"
  /\ parent' = IF stopping THEN "finish" ELSE Top
  /\ UNCHANGED <<loop, queue, stops, locked, kids>>

(* A bug: the parent waits for a child that hangs.                         *)
Bug_WaitForEver ==
  /\ parent = "overdue"
  /\ parent' = IF stopping /\ children = {} THEN "finish" ELSE Top
  /\ UNCHANGED <<loop, queue, stops, locked, kids>>

(* _kill_overdue_children, and the end of the loop's body.                 *)
KillOverdue ==
  /\ parent = "overdue"
  /\ proc' = [d \in Drives |->
       IF stopping /\ overdue /\ d \in children \cap Living
       THEN "dying" ELSE proc[d]]
  /\ parent' = IF stopping /\ children = {} THEN "finish" ELSE Top
  /\ UNCHANGED <<loop, queue, stops, locked, lonely, asked, put, report>>

(* A bug: what was answered since the last _reap is not read.              *)
Bug_FinalDrain ==
  /\ parent = "finish"
  /\ parent' = "summarize"
  /\ UNCHANGED <<loop, queue, stops, locked, kids>>

FinalDrain ==
  /\ parent = "finish"
  /\ parent' = "summarize"
  /\ ReadQueue
  /\ UNCHANGED <<pending, popped, children, index, stops, locked, kids>>

(* A bug: the exit code where there is no report.                          *)
Bug_GradeOf(d) == IF report[d] = "none" THEN results[d] ELSE report[d]

(* _summarize grades a drive by its report.json, whatever the result.      *)
GradeOf(d) == IF report[d] = "none" THEN "bad" ELSE report[d]

Summarize ==
  /\ parent = "summarize"
  /\ parent' = "unlock"
  /\ index' = [d \in Drives |-> IF d \in Started THEN GradeOf(d) ELSE "none"]
  /\ UNCHANGED <<pending, popped, children, results, queue, stops, locked, kids>>

(* The finally of run_locked: LOCK_UN acts on the open file description,   *)
(* which the children share.                                               *)
Unlock ==
  /\ \/ parent = "unlock" /\ parent' = "over"
     \/ parent = "exit"   /\ parent' = "fled"
  /\ locked' = FALSE
  /\ UNCHANGED <<loop, queue, stops, kids>>

-----------------------------------------------------------------------------
(* Signals to the parent.                                                  *)

InRun == parent \in {"dispatch", "start", "register", "drain", "check",
                     "overdue", "finish", "summarize"}

(* SIGTERM to the children that are told.  One that has not yet installed  *)
(* its own handler runs the parent's: with siblings in its _children the   *)
(* is_alive of another process's child fails its assertion and the child   *)
(* dies; without any, the signal is lost.                                  *)
Tell(told) ==
  /\ asked' = [d \in Drives |->
       asked[d] \/ (d \in told /\ proc[d] = "running")]
  /\ proc' = [d \in Drives |->
       IF d \in told /\ proc[d] = "forked" /\ ~lonely[d] THEN "dead" ELSE proc[d]]

(* An operator's Ctrl+C or kill, or systemd stopping the whole cgroup,     *)
(* children included.                                                      *)
Interrupt ==
  /\ InRun
  /\ interrupts < MaxInterrupts
  /\ interrupts' = interrupts + 1
  /\ stopping' = TRUE
  /\ overdue' = FALSE
  /\ Tell(children \cap Living) \/ Tell(Living)
  /\ UNCHANGED <<parent, loop, queue, locked, lonely, put, report>>

(* A second one at once: kill what is registered and leave by SystemExit,  *)
(* through run_locked.                                                     *)
SecondInterrupt ==
  /\ DoubleInterrupt
  /\ InRun /\ stopping /\ ~overdue
  /\ proc' = [d \in Drives |->
       IF d \in children \cap Living THEN "dying" ELSE proc[d]]
  /\ parent' = "exit"
  /\ UNCHANGED <<loop, queue, stops, locked, lonely, asked, put, report>>

GraceExpires ==
  /\ stopping /\ ~overdue
  /\ overdue' = TRUE
  /\ UNCHANGED <<parent, loop, queue, stopping, interrupts, locked, kids>>

(* SIGKILL, or the OOM killer, for the parent: the children live on, with  *)
(* the lock they inherited.                                                *)
ParentDies ==
  /\ parent \notin Ends
  /\ parent' = "gone"
  /\ UNCHANGED <<loop, queue, stops, locked, kids>>

-----------------------------------------------------------------------------
(* The children.                                                           *)

(* _install_child_signals                                                  *)
Boot(d) ==
  /\ proc[d] = "forked"
  /\ proc' = [proc EXCEPT ![d] = "running"]
  /\ lonely' = [lonely EXCEPT ![d] = FALSE]
  /\ UNCHANGED <<parent, loop, queue, stops, locked, asked, put, report>>

Emit(d) ==
  /\ proc[d] = "running"
  /\ proc' = [proc EXCEPT ![d] = "reported"]
  /\ \E grade \in {"good", "bad"} : report' = [report EXCEPT ![d] = grade]
  /\ asked' = [asked EXCEPT ![d] = FALSE]
  /\ UNCHANGED <<parent, loop, queue, stops, locked, lonely, put>>

(* _child_entry: the exit code, or the exception that left run_drive, also *)
(* after report.json was written (emit goes on to render it).              *)
Answer(d) ==
  /\ \/ /\ proc[d] = "reported" /\ report[d] = "good"
        /\ put' = [put EXCEPT ![d] = "ok"]
     \/ /\ proc[d] \in {"running", "reported"}
        /\ put' = [put EXCEPT ![d] = "failed"]
  /\ proc' = [proc EXCEPT ![d] = "answered"]
  /\ asked' = [asked EXCEPT ![d] = FALSE]
  /\ queue' = queue \cup {d}
  /\ UNCHANGED <<parent, loop, stops, locked, lonely, report>>

(* What the child kept to itself goes with it.                             *)
ChildGone(d) ==
  /\ proc' = [proc EXCEPT ![d] = "dead"]
  /\ lonely' = [lonely EXCEPT ![d] = FALSE]
  /\ asked' = [asked EXCEPT ![d] = FALSE]
  /\ UNCHANGED <<parent, loop, queue, stops, locked, put, report>>

ChildExits(d) == proc[d] \in {"answered", "dying"} /\ ChildGone(d)

ChildCrashes(d) == proc[d] \in Alive /\ ChildGone(d)

-----------------------------------------------------------------------------
Init ==
  /\ parent = "dispatch"
  /\ pending = Drives /\ popped = NoDrive /\ children = {}
  /\ results = [d \in Drives |-> "none"]
  /\ queue = {}
  /\ stopping = FALSE /\ overdue = FALSE /\ interrupts = 0
  /\ locked = TRUE
  /\ index = [d \in Drives |-> "none"]
  /\ proc = [d \in Drives |-> "none"]
  /\ lonely = [d \in Drives |-> FALSE]
  /\ asked = [d \in Drives |-> FALSE]
  /\ put = [d \in Drives |-> "none"]
  /\ report = [d \in Drives |-> IF d \in Reported THEN "stale" ELSE "none"]

ParentStep ==
  Pop \/ Start \/ Register \/ StopDispatching \/ Drain \/ Bury \/ KillOverdue
  \/ FinalDrain \/ Summarize \/ Unlock

Signals == Interrupt \/ SecondInterrupt \/ ParentDies

ChildStep(d) == Boot(d) \/ Emit(d) \/ Answer(d) \/ ChildExits(d) \/ ChildCrashes(d)

Next == ParentStep \/ Signals \/ GraceExpires \/ \E d \in Drives : ChildStep(d)

Spec == Init /\ [][Next]_vars

(* The parent's loop and the clock go on, and what is killed or has        *)
(* answered ends; a child may hang for ever in a read.                     *)
FairSpec ==
  /\ Spec
  /\ WF_vars(ParentStep)
  /\ WF_vars(GraceExpires)
  /\ WF_vars(\E d \in Drives : ChildExits(d))

-----------------------------------------------------------------------------
TypeOK ==
  /\ parent \in {"dispatch", "start", "register", "drain", "check", "overdue",
                "finish", "summarize", "unlock", "exit"} \cup Ends
  /\ {pending, popped, children, queue} \subseteq SUBSET Drives
  /\ results \in [Drives -> Results] /\ put \in [Drives -> Codes \cup {"none"}]
  /\ {stopping, overdue, locked} \subseteq BOOLEAN
  /\ interrupts \in 0..MaxInterrupts
  /\ index \in [Drives -> Reports] /\ report \in [Drives -> Reports]
  /\ proc \in [Drives -> Alive \cup {"none", "dead"}]
  /\ lonely \in [Drives -> BOOLEAN] /\ asked \in [Drives -> BOOLEAN]

(* Never more than --jobs drives at work, counting the child that is       *)
(* forked and not yet registered (supervisor.py run).                      *)
AtMostJobs == Cardinality(Living) <= Jobs

(* What a child answered is what the batch says of it, also when it        *)
(* answered and exited between the two halves of _reap, and a child that   *)
(* died without an answer is recorded as such.                             *)
ResultsAreTheChildrens ==
  parent = "summarize"
    => \A d \in Started :
         results[d] = IF put[d] = "none" THEN "died" ELSE put[d]

(* A batch nobody stopped has run every drive, whatever crashed.           *)
NoDriveIsForgotten ==
  parent = "over" /\ ~stopping
    => \A d \in Drives : proc[d] = "dead" /\ results[d] # "none"

(* Nobody else can take a drive while its child may still write to it:     *)
(* "held for the WHOLE pipeline" (supervisor.py DriveLock, SPEC 8.1); but  *)
(* a second interrupt unlocks the drives of children it has only just      *)
(* killed, or does not know of.                                            *)
LockCoversChild == Living # {} => locked \/ parent = "fled"

(* Once asked to stop the parent ends, also when a child hangs: "wait up   *)
(* to 60 seconds [...] then SIGKILL any stragglers" (SPEC 8.2).            *)
StopEnds == stopping ~> parent \in Ends

(* The batch as its operator and its reader see it: what all the loop, the *)
(* handler, the queue and the children do is a step of Batch or of none.   *)
(* A drive is begun once, while a job is free, and after a stop only if it *)
(* was popped before; it is listed by the report of its own child, and     *)
(* only without one by what an earlier run left; an answer is never taken  *)
(* for a death (Supervisor.run, _reap, _summarize).                        *)
Stage(d) ==
  CASE proc[d] = "none" /\ d \notin popped -> "waiting"
    [] proc[d] = "none" /\ d \in popped    -> "chosen"
    [] proc[d] = "dead"                    -> "gone"
    [] OTHER                               -> "working"

Stages    == [d \in Drives |-> Stage(d)]
Certified == [d \in Drives |-> IF report[d] = "stale" THEN "none" ELSE report[d]]
Told      == [d \in Drives |-> IF index[d] = "none" THEN "none" ELSE results[d]]

Promise == INSTANCE Batch WITH
  stage <- Stages, stopped <- stopping, certified <- Certified,
  said <- put, told <- Told, listed <- index

BatchPromised == Promise!Spec

(* SPEC 8.2: "stop dispatching new drives"; the handler says "no new       *)
(* drives will start".                                                     *)
NoStartAfterStop ==
  [][stopping => \A d \in Drives : proc[d] = "none" => proc'[d] = "none"]_vars

(* SPEC 8.2: the signal goes to every live child, which has child_grace_s  *)
(* to checkpoint before it is killed.                                      *)
KilledAfterAsked ==
  [][\A d \in Drives :
       parent = "overdue" /\ proc[d] = "running" /\ proc'[d] = "dying"
         => asked[d]]_vars

(* SPEC 8.1: the parent must mark the drive of a crashed child failed; no  *)
(* drive goes into the index on the certificate of an earlier run, or of a *)
(* child that did not come to its end.                                     *)
CrashIsNotCertified ==
  \A d \in Drives : index[d] \in {"good", "stale"} => results[d] = "ok"
=============================================================================
