---------------------------- MODULE Supervisor_proofs ----------------------------
(***************************************************************************)
(* What holds of a batch of any size, for any number of jobs and signals;  *)
(* and, at the end, of any number of instances over one output root.       *)
(***************************************************************************)
EXTENDS Supervisor, DriveLock, FiniteSetTheorems, TLAPS

(* Where the loop stands between two drives.                               *)
Between == {"dispatch", "drain", "check", "overdue", "finish", "summarize"}

(* Every child that lives is one the parent knows of, or is about to.      *)
Known ==
  /\ Living \subseteq children \cup popped
  /\ parent \in Between => popped = NoDrive
  /\ \A d, e \in popped : d = e

(* The slots: the child about to be registered counts.                     *)
Slots == Cardinality(children \cup popped) <= Jobs

(* An answer is on the queue until it is in the results, and only a child  *)
(* that is gone is recorded as dead.                                       *)
Answered(d) ==
  /\ d \in queue <=> put[d] # "none" /\ results[d] # put[d]
  /\ results[d] \in {"none", "died", put[d]}
  /\ put[d] # "none" => proc[d] \in {"answered", "dying", "dead"}
  /\ results[d] = "died" => proc[d] = "dead"

(* Every drive waits, is at work, or has a result.                         *)
Placed(d) ==
  /\ proc[d] = "none" => d \in (pending \cup popped) \ children
  /\ d \in pending => proc[d] = "none" /\ d \notin popped
  /\ parent = "start" /\ d \in popped => proc[d] = "none"
  /\ parent = "register" /\ d \in popped => proc[d] # "none"
  /\ proc[d] = "dead" => d \in children \cup popped \/ results[d] # "none"

(* The loop ends with every child buried, and summarizes with every answer *)
(* read; only a second interrupt leaves it otherwise.                      *)
Ended ==
  /\ parent \in {"finish", "summarize"} => children = {}
  /\ parent = "summarize" => queue = {}
  /\ parent \in {"unlock", "over"} => children = {} /\ popped = {}
  /\ parent \in {"finish", "summarize", "unlock", "over"} /\ ~stopping
       => pending = {}
  /\ ~locked => parent \in {"over", "fled"}

Accounts == \A d \in Drives : Answered(d) /\ Placed(d)

IInv == TypeOK /\ Known /\ Slots /\ Ended /\ Accounts

LEMMA DrivesAreFinite ==
  ASSUME NEW S \in SUBSET Drives
  PROVE  IsFiniteSet(S) /\ Cardinality(S) \in Nat
BY SupervisorAssumption, FS_Subset, FS_CardinalityType

LEMMA SmallerSet ==
  ASSUME NEW S \in SUBSET Drives, NEW T \in SUBSET S
  PROVE  Cardinality(T) <= Cardinality(S)
BY DrivesAreFinite, FS_Subset

LEMMA OneMore ==
  ASSUME NEW S \in SUBSET Drives, NEW d \in Drives
  PROVE  Cardinality(S \cup {d}) <= Cardinality(S) + 1
<1>1. CASE d \in S
  <2>1. S \cup {d} = S
    BY <1>1
  <2> QED BY <2>1, DrivesAreFinite
<1>2. CASE d \notin S
  BY <1>2, DrivesAreFinite, FS_AddElement
<1> QED BY <1>1, <1>2

-----------------------------------------------------------------------------
LEMMA InvariantInit == Init => IInv
<1> SUFFICES ASSUME Init PROVE IInv
  OBVIOUS
<1>1. Cardinality(children \cup popped) = 0
  BY FS_EmptySet DEF Init, NoDrive
<1>2. TypeOK
  <2>1. {pending, popped, children, queue} \subseteq SUBSET Drives
    BY DEF Init, NoDrive
  <2>2. /\ results \in [Drives -> Results] /\ put \in [Drives -> Codes \cup {"none"}]
        /\ index \in [Drives -> Reports]
        /\ proc \in [Drives -> Alive \cup {"none", "dead"}]
        /\ lonely \in [Drives -> BOOLEAN] /\ asked \in [Drives -> BOOLEAN]
    BY DEF Init, Results, Reports
  <2>3. report \in [Drives -> Reports]
    BY DEF Init, Reports
  <2>4. {stopping, overdue, locked} \subseteq BOOLEAN
    BY DEF Init
  <2>5. interrupts \in 0..MaxInterrupts /\ parent = "dispatch"
    BY SupervisorAssumption DEF Init
  <2> QED BY <2>1, <2>2, <2>3, <2>4, <2>5 DEF TypeOK
<1> QED BY <1>1, <1>2, SupervisorAssumption
        DEF Init, IInv, Known, Slots, Ended, Accounts, Answered, Placed, Living,
            Alive, NoDrive

(* A step that adds no drive to those in hand keeps within the slots.      *)
LEMMA SlotsKept ==
  ASSUME IInv, children' \cup popped' \subseteq children \cup popped
  PROVE  Slots'
<1>1. children \cup popped \in SUBSET Drives
  BY DEF IInv, TypeOK
<1>2. Cardinality(children' \cup popped') <= Cardinality(children \cup popped)
  BY <1>1, SmallerSet
<1>3. /\ Cardinality(children \cup popped) \in Nat
      /\ Cardinality(children' \cup popped') \in Nat
  BY <1>1, DrivesAreFinite
<1> QED BY <1>2, <1>3, SupervisorAssumption DEF IInv, Slots

(* One step of the parent's loop.                                          *)
LEMMA ParentInvariant == IInv /\ ParentStep => IInv'
<1> SUFFICES ASSUME IInv, ParentStep PROVE IInv'
  OBVIOUS
<1> USE DEF IInv, TypeOK, Known, Ended, Accounts, Answered, Placed, Living, Started, Alive, NoDrive,
        Between, Ends, Results, Codes, loop, stops, kids
<1>1. CASE Pop
  <2>1. PICK d \in pending : popped' = {d} /\ pending' = pending \ {d}
    BY <1>1 DEF Pop
  <2>2. children \in SUBSET Drives /\ d \in Drives /\ children' = children
    BY <1>1, <2>1 DEF Pop
  <2>3. Cardinality(children) < Jobs /\ Cardinality(children) \in Nat
    BY <1>1, <2>2, DrivesAreFinite DEF Pop, CanDispatch
  <2>4. Cardinality(children \cup {d}) \in Nat
    BY <2>2, DrivesAreFinite
  <2>5. Slots'
    BY <2>1, <2>2, <2>3, <2>4, OneMore, SupervisorAssumption DEF Slots
  <2>6. TypeOK'
    BY <1>1, <2>1 DEF Pop
  <2>7. Known' /\ Ended'
    BY <1>1, <2>1 DEF Pop
  <2>8. Accounts'
    BY <1>1, <2>1 DEF Pop
  <2> QED BY <2>5, <2>6, <2>7, <2>8
<1>2. CASE Start
  <2>1. Slots'
    BY <1>2, SlotsKept DEF Start
  <2>2. TypeOK'
    BY <1>2 DEF Start
  <2>3. Known' /\ Ended'
    BY <1>2 DEF Start
  <2>4. Accounts'
    <3>1. PICK e \in popped : proc' = [proc EXCEPT ![e] = "forked"]
      BY <1>2 DEF Start
    <3>2. /\ e \in Drives /\ proc[e] = "none" /\ e \notin children
          /\ put[e] = "none" /\ results[e] = "none" /\ e \notin pending
      BY <1>2, <3>1 DEF Start
    <3>3. /\ parent' = "register"
          /\ UNCHANGED <<pending, popped, children, results, queue, put>>
      BY <1>2 DEF Start
    <3>4. ASSUME NEW d \in Drives PROVE Answered(d)' /\ Placed(d)'
      <4>1. CASE d = e
        BY <3>1, <3>2, <3>3, <4>1
      <4>2. CASE d # e
        <5>1. proc'[d] = proc[d]
          BY <3>1, <4>2
        <5>2. d \notin popped
          BY <3>1, <4>2
        <5>3. Answered(d)'
          BY <3>3, <5>1
        <5>4. Placed(d)'
          BY <3>3, <5>1, <5>2
        <5> QED BY <5>3, <5>4
      <4> QED BY <4>1, <4>2
    <3> QED BY <3>4
  <2> QED BY <2>1, <2>2, <2>3, <2>4
<1>3. CASE Register
  <2>1. Slots'
    BY <1>3, SlotsKept DEF Register
  <2>2. TypeOK'
    BY <1>3 DEF Register
  <2>3. Known' /\ Ended'
    BY <1>3 DEF Register
  <2>4. Accounts'
    <3> SUFFICES ASSUME NEW d \in Drives PROVE Answered(d)' /\ Placed(d)'
      OBVIOUS
    <3>1. /\ parent' = "dispatch" /\ children' = children \cup popped
          /\ popped' = {} /\ UNCHANGED <<pending, results, queue, put, proc>>
      BY <1>3 DEF Register
    <3>2. Answered(d)'
      BY <3>1
    <3>3. d \in popped => proc[d] # "none"
      BY <1>3 DEF Register
    <3>4. Placed(d)'
      BY <3>1, <3>3
    <3> QED BY <3>2, <3>4
  <2> QED BY <2>1, <2>2, <2>3, <2>4
<1>4. CASE StopDispatching
  <2>1. Slots'
    BY <1>4, SlotsKept DEF StopDispatching
  <2>2. TypeOK'
    BY <1>4 DEF StopDispatching, CanDispatch
  <2>3. Known' /\ Ended'
    BY <1>4 DEF StopDispatching, CanDispatch
  <2>4. Accounts'
    BY <1>4 DEF StopDispatching, CanDispatch
  <2> QED BY <2>1, <2>2, <2>3, <2>4
<1>5. CASE Drain
  <2>1. Slots'
    BY <1>5, SlotsKept DEF Drain
  <2>2. TypeOK'
    BY <1>5 DEF Drain, ReadQueue
  <2>3. Known' /\ Ended'
    BY <1>5 DEF Drain, ReadQueue
  <2>4. Accounts'
    <3> SUFFICES ASSUME NEW d \in Drives PROVE Answered(d)' /\ Placed(d)'
      OBVIOUS
    <3>1. /\ parent' = "check" /\ queue' = {}
          /\ results'[d] = IF d \in queue THEN put[d] ELSE results[d]
          /\ UNCHANGED <<pending, popped, children, proc, put>>
      BY <1>5 DEF Drain, ReadQueue
    <3>2. Answered(d) /\ Placed(d)
      OBVIOUS
    <3>3. Answered(d)'
      BY <3>1, <3>2
    <3>4. Placed(d)'
      BY <3>1, <3>2
    <3> QED BY <3>3, <3>4
  <2> QED BY <2>1, <2>2, <2>3, <2>4
<1>6. CASE Bury
  <2>1. Slots'
    BY <1>6, SlotsKept DEF Bury
  <2>2. TypeOK'
    BY <1>6 DEF Bury
  <2>3. Known' /\ Ended'
    BY <1>6 DEF Bury
  <2>4. Accounts'
    <3> SUFFICES ASSUME NEW d \in Drives PROVE Answered(d)' /\ Placed(d)'
      OBVIOUS
    <3>1. /\ parent' = "overdue"
          /\ children' = children \ (children \ Living)
          /\ results'[d] = IF d \in children \ Living /\ results[d] = "none"
                          THEN "died" ELSE results[d]
          /\ UNCHANGED <<pending, popped, queue, proc, put>>
      BY <1>6 DEF Bury
    <3>2. Answered(d) /\ Placed(d)
      OBVIOUS
    <3>3. d \in children \ Living => proc[d] = "dead"
      BY <3>2
    <3>4. Answered(d)'
      BY <3>1, <3>2, <3>3
    <3>5. Placed(d)'
      BY <3>1, <3>2, <3>3
    <3> QED BY <3>4, <3>5
  <2> QED BY <2>1, <2>2, <2>3, <2>4
<1>7. CASE KillOverdue
  <2>1. Slots'
    BY <1>7, SlotsKept DEF KillOverdue
  <2>2. TypeOK'
    BY <1>7 DEF KillOverdue, Top
  <2>3. Known' /\ Ended'
    BY <1>7 DEF KillOverdue, Top
  <2>4. Accounts'
    BY <1>7 DEF KillOverdue, Top
  <2> QED BY <2>1, <2>2, <2>3, <2>4
<1>8. CASE FinalDrain
  <2>1. Slots'
    BY <1>8, SlotsKept DEF FinalDrain
  <2>2. TypeOK'
    BY <1>8 DEF FinalDrain, ReadQueue
  <2>3. Known' /\ Ended'
    BY <1>8 DEF FinalDrain, ReadQueue
  <2>4. Accounts'
    BY <1>8 DEF FinalDrain, ReadQueue
  <2> QED BY <2>1, <2>2, <2>3, <2>4
<1>9. CASE Summarize
  <2>1. Slots'
    BY <1>9, SlotsKept DEF Summarize
  <2>2. TypeOK'
    BY <1>9 DEF Summarize, GradeOf, Started, Reports
  <2>3. Known' /\ Ended'
    BY <1>9 DEF Summarize, GradeOf, Started, Reports
  <2>4. Accounts'
    BY <1>9 DEF Summarize, GradeOf, Started, Reports
  <2> QED BY <2>1, <2>2, <2>3, <2>4
<1>10. CASE Unlock
  <2>1. Slots'
    BY <1>10, SlotsKept DEF Unlock
  <2>2. TypeOK'
    BY <1>10 DEF Unlock
  <2>3. Known' /\ Ended'
    BY <1>10 DEF Unlock
  <2>4. Accounts'
    BY <1>10 DEF Unlock
  <2> QED BY <2>1, <2>2, <2>3, <2>4
<1> QED BY <1>1, <1>2, <1>3, <1>4, <1>5, <1>6, <1>7, <1>8, <1>9, <1>10 DEF ParentStep

(* A signal to the parent, or the time after one.                          *)
LEMMA SignalInvariant == IInv /\ (Signals \/ GraceExpires) => IInv'
<1> SUFFICES ASSUME IInv, Signals \/ GraceExpires PROVE IInv'
  OBVIOUS
<1> USE DEF IInv, TypeOK, Known, Ended, Accounts, Answered, Placed, Living, Started, Alive, NoDrive,
        Between, Ends, Results, Codes, loop, stops, kids
<1>1. CASE Interrupt
  <2>1. Slots'
    BY <1>1, SlotsKept DEF Interrupt
  <2>2. TypeOK'
    <3>1. PICK told \in SUBSET Drives : Tell(told)
      BY <1>1 DEF Interrupt
    <3>2. asked' \in [Drives -> BOOLEAN]
      BY <3>1 DEF Tell
    <3>3. proc' \in [Drives -> Alive \cup {"none", "dead"}]
      BY <3>1 DEF Tell
    <3>4. interrupts' \in 0..MaxInterrupts
      BY <1>1, SupervisorAssumption DEF Interrupt
    <3> QED BY <1>1, <3>2, <3>3, <3>4 DEF Interrupt
  <2>3. Known' /\ Ended'
    BY <1>1 DEF Interrupt, Tell, InRun
  <2>4. Accounts'
    BY <1>1 DEF Interrupt, Tell, InRun
  <2> QED BY <2>1, <2>2, <2>3, <2>4
<1>2. CASE SecondInterrupt
  <2>1. Slots'
    BY <1>2, SlotsKept DEF SecondInterrupt
  <2>2. TypeOK'
    BY <1>2 DEF SecondInterrupt, InRun
  <2>3. Known' /\ Ended'
    BY <1>2 DEF SecondInterrupt, InRun
  <2>4. Accounts'
    BY <1>2 DEF SecondInterrupt, InRun
  <2> QED BY <2>1, <2>2, <2>3, <2>4
<1>3. CASE ParentDies
  <2>1. Slots'
    BY <1>3, SlotsKept DEF ParentDies
  <2>2. TypeOK'
    BY <1>3 DEF ParentDies
  <2>3. Known' /\ Ended'
    BY <1>3 DEF ParentDies
  <2>4. Accounts'
    BY <1>3 DEF ParentDies
  <2> QED BY <2>1, <2>2, <2>3, <2>4
<1>4. CASE GraceExpires
  <2>1. Slots'
    BY <1>4, SlotsKept DEF GraceExpires
  <2>2. TypeOK'
    BY <1>4 DEF GraceExpires
  <2>3. Known' /\ Ended'
    BY <1>4 DEF GraceExpires
  <2>4. Accounts'
    BY <1>4 DEF GraceExpires
  <2> QED BY <2>1, <2>2, <2>3, <2>4
<1> QED BY <1>1, <1>2, <1>3, <1>4 DEF Signals

(* One step of a child.                                                    *)
LEMMA ChildInvariant ==
  ASSUME IInv, NEW d \in Drives, ChildStep(d)
  PROVE  IInv'
<1> USE DEF IInv, TypeOK, Known, Ended, Accounts, Answered, Placed, Living, Started, Alive, NoDrive,
        Between, Ends, Results, Codes, loop, stops, kids
<1>1. CASE Boot(d)
  <2>1. Slots'
    BY <1>1, SlotsKept DEF Boot
  <2>2. TypeOK'
    BY <1>1 DEF Boot
  <2>3. Known' /\ Ended'
    BY <1>1 DEF Boot
  <2>4. Accounts'
    BY <1>1 DEF Boot
  <2> QED BY <2>1, <2>2, <2>3, <2>4
<1>2. CASE Emit(d)
  <2>1. Slots'
    BY <1>2, SlotsKept DEF Emit
  <2>2. TypeOK'
    BY <1>2 DEF Emit, Reports
  <2>3. Known' /\ Ended'
    BY <1>2 DEF Emit, Reports
  <2>4. Accounts'
    BY <1>2 DEF Emit, Reports
  <2> QED BY <2>1, <2>2, <2>3, <2>4
<1>3. CASE Answer(d)
  <2>1. Slots'
    BY <1>3, SlotsKept DEF Answer
  <2>2. TypeOK'
    BY <1>3 DEF Answer
  <2>3. Known' /\ Ended'
    BY <1>3 DEF Answer
  <2>4. Accounts'
    BY <1>3 DEF Answer
  <2> QED BY <2>1, <2>2, <2>3, <2>4
<1>4. CASE ChildExits(d)
  <2>1. Slots'
    BY <1>4, SlotsKept DEF ChildExits, ChildGone
  <2>2. TypeOK'
    BY <1>4 DEF ChildExits, ChildGone
  <2>3. Known' /\ Ended'
    BY <1>4 DEF ChildExits, ChildGone
  <2>4. Accounts'
    BY <1>4 DEF ChildExits, ChildGone
  <2> QED BY <2>1, <2>2, <2>3, <2>4
<1>5. CASE ChildCrashes(d)
  <2>1. Slots'
    BY <1>5, SlotsKept DEF ChildCrashes, ChildGone
  <2>2. TypeOK'
    BY <1>5 DEF ChildCrashes, ChildGone
  <2>3. Known' /\ Ended'
    BY <1>5 DEF ChildCrashes, ChildGone
  <2>4. Accounts'
    BY <1>5 DEF ChildCrashes, ChildGone
  <2> QED BY <2>1, <2>2, <2>3, <2>4
<1> QED BY <1>1, <1>2, <1>3, <1>4, <1>5 DEF ChildStep

(* The inductive invariant holds in every state.                           *)
THEOREM BatchIsSound == Spec => []IInv
<1>1. IInv /\ [Next]_vars => IInv'
  <2> SUFFICES ASSUME IInv, [Next]_vars PROVE IInv'
    OBVIOUS
  <2>1. CASE UNCHANGED vars
    BY <2>1 DEF vars, loop, stops, kids, IInv, TypeOK, Known, Slots, Ended, Accounts,
                Answered, Placed, Living
  <2> QED BY <2>1, ParentInvariant, SignalInvariant, ChildInvariant DEF Next
<1> QED BY InvariantInit, <1>1, PTL DEF Spec

(* The parent's variables and the children's states keep their types.      *)
THEOREM TypeCorrect == Spec => []TypeOK
<1>1. IInv => TypeOK
  BY DEF IInv
<1> QED BY <1>1, BatchIsSound, PTL

(* However many drives there are, no more than --jobs children live.       *)
THEOREM JobsAreBounded == Spec => []AtMostJobs
<1>1. IInv => AtMostJobs
  <2> SUFFICES ASSUME IInv PROVE AtMostJobs
    OBVIOUS
  <2>1. children \cup popped \in SUBSET Drives /\ Living \in SUBSET Drives
    BY DEF IInv, TypeOK, Living
  <2>2. Cardinality(Living) <= Cardinality(children \cup popped)
    BY <2>1, SmallerSet DEF IInv, Known
  <2>3. Cardinality(Living) \in Nat /\ Cardinality(children \cup popped) \in Nat
    BY <2>1, DrivesAreFinite
  <2> QED BY <2>2, <2>3, SupervisorAssumption DEF IInv, Slots, AtMostJobs
<1> QED BY <1>1, BatchIsSound, PTL

(* The race in _reap is harmless: whatever order answers, deaths and the   *)
(* parent's two looks come in, the summary holds what the children said.   *)
THEOREM AnswersArrive == Spec => []ResultsAreTheChildrens
<1>1. IInv => ResultsAreTheChildrens
  BY DEF IInv, TypeOK, Known, Between, NoDrive, Ended, Accounts, Answered, Placed,
         Living, Started, Alive, Results, Codes, ResultsAreTheChildrens
<1> QED BY <1>1, BatchIsSound, PTL

(* A batch that nobody stops runs every drive, whatever children die.      *)
THEOREM EveryDriveIsRun == Spec => []NoDriveIsForgotten
<1>1. IInv => NoDriveIsForgotten
  BY DEF IInv, TypeOK, Known, Ended, Accounts, Answered, Placed, Living, Alive,
         Ends, NoDriveIsForgotten
<1> QED BY <1>1, BatchIsSound, PTL

(* The locks outlive every child, unless the batch was left by a second    *)
(* interrupt.                                                              *)
THEOREM LocksOutliveChildren == Spec => []LockCoversChild
<1>1. IInv => LockCoversChild
  BY DEF IInv, TypeOK, Known, Ended, NoDrive, LockCoversChild
<1> QED BY <1>1, BatchIsSound, PTL
-----------------------------------------------------------------------------
(* What all of it comes to, seen from outside: Batch.                      *)

(* A report of this batch is its child's, which answers by it.             *)
Owns(d) ==
  /\ report[d] \in {"good", "bad"} => proc[d] \in {"reported", "answered", "dying", "dead"}
  /\ proc[d] = "reported" => report[d] \in {"good", "bad"}
  /\ put[d] = "ok" => report[d] = "good"

(* The index is written once, at the end.                                  *)
Unlisted ==
  parent \notin {"unlock", "over", "gone"} => \A d \in Drives : index[d] = "none"

ReportInv == Unlisted /\ \A d \in Drives : Owns(d)

LEMMA ReportInit == Init => ReportInv
BY DEF Init, ReportInv, Unlisted, Owns

(* Only its child's Emit writes a report, and only Summarize the index.    *)
LEMMA ReportStep ==
  ASSUME IInv, ReportInv, [Next]_vars
  PROVE  ReportInv'
<1> USE DEF ReportInv, Unlisted, Owns, kids, loop, stops
<1>1. CASE ParentStep \/ GraceExpires \/ UNCHANGED vars
  <2>1. CASE Pop \/ Register \/ StopDispatching \/ Drain \/ Bury \/ FinalDrain
             \/ Summarize \/ Unlock \/ GraceExpires \/ UNCHANGED vars
    BY <2>1 DEF Pop, Register, StopDispatching, Drain, Bury, FinalDrain, ReadQueue,
                Summarize, Unlock, GraceExpires, vars
  <2>2. CASE Start
    <3>1. PICK e \in popped : proc' = [proc EXCEPT ![e] = "forked"]
      BY <2>2 DEF Start
    <3>2. /\ e \in Drives /\ proc[e] = "none" /\ parent' = "register"
          /\ parent = "start" /\ UNCHANGED <<report, put, index>>
      BY <2>2, <3>1 DEF Start, IInv, TypeOK, Accounts, Placed
    <3>3. ASSUME NEW d \in Drives PROVE Owns(d)'
      <4>1. Owns(d)
        OBVIOUS
      <4> QED BY <3>1, <3>2, <4>1 DEF IInv, TypeOK
    <3> QED BY <3>2, <3>3
  <2>3. CASE KillOverdue
    BY <2>3 DEF KillOverdue, Top, Living, Alive, IInv, TypeOK, Accounts, Answered
  <2> QED BY <1>1, <2>1, <2>2, <2>3 DEF ParentStep
<1>2. CASE Signals
  <2>1. CASE Interrupt
    BY <2>1 DEF Interrupt, Tell, InRun
  <2>2. CASE SecondInterrupt
    BY <2>2 DEF SecondInterrupt, InRun, Living, Alive, IInv, Accounts, Answered
  <2>3. CASE ParentDies
    BY <2>3 DEF ParentDies
  <2> QED BY <1>2, <2>1, <2>2, <2>3 DEF Signals
<1>3. ASSUME NEW e \in Drives, ChildStep(e) PROVE ReportInv'
  <2>u. Unlisted' /\ UNCHANGED index
    BY <1>3 DEF ChildStep, Boot, Emit, Answer, ChildExits, ChildCrashes, ChildGone
  <2> SUFFICES ASSUME NEW d \in Drives PROVE Owns(d)'
    BY <2>u
  <2>1. CASE Boot(e)
    BY <2>1 DEF Boot, IInv, TypeOK
  <2>2. CASE Emit(e)
    BY <2>2 DEF Emit, IInv, TypeOK, Accounts, Answered
  <2>3. CASE Answer(e)
    BY <2>3 DEF Answer, IInv, TypeOK, Accounts, Answered
  <2>4. CASE ChildExits(e) \/ ChildCrashes(e)
    BY <2>4 DEF ChildExits, ChildCrashes, ChildGone, IInv, TypeOK
  <2> QED BY <1>3, <2>1, <2>2, <2>3, <2>4 DEF ChildStep
<1> QED BY <1>1, <1>2, <1>3 DEF Next

PromiseVars == Promise!vars

LEMMA PromiseInit == Init => Promise!Init
<1> SUFFICES ASSUME Init PROVE Promise!Init
  OBVIOUS
<1>1. Stages = [d \in Drives |-> "waiting"]
  BY DEF Init, Stages, Stage, NoDrive
<1>2. Certified = [d \in Drives |-> "none"]
  BY DEF Init, Certified
<1>3. Told = [d \in Drives |-> "none"]
  BY DEF Init, Told
<1> QED BY <1>1, <1>2, <1>3 DEF Init, Promise!Init

(* The working children are the living ones.                               *)
LEMMA WorkingLives ==
  ASSUME TypeOK
  PROVE  /\ Promise!AtStage("working") = Living
         /\ Promise!AtStage("chosen") = {d \in popped : proc[d] = "none"}
BY DEF TypeOK, Promise!AtStage, Stages, Stage, Living, Alive

(* What leaves the stages alone and the rest untouched is not seen.        *)
LEMMA NotSeen ==
  ASSUME IInv, UNCHANGED <<stopping, report, put, index>>,
         \A d \in Drives : Stage(d)' = Stage(d),
         results' = results \/ \A d \in Drives : index[d] = "none"
  PROVE  UNCHANGED PromiseVars
<1>1. Stages' = Stages
  BY DEF Stages
<1>2. Certified' = Certified
  BY DEF Certified
<1>3. Told' = Told
  BY DEF Told
<1> QED BY <1>1, <1>2, <1>3 DEF PromiseVars, Promise!vars

LEMMA PromiseParent ==
  ASSUME IInv, ReportInv, ParentStep
  PROVE  [Promise!Next]_PromiseVars
<1>t. TypeOK /\ Known /\ Ended /\ Accounts
  BY DEF IInv
<1>1. CASE Pop
  <2>1. PICK d \in pending : popped' = {d} /\ pending' = pending \ {d}
    BY <1>1 DEF Pop
  <2>2. /\ d \in Drives /\ proc[d] = "none" /\ popped = {} /\ CanDispatch
        /\ UNCHANGED <<children, results, index, stopping, kids>>
    BY <1>1, <1>t, <2>1 DEF Pop, TypeOK, Known, Between, NoDrive, Accounts, Placed, stops
  <2>3. Stages[d] = "waiting" /\ Stages' = [Stages EXCEPT ![d] = "chosen"]
    <3>1. Stage(d) = "waiting" /\ Stage(d)' = "chosen"
      BY <2>1, <2>2 DEF Stage, kids
    <3>2. \A e \in Drives \ {d} : Stage(e)' = Stage(e)
      BY <2>1, <2>2 DEF Stage, kids
    <3> QED BY <2>2, <3>1, <3>2 DEF Stages
  <2>4. Promise!AtStage("chosen") = {} /\ Promise!AtStage("working") = Living
    BY <1>t, <2>2, WorkingLives
  <2>5. Cardinality(Living) < Jobs
    <3>1. Living \in SUBSET children /\ children \in SUBSET Drives
      BY <1>t, <2>2 DEF Known, TypeOK
    <3>2. Cardinality(Living) <= Cardinality(children)
      BY <3>1, SmallerSet
    <3>3. Cardinality(Living) \in Nat /\ Cardinality(children) \in Nat
      BY <3>1, DrivesAreFinite
    <3> QED BY <2>2, <3>2, <3>3, SupervisorAssumption DEF CanDispatch
  <2>6. UNCHANGED <<Certified, Told>>
    BY <2>2 DEF Certified, Told, kids
  (* Cardinality as Batch sees it.                                         *)
  <2>7. Promise!Cardinality(Promise!AtStage("working")) < Jobs
    BY <2>4, <2>5 DEF Promise!Cardinality, Cardinality
  <2>s. ~stopping /\ UNCHANGED <<stopping, Certified, put, Told, index>>
    BY <2>2, <2>6 DEF CanDispatch, kids
  <2>8. Promise!Choose(d)
    BY <2>3, <2>4, <2>7, <2>s DEF Promise!Choose, Promise!Moves
  <2> QED BY <2>2, <2>8 DEF Promise!Next
<1>2. CASE Start
  <2>1. PICK d \in popped : proc' = [proc EXCEPT ![d] = "forked"]
    BY <1>2 DEF Start
  <2>2. /\ d \in Drives /\ proc[d] = "none"
        /\ UNCHANGED <<popped, results, index, stopping, put, report>>
    BY <1>2, <1>t, <2>1 DEF Start, TypeOK, Accounts, Placed, loop, stops
  <2>3. Stages[d] = "chosen" /\ Stages' = [Stages EXCEPT ![d] = "working"]
    BY <1>t, <2>1, <2>2 DEF Stages, Stage, TypeOK
  <2>4. UNCHANGED <<Certified, Told>>
    BY <2>2 DEF Certified, Told
  <2>5. Promise!Start(d)
    BY <2>2, <2>3, <2>4 DEF Promise!Start, Promise!Moves
  <2> QED BY <2>2, <2>5 DEF Promise!Next
<1>3. CASE Register
  <2>1. \A d \in Drives : Stage(d)' = Stage(d)
    BY <1>3, <1>t DEF Register, Accounts, Placed, Stage, NoDrive, kids
  <2> QED BY <1>3, <2>1, NotSeen DEF Register, kids, stops
<1>4. CASE StopDispatching \/ Unlock
  BY <1>4, NotSeen DEF StopDispatching, Unlock, Stage, loop, kids, stops
<1>5. CASE Drain \/ Bury \/ FinalDrain
  <2>1. \A d \in Drives : index[d] = "none"
    BY <1>5 DEF Drain, Bury, FinalDrain, ReportInv, Unlisted
  <2> QED BY <1>5, <2>1, NotSeen DEF Drain, Bury, FinalDrain, Stage, kids, stops
<1>6. CASE KillOverdue
  <2>1. \A d \in Drives : Stage(d)' = Stage(d)
    BY <1>6, <1>t DEF KillOverdue, TypeOK, Stage, Living, Alive, loop
  <2> QED BY <1>6, <2>1, NotSeen DEF KillOverdue, loop, stops
<1>7. CASE Summarize
  <2>1. /\ \A d \in Drives : index[d] = "none"
        /\ Living = {} /\ popped = {} /\ (stopping \/ pending = {})
    BY <1>7, <1>t DEF Summarize, ReportInv, Unlisted, Known, Between, Ended, NoDrive
  <2>2. ASSUME NEW d \in Drives
        PROVE  /\ proc[d] \in {"none", "dead"} /\ (proc[d] = "none" => d \in pending)
               /\ Stages[d] = IF proc[d] = "none" THEN "waiting" ELSE "gone"
               /\ index'[d] = IF proc[d] = "none" THEN "none" ELSE GradeOf(d)
               /\ GradeOf(d) # "none"
    BY <1>7, <1>t, <2>1
       DEF Summarize, TypeOK, Living, Alive, Accounts, Placed, Stages, Stage, Started, GradeOf
  <2>3. /\ Promise!AtStage("chosen") = {} /\ Promise!AtStage("working") = {}
        /\ stopping \/ Promise!AtStage("waiting") = {}
    BY <2>1, <2>2 DEF Promise!AtStage
  <2>4. index = [d \in Drives |-> "none"]
    BY <1>t, <2>1 DEF TypeOK
  <2>5. Told' = [d \in Drives |-> Promise!Answered(d)]
    <3>1. ResultsAreTheChildrens
      BY <1>t DEF TypeOK, Known, Between, NoDrive, Ended, Accounts, Answered, Placed, Living,
                  Started, Alive, Results, Codes, ResultsAreTheChildrens
    <3>2. ASSUME NEW d \in Drives
          PROVE  (IF index'[d] = "none" THEN "none" ELSE results'[d]) = Promise!Answered(d)
      BY <1>7, <2>2, <3>1
         DEF Summarize, ResultsAreTheChildrens, Started, Promise!Answered
    <3> QED BY <3>2 DEF Told
  <2>6. DOMAIN index' = Drives /\ \A d \in Drives : index'[d] \in Promise!Grades(d)
    BY <1>7, <1>t, <2>2 DEF Summarize, GradeOf, Promise!Grades, Certified, TypeOK, Reports
  <2>7. UNCHANGED <<Stages, stopping, Certified, put>>
    BY <1>7 DEF Summarize, Stages, Stage, Certified, kids, stops
  <2>8. Promise!Summarize
    BY <2>3, <2>4, <2>5, <2>6, <2>7 DEF Promise!Summarize
  <2> QED BY <2>8 DEF Promise!Next
<1> QED BY <1>1, <1>2, <1>3, <1>4, <1>5, <1>6, <1>7 DEF ParentStep

LEMMA PromiseSignal ==
  ASSUME IInv, ReportInv, Signals \/ GraceExpires
  PROVE  [Promise!Next]_PromiseVars
<1>t. TypeOK /\ Accounts
  BY DEF IInv
<1>1. CASE Interrupt
  <2>1. PICK told \in SUBSET Drives : Tell(told)
    BY <1>1 DEF Interrupt, Living, IInv, TypeOK
  <2> DEFINE lost == {d \in told : proc[d] = "forked" /\ ~lonely[d]}
  <2>2. \A d \in Drives : proc'[d] = IF d \in lost THEN "dead" ELSE proc[d]
    BY <2>1 DEF Tell
  <2>3. lost \in SUBSET {d \in Promise!AtStage("working") :
                           put[d] = "none" /\ Certified[d] = "none"}
    BY <1>t DEF ReportInv, Owns, Accounts, Answered, Promise!AtStage, Stages, Stage,
                Certified, TypeOK, Reports
  <2>4. Stages' = [d \in Drives |-> IF d \in lost THEN "gone" ELSE Stages[d]]
    BY <1>1, <2>2 DEF Stages, Stage, Interrupt, loop
  <2>5. stopping' = TRUE /\ UNCHANGED <<Certified, put, Told, index>>
    BY <1>1 DEF Interrupt, Certified, Told, loop
  <2>6. Promise!Stop
    BY <2>3, <2>4, <2>5 DEF Promise!Stop
  <2> QED BY <2>6 DEF Promise!Next
<1>2. CASE SecondInterrupt
  <2>1. \A d \in Drives : Stage(d)' = Stage(d)
    BY <1>2, <1>t DEF SecondInterrupt, TypeOK, Stage, Living, Alive, loop
  <2> QED BY <1>2, <2>1, NotSeen DEF SecondInterrupt, loop, stops
<1>3. CASE ParentDies \/ GraceExpires
  BY <1>3, NotSeen DEF ParentDies, GraceExpires, Stage, loop, kids, stops
<1> QED BY <1>1, <1>2, <1>3 DEF Signals

LEMMA PromiseChild ==
  ASSUME IInv, ReportInv, NEW d \in Drives, ChildStep(d)
  PROVE  [Promise!Next]_PromiseVars
<1>t. TypeOK /\ Accounts /\ Owns(d)
  BY DEF IInv, ReportInv
<1>u. UNCHANGED <<Told, stopping, index>>
  BY DEF ChildStep, Boot, Emit, Answer, ChildExits, ChildCrashes, ChildGone, loop, stops, Told
<1>1. CASE Boot(d)
  <2>1. \A e \in Drives : Stage(e)' = Stage(e)
    BY <1>1, <1>t DEF Boot, TypeOK, Stage, loop
  <2> QED BY <1>1, <2>1, NotSeen DEF Boot, loop, stops
<1>2. CASE Emit(d)
  <2>1. UNCHANGED <<Stages, put>> /\ Stages[d] = "working"
    BY <1>2, <1>t DEF Emit, TypeOK, Stages, Stage, loop
  <2>2. put[d] = "none" /\ Certified[d] = "none"
    BY <1>2, <1>t DEF Emit, Accounts, Answered, Owns, Certified, TypeOK, Reports
  <2>3. PICK grade \in {"good", "bad"} : report' = [report EXCEPT ![d] = grade]
    BY <1>2 DEF Emit
  <2>4. Certified' = [Certified EXCEPT ![d] = grade]
    BY <1>t, <2>3 DEF Certified, TypeOK
  <2>5. Promise!Certify(d)
    BY <1>u, <2>1, <2>2, <2>4 DEF Promise!Certify
  <2> QED BY <2>5 DEF Promise!Next
<1>3. CASE Answer(d)
  <2>1. UNCHANGED <<Stages, Certified>> /\ Stages[d] = "working"
    BY <1>3, <1>t DEF Answer, TypeOK, Stages, Stage, Certified, loop
  <2>2. put[d] = "none"
    BY <1>3, <1>t DEF Answer, Accounts, Answered
  <2>3. \E answer \in Promise!Says(d) : put' = [put EXCEPT ![d] = answer]
    BY <1>3 DEF Answer, Certified, Promise!Says
  <2>4. Promise!Answer(d)
    BY <1>u, <2>1, <2>2, <2>3 DEF Promise!Answer
  <2> QED BY <2>4 DEF Promise!Next
<1>4. CASE ChildExits(d) \/ ChildCrashes(d)
  <2>1. proc[d] \in Alive /\ ChildGone(d)
    BY <1>4 DEF ChildExits, ChildCrashes, Alive
  <2>2. Stages[d] = "working" /\ Stages' = [Stages EXCEPT ![d] = "gone"]
    BY <1>t, <2>1 DEF ChildGone, TypeOK, Stages, Stage, Alive, loop
  <2>3. UNCHANGED <<Certified, put>>
    BY <2>1 DEF ChildGone, Certified
  <2>4. Promise!End(d)
    BY <1>u, <2>2, <2>3 DEF Promise!End, Promise!Moves
  <2> QED BY <2>4 DEF Promise!Next
<1> QED BY <1>1, <1>2, <1>3, <1>4 DEF ChildStep

(* A batch of any size does only what Batch allows: whatever is lost,      *)
(* killed or late, a drive is begun once and with a job free, after a stop *)
(* only if it was already popped, and the index says of it what its own    *)
(* child said and reported.                                                *)
THEOREM BatchKeepsPromise == Spec => BatchPromised
<1>1. IInv /\ ReportInv /\ [Next]_vars => [Promise!Next]_PromiseVars
  <2> SUFFICES ASSUME IInv, ReportInv, [Next]_vars PROVE [Promise!Next]_PromiseVars
    OBVIOUS
  <2>1. CASE UNCHANGED vars
    BY <2>1, NotSeen DEF vars, loop, stops, kids, Stage
  <2> QED BY <2>1, PromiseParent, PromiseSignal, PromiseChild DEF Next
<1> QED BY PromiseInit, BatchIsSound, ReportInit, ReportStep, <1>1, PTL
        DEF Spec, BatchPromised, Promise!Spec, PromiseVars

-----------------------------------------------------------------------------
(* The per-drive lock keeps any number of processes off one drive.         *)

(* A process works on what it has locked, and what it has locked is        *)
(* nobody else's.                                                          *)
LockInv ==
  /\ lock \in [Shared -> SUBSET Procs]
  /\ {held, busy} \subseteq [Procs -> SUBSET Shared]
  /\ \A p \in Procs : busy[p] \subseteq held[p]
  /\ \A p \in Procs : \A d \in held[p] : lock[d] = {p}

LEMMA OwnersInit == LockInit => LockInv
BY DEF LockInit, LockInv, Nobody

(* A drive is locked by one process only if no other holds it.             *)
LEMMA LockTaken ==
  ASSUME LockInv, NEW p \in Procs, NEW d \in Shared, Locked(p, d)
  PROVE  LockInv'
<1>1. /\ lock[d] = {} /\ lock' = [lock EXCEPT ![d] = {p}]
      /\ held' = [held EXCEPT ![p] = @ \cup {d}]
      /\ busy' = [busy EXCEPT ![p] = @ \cup {d}]
  BY DEF Locked, Nobody
<1>2. \A q \in Procs : d \notin held[q]
  BY <1>1 DEF LockInv
<1>3. ASSUME NEW q \in Procs, NEW e \in held'[q] PROVE lock'[e] = {q}
  <2>1. CASE e = d
    BY <1>1, <1>2, <1>3, <2>1 DEF LockInv
  <2>2. CASE e # d
    BY <1>1, <1>3, <2>2 DEF LockInv
  <2> QED BY <2>1, <2>2
<1>4. lock' \in [Shared -> SUBSET Procs]
  BY <1>1 DEF LockInv
<1>5. held' \in [Procs -> SUBSET Shared] /\ busy' \in [Procs -> SUBSET Shared]
  BY <1>1 DEF LockInv
<1>6. \A q \in Procs : busy'[q] \subseteq held'[q]
  <2> SUFFICES ASSUME NEW q \in Procs PROVE busy'[q] \subseteq held'[q]
    OBVIOUS
  <2>1. busy[q] \subseteq held[q]
    BY DEF LockInv
  <2> QED BY <1>1, <2>1 DEF LockInv
<1> QED BY <1>3, <1>4, <1>5, <1>6 DEF LockInv

(* A process that leaves gives up its own locks and no other's.            *)
LEMMA LockReleased ==
  ASSUME LockInv, NEW p \in Procs, GivenUp(p)
  PROVE  LockInv'
<1>1. /\ lock' = [d \in Shared |-> IF d \in held[p] THEN {} ELSE lock[d]]
      /\ held' = [held EXCEPT ![p] = {}] /\ busy' = [busy EXCEPT ![p] = {}]
  BY DEF GivenUp, Unlocked, Nobody
<1>2. ASSUME NEW q \in Procs, NEW e \in held'[q] PROVE lock'[e] = {q}
  <2>1. q # p /\ e \in held[q] /\ e \in Shared
    BY <1>1, <1>2 DEF LockInv
  <2>2. e \notin held[p]
    BY <2>1 DEF LockInv
  <2> QED BY <1>1, <2>1, <2>2 DEF LockInv
<1>3. lock' \in [Shared -> SUBSET Procs]
  BY <1>1 DEF LockInv
<1>4. {held', busy'} \subseteq [Procs -> SUBSET Shared]
  BY <1>1 DEF LockInv
<1>5. \A q \in Procs : busy'[q] \subseteq held'[q]
  BY <1>1 DEF LockInv
<1> QED BY <1>2, <1>3, <1>4, <1>5 DEF LockInv

LEMMA OwnersStep == LockInv /\ [LockNext]_locks => LockInv'
<1> SUFFICES ASSUME LockInv, [LockNext]_locks PROVE LockInv'
  OBVIOUS
<1>1. CASE UNCHANGED locks
  BY <1>1 DEF locks, LockInv
<1>2. ASSUME NEW p \in Procs, NEW d \in Shared, Locked(p, d) PROVE LockInv'
  BY <1>2, LockTaken
<1>3. ASSUME NEW p \in Procs, NEW d \in Shared, Begun(p, d) PROVE LockInv'
  <2>1. /\ d \in held[p] /\ UNCHANGED <<lock, held>>
        /\ busy' = [busy EXCEPT ![p] = @ \cup {d}]
    BY <1>3 DEF Begun
  <2>2. busy' \in [Procs -> SUBSET Shared]
    BY <2>1 DEF LockInv
  <2>3. \A q \in Procs : busy'[q] \subseteq held[q]
    BY <2>1 DEF LockInv
  <2> QED BY <2>1, <2>2, <2>3 DEF LockInv
<1>4. ASSUME NEW p \in Procs, Finished(p) PROVE LockInv'
  <2>1. PICK rest \in SUBSET busy[p] : busy' = [busy EXCEPT ![p] = rest]
    BY <1>4 DEF Finished
  <2>2. busy' \in [Procs -> SUBSET Shared]
    BY <2>1 DEF LockInv
  <2>3. \A q \in Procs : busy'[q] \subseteq held[q]
    BY <2>1 DEF LockInv
  <2> QED BY <1>4, <2>2, <2>3 DEF Finished, LockInv
<1>5. ASSUME NEW p \in Procs, GivenUp(p) PROVE LockInv'
  BY <1>5, LockReleased
<1> QED BY <1>1, <1>2, <1>3, <1>4, <1>5 DEF LockNext

(* Whoever keeps to the four steps of DriveLock never meets another writer *)
(* on a drive.                                                             *)
THEOREM OneOwner == LockSpec => []OneWriterPerDrive
<1>1. LockInv => OneWriterPerDrive
  BY DEF LockInv, OneWriterPerDrive
<1> QED BY <1>1, OwnersInit, OwnersStep, PTL DEF LockSpec

-----------------------------------------------------------------------------
(* A batch, the parent with its children, is one such process: the open    *)
(* file description lives as long as one of them and is unlocked by the    *)
(* parent only.                                                            *)

Owners == {"batch"}

Holds == locked /\ (parent # "gone" \/ Living # {})

HeldDrives == [p \in Owners |-> IF Holds THEN Drives ELSE {}]
BatchesOf  == [d \in Drives |-> IF Holds THEN Owners ELSE {}]
LivingOnes == [p \in Owners |-> Living]

Owner == INSTANCE DriveLock WITH
  Procs <- Owners, Shared <- Drives,
  lock <- BatchesOf, held <- HeldDrives, busy <- LivingOnes

OwnerLocks == Owner!locks

(* After a second interrupt: LOCK_UN, with children that may be living.    *)
Flees == parent = "exit" /\ Unlock

(* Only a fork adds to the living.                                         *)
LEMMA LivingShrinks ==
  ASSUME TypeOK, [Next]_vars
  PROVE  Start \/ Living' \subseteq Living
<1> SUFFICES ASSUME ~Start, NEW d \in Drives, d \in Living' PROVE d \in Living
  BY DEF Living
<1>1. CASE ParentStep \/ GraceExpires \/ UNCHANGED vars
  BY <1>1 DEF ParentStep, Pop, Register, StopDispatching, Drain, Bury, KillOverdue,
              FinalDrain, Summarize, Unlock, GraceExpires, kids, vars, TypeOK, Living, Alive
<1>2. CASE Signals
  BY <1>2 DEF Signals, Interrupt, Tell, SecondInterrupt, ParentDies, kids, TypeOK, Living,
              Alive
<1>3. ASSUME NEW e \in Drives, ChildStep(e) PROVE d \in Living
  BY <1>3 DEF ChildStep, Boot, Emit, Answer, ChildExits, ChildCrashes, ChildGone, TypeOK,
              Living, Alive
<1> QED BY <1>1, <1>2, <1>3 DEF Next

(* What is unlocked stays so, and is unlocked when no child lives.         *)
LEMMA UnlockedLast ==
  ASSUME IInv, ~Flees, [Next]_vars
  PROVE  /\ locked' => locked
         /\ locked /\ ~locked' => Living = {} /\ Living' = {}
         /\ parent = "gone" => parent' = "gone" /\ ~Start
<1>1. CASE Unlock
  BY <1>1 DEF Unlock, Flees, IInv, Known, Ended, Living, Start, kids
<1>2. CASE UNCHANGED locked
  <2>1. parent = "gone" => parent' = "gone" /\ ~Start
    BY DEF Next, ParentStep, Signals, ChildStep, Pop, Start, Register, StopDispatching,
           Drain, Bury, KillOverdue, FinalDrain, Summarize, Unlock, Interrupt, InRun,
           SecondInterrupt, GraceExpires, ParentDies, Boot, Emit, Answer, ChildExits,
           ChildCrashes, ChildGone, Ends, vars
  <2> QED BY <1>2, <2>1
<1> QED BY <1>1, <1>2 DEF Next, ParentStep, Signals, ChildStep, Pop, Start, Register,
       StopDispatching, Drain, Bury, KillOverdue, FinalDrain, Summarize, Interrupt,
       SecondInterrupt, GraceExpires, ParentDies, Boot, Emit, Answer, ChildExits,
       ChildCrashes, ChildGone, vars

LEMMA OwnerStep ==
  ASSUME IInv, ~Flees, [Next]_vars
  PROVE  [Owner!LockNext]_OwnerLocks
<1> DEFINE b == "batch"
<1>b. b \in Owners /\ Owners = {b}
  BY DEF Owners
<1>s. Holds' = Holds => UNCHANGED <<BatchesOf, HeldDrives>>
  BY DEF BatchesOf, HeldDrives
<1>1. CASE Start
  <2>1. PICK d \in popped : proc' = [proc EXCEPT ![d] = "forked"]
    BY <1>1 DEF Start
  <2>2. d \in Drives /\ Living' = Living \cup {d}
    BY <1>1, <2>1 DEF Start, IInv, TypeOK, Living, Alive
  <2>3. Holds /\ Holds'
    BY <1>1 DEF Start, IInv, Ended, Holds
  <2>4. LivingOnes' = [LivingOnes EXCEPT ![b] = @ \cup {d}]
    BY <1>b, <2>2 DEF LivingOnes
  <2>5. d \in HeldDrives[b]
    BY <1>b, <2>2, <2>3 DEF HeldDrives
  <2>6. Owner!Begun(b, d)
    BY <1>s, <2>3, <2>4, <2>5 DEF Owner!Begun
  <2> QED BY <1>b, <2>2, <2>6 DEF Owner!LockNext
<1>2. CASE ~Start
  <2>1. Living' \subseteq Living
    BY <1>2, LivingShrinks DEF IInv
  <2>2. LivingOnes[b] = Living /\ LivingOnes' = [LivingOnes EXCEPT ![b] = Living']
    BY <1>b DEF LivingOnes
  <2>3. CASE Holds' = Holds
    <3>1. Owner!Finished(b)
      BY <1>s, <2>1, <2>2, <2>3 DEF Owner!Finished
    <3> QED BY <1>b, <3>1 DEF Owner!LockNext
  <2>4. CASE Holds' # Holds
    <3>1. Holds /\ ~Holds' /\ Living' = {}
      BY <2>1, <2>4, UnlockedLast DEF Holds
    <3>2. BatchesOf' = [d \in Drives |-> IF d \in HeldDrives[b] THEN {} ELSE BatchesOf[d]]
      BY <1>b, <3>1 DEF BatchesOf, HeldDrives
    <3>3. HeldDrives' = [HeldDrives EXCEPT ![b] = {}]
      BY <1>b, <3>1 DEF HeldDrives
    <3>4. Owner!GivenUp(b)
      BY <2>2, <3>1, <3>2, <3>3 DEF Owner!GivenUp, Owner!Unlocked, Owner!Nobody
    <3> QED BY <1>b, <3>4 DEF Owner!LockNext
  <2> QED BY <2>3, <2>4
<1> QED BY <1>1, <1>2

(* A batch keeps to DriveLock, whatever crashes in it, its parent included:*)
(* a child is forked under the lock of its drive, and the locks are given  *)
(* up when no child lives.  One step does not: the unlocking after a       *)
(* second interrupt.                                                       *)
THEOREM BatchLocks == Spec => [][Flees \/ Owner!LockNext]_OwnerLocks
<1>1. IInv /\ [Next]_vars => [Flees \/ Owner!LockNext]_OwnerLocks
  BY OwnerStep
<1> QED BY <1>1, BatchIsSound, PTL DEF Spec

-----------------------------------------------------------------------------
(* Several instances over one output root.                                 *)

CONSTANTS Kinds, MaxRuns, Length
VARIABLES runs, saved, reports, kind, pc, todo, mem

Root == INSTANCE Instances WITH report <- reports

RootVars == Root!vars

(* What Instances assumes of its constants.                                *)
RootBounds ==
  /\ Kinds \subseteq {"run", "plan", "resume", "recheck"}
  /\ MaxRuns \in Nat \ {0} /\ Length \in Nat \ {0}

(* A process asks for locks of drives under the root.                      *)
TodoInv == todo \in [Procs -> SUBSET Shared]

LEMMA TodoStep == TodoInv /\ [Root!Next]_RootVars => TodoInv'
<1> SUFFICES ASSUME TodoInv, [Root!Next]_RootVars PROVE TodoInv'
  OBVIOUS
<1>1. CASE UNCHANGED RootVars
  BY <1>1 DEF RootVars, Root!vars, Root!own, TodoInv
<1>2. ASSUME NEW p \in Procs, Root!Begin(p) PROVE TodoInv'
  BY <1>2 DEF Root!Begin, Root!Prepare, Root!Load, Root!RecheckReads, Root!Becomes,
              Root!Resumable, TodoInv
<1>3. ASSUME NEW p \in Procs, Root!Step(p) PROVE TodoInv'
  BY <1>3 DEF Root!Step, Root!TryLock, Root!Locks, Root!Release, Root!RecheckReports,
              Root!RecheckSaves, Root!Leaves, Root!Plan, Root!Work, Root!Emit,
              Root!Quits, TodoInv
<1>4. ASSUME NEW p \in Procs, Root!Crash(p) PROVE TodoInv'
  BY <1>4 DEF Root!Crash, Root!Leaves, TodoInv
<1> QED BY <1>1, <1>2, <1>3, <1>4 DEF Root!Next

(* What a command does to the locks is a step of DriveLock, or nothing.    *)
LEMMA RootLocks == TodoInv /\ [Root!Next]_RootVars => [LockNext]_locks
<1> SUFFICES ASSUME TodoInv, [Root!Next]_RootVars PROVE [LockNext]_locks
  OBVIOUS
<1>1. CASE UNCHANGED RootVars
  BY <1>1 DEF RootVars, Root!vars, Root!locks, locks
<1>2. ASSUME NEW p \in Procs, Root!Begin(p) PROVE UNCHANGED locks
  BY <1>2 DEF Root!Begin, Root!Prepare, Root!Load, Root!RecheckReads, Root!locks, locks
<1>l. ASSUME NEW p \in Procs, Root!Leaves(p) PROVE LockNext
  BY <1>l DEF Root!Leaves, Root!GivenUp, Root!Unlocked, Root!Nobody, GivenUp, Unlocked,
              Nobody, LockNext
<1>q. ASSUME NEW p \in Procs, NEW d \in Shared, Root!Quits(p, d) PROVE LockNext
  <2>1. Finished(p)
    BY <1>q DEF Root!Quits, Finished
  <2> QED BY <2>1 DEF LockNext
<1>3. ASSUME NEW p \in Procs, Root!Step(p) PROVE [LockNext]_locks
  <2>1. CASE Root!TryLock(p)
    <3>1. PICK d \in todo[p] : Root!Refused(p, d) \/ Root!Locked(p, d)
      BY <2>1 DEF Root!TryLock
    <3>2. d \in Shared
      BY <3>1 DEF TodoInv
    <3>3. CASE Root!Refused(p, d)
      BY <3>3 DEF Root!Refused, Root!locks, locks
    <3>4. CASE Root!Locked(p, d)
      BY <3>2, <3>4 DEF Root!Locked, Root!Nobody, Locked, Nobody, LockNext
    <3> QED BY <3>1, <3>3, <3>4
  <2>2. CASE Root!Locks(p) \/ Root!RecheckReports(p)
    BY <2>2 DEF Root!Locks, Root!RecheckReports, Root!locks, locks
  <2>3. CASE Root!Release(p) \/ Root!RecheckSaves(p)
    BY <2>3, <1>l DEF Root!Release, Root!RecheckSaves
  <2>4. ASSUME NEW d \in Shared, Root!Plan(p, d) \/ Root!Emit(p, d) PROVE LockNext
    BY <2>4, <1>q DEF Root!Plan, Root!Emit
  <2>5. ASSUME NEW d \in Shared, Root!Work(p, d) PROVE UNCHANGED locks
    BY <2>5 DEF Root!Work, Root!locks, locks
  <2> QED BY <1>3, <2>1, <2>2, <2>3, <2>4, <2>5 DEF Root!Step
<1>4. ASSUME NEW p \in Procs, Root!Crash(p) PROVE LockNext
  BY <1>4, <1>l DEF Root!Crash
<1> QED BY <1>1, <1>2, <1>3, <1>4 DEF Root!Next

(* The commands keep to DriveLock, wherever they are killed: acquire_locks *)
(* works on a drive only with its lock, and the kernel drops a lock with   *)
(* its holder.                                                             *)
THEOREM CommandsLock == Root!Spec => LockSpec
<1>1. Root!Init => LockInit /\ TodoInv
  BY DEF Root!Init, Root!LockInit, Root!Nobody, LockInit, Nobody, TodoInv
<1> QED BY <1>1, TodoStep, RootLocks, PTL DEF Root!Spec, RootVars, LockSpec

(* Two instances never write to the same drive, however many there are.    *)
THEOREM OneWriter == Root!Spec => []OneWriterPerDrive
BY CommandsLock, OneOwner, PTL

-----------------------------------------------------------------------------
LEMMA RootTypeInit ==
  ASSUME RootBounds, Root!Init
  PROVE  Root!TypeOK
<1>1. PICK found \in BOOLEAN, run \in {Root!NoRun, 1} :
        /\ runs = run
        /\ saved = [d \in Shared |-> [Root!Nothing EXCEPT !.run = run,
                                                  !.found = found /\ run = 1]]
        /\ reports = saved
  BY DEF Root!Init
<1>2. run \in Root!Runs
  BY DEF RootBounds, Root!Runs, Root!NoRun
<1>3. Root!Nothing \in Root!States
  BY DEF RootBounds, Root!Nothing, Root!States, Root!Runs, Root!NoRun
<1>4. [Root!Nothing EXCEPT !.run = run, !.found = found /\ run = 1] \in Root!States
  BY <1>2, <1>3 DEF Root!Nothing, Root!States
<1> QED BY <1>1, <1>2, <1>3, <1>4 DEF Root!Init, Root!TypeOK, Root!LockInit,
                                    Root!Nobody

(* What a step of a run, of a command's beginning or end, or of a recheck  *)
(* writes is a state.                                                      *)
LEMMA RootTypeStep ==
  ASSUME RootBounds, Root!TypeOK, [Root!Next]_RootVars
  PROVE  Root!TypeOK'
<1> USE DEF Root!locks
<1>n. Root!Nothing \in Root!States /\ Root!Runs \subseteq Nat
  BY DEF RootBounds, Root!Nothing, Root!States, Root!Runs, Root!NoRun
<1>l. ASSUME NEW p \in Procs, Root!Leaves(p), UNCHANGED runs,
             saved' \in [Shared -> Root!States], reports' \in [Shared -> Root!States]
      PROVE  Root!TypeOK'
  BY <1>l, <1>n DEF Root!TypeOK, Root!Leaves, Root!GivenUp, Root!Unlocked,
                     Root!Nobody
<1>1. CASE UNCHANGED RootVars
  BY <1>1 DEF RootVars, Root!vars, Root!files, Root!own, Root!locks, Root!TypeOK
<1>2. ASSUME NEW p \in Procs, Root!Begin(p) PROVE Root!TypeOK'
  <2>1. CASE Root!Prepare(p)
    <3>1. PICK k \in Kinds \cap {"run", "plan"},
               selected \in SUBSET Shared \ {{}} :
            LET fresh == [d \in Shared |->
                            IF d \in selected
                            THEN [Root!Nothing EXCEPT !.run = runs + 1]
                            ELSE saved[d]]
            IN /\ Root!Becomes(p, k, "lock", selected)
               /\ saved' = fresh
               /\ mem' = [mem EXCEPT ![p] = fresh]
      BY <2>1 DEF Root!Prepare
    <3>2. runs < MaxRuns /\ runs' = runs + 1 /\ UNCHANGED <<reports, lock, held, busy>>
      BY <2>1 DEF Root!Prepare
    <3>3. runs + 1 \in Root!Runs
      BY <3>2 DEF RootBounds, Root!TypeOK, Root!Runs
    <3>4. [Root!Nothing EXCEPT !.run = runs + 1] \in Root!States
      BY <3>3, <1>n DEF Root!States, Root!Nothing
    <3>5. saved' \in [Shared -> Root!States] /\ mem' \in [Procs -> [Shared -> Root!States]]
      BY <3>1, <3>4 DEF Root!TypeOK
    <3>6. k \in {"run", "plan", "resume", "recheck"} /\ selected \in SUBSET Shared
      BY <3>1
    <3>7. /\ kind' = [kind EXCEPT ![p] = k] /\ pc' = [pc EXCEPT ![p] = "lock"]
          /\ todo' = [todo EXCEPT ![p] = selected]
      BY <3>1 DEF Root!Becomes
    <3> QED BY <3>2, <3>3, <3>5, <3>6, <3>7 DEF Root!TypeOK
  <2>2. CASE Root!Load(p)
    BY <2>2 DEF Root!Load, Root!Becomes, Root!Resumable, Root!files, Root!TypeOK
  <2>3. CASE Root!RecheckReads(p)
    <3>1. PICK d \in Shared : /\ Root!Becomes(p, "recheck", "rechecked", {d})
                              /\ mem' = [mem EXCEPT ![p][d] = reports[d]]
      BY <2>3 DEF Root!RecheckReads
    <3>2. mem' \in [Procs -> [Shared -> Root!States]]
      BY <3>1 DEF Root!TypeOK
    <3>3. /\ kind' \in [Procs -> {"run", "plan", "resume", "recheck"}]
          /\ pc' \in [Procs -> {"idle", "lock", "work", "rechecked", "rechecked_state"}]
          /\ todo' \in [Procs -> SUBSET Shared]
      BY <3>1 DEF Root!Becomes, Root!TypeOK
    <3> QED BY <2>3, <3>2, <3>3 DEF Root!RecheckReads, Root!files, Root!TypeOK
  <2> QED BY <1>2, <2>1, <2>2, <2>3 DEF Root!Begin
<1>3. ASSUME NEW p \in Procs, Root!Step(p) PROVE Root!TypeOK'
  <2>1. CASE Root!TryLock(p)
    <3>1. PICK d \in todo[p] : /\ Root!Refused(p, d) \/ Root!Locked(p, d)
                              /\ todo' = [todo EXCEPT ![p] = @ \ {d}]
      BY <2>1 DEF Root!TryLock
    <3>2. d \in Shared /\ todo' \in [Procs -> SUBSET Shared]
      BY <3>1 DEF Root!TypeOK
    <3>3. CASE Root!Refused(p, d)
      BY <2>1, <3>2, <3>3 DEF Root!TryLock, Root!Refused, Root!files, Root!TypeOK
    <3>4. CASE Root!Locked(p, d)
      <4>1. /\ lock' \in [Shared -> SUBSET Procs]
            /\ held' \in [Procs -> SUBSET Shared]
            /\ busy' \in [Procs -> SUBSET Shared]
        BY <3>2, <3>4 DEF Root!Locked, Root!TypeOK
      <4> QED BY <2>1, <3>2, <4>1 DEF Root!TryLock, Root!files, Root!TypeOK
    <3> QED BY <3>1, <3>3, <3>4
  <2>2. CASE Root!Locks(p)
    BY <2>2 DEF Root!Locks, Root!files, Root!TypeOK
  <2>3. CASE Root!Release(p)
    BY <2>3, <1>l DEF Root!Release, Root!files, Root!TypeOK
  <2>4. CASE Root!RecheckReports(p)
    <3>1. PICK d \in todo[p] :
            /\ reports' = [reports EXCEPT ![d] = [mem[p][d] EXCEPT !.test = TRUE]]
            /\ mem' = [mem EXCEPT ![p][d] = saved[d]]
      BY <2>4 DEF Root!RecheckReports
    <3>2. d \in Shared /\ mem[p][d] \in Root!States /\ saved[d] \in Root!States
      BY <3>1 DEF Root!TypeOK
    <3>3. [mem[p][d] EXCEPT !.test = TRUE] \in Root!States
      BY <3>2 DEF Root!States
    <3> QED BY <2>4, <3>1, <3>2, <3>3 DEF Root!RecheckReports, Root!TypeOK
  <2>5. CASE Root!RecheckSaves(p)
    <3>1. PICK d \in todo[p] :
            saved' = [saved EXCEPT ![d] = [mem[p][d] EXCEPT !.test = TRUE]]
      BY <2>5 DEF Root!RecheckSaves
    <3>d. d \in Shared /\ mem[p][d] \in Root!States
      BY <3>1 DEF Root!TypeOK
    <3>2. [mem[p][d] EXCEPT !.test = TRUE] \in Root!States
      BY <3>d DEF Root!States
    <3>3. saved' \in [Shared -> Root!States]
      BY <3>1, <3>2 DEF Root!TypeOK
    <3> QED BY <2>5, <3>3, <1>l DEF Root!RecheckSaves, Root!TypeOK
  <2>6. ASSUME NEW d \in Shared, Root!Plan(p, d) PROVE Root!TypeOK'
    BY <2>6 DEF Root!Plan, Root!AtWork, Root!Quits, Root!TypeOK
  <2>7. ASSUME NEW d \in Shared, Root!Work(p, d) PROVE Root!TypeOK'
    <3>1. PICK found \in {mem[p][d].found, TRUE} :
            LET s == [mem[p][d] EXCEPT !.done = @ + 1, !.found = found]
            IN /\ mem' = [mem EXCEPT ![p][d] = s]
               /\ saved' \in {saved, [saved EXCEPT ![d] = s]}
      BY <2>7 DEF Root!Work
    <3>2. mem[p][d] \in Root!States /\ mem[p][d].done < Length
      BY <2>7 DEF Root!Work, Root!Unfinished, Root!TypeOK
    <3>n. mem[p][d].done \in 0..Length /\ mem[p][d].found \in BOOLEAN
      BY <3>2 DEF Root!States
    <3>f. found \in BOOLEAN
      BY <3>1, <3>n, Zenon
    <3>3. mem[p][d].done + 1 \in 0..Length /\ found \in BOOLEAN
      BY <3>2, <3>n, <3>f DEF RootBounds
    <3>4. [mem[p][d] EXCEPT !.done = @ + 1, !.found = found] \in Root!States
      BY <3>2, <3>3 DEF Root!States
    <3>5. mem' \in [Procs -> [Shared -> Root!States]] /\ saved' \in [Shared -> Root!States]
      BY <3>1, <3>4 DEF Root!TypeOK
    <3> QED BY <2>7, <3>5 DEF Root!Work, Root!TypeOK
  <2>8. ASSUME NEW d \in Shared, Root!Emit(p, d) PROVE Root!TypeOK'
    <3>1. PICK over \in {~Root!Unfinished(mem[p][d]), FALSE} :
            LET s == [mem[p][d] EXCEPT !.over = over]
            IN /\ saved' = [saved EXCEPT ![d] = s]
               /\ reports' = [reports EXCEPT ![d] = s]
      BY <2>8 DEF Root!Emit
    <3>2. mem[p][d] \in Root!States
      BY DEF Root!TypeOK
    <3>3. over \in BOOLEAN
      BY <3>1, Zenon DEF Root!Unfinished
    <3>4. [mem[p][d] EXCEPT !.over = over] \in Root!States
      BY <3>2, <3>3 DEF Root!States
    <3>5. saved' \in [Shared -> Root!States] /\ reports' \in [Shared -> Root!States]
      BY <3>1, <3>4 DEF Root!TypeOK
    <3>6. busy' \in [Procs -> SUBSET Shared]
      BY <2>8 DEF Root!Emit, Root!Quits, Root!TypeOK
    <3> QED BY <2>8, <3>5, <3>6 DEF Root!Emit, Root!Quits, Root!TypeOK
  <2> QED BY <1>3, <2>1, <2>2, <2>3, <2>4, <2>5, <2>6, <2>7, <2>8 DEF Root!Step
<1>4. ASSUME NEW p \in Procs, Root!Crash(p) PROVE Root!TypeOK'
  BY <1>4, <1>l DEF Root!Crash, Root!files, Root!TypeOK
<1> QED BY <1>1, <1>2, <1>3, <1>4 DEF Root!Next

(* Every stored state and report is of a run that was begun, and goes no   *)
(* further than its work, whatever the instances do to one another's.      *)
THEOREM RootTypesCorrect ==
  ASSUME RootBounds
  PROVE  Root!Spec => []Root!TypeOK
BY RootTypeInit, RootTypeStep, PTL DEF Root!Spec, RootVars
=============================================================================
