--------------------------- MODULE ThermalGuard_proofs ---------------------------
(***************************************************************************)
(* What holds of the thermal guard for every threshold, poll count and     *)
(* length of the pass.                                                     *)
(***************************************************************************)
EXTENDS ThermalGuard, TLAPS

Runs == [max : Readings, paused : 0..MaxPause, aborted : BOOLEAN]

USE DEF Nothing, NoReading, Readings

(* The constants, one by one.                                              *)
LEMMA Thresholds ==
  /\ Temps \subseteq Nat
  /\ ResumeC \in Nat /\ PauseC \in Nat /\ AbortC \in Nat
  /\ AbortAfter \in Nat \ {0} /\ Work \in Nat \ {0} /\ MaxPause \in Nat \ {0}
  /\ 0 \in 0..MaxPause /\ 0 \in 0..(AbortAfter + 1) /\ 0 \in 0..Work
BY ThermalAssumption

LEMMA ColdType ==
  Cold \in Runs /\ ~Cold.aborted
BY Thresholds DEF Cold, Runs

(* A process that has just read state.json.                                *)
LEMMA ReseededType ==
  ASSUME saved \in [max : Readings, paused : 0..MaxPause, done : 0..Work]
  PROVE  /\ [max |-> saved.max, paused |-> saved.paused, aborted |-> FALSE] \in Runs
         /\ saved.max \in Readings /\ saved.paused \in 0..MaxPause
         /\ saved.done \in 0..Work
BY DEF Runs

LEMMA HotterType ==
  ASSUME NEW a \in Readings, NEW b \in Readings
  PROVE  Hotter(a, b) \in Readings
BY DEF Hotter

LEMMA CappedType ==
  ASSUME NEW n \in Nat
  PROVE  Capped(n) \in 0..MaxPause
BY ThermalAssumption DEF Capped

LEMMA LaterType ==
  ASSUME NEW bound \in Nat, NEW n \in {Nothing} \cup 0..bound
  PROVE  Later(n, bound) \in {Nothing} \cup 0..bound
BY DEF Later

LEMMA ClosePauseType ==
  ASSUME NEW state \in Runs, pausedFor \in {Nothing} \cup 0..MaxPause
  PROVE  ClosePause(state) \in Runs
<1>1. CASE pausedFor = Nothing
  BY <1>1 DEF ClosePause
<1>2. CASE pausedFor \in 0..MaxPause
  <2>1. state.paused + pausedFor \in Nat
    BY <1>2, ThermalAssumption DEF Runs
  <2>2. Capped(state.paused + pausedFor) \in 0..MaxPause
    BY <2>1, CappedType
  <2> QED BY <1>2, <2>2 DEF ClosePause, Runs
<1> QED BY <1>1, <1>2

LEMMA AbsorbType ==
  ASSUME NEW run \in Runs, NEW state \in Runs
  PROVE  Observe(run, state) \in Runs /\ Absorb(run, state) \in Runs
<1>1. Hotter(run.max, state.max) \in Readings
  BY HotterType DEF Runs
<1>2. Observe(run, state) \in Runs
  BY <1>1 DEF Observe, Runs
<1>3. /\ Observe(run, state).paused = run.paused
      /\ Observe(run, state).aborted = run.aborted
  BY DEF Observe, Runs
<1>4. Capped(run.paused + state.paused) \in 0..MaxPause
  BY CappedType, ThermalAssumption DEF Runs
<1> QED BY <1>2, <1>3, <1>4 DEF Absorb, Runs

-----------------------------------------------------------------------------
(* The inductive invariant: the heat the guard has counted is not longer   *)
(* than the heat there was; a gate that is open owes nothing; and a worker *)
(* that took its one transfer past a closed gate is not at another.        *)
Sustained == overFor <= calm

Rested ==
  /\ resume => late = 0
  /\ late <= 1
  /\ late = 1 => worker # "io"

InReach == worker \in {"gate", "io"} => done < Work

IInv == TypeOK /\ Sustained /\ Rested /\ InReach

LEMMA InvariantInit == Init => IInv
<1> SUFFICES ASSUME Init PROVE IInv
  OBVIOUS
<1>1. seen \in Runs /\ total \in Runs
  BY ColdType DEF Init
<1>2. saved \in [max : Readings, paused : 0..MaxPause, done : 0..Work]
  BY Thresholds DEF Init
<1>3. TypeOK
  BY <1>1, <1>2, Thresholds DEF Init, TypeOK, Runs
<1> QED BY <1>3 DEF Init, IInv, Sustained, Rested, InReach

(* The records of a state, one by one.                                     *)
LEMMA Records ==
  ASSUME TypeOK
  PROVE  seen \in Runs /\ total \in Runs
BY DEF TypeOK, Runs

LEMMA SampledType ==
  ASSUME TypeOK, NEW temp \in Temps
  PROVE  /\ Sampled(temp) \in Runs
         /\ [Sampled(temp) EXCEPT !.aborted = TRUE] \in Runs
         /\ [Sampled(temp) EXCEPT !.paused = ClosePause(seen).paused] \in Runs
         /\ Sampled(temp).aborted = seen.aborted
<1>1. seen \in Runs
  BY Records
<1>2. Hotter(seen.max, temp) \in Readings
  BY <1>1, HotterType DEF Runs
<1>3. ClosePause(seen) \in Runs
  BY <1>1, ClosePauseType DEF TypeOK
<1> QED BY <1>1, <1>2, <1>3 DEF Sampled, Runs

(* What a reading leaves behind whatever the guard does about it.          *)
LEMMA SampleStep ==
  ASSUME IInv, NEW temp \in Temps, Sample(temp)
  PROVE  /\ overFor' \in {Nothing} \cup 0..(AbortAfter + 1)
         /\ calm' \in 0..(AbortAfter + 1)
         /\ Sustained'
         /\ last' \in Readings /\ peak' \in Readings
         /\ guard' = "waiting"
         /\ UNCHANGED <<halt, worker, done, stop, total, saved, closed>>
<1>1. Hotter(peak, temp) \in Readings
  BY HotterType DEF IInv, TypeOK
<1> QED BY <1>1, ThermalAssumption
        DEF IInv, TypeOK, Sustained, Sample, Read, Over

LEMMA GuardInvariant == IInv /\ GuardStep => IInv'
<1> SUFFICES ASSUME IInv, GuardStep PROVE IInv'
  OBVIOUS
<1>1. CASE BeginPoll
  <2>1. Later(pausedFor, MaxPause) \in {Nothing} \cup 0..MaxPause
    BY LaterType, ThermalAssumption DEF IInv, TypeOK
  <2>2. Later(overFor, AbortAfter + 1) \in {Nothing} \cup 0..(AbortAfter + 1)
    BY LaterType, ThermalAssumption DEF IInv, TypeOK
  <2>3. Later(calm, AbortAfter + 1) \in 0..(AbortAfter + 1)
    BY ThermalAssumption DEF IInv, TypeOK, Later
  <2>4. Later(overFor, AbortAfter + 1) <= Later(calm, AbortAfter + 1)
    BY ThermalAssumption DEF IInv, TypeOK, Sustained, Later
  <2>5. closed' \in 0..MaxPause
    <3>1. Capped(closed + 1) \in 0..MaxPause
      BY CappedType, ThermalAssumption DEF IInv, TypeOK
    <3> QED BY <1>1, <3>1 DEF BeginPoll, IInv, TypeOK
  <2> QED BY <1>1, <2>1, <2>2, <2>3, <2>4, <2>5
          DEF BeginPoll, IInv, TypeOK, Sustained, Rested, InReach
<1>2. CASE Unreadable
  <2>1. Hotter(peak, NoReading) \in Readings
    BY HotterType DEF IInv, TypeOK
  <2> QED BY <1>2, <2>1
          DEF Unreadable, Read, gate, IInv, TypeOK, Sustained, Rested, InReach
<1>3. ASSUME NEW temp \in Temps, Evaluate(temp) PROVE IInv'
  <2>1. Sample(temp)
    BY <1>3 DEF Evaluate, Abort, Pause, Cool, Watch
  <2>2. seen' \in Runs
    BY <1>3, SampledType DEF Evaluate, Abort, Pause, Cool, Watch, IInv
  <2>3. /\ resume' \in BOOLEAN
        /\ pausedFor' \in {Nothing} \cup 0..MaxPause
        /\ late' \in {0, late}
        /\ resume' => late' = 0
    <3>1. CASE Abort(temp)
      BY <3>1 DEF Abort, IInv, TypeOK, Rested
    <3>2. CASE Pause(temp)
      BY <3>2, Thresholds DEF Pause, IInv, TypeOK, Rested
    <3>3. CASE Cool(temp)
      BY <3>3 DEF Cool, IInv, TypeOK, Rested
    <3>4. CASE Watch(temp)
      BY <3>4 DEF Watch, IInv, TypeOK, Rested
    <3> QED BY <1>3, <3>1, <3>2, <3>3, <3>4 DEF Evaluate
  <2> QED BY <2>1, <2>2, <2>3, SampleStep, ThermalAssumption
          DEF IInv, TypeOK, Rested, InReach, Runs
<1>4. CASE GuardExits
  BY <1>4 DEF GuardExits, gate, history, IInv, TypeOK, Sustained, Rested, InReach
<1> QED BY <1>1, <1>2, <1>3, <1>4 DEF GuardStep

LEMMA WorkerInvariant == IInv /\ (WorkerStep \/ Vanish) => IInv'
<1> SUFFICES ASSUME IInv, WorkerStep \/ Vanish PROVE IInv'
  OBVIOUS
<1> USE DEF gate, history, IInv, TypeOK, Sustained, Rested, InReach
<1>1. CASE OpenStopped
  BY <1>1 DEF OpenStopped
<1>2. CASE StartGuard
  <2>1. seen' \in Runs /\ total' \in Runs /\ UNCHANGED saved
    BY <1>2, ColdType, Records DEF StartGuard
  <2>2. UNCHANGED <<done, stop, total, saved, last, closed, peak>>
    BY <1>2 DEF StartGuard
  <2>3. /\ worker' = "top" /\ guard' = "waiting" /\ halt' = FALSE
        /\ resume' = TRUE /\ pausedFor' = Nothing /\ overFor' = Nothing
        /\ late' = 0 /\ calm' = 0
    BY <1>2 DEF StartGuard
  <2>4. TypeOK'
    BY <2>1, <2>2, <2>3, Thresholds DEF Runs
  <2>5. Sustained' /\ Rested' /\ InReach'
    BY <2>3
  <2> QED BY <2>4, <2>5
<1>3. CASE CheckStop
  BY <1>3 DEF CheckStop
<1>4. CASE PassGate
  BY <1>4 DEF PassGate
<1>5. CASE Transfer
  <2>1. Observe(total, seen) \in Runs
    BY AbsorbType, Records
  <2>2. total' \in Runs
    BY <1>5, <2>1, Records DEF Transfer
  <2>3. done' \in 0..Work /\ late' \in 0..1 /\ (resume => late' = 0)
    BY <1>5, ThermalAssumption DEF Transfer
  <2>4. saved' \in [max : Readings, paused : 0..MaxPause, done : 0..Work]
    BY <1>5, <2>1, <2>3 DEF Transfer, Checkpoint, Runs
  <2> QED BY <1>5, <2>2, <2>3, <2>4, ThermalAssumption DEF Transfer, Runs
<1>6. ASSUME NEW next \in {"closing", "reopening"}, StopGuard(next) PROVE IInv'
  BY <1>6, ThermalAssumption DEF StopGuard
<1>7. CASE Join
  <2> DEFINE run == Absorb(total, ClosePause(seen))
  <2>1. ClosePause(seen) \in Runs
    BY ClosePauseType, Records
  <2>2. run \in Runs
    BY <2>1, AbsorbType, Records
  <2>3. saved' \in [max : Readings, paused : 0..MaxPause, done : 0..Work]
    BY <1>7, <2>2, ThermalAssumption DEF Join, Checkpoint, Runs
  <2>4. total' \in Runs /\ seen' \in Runs
    BY <1>7, <2>1, <2>2 DEF Join
  <2> QED BY <1>7, <2>3, <2>4 DEF Join, Runs
<1> QED BY <1>1, <1>2, <1>3, <1>4, <1>5, <1>6, <1>7
        DEF WorkerStep, Leave, Vanish

LEMMA EnvironmentInvariant == IInv /\ (Launch \/ Terminate \/ Kill) => IInv'
<1> SUFFICES ASSUME IInv, Launch \/ Terminate \/ Kill PROVE IInv'
  OBVIOUS
<1> USE DEF gate, history, IInv, TypeOK, Sustained, Rested, InReach
<1>1. CASE Launch
  BY <1>1, ReseededType, Thresholds DEF Launch, Runs
<1>2. CASE Terminate
  BY <1>2 DEF Terminate
<1>3. CASE Kill
  <2>1. seen' \in Runs /\ total' \in Runs
    BY <1>3, ColdType, ReseededType DEF Kill
  <2>2. /\ UNCHANGED saved
        /\ closed' \in 0..MaxPause /\ peak' \in Readings /\ done' \in 0..Work
    BY <1>3, ReseededType DEF Kill
  <2>3. /\ worker' = "down" /\ guard' = "stopped" /\ halt' = TRUE /\ stop' = FALSE
        /\ resume' = TRUE /\ pausedFor' = Nothing /\ overFor' = Nothing
        /\ last' = NoReading /\ late' = 0 /\ calm' = 0
    BY <1>3 DEF Kill
  <2>4. TypeOK'
    BY <2>1, <2>2, <2>3, Thresholds DEF Runs
  <2>5. Sustained' /\ Rested' /\ InReach'
    BY <2>3
  <2> QED BY <2>4, <2>5
<1> QED BY <1>1, <1>2, <1>3

(* The inductive invariant holds in every state.                           *)
THEOREM GuardIsSound == Spec => []IInv
<1>1. IInv /\ [Next]_vars => IInv'
  <2> SUFFICES ASSUME IInv, [Next]_vars PROVE IInv'
    OBVIOUS
  <2>1. CASE UNCHANGED vars
    BY <2>1 DEF vars, gate, history, IInv, TypeOK, Sustained, Rested, InReach
  <2> QED BY <2>1, GuardInvariant, WorkerInvariant, EnvironmentInvariant DEF Next
<1> QED BY InvariantInit, <1>1, PTL DEF Spec

(* Every variable of the guard and of its worker keeps its type.           *)
THEOREM TypeCorrect == Spec => []TypeOK
<1>1. IInv => TypeOK
  BY DEF IInv
<1> QED BY <1>1, GuardIsSound, PTL

(* However long the pass, a drive that is paused sees at most the one      *)
(* transfer that was already past the gate.                                *)
THEOREM PauseHolds == Spec => []PausedDriveRests
<1>1. IInv => PausedDriveRests
  BY DEF IInv, Rested, PausedDriveRests
<1> QED BY <1>1, GuardIsSound, PTL

(* Only heat that lasted longer than abort_after_s makes the guard give a  *)
(* pass up.                                                                *)
THEOREM HeatLasted == Spec => AbortIsSustained
<1> DEFINE Step == AllowsPause /\ ~seen.aborted /\ seen'.aborted
                     => calm' > AbortAfter
<1>1. IInv /\ [Next]_vars => Step \/ UNCHANGED vars
  <2> SUFFICES ASSUME IInv, Next, AllowsPause, ~seen.aborted, seen'.aborted
               PROVE  calm' > AbortAfter
    OBVIOUS
  <2>1. PICK temp \in Temps : Abort(temp)
    <3>1. ASSUME NEW temp \in Temps, Pause(temp) \/ Cool(temp) \/ Watch(temp)
          PROVE  FALSE
      BY <3>1 DEF Pause, Cool, Watch, Sampled, IInv, TypeOK
    <3>2. ASSUME WorkerStep \/ Vanish PROVE FALSE
      BY <3>2 DEF WorkerStep, OpenStopped, StartGuard, CheckStop, PassGate,
                  Transfer, Leave, StopGuard, Join, Vanish, ClosePause, Cold,
                  IInv, TypeOK
    <3>3. ASSUME Launch \/ Terminate \/ Kill PROVE FALSE
      BY <3>3 DEF Launch, Terminate, Kill, Cold
    <3>4. ASSUME BeginPoll \/ Unreadable \/ GuardExits PROVE FALSE
      BY <3>4 DEF BeginPoll, Unreadable, GuardExits
    <3> QED BY <3>1, <3>2, <3>3, <3>4 DEF Next, GuardStep, Evaluate
  <2>2. Over(temp) > AbortAfter /\ Sample(temp)
    BY <2>1 DEF Abort, MustAbort
  <2>3. overFor' = Over(temp)
    BY <2>2 DEF Sample
  <2>4. /\ Sustained'
        /\ calm' \in 0..(AbortAfter + 1)
        /\ overFor' \in {Nothing} \cup 0..(AbortAfter + 1)
    BY <2>2, SampleStep
  <2> QED BY <2>2, <2>3, <2>4, Thresholds DEF Sustained
<1>2. Spec => [][Step]_vars
  BY <1>1, GuardIsSound, PTL DEF Spec
<1> QED BY <1>2 DEF AbortIsSustained

-----------------------------------------------------------------------------
(* The books of a pass.  While the guard of a pass polls, its own record   *)
(* and the one of the run add up to what really happened; when it has been *)
(* joined, the run's record alone does.                                    *)
Polling == worker \in {"top", "gate", "io", "closing", "reopening"}

(* No thread and no open pause outlives the pass.                          *)
Placed == ~Polling => guard = "stopped" /\ pausedFor = Nothing

(* A pause that is counted keeps the gate closed, until the guard is told  *)
(* to stop or gives up: the clock of the pause runs with the gate's.       *)
Held == pausedFor # Nothing /\ ~halt /\ ~seen.aborted => ~resume

OpenPause == IF pausedFor = Nothing THEN 0 ELSE pausedFor

Counted ==
  ~total.aborted =>
    IF Polling
    THEN ~seen.aborted => Capped(total.paused + seen.paused + OpenPause) <= closed
    ELSE total.paused <= closed

Peaked ==
  IF Polling THEN peak = Hotter(total.max, seen.max)
  ELSE peak = total.max /\ peak = saved.max

Books == Placed /\ Held /\ Counted /\ Peaked

(* A sum that is cut off may be cut off before it is added to.             *)
LEMMA CappedSum ==
  ASSUME NEW a \in Nat, NEW b \in Nat, NEW c \in Nat
  PROVE  /\ Capped(Capped(a + b) + c) = Capped(a + b + c)
         /\ Capped(a + Capped(b + c)) = Capped(a + b + c)
         /\ Capped(a) <= a /\ Capped(a) <= Capped(a + b)
BY Thresholds DEF Capped

LEMMA HotterIsMax ==
  ASSUME NEW a \in Readings, NEW b \in Readings, NEW c \in Readings
  PROVE  /\ Hotter(Hotter(a, b), c) = Hotter(a, Hotter(b, c))
         /\ Hotter(Hotter(a, b), b) = Hotter(a, b)
         /\ Hotter(a, NoReading) = a
BY Thresholds DEF Hotter

(* What adding a pass to the run does to the two numbers.                  *)
LEMMA AbsorbAdds ==
  ASSUME NEW run \in Runs, NEW state \in Runs
  PROVE  /\ Observe(run, state).max = Hotter(run.max, state.max)
         /\ Observe(run, state).paused = run.paused
         /\ Observe(run, state).aborted = run.aborted
         /\ Absorb(run, state).max = Hotter(run.max, state.max)
         /\ Absorb(run, state).paused = Capped(run.paused + state.paused)
         /\ Absorb(run, state).aborted = (run.aborted \/ state.aborted)
<1>1. /\ Observe(run, state).max = Hotter(run.max, state.max)
      /\ Observe(run, state).paused = run.paused
      /\ Observe(run, state).aborted = run.aborted
  BY DEF Observe, Runs
<1>2. Observe(run, state) \in Runs
  BY AbsorbType
<1> QED BY <1>1, <1>2 DEF Absorb, Runs

LEMMA ClosePauseAdds ==
  ASSUME IInv
  PROVE  /\ ClosePause(seen).max = seen.max
         /\ ClosePause(seen).aborted = seen.aborted
         /\ ClosePause(seen).paused \in {seen.paused + OpenPause,
                                         Capped(seen.paused + OpenPause)}
         /\ OpenPause \in Nat /\ seen.paused \in Nat /\ total.paused \in Nat
         /\ {seen.max, total.max, peak} \subseteq Readings
<1>1. seen \in Runs /\ total \in Runs
  BY Records DEF IInv
<1>2. pausedFor \in {Nothing} \cup 0..MaxPause /\ peak \in Readings
  BY DEF IInv, TypeOK
<1> QED BY <1>1, <1>2, Thresholds DEF ClosePause, OpenPause, Runs

LEMMA BooksInit == Init => Books
BY Thresholds DEF Init, Cold, Books, Placed, Held, Counted, Peaked, Polling

LEMMA GuardBooks == IInv /\ Books /\ GuardStep => Books'
<1> SUFFICES ASSUME IInv, Books, GuardStep PROVE Books'
  OBVIOUS
<1> USE DEF Books
<1>1. Polling
  BY DEF GuardStep, BeginPoll, Unreadable, Evaluate, Abort, Pause, Cool, Watch,
         Sample, Read, GuardExits, Placed
<1>2. /\ OpenPause \in Nat /\ seen.paused \in Nat /\ total.paused \in Nat
      /\ {seen.max, total.max, peak} \subseteq Readings
      /\ closed \in 0..MaxPause /\ pausedFor \in {Nothing} \cup 0..MaxPause
  BY ClosePauseAdds DEF IInv, TypeOK
<1>3. CASE BeginPoll
  <2>1. UNCHANGED <<resume, seen, halt, worker, total, saved, peak>> /\ ~halt
    BY <1>3 DEF BeginPoll
  <2>2. pausedFor' = Later(pausedFor, MaxPause)
    BY <1>3 DEF BeginPoll
  <2>3. closed' = IF resume THEN closed ELSE Capped(closed + 1)
    BY <1>3 DEF BeginPoll
  <2>4. Placed' /\ Held' /\ Peaked'
    BY <1>1, <2>1, <2>2 DEF Placed, Held, Peaked, Polling, Later
  <2>5. ASSUME ~total.aborted, ~seen.aborted
        PROVE  Capped(total.paused + seen.paused + OpenPause') <= closed'
    <3>1. Capped(total.paused + seen.paused + OpenPause) <= closed
      BY <1>1, <2>5 DEF Counted
    <3>2. CASE pausedFor = Nothing
      <4>1. OpenPause' = OpenPause
        BY <2>2, <3>2 DEF OpenPause, Later
      <4>2. closed <= closed'
        BY <1>2, <2>3, Thresholds DEF Capped
      <4>3. Capped(total.paused + seen.paused + OpenPause) \in Nat
        BY <1>2, CappedType
      <4>4. closed' \in Nat
        BY <1>2, <2>3, CappedType
      <4> QED BY <1>2, <3>1, <4>1, <4>2, <4>3, <4>4
    <3>3. CASE pausedFor # Nothing
      <4>1. ~resume
        BY <2>1, <2>5, <3>3 DEF Held
      <4>2. OpenPause = pausedFor /\ OpenPause' = Later(pausedFor, MaxPause)
        BY <1>2, <2>2, <3>3 DEF OpenPause, Later
      <4> QED BY <1>2, <2>3, <3>1, <3>3, <4>1, <4>2, Thresholds DEF Capped, Later
    <3> QED BY <3>2, <3>3
  <2>6. Counted'
    BY <1>1, <2>1, <2>5 DEF Counted, Polling
  <2> QED BY <2>4, <2>6
<1>4. CASE Unreadable
  <2>1. UNCHANGED <<resume, pausedFor, seen, halt, worker, total, saved, closed>>
    BY <1>4 DEF Unreadable, Read, gate
  <2>2. peak' = peak
    BY <1>2, <1>4, HotterIsMax DEF Unreadable, Read
  <2> QED BY <1>1, <2>1, <2>2 DEF Placed, Held, Counted, Peaked, Polling, OpenPause
<1>5. ASSUME NEW temp \in Temps, Evaluate(temp) PROVE Books'
  <2>1. /\ UNCHANGED <<halt, worker, total, saved, closed>>
        /\ peak' = Hotter(peak, temp)
    BY <1>5 DEF Evaluate, Abort, Pause, Cool, Watch, Sample, Read
  <2>2. seen \in Runs /\ seen' \in Runs
    BY <1>5, Records, SampledType DEF Evaluate, Abort, Pause, Cool, Watch, IInv
  <2>3. seen'.max = Hotter(seen.max, temp)
    BY <1>5, <2>2 DEF Evaluate, Abort, Pause, Cool, Watch, Sampled, Runs
  <2>4. Placed'
    BY <1>1, <2>1 DEF Placed, Polling
  <2>5. Peaked'
    <3>1. temp \in Readings
      BY Thresholds
    <3>2. Hotter(Hotter(total.max, seen.max), temp)
            = Hotter(total.max, Hotter(seen.max, temp))
      BY <1>2, <3>1, HotterIsMax
    <3> QED BY <1>1, <2>1, <2>3, <3>2 DEF Peaked, Polling
  <2>6. CASE Abort(temp)
    BY <1>1, <2>1, <2>2, <2>4, <2>5, <2>6 DEF Abort, Held, Counted, Polling, Runs
  <2>7. CASE Pause(temp)
    <3>1. ~resume' /\ pausedFor' = 0 /\ seen' = Sampled(temp)
      BY <2>7 DEF Pause
    <3>2. seen'.paused = seen.paused /\ seen'.aborted = seen.aborted
      BY <2>2, <3>1 DEF Sampled, Runs
    <3>3. OpenPause' = 0
      BY <3>1 DEF OpenPause
    <3>4. Capped(total.paused + seen.paused + 0)
            <= Capped(total.paused + seen.paused + OpenPause)
      BY <1>2, Thresholds DEF Capped
    <3>5. /\ Capped(total.paused + seen.paused + 0) \in Nat
          /\ Capped(total.paused + seen.paused + OpenPause) \in Nat
      BY <1>2, CappedType
    <3>6. Counted'
      BY <1>1, <1>2, <2>1, <3>2, <3>3, <3>4, <3>5 DEF Counted, Polling
    <3> QED BY <2>4, <2>5, <3>1, <3>6 DEF Held
  <2>8. CASE Cool(temp)
    <3>1. resume' /\ pausedFor' = Nothing
      BY <2>8 DEF Cool
    <3>2. seen' = [Sampled(temp) EXCEPT !.paused = ClosePause(seen).paused]
      BY <2>8 DEF Cool
    <3>3. seen'.paused = ClosePause(seen).paused /\ seen'.aborted = seen.aborted
      BY <2>2, <3>2 DEF Sampled, Runs
    <3>4. OpenPause' = 0
      BY <3>1 DEF OpenPause
    <3>5. Capped(total.paused + Capped(seen.paused + OpenPause))
            = Capped(total.paused + seen.paused + OpenPause)
      BY <1>2, CappedSum
    <3>6. Capped(total.paused + seen'.paused + OpenPause')
            = Capped(total.paused + seen.paused + OpenPause)
      <4>1. seen'.paused \in Nat
        BY <2>2 DEF Runs
      <4>2. CASE seen'.paused = Capped(seen.paused + OpenPause)
        <5>1. Capped(seen.paused + OpenPause) \in Nat
          BY <1>2, CappedType
        <5> QED BY <1>2, <3>4, <3>5, <4>2, <5>1
      <4>3. CASE seen'.paused = seen.paused + OpenPause
        <5>1. total.paused + (seen.paused + OpenPause) + 0
                = total.paused + seen.paused + OpenPause
          BY <1>2
        <5> QED BY <3>4, <4>3, <5>1
      <4> QED BY <3>3, <4>2, <4>3, ClosePauseAdds
    <3>7. Counted'
      BY <1>1, <2>1, <3>3, <3>6 DEF Counted, Polling
    <3> QED BY <2>4, <2>5, <3>1, <3>7 DEF Held
  <2>9. CASE Watch(temp)
    <3>1. UNCHANGED <<resume, pausedFor>> /\ seen' = Sampled(temp)
      BY <2>9 DEF Watch
    <3>2. seen'.paused = seen.paused /\ seen'.aborted = seen.aborted
      BY <2>2, <3>1 DEF Sampled, Runs
    <3> QED BY <1>1, <2>1, <2>4, <2>5, <3>1, <3>2 DEF Held, Counted, Polling, OpenPause
  <2> QED BY <1>5, <2>6, <2>7, <2>8, <2>9 DEF Evaluate
<1>6. CASE GuardExits
  BY <1>1, <1>6 DEF GuardExits, gate, history, Placed, Held, Counted, Peaked,
                    Polling, OpenPause
<1> QED BY <1>3, <1>4, <1>5, <1>6 DEF GuardStep

(* What the checkpoints of the worker write.                               *)
LEMMA CheckpointsKeepPeak ==
  ASSUME IInv, Books, Transfer \/ Join, saved' # saved
  PROVE  saved'.max = peak
<1>1. total \in Runs /\ seen \in Runs /\ ClosePause(seen) \in Runs
  BY Records, ClosePauseType DEF IInv, TypeOK
<1>2. Polling
  BY DEF Transfer, Join, Polling
<1>3. peak = Hotter(total.max, seen.max)
  BY <1>2 DEF Books, Peaked
<1>4. CASE Transfer
  <2>1. saved'.max = Observe(total, seen).max
    BY <1>4 DEF Transfer, Checkpoint
  <2> QED BY <1>1, <1>3, <2>1, AbsorbAdds
<1>5. CASE Join
  <2>1. saved'.max = Absorb(total, ClosePause(seen)).max
    BY <1>5 DEF Join, Checkpoint
  <2>2. Absorb(total, ClosePause(seen)).max
          = Hotter(total.max, ClosePause(seen).max)
    BY <1>1, AbsorbAdds
  <2> QED BY <1>3, <2>1, <2>2, ClosePauseAdds
<1> QED BY <1>4, <1>5

LEMMA JoinBooks ==
  ASSUME IInv, Books, Join
  PROVE  Books'
<1> DEFINE closing == ClosePause(seen)
<1>1. total \in Runs /\ seen \in Runs /\ closing \in Runs
  BY Records, ClosePauseType DEF IInv, TypeOK
<1>2. /\ total' = Absorb(total, closing) /\ pausedFor' = Nothing
      /\ saved'.max = total'.max
      /\ worker' \in {"open", "ended"} /\ guard' = "stopped"
      /\ UNCHANGED <<closed, peak>>
  BY DEF Join, Checkpoint, history
<1>3. Polling /\ ~Polling'
  BY <1>2 DEF Join, Polling
<1>4. /\ total'.max = Hotter(total.max, closing.max)
      /\ total'.paused = Capped(total.paused + closing.paused)
      /\ total'.aborted = (total.aborted \/ closing.aborted)
  BY <1>1, <1>2, AbsorbAdds
<1>5. /\ closing.max = seen.max /\ closing.aborted = seen.aborted
      /\ closing.paused \in {seen.paused + OpenPause,
                             Capped(seen.paused + OpenPause)}
      /\ OpenPause \in Nat /\ seen.paused \in Nat /\ total.paused \in Nat
  BY ClosePauseAdds
<1>6. total'.paused = Capped(total.paused + seen.paused + OpenPause)
  <2>1. Capped(total.paused + Capped(seen.paused + OpenPause))
          = Capped(total.paused + seen.paused + OpenPause)
    BY <1>5, CappedSum
  <2>2. total.paused + (seen.paused + OpenPause)
          = total.paused + seen.paused + OpenPause
    BY <1>5
  <2> QED BY <1>4, <1>5, <2>1, <2>2
<1>7. Counted'
  BY <1>2, <1>3, <1>4, <1>5, <1>6 DEF Books, Counted
<1>8. Peaked'
  BY <1>2, <1>3, <1>4, <1>5 DEF Books, Peaked
<1> QED BY <1>2, <1>7, <1>8 DEF Books, Placed, Held

LEMMA WorkerBooks == IInv /\ Books /\ (WorkerStep \/ Vanish) => Books'
<1> SUFFICES ASSUME IInv, Books, WorkerStep \/ Vanish PROVE Books'
  OBVIOUS
<1> USE DEF gate, history, Books, Placed, Held, Counted, Peaked, Polling, OpenPause
<1>1. CASE OpenStopped
  BY <1>1 DEF OpenStopped
<1>2. CASE StartGuard
  <2>1. /\ worker = "open" /\ worker' = "top" /\ pausedFor' = Nothing
        /\ seen' = Cold /\ UNCHANGED <<total, closed, peak>>
    BY <1>2 DEF StartGuard
  <2>2. /\ total.paused \in Nat /\ closed \in Nat
        /\ Capped(total.paused) <= total.paused
        /\ Capped(total.paused) \in Nat
        /\ total.max \in Readings
    <3>1. total \in Runs /\ closed \in 0..MaxPause
      BY Records DEF IInv, TypeOK
    <3>2. total.paused \in Nat /\ closed \in Nat /\ total.max \in Readings
      BY <3>1 DEF Runs
    <3> QED BY <3>2, CappedSum, CappedType
  <2>3. Cold.max = NoReading /\ Cold.paused = 0 /\ ~Cold.aborted
    BY DEF Cold
  <2>4. Counted'
    <3>1. total.paused + 0 + 0 = total.paused
      BY <2>2
    <3>2. ~total.aborted => Capped(total.paused) <= closed
      BY <2>1, <2>2
    <3> QED BY <2>1, <2>3, <3>1, <3>2
  <2>5. Peaked'
    BY <2>1, <2>2, <2>3, HotterIsMax
  <2> QED BY <2>1, <2>4, <2>5
<1>3. CASE CheckStop
  BY <1>3 DEF CheckStop
<1>4. CASE PassGate
  BY <1>4 DEF PassGate
<1>5. CASE Transfer
  <2>1. total \in Runs /\ seen \in Runs /\ {seen.max, total.max} \subseteq Readings
    BY Records, ClosePauseAdds DEF IInv
  <2>2. /\ total'.paused = total.paused /\ total'.aborted = total.aborted
        /\ total'.max \in {total.max, Hotter(total.max, seen.max)}
    <3>1. total' \in {total, Observe(total, seen)}
      BY <1>5 DEF Transfer
    <3> QED BY <2>1, <3>1, AbsorbAdds
  <2>3. /\ UNCHANGED <<gate, seen, guard, halt, closed, peak>>
        /\ worker = "io" /\ worker' = "top"
    BY <1>5 DEF Transfer
  <2>4. Hotter(total'.max, seen.max) = Hotter(total.max, seen.max)
    BY <2>1, <2>2, HotterIsMax
  <2> QED BY <2>2, <2>3, <2>4
<1>6. ASSUME NEW next \in {"closing", "reopening"}, StopGuard(next),
             worker \in {"top", "io"}
      PROVE  Books'
  BY <1>6 DEF StopGuard
<1>7. CASE Join
  BY <1>7, JoinBooks
<1> QED BY <1>1, <1>2, <1>3, <1>4, <1>5, <1>6, <1>7 DEF WorkerStep, Leave, Vanish

LEMMA EnvironmentBooks == IInv /\ Books /\ (Launch \/ Terminate \/ Kill) => Books'
<1> SUFFICES ASSUME IInv, Books, Launch \/ Terminate \/ Kill PROVE Books'
  OBVIOUS
<1> USE DEF gate, history, Books, Placed, Held, Counted, Peaked, Polling, OpenPause
<1>1. saved.paused \in Nat
  BY DEF IInv, TypeOK
<1>2. CASE Launch
  BY <1>1, <1>2 DEF Launch
<1>3. CASE Terminate
  BY <1>3 DEF Terminate
<1>4. CASE Kill
  BY <1>1, <1>4 DEF Kill
<1> QED BY <1>2, <1>3, <1>4

(* The books are in order in every state.                                  *)
THEOREM BooksAreKept == Spec => []Books
<1>1. IInv /\ Books /\ [Next]_vars => Books'
  <2> SUFFICES ASSUME IInv, Books, [Next]_vars PROVE Books'
    OBVIOUS
  <2>1. CASE UNCHANGED vars
    BY <2>1 DEF vars, gate, history, Books, Placed, Held, Counted, Peaked,
                Polling, OpenPause
  <2> QED BY <2>1, GuardBooks, WorkerBooks, EnvironmentBooks DEF Next
<1> QED BY BooksInit, <1>1, GuardIsSound, PTL DEF Spec

(* Over any number of passes, reconnects, stops and crashes, a run whose   *)
(* guard did not give up never reports more pause than there was.          *)
THEOREM PausesCountOnce == Spec => []PausesAreReal
<1>1. Books => PausesAreReal
  BY DEF Books, Counted, Polling, PausesAreReal
<1> QED BY <1>1, BooksAreKept, PTL

(* Every checkpoint, of a tick or of the end of a pass, carries the        *)
(* hottest reading there has been.                                         *)
THEOREM PeakSurvives == Spec => PeakIsKept
<1>1. IInv /\ Books /\ [Next]_vars => [saved'.max = peak]_saved
  <2> SUFFICES ASSUME IInv, Books, Next, saved' # saved
               PROVE  saved'.max = peak
    BY DEF vars
  <2>1. Transfer \/ Join
    BY DEF Next, GuardStep, BeginPoll, Unreadable, Evaluate, Abort, Pause, Cool,
           Watch, Sample, Read, GuardExits, WorkerStep, OpenStopped, StartGuard,
           CheckStop, PassGate, Leave, Vanish, StopGuard, Launch, Terminate, Kill
  <2> QED BY <2>1, CheckpointsKeepPeak
<1> QED BY <1>1, GuardIsSound, BooksAreKept, PTL DEF Spec, PeakIsKept
=============================================================================
