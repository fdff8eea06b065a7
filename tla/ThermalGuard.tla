------------------------------ MODULE ThermalGuard ------------------------------
(***************************************************************************)
(* The thermal guard of one pass: the polling thread of ThermalGuard, the  *)
(* worker it gates between chunks, and what the checkpoint keeps of both.  *)
(*                                                                         *)
(* Time passes in polls (poll_interval_s).  With AllowsPause the worker is *)
(* the loop of zero_fill or verify_zero; without it, it is the poll loop   *)
(* of the extended self-test, which has no gate and stops on an abort.     *)
(***************************************************************************)
EXTENDS Integers

CONSTANTS
  Temps,        (* the temperatures a drive may report                     *)
  ResumeC,      (* thermal.resume_c                                        *)
  PauseC,       (* thermal.pause_c                                         *)
  AbortC,       (* thermal.abort_c                                         *)
  AbortAfter,   (* thermal.abort_after_s, in polls                         *)
  AllowsPause,  (* phase_allows_pause: phases 4 and 5, not phase 6         *)
  Work,         (* the chunks of the pass, or the polls of the self-test   *)
  MaxPause      (* bound: pauses are told apart up to this many polls      *)

ASSUME ThermalAssumption ==
  /\ Temps \subseteq Nat \ {0}
  /\ {ResumeC, PauseC, AbortC, AbortAfter, Work, MaxPause} \subseteq Nat \ {0}
  /\ ResumeC < PauseC /\ PauseC <= AbortC
  /\ AllowsPause \in BOOLEAN

VARIABLES
  resume,     (* the _resume event                                         *)
  pausedFor,  (* polls since _paused_since                                 *)
  overFor,    (* polls since _over_abort_since                             *)
  seen,       (* the guard's ThermalState                                  *)
  guard,      (* where the polling thread is                               *)
  halt,       (* the _stop event                                           *)
  worker,     (* where the worker is                                       *)
  done,       (* chunks transferred                                        *)
  stop,       (* the child's stop flag                                     *)
  total,      (* DrivePipeline.thermal_state: the whole run's              *)
  saved,      (* what state.json holds of it, and the offset               *)
  (* History, read by the properties only.                                 *)
  last,       (* the latest reading                                        *)
  calm,       (* poll intervals since a reading below AbortC               *)
  closed,     (* polls the gate has really been closed                     *)
  peak,       (* the hottest reading                                       *)
  late        (* transfers begun since the gate closed                     *)

gate    == <<resume, pausedFor, overFor>>
history == <<last, calm, closed, peak, late>>
vars    == <<gate, seen, guard, halt, worker, done, stop, total, saved, history>>

Nothing   == -1        \* a monotonic time that is None
NoReading == 0         \* a temperature that is None

Readings == Temps \cup {NoReading}
Hotter(a, b) == IF a > b THEN a ELSE b
Capped(n)    == IF n > MaxPause THEN MaxPause ELSE n

(* One poll later.                                                         *)
Later(n, bound) == IF n = Nothing \/ n = bound THEN n ELSE n + 1

Cold == [max |-> NoReading, paused |-> 0, aborted |-> FALSE]

(* _close_pause                                                            *)
ClosePause(state) ==
  IF pausedFor = Nothing THEN state
  ELSE [state EXCEPT !.paused = Capped(@ + pausedFor)]

(* A bug: every tick adds the pauses again.                                *)
Bug_Observe(run, state) ==
  [run EXCEPT !.max = Hotter(@, state.max), !.paused = Capped(@ + state.paused)]

(* _observe_thermal: the maximum only, at every tick.                      *)
Observe(run, state) == [run EXCEPT !.max = Hotter(@, state.max)]

(* _absorb_thermal: once, at the end of the pass.                          *)
Absorb(run, state) ==
  [Observe(run, state) EXCEPT !.paused  = Capped(@ + state.paused),
                              !.aborted = @ \/ state.aborted]

Checkpoint(run, offset) ==
  saved' = [max |-> run.max, paused |-> run.paused, done |-> offset]

StopRequested == stop \/ (~AllowsPause /\ seen.aborted)

-----------------------------------------------------------------------------
(* The polling thread.                                                     *)

(* The wait times out: a poll interval later, the drive is asked.          *)
BeginPoll ==
  /\ guard = "waiting" /\ ~halt
  /\ guard' = "reading"
  /\ pausedFor' = Later(pausedFor, MaxPause)
  /\ overFor' = Later(overFor, AbortAfter + 1)
  /\ calm' = Later(calm, AbortAfter + 1)
  /\ closed' = IF resume THEN closed ELSE Capped(closed + 1)
  /\ UNCHANGED <<resume, seen, halt, worker, done, stop, total, saved, last, peak,
                 late>>

(* The answer; the worker may have stopped the guard in the meantime.      *)
Read(reading) ==
  /\ guard = "reading"
  /\ guard' = "waiting"
  /\ last' = reading
  /\ peak' = Hotter(peak, reading)
  /\ UNCHANGED <<halt, worker, done, stop, total, saved, closed>>

(* A reading that is not there changes nothing but monitoring_possible,    *)
(* which only the report reads.                                            *)
Unreadable ==
  /\ Read(NoReading)
  /\ UNCHANGED <<gate, seen, calm, late>>

(* A bug: a cooler reading does not restart the clock.                     *)
Bug_Over(temp) ==
  IF temp < AbortC \/ overFor # Nothing THEN overFor ELSE 0

(* What every branch of _evaluate does first.                              *)
Over(temp) ==
  IF temp < AbortC THEN Nothing ELSE IF overFor = Nothing THEN 0 ELSE overFor

Sample(temp) ==
  /\ Read(temp)
  /\ overFor' = Over(temp)
  /\ calm' = IF temp < AbortC THEN 0 ELSE calm

Sampled(temp) == [seen EXCEPT !.max = Hotter(@, temp)]

MustAbort(temp) ==
  \/ Over(temp) > AbortAfter
  \/ ~AllowsPause /\ temp >= PauseC

(* An abort opens the gate; a second one does nothing.                     *)
Abort(temp) ==
  /\ MustAbort(temp)
  /\ Sample(temp)
  /\ seen' = [Sampled(temp) EXCEPT !.aborted = TRUE]
  /\ resume' = (resume \/ ~seen.aborted)
  /\ late' = IF resume' THEN 0 ELSE late
  /\ UNCHANGED pausedFor

Pause(temp) ==
  /\ AllowsPause /\ ~MustAbort(temp)
  /\ resume /\ temp >= PauseC
  /\ Sample(temp)
  /\ seen' = Sampled(temp)
  /\ resume' = FALSE
  /\ pausedFor' = 0
  /\ UNCHANGED late

(* A bug: no hysteresis.                                                   *)
Bug_CoolEnough(temp) == temp < PauseC

(* A bug: cooling to exactly ResumeC is not cool enough.                   *)
Bug_CoolBelow(temp) == temp < ResumeC

CoolEnough(temp) == temp <= ResumeC

Cool(temp) ==
  /\ ~resume /\ CoolEnough(temp)
  /\ Sample(temp)
  /\ seen' = [Sampled(temp) EXCEPT !.paused = ClosePause(seen).paused]
  /\ resume' = TRUE
  /\ pausedFor' = Nothing
  /\ late' = 0

(* In the band between, or already paused and not yet cool: logged at most.*)
Watch(temp) ==
  /\ ~MustAbort(temp)
  /\ IF resume THEN temp < PauseC ELSE ~CoolEnough(temp)
  /\ Sample(temp)
  /\ seen' = Sampled(temp)
  /\ UNCHANGED <<resume, pausedFor, late>>

Evaluate(temp) == Abort(temp) \/ Pause(temp) \/ Cool(temp) \/ Watch(temp)

GuardExits ==
  /\ guard = "waiting" /\ halt
  /\ guard' = "stopped"
  /\ UNCHANGED <<gate, seen, halt, worker, done, stop, total, saved, history>>

-----------------------------------------------------------------------------
(* The worker.                                                             *)

(* A pass, or what is left of one, in a process that knows of the run only *)
(* what state.json says; `aborted` is not carried.                         *)
Launch ==
  /\ worker \in {"down", "ended"}
  /\ saved.done < Work
  /\ worker' = "open"
  /\ stop' = FALSE
  /\ done' = saved.done
  /\ total' = [max |-> saved.max, paused |-> saved.paused, aborted |-> FALSE]
  /\ closed' = saved.paused
  /\ UNCHANGED <<gate, seen, guard, halt, saved, last, calm, peak, late>>

OpenStopped ==
  /\ worker = "open" /\ stop
  /\ worker' = "ended"
  /\ UNCHANGED <<gate, seen, guard, halt, done, stop, total, saved, history>>

(* A new ThermalGuard at every open, so also after a reconnect.            *)
StartGuard ==
  /\ worker = "open" /\ ~stop
  /\ worker' = "top"
  /\ guard' = "waiting" /\ halt' = FALSE
  /\ seen' = Cold
  /\ resume' = TRUE /\ pausedFor' = Nothing /\ overFor' = Nothing
  /\ late' = 0 /\ calm' = 0
  /\ UNCHANGED <<done, stop, total, saved, last, closed, peak>>

(* A bug: one chunk too many.                                              *)
Bug_CheckStop ==
  /\ worker = "top" /\ done <= Work /\ ~StopRequested
  /\ worker' = "gate"
  /\ UNCHANGED <<gate, seen, guard, halt, done, stop, total, saved, history>>

CheckStop ==
  /\ worker = "top" /\ done < Work /\ ~StopRequested
  /\ worker' = "gate"
  /\ UNCHANGED <<gate, seen, guard, halt, done, stop, total, saved, history>>

(* A bug: the gate does not hold.                                          *)
Bug_PassGate ==
  /\ worker = "gate"
  /\ worker' = "io"
  /\ UNCHANGED <<gate, seen, guard, halt, done, stop, total, saved, history>>

(* wait_if_paused                                                          *)
PassGate ==
  /\ worker = "gate"
  /\ resume
  /\ worker' = "io"
  /\ UNCHANGED <<gate, seen, guard, halt, done, stop, total, saved, history>>

(* A bug: the peak is absorbed at the end of the pass only.                *)
Bug_Transfer ==
  /\ worker = "io"
  /\ worker' = "top"
  /\ done' = done + 1
  /\ late' = IF resume THEN 0 ELSE late + 1
  /\ UNCHANGED saved \/ Checkpoint(total, done + 1)
  /\ UNCHANGED <<gate, seen, guard, halt, stop, total, last, calm, closed, peak>>

(* The transfer and its progress callback: not due, due without a          *)
(* checkpoint, due with one.  The self-test has no callback.               *)
Transfer ==
  /\ worker = "io"
  /\ worker' = "top"
  /\ done' = done + 1
  /\ late' = IF resume THEN 0 ELSE late + 1
  /\ LET ticked == Observe(total, seen) IN
     \/ UNCHANGED <<total, saved>>
     \/ AllowsPause /\ total' = ticked /\ UNCHANGED saved
     \/ AllowsPause /\ total' = ticked /\ Checkpoint(ticked, done + 1)
  /\ UNCHANGED <<gate, seen, guard, halt, stop, last, calm, closed, peak>>

(* ThermalGuard.stop up to the join.  The device may vanish in a transfer. *)
StopGuard(next) ==
  /\ worker' = next
  /\ halt' = TRUE
  /\ resume' = TRUE
  /\ late' = 0
  /\ UNCHANGED <<pausedFor, overFor, seen, guard, done, stop, total, saved, last, calm,
                 closed, peak>>

Leave ==
  /\ worker = "top"
  /\ done = Work \/ StopRequested
  /\ StopGuard("closing")

Vanish == AllowsPause /\ worker = "io" /\ StopGuard("reopening")

(* The join, _close_pause, _absorb_thermal and the checkpoint after it.    *)
(* A self-test has no offset to resume from.                               *)
Join ==
  /\ worker \in {"closing", "reopening"}
  /\ guard = "stopped"
  /\ LET run == Absorb(total, ClosePause(seen)) IN
     total' = run /\ Checkpoint(run, IF AllowsPause THEN done ELSE 0)
  /\ seen' = ClosePause(seen)
  /\ pausedFor' = Nothing
  /\ worker' = IF worker = "closing" THEN "ended" ELSE "open"
  /\ UNCHANGED <<resume, overFor, guard, halt, done, stop, history>>

-----------------------------------------------------------------------------
(* The environment.                                                        *)

Terminate ==
  /\ worker \notin {"down", "ended"} /\ ~stop
  /\ stop' = TRUE
  /\ UNCHANGED <<gate, seen, guard, halt, worker, done, total, saved, history>>

Kill ==
  /\ worker \notin {"down", "ended"}
  /\ worker' = "down"
  /\ guard' = "stopped" /\ halt' = TRUE
  /\ resume' = TRUE /\ pausedFor' = Nothing /\ overFor' = Nothing
  /\ seen' = Cold
  /\ stop' = FALSE
  /\ done' = saved.done
  /\ total' = [max |-> saved.max, paused |-> saved.paused, aborted |-> FALSE]
  /\ last' = NoReading /\ calm' = 0 /\ late' = 0
  /\ closed' = saved.paused
  /\ peak' = saved.max
  /\ UNCHANGED saved

Init ==
  /\ resume = TRUE /\ pausedFor = Nothing /\ overFor = Nothing
  /\ seen = Cold
  /\ guard = "stopped" /\ halt = TRUE
  /\ worker = "down"
  /\ done = 0
  /\ stop = FALSE
  /\ total = Cold
  /\ saved = [max |-> NoReading, paused |-> 0, done |-> 0]
  /\ last = NoReading /\ calm = 0 /\ closed = 0 /\ peak = NoReading /\ late = 0

GuardStep == BeginPoll \/ Unreadable \/ (\E t \in Temps : Evaluate(t)) \/ GuardExits

WorkerStep == OpenStopped \/ StartGuard \/ CheckStop \/ PassGate \/ Transfer
         \/ Leave \/ Join

Next == GuardStep \/ WorkerStep \/ Launch \/ Vanish \/ Terminate \/ Kill

Spec == Init /\ [][Next]_vars

(* Both threads keep running; what the drive reports, whether it vanishes  *)
(* and who stops the run are the environment's.                            *)
FairSpec == Spec /\ WF_vars(GuardStep) /\ WF_vars(WorkerStep)

-----------------------------------------------------------------------------
TypeOK ==
  /\ resume \in BOOLEAN /\ halt \in BOOLEAN /\ stop \in BOOLEAN
  /\ pausedFor \in {Nothing} \cup 0..MaxPause
  /\ overFor \in {Nothing} \cup 0..(AbortAfter + 1)
  /\ {seen, total} \subseteq
       [max : Readings, paused : 0..MaxPause, aborted : BOOLEAN]
  /\ saved \in [max : Readings, paused : 0..MaxPause, done : 0..Work]
  /\ guard \in {"waiting", "reading", "stopped"}
  /\ worker \in {"down", "open", "top", "gate", "io", "closing", "reopening",
                "ended"}
  /\ done \in 0..Work
  /\ {last, peak} \subseteq Readings
  /\ calm \in 0..(AbortAfter + 1)
  /\ closed \in 0..MaxPause
  /\ late \in 0..Work

(* The guard gives a drive up only for heat that lasted: no reading below  *)
(* AbortC for longer than abort_after_s, however many readings were        *)
(* missing in between (thermal.py _evaluate, the reset of                  *)
(* _over_abort_since).                                                     *)
AbortIsSustained ==
  [][AllowsPause /\ ~seen.aborted /\ seen'.aborted => calm' > AbortAfter]_vars

(* A closed gate holds the worker: at most the one transfer it was already *)
(* past the gate for goes to a drive that is paused.                       *)
PausedDriveRests == late <= 1

(* Unless the guard gave up, the report never counts a pause that was not  *)
(* one, over reconnects, passes and crashes (_close_pause; _absorb_thermal *)
(* "adds the accumulating counters exactly once").                         *)
PausesAreReal ==
  worker = "ended" /\ ~total.aborted => total.paused <= closed

(* Every checkpoint carries the peak the guard had read when it was made,  *)
(* so no crash makes a resumed run understate it (_observe_thermal).       *)
PeakIsKept == [][saved'.max = peak]_saved

(* A paused worker moves once the drive reports that it has cooled.        *)
CooledWorkerMoves ==
  <>[](last \in 1..ResumeC) => (worker = "gate" ~> worker # "gate")

(* SPEC 6.5: above 60 C for more than 5 minutes, "abort that drive"; the   *)
(* worker starts no transfer, and no poll of the self-test, after that.    *)
AbortStopsTransfers ==
  [][seen.aborted /\ worker = "top" => worker' # "gate"]_vars

(* SPEC 6.5: if temperature is unavailable, "skip the guard".              *)
UnreadableDriveRuns ==
  <>[](last = NoReading) => (worker = "gate" ~> worker # "gate")

(* SPEC 8.2: a signalled child stops at the next chunk boundary.           *)
StopIsAnswered == stop /\ worker = "gate" ~> worker # "gate"

(* SPEC 9.1: the checkpoint includes the thermal pause seconds so far.     *)
CheckpointCarriesPauses ==
  [][resume /\ ~seen.aborted /\ ~total.aborted => saved'.paused = closed]_saved

(* SPEC 6.5: "Record total paused time"; no part of a pause is lost.       *)
PauseIsNotLost ==
  worker = "ended" /\ ~total.aborted => total.paused >= closed

(* SPEC 6.5 again; a drive at work is not counted as paused.               *)
AbortedPauseIsReal ==
  worker = "ended" /\ total.aborted => total.paused <= closed
=============================================================================
