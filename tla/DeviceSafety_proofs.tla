-------------------------- MODULE DeviceSafety_proofs --------------------------
(***************************************************************************)
(* That what is written is the drive the operator confirmed, and no drive  *)
(* that is in use: for any drives, bays and runs, and any number of moves. *)
(***************************************************************************)
EXTENDS DeviceSafety, FiniteSetTheorems, TLAPS

Serials == Drives \cup {NoSerial}
PathType == [bay : Places, drive : Drives \cup {NoDrive}]
Steps == {"none", "selected", "probed", "confirmed", "opened", "checked",
          "writing", "away", "stopped", "over"}
JobType ==
  [pc : Steps, path : PathType, identity : [serial : Serials], ata : Serials,
   fd : Drives \cup {NoDrive}, own : Drives \cup {NoDrive},
   since : SUBSET Uses, wrote : SUBSET Drives]

(* The world: no two drives are in one bay.                                *)
WorldInv ==
  /\ where \in [Drives -> Places] /\ linked \subseteq Attached
  /\ uses \in [Drives -> SUBSET Uses]
  /\ moves \in 0..MaxMoves /\ used \in 0..MaxUses
  /\ \A d, e \in Attached : where[d] = where[e] => d = e

GateInv ==
  /\ gate \in [for : {"nothing", "run", "resume"},
               token : SUBSET (Places \X Serials)]
  /\ planned \in [token : SUBSET (Places \X Serials), drives : SUBSET Drives]

(* A run has a drive open from guarded_open to its end, as long as the     *)
(* drive is there.                                                         *)
JobInv ==
  /\ job \in [Runs -> JobType]
  /\ \A r \in Runs :
       job[r].fd # NoDrive =>
         job[r].fd \in Attached /\ job[r].pc \in {"opened", "checked", "writing"}

TypeInv == WorldInv /\ GateInv /\ JobInv

USE DeviceSafetyAssumption

LEMMA Known ==
  /\ \A d \in Drives : Serial(d) \in Serials /\ Ata(d) \in Serials
  /\ \A d \in Drives : Identity(d) \in [serial : Serials]
  /\ NoRun \in JobType /\ NoDrive \notin Drives
  /\ Closed \in [for : {"nothing", "run", "resume"},
                 token : SUBSET (Places \X Serials)]
BY DEF Serial, Ata, Identity, NoRun, JobType, Serials, Steps, PathType,
       NoPath, NoDrive, Places, Closed

LEMMA Paths ==
  ASSUME WorldInv
  PROVE  /\ \A d \in Drives : Path(d) \in PathType
         /\ \A path \in PathType : Reached(path) \subseteq Attached
         /\ Attached \subseteq Drives /\ Eligible \subseteq Attached
         /\ \A r : Match(r) \subseteq Attached
         /\ \A disks \in SUBSET Drives : Token(disks) \in SUBSET (Places \X Serials)
<1>1. \A d \in Drives : Path(d) \in PathType
  BY DEF WorldInv, Path, PathType, Places
<1>2. \A path \in PathType : Reached(path) \subseteq Attached
  BY DEF Reached, In, Attached
<1>3. /\ Attached \subseteq Drives /\ Eligible \subseteq Attached
      /\ \A r : Match(r) \subseteq Attached
  BY DEF Attached, Eligible, Match, Matches
<1>4. \A d \in Drives : IdentityString(d) \in Places \X Serials
  BY Known DEF IdentityString, WorldInv
<1>5. \A disks \in SUBSET Drives : Token(disks) \in SUBSET (Places \X Serials)
  BY <1>4 DEF Token
<1> QED BY <1>1, <1>2, <1>3, <1>5

(* Where a child's step may take a run.                                     *)
Allowed(r, j) ==
  /\ j \in JobType
  /\ j.fd # NoDrive =>
       j.fd \in Attached /\ j.pc \in {"opened", "checked", "writing"}

LEMMA JobStep ==
  ASSUME TypeInv, NEW r \in Runs, NEW j, Allowed(r, j), Becomes(r, j),
         UNCHANGED <<world, gate, planned>>
  PROVE  TypeInv'
<1>1. job' = [job EXCEPT ![r] = j]
  BY DEF Becomes
<1>2. JobInv'
  BY <1>1 DEF TypeInv, JobInv, Attached, world, Allowed
<1>3. WorldInv' /\ GateInv'
  BY DEF TypeInv, WorldInv, GateInv, world, Attached
<1> QED BY <1>2, <1>3 DEF TypeInv

(* What Resume does, with the drive of each run it takes as a function.    *)
Takes(taken, drive) ==
  /\ \A r \in taken : job[r].pc = "stopped" /\ drive[r] \in Match(r)
  /\ job' = [r \in Runs |->
               IF r \in taken
               THEN [job[r] EXCEPT !.pc = "selected", !.own = drive[r],
                                   !.path = Path(drive[r])]
               ELSE job[r]]
  /\ gate' = [for |-> "resume", token |-> Token({drive[r] : r \in taken})]
  /\ planned' = [token |-> {}, drives |-> {}]

LEMMA Resumed ==
  ASSUME WorldInv, Resume
  PROVE  \E taken \in SUBSET Runs : \E drive \in [taken -> Attached] :
           Takes(taken, drive)
<1> DEFINE candidate == {r \in At("stopped") : Match(r) # {}}
           choice(r) == CHOOSE d \in Match(r) : TRUE
           chosen == {r \in candidate :
                        /\ choice(r) \in Eligible
                        /\ \A s \in candidate \ {r} : choice(s) # choice(r)}
           function == [r \in chosen |-> choice(r)]
<1>1. chosen \in SUBSET Runs /\ \A r \in chosen : job[r].pc = "stopped"
  BY DEF At
<1>2. \A r \in chosen : choice(r) \in Match(r)
  OBVIOUS
<1>3. function \in [chosen -> Attached] /\ \A r \in chosen : function[r] \in Match(r)
  BY <1>2, Paths
<1>4. /\ job' = [r \in Runs |->
           IF r \in chosen
           THEN [job[r] EXCEPT !.pc = "selected", !.own = choice(r),
                               !.path = Path(choice(r))]
           ELSE job[r]]
      /\ gate' = [for |-> "resume", token |-> Token({choice(r) : r \in chosen})]
      /\ planned' = [token |-> {}, drives |-> {}]
  BY DEF Resume
<1> HIDE DEF chosen, choice
<1>5. {function[r] : r \in chosen} = {choice(r) : r \in chosen}
  OBVIOUS
<1>6. Takes(chosen, function)
  BY <1>1, <1>3, <1>4, <1>5 DEF Takes
<1> QED BY <1>1, <1>3, <1>6

(* The runs Select makes.                                                  *)
Fresh(j, d) ==
  /\ j.pc = "selected" /\ j.path = Path(d) /\ j.identity = Identity(d)
  /\ j.ata = NoSerial /\ j.fd = NoDrive /\ j.own = d
  /\ j.since = {} /\ j.wrote = {}

LEMMA SelectedRuns ==
  ASSUME Select, NEW r \in Runs
  PROVE  job'[r] = NoRun \/ \E d \in Eligible : Fresh(job'[r], d)
<1>1. PICK chosen \in [Runs -> Eligible \cup {NoDrive}] :
        job' = [x \in Runs |->
          IF chosen[x] = NoDrive THEN NoRun
          ELSE [NoRun EXCEPT !.pc = "selected", !.path = Path(chosen[x]),
                             !.identity = Identity(chosen[x]),
                             !.own = chosen[x]]]
  BY DEF Select
<1>2. CASE chosen[r] = NoDrive
  BY <1>1, <1>2
<1>3. CASE chosen[r] # NoDrive
  <2>1. Fresh(job'[r], chosen[r])
    BY <1>1, <1>3 DEF Fresh, NoRun
  <2> QED BY <1>3, <2>1
<1> QED BY <1>2, <1>3

(* The runs Resume takes, and those it leaves.                             *)
LEMMA TakenRuns ==
  ASSUME TypeInv, NEW taken \in SUBSET Runs, NEW drive \in [taken -> Attached],
         Takes(taken, drive), NEW r \in Runs
  PROVE  /\ job'[r].identity = job[r].identity /\ job'[r].ata = job[r].ata
         /\ job'[r].fd = job[r].fd /\ job'[r].since = job[r].since
         /\ job'[r].wrote = job[r].wrote
         /\ \/ job'[r] = job[r]
            \/ /\ job[r].pc = "stopped" /\ job'[r].pc = "selected"
               /\ drive[r] \in Match(r) /\ drive[r] \in Attached
               /\ job'[r].own = drive[r] /\ job'[r].path = Path(drive[r])
<1>1. job[r] \in JobType
  BY DEF TypeInv, JobInv
<1>2. CASE r \in taken
  <2>1. job'[r] = [job[r] EXCEPT !.pc = "selected", !.own = drive[r],
                                 !.path = Path(drive[r])]
    BY <1>2 DEF Takes
  <2>2. job[r].pc = "stopped" /\ drive[r] \in Match(r) /\ drive[r] \in Attached
    BY <1>2 DEF Takes
  <2> QED BY <1>1, <2>1, <2>2 DEF JobType
<1>3. CASE r \notin taken
  <2>1. job'[r] = job[r]
    BY <1>3 DEF Takes
  <2> QED BY <2>1
<1> QED BY <1>2, <1>3

LEMMA TypeInit == Init => TypeInv
<1> SUFFICES ASSUME Init PROVE TypeInv
  OBVIOUS
<1>1. WorldInv
  BY DEF Init, WorldInv, Attached, Uses
<1>2. GateInv
  BY Known DEF Init, GateInv
<1>3. JobInv
  BY Known DEF Init, JobInv, NoRun
<1> QED BY <1>1, <1>2, <1>3 DEF TypeInv

LEMMA TypeStep == TypeInv /\ [Next]_vars => TypeInv'
<1> SUFFICES ASSUME TypeInv, [Next]_vars PROVE TypeInv'
  OBVIOUS
<1> USE DEF TypeInv
<1>w. ASSUME UNCHANGED world PROVE WorldInv'
  BY <1>w DEF WorldInv, world, Attached
<1>g. ASSUME UNCHANGED <<gate, planned>> PROVE GateInv'
  BY <1>g DEF GateInv
<1>j. ASSUME UNCHANGED <<world, job>> PROVE JobInv'
  BY <1>j DEF JobInv, world, Attached
<1>1. CASE UNCHANGED vars
  BY <1>1, <1>w, <1>g, <1>j DEF vars
<1>2. CASE Plan
  <2>1. GateInv'
    BY <1>2, Paths DEF Plan, GateInv
  <2> QED BY <1>2, <2>1, <1>w, <1>j DEF Plan
<1>3. CASE Select
  <2>1. PICK chosen \in [Runs -> Eligible \cup {NoDrive}] :
          job' = [r \in Runs |->
            IF chosen[r] = NoDrive THEN NoRun
            ELSE [NoRun EXCEPT !.pc = "selected", !.path = Path(chosen[r]),
                               !.identity = Identity(chosen[r]),
                               !.own = chosen[r]]]
    BY <1>3 DEF Select
  <2>2. ASSUME NEW r \in Runs PROVE job'[r] \in JobType /\ job'[r].fd = NoDrive
    <3>1. chosen[r] # NoDrive => /\ chosen[r] \in Drives
                                 /\ Path(chosen[r]) \in PathType
                                 /\ Identity(chosen[r]) \in [serial : Serials]
      BY Paths, Known
    <3> QED BY <2>1, <3>1, Known DEF JobType, NoRun, Steps
  <2>3. JobInv'
    BY <2>1, <2>2 DEF JobInv
  <2>4. gate' = [for |-> "run", token |-> Token(Eligible)] /\ UNCHANGED <<world, planned>>
    BY <1>3 DEF Select
  <2>5. GateInv'
    BY <2>4, Paths DEF GateInv
  <2> QED BY <2>3, <2>4, <2>5, <1>w
<1>4. CASE Confirm
  <2>1. JobInv'
    BY <1>4 DEF Confirm, JobInv, JobType, Steps, world, Attached
  <2>2. GateInv'
    BY <1>4, Known DEF Confirm, GateInv
  <2> QED BY <1>4, <2>1, <2>2, <1>w DEF Confirm
<1>5. CASE Decline
  <2>1. PICK replaced \in BOOLEAN :
          job' = [r \in Runs |->
                    IF job[r].pc \in {"selected", "probed"}
                    THEN IF replaced THEN NoRun
                         ELSE [job[r] EXCEPT !.pc = "stopped"]
                    ELSE job[r]]
    BY <1>5 DEF Decline
  <2>2. JobInv'
    <3>1. UNCHANGED world
      BY <1>5 DEF Decline
    <3> QED BY <2>1, <3>1, Known DEF JobInv, JobType, Steps, world, Attached, NoRun
  <2>3. GateInv'
    BY <1>5, Known DEF Decline, GateInv
  <2> QED BY <1>5, <2>2, <2>3, <1>w DEF Decline
<1>6. CASE Resume
  <2>1. PICK taken \in SUBSET Runs : \E drive \in [taken -> Attached] :
               Takes(taken, drive)
    BY <1>6, Resumed
  <2>2. PICK drive \in [taken -> Attached] : Takes(taken, drive)
    BY <2>1
  <2>3. ASSUME NEW r \in taken PROVE drive[r] \in Drives /\ Path(drive[r]) \in PathType
    BY Paths
  <2>4. UNCHANGED world
    BY <1>6 DEF Resume
  <2>j. ASSUME NEW r \in Runs
        PROVE  job'[r] \in JobType /\ job'[r].fd = job[r].fd
               /\ (job[r].fd # NoDrive => job'[r].pc = job[r].pc)
    <3>1. CASE r \in taken
      <4>1. job'[r] = [job[r] EXCEPT !.pc = "selected", !.own = drive[r],
                                     !.path = Path(drive[r])]
        BY <2>2, <3>1 DEF Takes
      <4>2. job[r] \in JobType /\ job[r].pc = "stopped"
        BY <2>2, <3>1 DEF Takes, JobInv
      <4>3. job[r].fd = NoDrive
        BY <4>2 DEF JobInv
      <4> QED BY <2>3, <3>1, <4>1, <4>2, <4>3 DEF JobType, Steps
    <3>2. CASE r \notin taken
      BY <2>2, <3>2 DEF Takes, JobInv
    <3> QED BY <3>1, <3>2
  <2>5. JobInv'
    <3>1. job' \in [Runs -> JobType]
      BY <2>2, <2>j DEF Takes
    <3> QED BY <2>4, <2>j, <3>1 DEF JobInv, world, Attached
  <2>6. {drive[r] : r \in taken} \in SUBSET Drives
    BY <2>3
  <2>7. GateInv'
    BY <2>2, <2>6, Paths DEF Takes, GateInv
  <2> QED BY <2>4, <2>5, <2>7, <1>w
<1>7. ASSUME NEW r \in Runs, Child(r) PROVE TypeInv'
  <2>1. UNCHANGED <<world, gate, planned>>
    BY <1>7 DEF Child, Probe, Open, CheckIdentity, Recheck, Write, Finish,
                Stop, Vanish, Return
  <2>2. /\ job[r] \in JobType /\ Reached(job[r].path) \subseteq Attached
        /\ Match(r) \subseteq Attached /\ Attached \subseteq Drives
        /\ Eligible \subseteq Drives /\ NoDrive \notin Drives
        /\ \A d \in Drives : Path(d) \in PathType /\ Ata(d) \in Serials
    BY Paths, Known DEF JobInv, JobType
  <2>3. \E j : Allowed(r, j) /\ Becomes(r, j)
    <3>1. CASE Stops(r)
      <4>1. Allowed(r, [job[r] EXCEPT !.pc = "stopped", !.fd = NoDrive])
        BY <2>2 DEF Allowed, JobType, Steps
      <4> QED BY <3>1, <4>1 DEF Stops
    <3>2. ASSUME NEW to \in {"checked", "writing"}, Goes(r, to),
                 job[r].fd \in Attached
          PROVE  \E j : Allowed(r, j) /\ Becomes(r, j)
      <4>1. Allowed(r, [job[r] EXCEPT !.pc = to])
        BY <2>2, <3>2 DEF Allowed, JobType, Steps
      <4> QED BY <3>2, <4>1 DEF Goes
    <3>3. ASSUME NEW x \in Drives \cup {NoDrive}, job[r].fd = NoDrive,
                 NEW a \in Serials, Becomes(r, [job[r] EXCEPT !.pc = "probed", !.ata = a])
          PROVE  \E j : Allowed(r, j) /\ Becomes(r, j)
      <4>1. Allowed(r, [job[r] EXCEPT !.pc = "probed", !.ata = a])
        BY <2>2, <3>3 DEF Allowed, JobType, Steps
      <4> QED BY <3>3, <4>1
    <3>4. CASE Probe(r)
      <4>1. job[r].fd = NoDrive
        BY <3>4 DEF Probe, JobInv
      <4>2. PICK x \in Reached(job[r].path) \cup {NoDrive} :
              Becomes(r, [job[r] EXCEPT !.pc = "probed",
                           !.ata = IF x = NoDrive THEN NoSerial ELSE Ata(x)])
        BY <3>4 DEF Probe
      <4>3. x \in Drives \cup {NoDrive}
            /\ (IF x = NoDrive THEN NoSerial ELSE Ata(x)) \in Serials
        BY <2>2, Known DEF Serials
      <4> QED BY <4>1, <4>2, <4>3, <3>3
    <3>5. CASE Open(r)
      <4>1. ASSUME NEW x \in Reached(job[r].path),
                   Becomes(r, [job[r] EXCEPT !.pc = "opened", !.fd = x,
                                             !.since = uses[x]])
            PROVE  \E j : Allowed(r, j) /\ Becomes(r, j)
        <5>1. x \in Attached /\ x \in Drives /\ uses[x] \in SUBSET Uses
          BY <2>2 DEF WorldInv
        <5>2. Allowed(r, [job[r] EXCEPT !.pc = "opened", !.fd = x, !.since = uses[x]])
          BY <2>2, <5>1 DEF Allowed, JobType, Steps
        <5> QED BY <4>1, <5>2
      <4> QED BY <3>1, <3>5, <4>1 DEF Open
    <3>6. CASE CheckIdentity(r)
      BY <3>1, <3>2, <3>6 DEF CheckIdentity, JobInv
    <3>7. CASE Recheck(r)
      BY <3>1, <3>2, <3>7, Paths DEF Recheck
    <3>8. CASE Write(r)
      <4>1. Allowed(r, [job[r] EXCEPT !.wrote = @ \cup {job[r].fd}])
        BY <2>2, <3>8 DEF Allowed, JobType, Write, JobInv
      <4> QED BY <3>8, <4>1 DEF Write
    <3>9. CASE Finish(r)
      <4>1. Allowed(r, [job[r] EXCEPT !.pc = "over", !.fd = NoDrive])
        BY <2>2 DEF Allowed, JobType, Steps
      <4> QED BY <3>9, <4>1 DEF Finish
    <3>10. CASE Stop(r)
      BY <3>1, <3>10 DEF Stop
    <3>11. CASE Vanish(r)
      <4>1. Allowed(r, [job[r] EXCEPT !.pc = "away"])
        BY <2>2, <3>11 DEF Allowed, JobType, Steps, Vanish
      <4> QED BY <3>11, <4>1 DEF Vanish, Goes
    <3>12. CASE Return(r)
      <4>1. ASSUME NEW d \in Match(r)
            PROVE  Allowed(r, [job[r] EXCEPT !.pc = "confirmed", !.path = Path(d)])
                   \/ job[r].pc # "away"
        BY <2>2, <4>1 DEF Allowed, JobType, Steps, JobInv
      <4> QED BY <3>1, <3>12, <4>1 DEF Return
    <3> QED BY <1>7, <3>4, <3>5, <3>6, <3>7, <3>8, <3>9, <3>10, <3>11, <3>12 DEF Child
  <2> QED BY <2>1, <2>3, JobStep
<1>8. ASSUME NEW d \in Drives, PlugIn(d) PROVE TypeInv'
  <2>1. PICK bay \in Bays : In(bay) = {} /\ where' = [where EXCEPT ![d] = bay]
    BY <1>8 DEF PlugIn
  <2>2. UNCHANGED <<linked, uses, used, job, gate, planned>> /\ where[d] = Away
        /\ moves < MaxMoves /\ moves' = moves + 1
    BY <1>8 DEF PlugIn, others, MayMove
  <2>3. Attached' = Attached \cup {d} /\ d \notin Attached
    BY <2>1, <2>2 DEF Attached, WorldInv
  <2>4. ASSUME NEW x \in Attached', NEW y \in Attached', where'[x] = where'[y]
        PROVE  x = y
    BY <2>1, <2>2, <2>3, <2>4 DEF WorldInv, In, Attached
  <2>5. WorldInv'
    BY <2>1, <2>2, <2>3, <2>4 DEF WorldInv, Places
  <2>6. JobInv'
    BY <2>2, <2>3 DEF JobInv
  <2> QED BY <2>2, <2>5, <2>6, <1>g
<1>9. ASSUME NEW d \in Drives, PullOut(d) PROVE TypeInv'
  <2>1. /\ where' = [where EXCEPT ![d] = Away] /\ linked' = linked \ {d}
        /\ uses' = [uses EXCEPT ![d] = @ \ {"claimed"}]
        /\ job' = [r \in Runs |-> IF job[r].fd = d
                            THEN [job[r] EXCEPT !.fd = NoDrive] ELSE job[r]]
        /\ moves < MaxMoves /\ moves' = moves + 1 /\ UNCHANGED <<used, gate, planned>>
    BY <1>9 DEF PullOut, MayMove
  <2>2. Attached' = Attached \ {d}
    BY <2>1 DEF Attached, WorldInv
  <2>3. WorldInv'
    BY <2>1, <2>2 DEF WorldInv, Places, Attached
  <2>4. JobInv'
    BY <2>1, <2>2, Known DEF JobInv, JobType
  <2> QED BY <2>1, <2>3, <2>4, <1>g
<1>10. ASSUME NEW d \in Drives, UdevLinks(d) PROVE TypeInv'
  <2>1. WorldInv'
    BY <1>10 DEF UdevLinks, others, WorldInv, Attached
  <2>2. JobInv'
    BY <1>10 DEF UdevLinks, others, JobInv, Attached
  <2> QED BY <1>10, <2>1, <2>2, <1>g DEF UdevLinks, others
<1>11. ASSUME NEW d \in Drives, TakeIntoUse(d) PROVE TypeInv'
  <2>1. WorldInv'
    BY <1>11 DEF TakeIntoUse, WorldInv, Attached
  <2>2. JobInv'
    BY <1>11 DEF TakeIntoUse, JobInv, Attached
  <2> QED BY <1>11, <2>1, <2>2, <1>g DEF TakeIntoUse
<1> QED BY <1>1, <1>2, <1>3, <1>4, <1>5, <1>6, <1>7, <1>8, <1>9, <1>10, <1>11 DEF Next

LEMMA Types == Spec => []TypeInv
BY TypeInit, TypeStep, PTL DEF Spec

(* Every variable keeps its type.                                          *)
THEOREM TypeCorrect == Spec => []TypeOK
<1>1. TypeInv => TypeOK
  BY DEF TypeInv, WorldInv, GateInv, JobInv, JobType, Steps, TypeOK
<1> QED BY <1>1, Types, PTL

-----------------------------------------------------------------------------
(* What a drive was configured for when it was opened it still is.         *)
UseInv ==
  \A r \in Runs :
    /\ job[r].fd # NoDrive =>
         "claimed" \notin uses[job[r].fd] /\ job[r].since \subseteq uses[job[r].fd]
    /\ job[r].pc = "writing" => job[r].since = {}

LEMMA UseStep == TypeInv /\ UseInv /\ [Next]_vars => UseInv'
<1> SUFFICES ASSUME TypeInv, UseInv, [Next]_vars PROVE UseInv'
  OBVIOUS
<1>t. /\ job \in [Runs -> JobType] /\ uses \in [Drives -> SUBSET Uses]
      /\ NoDrive \notin Drives
      /\ \A r \in Runs : job[r].fd # NoDrive =>
             job[r].fd \in Drives /\ job[r].pc \in {"opened", "checked", "writing"}
  BY Known DEF TypeInv, JobInv, WorldInv, Attached
<1>1. CASE UNCHANGED vars
  BY <1>1 DEF vars, world, UseInv
<1>2. CASE Plan
  BY <1>2 DEF Plan, world, UseInv
<1>3. CASE Select
  <2>1. ASSUME NEW r \in Runs
        PROVE  job'[r].fd = NoDrive /\ job'[r].pc # "writing"
    BY <1>3, SelectedRuns DEF NoRun, Fresh
  <2> QED BY <2>1 DEF UseInv
<1>4. CASE Confirm
  BY <1>4, <1>t DEF Confirm, UseInv, world, JobType
<1>5. CASE Decline
  BY <1>5, <1>t DEF Decline, UseInv, world, JobType, NoRun
<1>6. CASE Resume
  <2>1. PICK taken \in SUBSET Runs : \E drive \in [taken -> Attached] :
               Takes(taken, drive)
    BY <1>6, Resumed DEF TypeInv
  <2>2. PICK drive \in [taken -> Attached] : Takes(taken, drive)
    BY <2>1
  <2>3. ASSUME NEW r \in Runs
        PROVE  /\ job'[r].fd = job[r].fd /\ job'[r].since = job[r].since
               /\ job'[r].pc \in {job[r].pc, "selected"}
    BY <2>2, TakenRuns
  <2> QED BY <1>6, <2>3 DEF Resume, UseInv, world
<1>7. ASSUME NEW r \in Runs, Child(r) PROVE UseInv'
  <2>1. UNCHANGED uses
    BY <1>7 DEF Child, Probe, Open, CheckIdentity, Recheck, Write, Finish,
                Stop, Vanish, Return, world
  <2>2. CASE Open(r)
    <3>1. CASE Stops(r)
      BY <2>1, <3>1, <1>t DEF Stops, Becomes, UseInv, JobType
    <3>2. ASSUME NEW x \in Reached(job[r].path), ~Busy(x),
                 Becomes(r, [job[r] EXCEPT !.pc = "opened", !.fd = x,
                                           !.since = uses[x]])
          PROVE  UseInv'
      BY <2>1, <3>2, <1>t DEF Becomes, UseInv, JobType, Busy
    <3> QED BY <2>2, <3>1, <3>2 DEF Open
  <2>3. CASE Recheck(r)
    <3>1. CASE Stops(r)
      BY <2>1, <3>1, <1>t DEF Stops, Becomes, UseInv, JobType
    <3>2. CASE Goes(r, "writing") /\ job[r].fd \in Eligible
      <4>1. uses[job[r].fd] = {} /\ job[r].fd # NoDrive
        BY <3>2, <1>t DEF Eligible, Reasons, Attached
      <4> QED BY <2>1, <3>2, <4>1, <1>t DEF Goes, Becomes, UseInv, JobType
    <3> QED BY <2>3, <3>1, <3>2 DEF Recheck
  <2>4. ASSUME NEW to \in Steps \ {"writing"}, Goes(r, to) PROVE UseInv'
    BY <2>1, <2>4, <1>t DEF Goes, Becomes, UseInv, JobType
  <2>5. CASE Stops(r)
    BY <2>1, <2>5, <1>t DEF Stops, Becomes, UseInv, JobType
  <2>6. CASE CheckIdentity(r) \/ Stop(r) \/ Vanish(r)
    BY <2>4, <2>5, <2>6 DEF CheckIdentity, Stop, Vanish, Steps
  <2>7. CASE Finish(r)
    BY <2>1, <2>7, <1>t DEF Finish, Becomes, UseInv, JobType
  <2>8. CASE Write(r)
    BY <2>1, <2>8, <1>t DEF Write, Becomes, UseInv, JobType
  <2>9. CASE Probe(r)
    BY <2>1, <2>9, <1>t DEF Probe, Becomes, UseInv, JobType
  <2>10. CASE Return(r)
    <3>1. ASSUME NEW d, Becomes(r, [job[r] EXCEPT !.pc = "confirmed", !.path = Path(d)])
          PROVE  UseInv'
      BY <2>1, <3>1, <1>t DEF Becomes, UseInv, JobType
    <3> QED BY <2>5, <2>10, <3>1 DEF Return
  <2> QED BY <1>7, <2>2, <2>3, <2>6, <2>7, <2>8, <2>9, <2>10 DEF Child
<1>8. ASSUME NEW d \in Drives, PlugIn(d) \/ UdevLinks(d) PROVE UseInv'
  BY <1>8 DEF PlugIn, UdevLinks, others, UseInv
<1>9. ASSUME NEW d \in Drives, PullOut(d) PROVE UseInv'
  <2>1. /\ uses' = [uses EXCEPT ![d] = @ \ {"claimed"}]
        /\ job' = [r \in Runs |-> IF job[r].fd = d
                            THEN [job[r] EXCEPT !.fd = NoDrive] ELSE job[r]]
    BY <1>9 DEF PullOut
  <2> QED BY <2>1, <1>t DEF UseInv, JobType
<1>10. ASSUME NEW d \in Drives, TakeIntoUse(d) PROVE UseInv'
  <2>1. PICK u \in Uses \ uses[d] :
          /\ u = "claimed" => \A r \in Runs : job[r].fd # d
          /\ uses' = [uses EXCEPT ![d] = @ \cup {u}]
    BY <1>10 DEF TakeIntoUse
  <2>2. UNCHANGED job
    BY <1>10 DEF TakeIntoUse
  <2> QED BY <2>1, <2>2, <1>t DEF UseInv
<1> QED BY <1>1, <1>2, <1>3, <1>4, <1>5, <1>6, <1>7, <1>8, <1>9, <1>10 DEF Next

(* guarded_open looks at an open drive: the kernel can no longer claim it, *)
(* and what it was configured for when it was opened is seen.              *)
THEOREM LeftAlone == Spec => []InUseIsLeftAlone
<1>1. Init => UseInv
  BY DEF Init, UseInv, NoRun
<1>2. UseInv => InUseIsLeftAlone
  BY DEF UseInv, InUseIsLeftAlone, Writing
<1> QED BY <1>1, <1>2, UseStep, Types, PTL DEF Spec

-----------------------------------------------------------------------------
(* A run is about one drive, which the operator was shown.  One that is    *)
(* silent stays where it is until it is open; of one that shows its serial *)
(* that does not matter.                                                   *)
Settled(d) ==
  {[bay |-> where[d], drive |-> d], [bay |-> Away, drive |-> d]}

Owned(r) ==
  /\ job[r].pc # "none" =>
       job[r].own \in Drives /\ job[r].identity = Identity(job[r].own)
  /\ job[r].wrote \subseteq {job[r].own}
  /\ job[r].own \in Silent =>
       /\ job[r].ata \in {NoSerial, job[r].own}
       /\ r \in Waiting => /\ job[r].own \in Attached
                           /\ job[r].path \in Settled(job[r].own)
  /\ job[r].fd # NoDrive
     /\ (job[r].pc \in {"checked", "writing"} \/ job[r].own \in Silent)
       => job[r].fd = job[r].own

OwnInv == \A r \in Runs : Owned(r)

LEMMA SameDrive ==
  ASSUME NEW d \in Drives, NEW e \in Drives, Identity(d) = Identity(e)
  PROVE  d = e \/ (d \in Silent /\ e \in Silent)
BY DEF Identity, Serial, NoSerial

(* What a stored run is matched with is the drive it is about.             *)
LEMMA MatchIsOwn ==
  ASSUME TypeInv, NEW r \in Runs, Owned(r), job[r].pc # "none", NEW d \in Match(r)
  PROVE  d = job[r].own /\ d \in Attached
<1>1. d \in Matches(r) /\ Confirmed(r, d)
  BY DEF Match, Refused
<1>2. d \in Drives /\ d \in Attached /\ Identity(d) = Identity(job[r].own)
      /\ job[r].own \in Drives
  BY <1>1 DEF Matches, Attached, Owned
<1>3. CASE job[r].own \in Silent
  <2>1. job[r].identity.serial = NoSerial
    BY <1>2, <1>3 DEF Owned, Identity, Serial
  <2>2. Ata(d) = job[r].own
    BY <1>1, <1>3, <2>1 DEF Confirmed, Owned
  <2> QED BY <1>2, <2>2 DEF Ata, NoSerial
<1>4. CASE job[r].own \notin Silent
  BY <1>2, <1>4, SameDrive
<1> QED BY <1>2, <1>3, <1>4

(* What the path of a silent drive leads to is that drive.                 *)
LEMMA ReachIsOwn ==
  ASSUME TypeInv, NEW r \in Runs, Owned(r), job[r].own \in Silent, r \in Waiting,
         NEW x \in Reached(job[r].path)
  PROVE  x = job[r].own
<1>1. job[r].own \in Attached /\ job[r].path \in Settled(job[r].own)
  BY DEF Owned
<1>2. CASE job[r].path.bay = Away
  BY <1>1, <1>2 DEF Reached, Settled
<1>3. CASE job[r].path.bay # Away
  BY <1>1, <1>3 DEF Reached, Settled, In, TypeInv, WorldInv
<1> QED BY <1>2, <1>3

(* Path(d), of a drive that is there.                                      *)
LEMMA PathSettles == \A d : Path(d) \in Settled(d)
BY DEF Path, Settled

LEMMA OwnedKept ==
  ASSUME NEW r \in Runs, Owned(r), job'[r] = job[r], UNCHANGED where
  PROVE  Owned(r)'
BY DEF Owned, Settled, Waiting, Attached

(* A run that stops where it is.                                           *)
LEMMA OwnedStopped ==
  ASSUME TypeInv, NEW r \in Runs, Owned(r), UNCHANGED where,
         NEW to \in Steps \ {"none", "selected", "probed", "confirmed"},
         NEW fd \in {job[r].fd, NoDrive}, NEW wrote \in SUBSET {job[r].own},
         job'[r] = [job[r] EXCEPT !.pc = to, !.fd = fd, !.wrote = wrote],
         to \in {"checked", "writing"} /\ fd # NoDrive => fd = job[r].own,
         job[r].pc # "none"
  PROVE  Owned(r)'
<1>1. job[r] \in JobType
  BY DEF TypeInv, JobInv
<1>2. /\ job'[r].pc = to /\ job'[r].fd = fd /\ job'[r].own = job[r].own
      /\ job'[r].ata = job[r].ata /\ job'[r].identity = job[r].identity
      /\ job'[r].wrote = wrote
  BY <1>1 DEF JobType
<1> QED BY <1>2 DEF Owned, Waiting

LEMMA OwnStep ==
  HandsOff \/ Silent = {} => (TypeInv /\ OwnInv /\ [Next]_vars => OwnInv')
<1> SUFFICES ASSUME HandsOff \/ Silent = {}, TypeInv, OwnInv, [Next]_vars,
                    NEW r \in Runs
             PROVE  Owned(r)'
  BY DEF OwnInv
<1>t. /\ job[r] \in JobType /\ Owned(r) /\ NoDrive \notin Drives
      /\ where \in [Drives -> Places]
      /\ job[r].fd # NoDrive => job[r].fd \in Attached /\ job[r].fd \in Drives
      /\ job[r].fd # NoDrive => job[r].pc \in {"opened", "checked", "writing"}
  BY Known DEF TypeInv, JobInv, WorldInv, OwnInv, Attached
<1>1. CASE UNCHANGED vars
  BY <1>1, <1>t, OwnedKept DEF vars, world
<1>2. CASE Plan
  BY <1>2, <1>t, OwnedKept DEF Plan, world
<1>3. CASE Select
  <2>1. UNCHANGED where
    BY <1>3 DEF Select, world
  <2>2. CASE job'[r] = NoRun
    BY <2>2, Known DEF Owned, NoRun, Waiting
  <2>3. ASSUME NEW d \in Eligible, Fresh(job'[r], d) PROVE Owned(r)'
    <3>1. d \in Attached /\ d \in Drives
      BY DEF Eligible, Attached
    <3>2. d \in Attached'
      BY <2>1, <3>1 DEF Attached
    <3>3. Path(d) \in Settled(d)'
      BY <2>1, PathSettles DEF Settled
    <3> QED BY <2>3, <3>1, <3>2, <3>3 DEF Owned, Fresh
  <2> QED BY <1>3, <2>2, <2>3, SelectedRuns
<1>4. CASE Confirm
  <2>1. job'[r] = job[r] \/ (/\ job[r].pc \in {"selected", "probed"}
                            /\ job'[r] = [job[r] EXCEPT !.pc = "confirmed"])
    BY <1>4 DEF Confirm
  <2>2. CASE job'[r] = [job[r] EXCEPT !.pc = "confirmed"]
             /\ job[r].pc \in {"selected", "probed"}
    <3>1. /\ job'[r].pc = "confirmed" /\ job'[r].own = job[r].own
          /\ job'[r].path = job[r].path /\ job'[r].identity = job[r].identity
          /\ job'[r].ata = job[r].ata /\ job'[r].fd = job[r].fd
          /\ job'[r].wrote = job[r].wrote
      BY <1>t, <2>2 DEF JobType
    <3> QED BY <1>4, <1>t, <2>2, <3>1
            DEF Confirm, Owned, Waiting, Settled, Attached, world
  <2> QED BY <1>4, <1>t, <2>1, <2>2, OwnedKept DEF Confirm, world
<1>5. CASE Decline
  <2>1. CASE job'[r] = job[r]
    BY <1>5, <1>t, <2>1, OwnedKept DEF Decline, world
  <2>2. CASE job'[r] = NoRun
    BY <2>2, Known DEF Owned, NoRun, Waiting
  <2>3. CASE job'[r] = [job[r] EXCEPT !.pc = "stopped"] /\ job[r].pc # "none"
    <3>1. job'[r] = [job[r] EXCEPT !.pc = "stopped", !.fd = job[r].fd,
                                   !.wrote = job[r].wrote]
      BY <1>t, <2>3 DEF JobType
    <3>2. UNCHANGED where /\ job[r].wrote \in SUBSET {job[r].own}
      BY <1>5, <1>t DEF Decline, world, Owned
    <3>3. "stopped" \in Steps \ {"none", "selected", "probed", "confirmed"}
      BY DEF Steps
    <3> QED BY <1>t, <2>3, <3>1, <3>2, <3>3, OwnedStopped
  <2> QED BY <1>5, <2>1, <2>2, <2>3 DEF Decline
<1>6. CASE Resume
  <2>1. PICK taken \in SUBSET Runs : \E drive \in [taken -> Attached] :
               Takes(taken, drive)
    BY <1>6, Resumed DEF TypeInv
  <2>2. PICK drive \in [taken -> Attached] : Takes(taken, drive)
    BY <2>1
  <2>3. UNCHANGED where
    BY <1>6 DEF Resume, world
  <2>4. CASE job'[r] = job[r]
    BY <1>t, <2>3, <2>4, OwnedKept
  <2>5. CASE /\ job[r].pc = "stopped" /\ job'[r].pc = "selected"
             /\ drive[r] \in Match(r) /\ drive[r] \in Attached
             /\ job'[r].own = drive[r] /\ job'[r].path = Path(drive[r])
    <3>1. drive[r] = job[r].own
      BY <1>t, <2>5, MatchIsOwn
    <3>2. /\ job'[r].identity = job[r].identity /\ job'[r].ata = job[r].ata
          /\ job'[r].fd = job[r].fd /\ job'[r].wrote = job[r].wrote
      BY <2>2, TakenRuns
    <3>3. drive[r] \in Attached' /\ Path(drive[r]) \in Settled(drive[r])'
      BY <2>3, <2>5, PathSettles DEF Attached, Settled
    <3> QED BY <1>t, <2>5, <3>1, <3>2, <3>3 DEF Owned
  <2> QED BY <2>2, <2>4, <2>5, TakenRuns
<1>7. ASSUME NEW q \in Runs, Child(q) PROVE Owned(r)'
  <2>1. UNCHANGED where
    BY <1>7 DEF Child, Probe, Open, CheckIdentity, Recheck, Write, Finish,
                Stop, Vanish, Return, world
  <2>2. CASE q # r
    <3>1. job'[r] = job[r]
      BY <1>7, <2>2 DEF Child, Probe, Open, CheckIdentity, Recheck, Write,
           Finish, Stop, Vanish, Return, Stops, Goes, Becomes, TypeInv, JobInv
    <3> QED BY <1>t, <2>1, <3>1, OwnedKept
  <2>3. CASE q = r
    <3>0. job \in [Runs -> JobType]
      BY DEF TypeInv, JobInv
    <3>1. ASSUME Stops(r), job[r].pc # "none" PROVE Owned(r)'
      <4>1. job'[r] = [job[r] EXCEPT !.pc = "stopped", !.fd = NoDrive,
                                     !.wrote = job[r].wrote]
        BY <1>t, <3>0, <3>1 DEF Stops, Becomes, JobType
      <4> QED BY <1>t, <2>1, <3>1, <4>1, OwnedStopped DEF Owned, Steps
    <3>2. ASSUME NEW to \in {"checked", "writing", "away"}, Goes(r, to),
                 job[r].pc # "none",
                 to # "away" /\ job[r].fd # NoDrive => job[r].fd = job[r].own
          PROVE  Owned(r)'
      <4>1. job'[r] = [job[r] EXCEPT !.pc = to, !.fd = job[r].fd,
                                     !.wrote = job[r].wrote]
        BY <1>t, <3>0, <3>2 DEF Goes, Becomes, JobType
      <4>2. job[r].wrote \in SUBSET {job[r].own}
        BY <1>t DEF Owned
      <4>3. to \in Steps \ {"none", "selected", "probed", "confirmed"}
        BY <3>2 DEF Steps
      <4>4. to \in {"checked", "writing"} /\ job[r].fd # NoDrive
              => job[r].fd = job[r].own
        BY <3>2
      <4> QED BY <1>t, <2>1, <3>2, <4>1, <4>2, <4>3, <4>4, OwnedStopped
    <3>4. CASE Probe(r)
      <4>1. PICK x \in Reached(job[r].path) \cup {NoDrive} :
              Becomes(r, [job[r] EXCEPT !.pc = "probed",
                           !.ata = IF x = NoDrive THEN NoSerial ELSE Ata(x)])
        BY <3>4 DEF Probe
      <4>2. /\ job'[r].pc = "probed" /\ job'[r].own = job[r].own
            /\ job'[r].path = job[r].path /\ job'[r].identity = job[r].identity
            /\ job'[r].ata = IF x = NoDrive THEN NoSerial ELSE Ata(x)
            /\ job'[r].fd = job[r].fd /\ job'[r].wrote = job[r].wrote
        BY <1>t, <3>0, <4>1 DEF Becomes, JobType
      <4>3. r \in Waiting /\ job[r].pc = "selected"
        BY <3>4 DEF Probe, Waiting
      <4>4. job[r].own \in Silent => job'[r].ata \in {NoSerial, job[r].own}
        BY <1>t, <4>2, <4>3, ReachIsOwn DEF Ata
      <4> QED BY <1>t, <2>1, <4>2, <4>3, <4>4 DEF Owned, Waiting, Settled, Attached
    <3>5. CASE Open(r)
      <4>1. ASSUME NEW x \in Reached(job[r].path),
                   Becomes(r, [job[r] EXCEPT !.pc = "opened", !.fd = x,
                                             !.since = uses[x]])
            PROVE  Owned(r)'
        <5>1. /\ job'[r].pc = "opened" /\ job'[r].own = job[r].own
              /\ job'[r].identity = job[r].identity /\ job'[r].ata = job[r].ata
              /\ job'[r].fd = x /\ job'[r].wrote = job[r].wrote
          BY <1>t, <3>0, <4>1 DEF Becomes, JobType
        <5>2. r \in Waiting /\ job[r].pc = "confirmed"
          BY <3>5 DEF Open, Waiting
        <5>3. job[r].own \in Silent => x = job[r].own
          BY <1>t, <5>2, ReachIsOwn
        <5> QED BY <1>t, <5>1, <5>2, <5>3 DEF Owned, Waiting
      <4> QED BY <3>1, <3>5, <4>1 DEF Open
    <3>6. CASE CheckIdentity(r)
      <4>1. job[r].pc = "opened"
        BY <3>6 DEF CheckIdentity
      <4>2. ASSUME job[r].fd # NoDrive, Identity(job[r].fd) = job[r].identity
            PROVE  job[r].fd = job[r].own
        BY <1>t, <4>1, <4>2, SameDrive DEF Owned
      <4> QED BY <3>1, <3>2, <3>6, <4>1, <4>2 DEF CheckIdentity
    <3>7. CASE Recheck(r)
      <4>1. job[r].pc = "checked"
        BY <3>7 DEF Recheck
      <4>2. job[r].fd # NoDrive => job[r].fd = job[r].own
        BY <1>t, <4>1 DEF Owned
      <4> QED BY <3>1, <3>2, <3>7, <4>1, <4>2 DEF Recheck
    <3>8. CASE Write(r)
      <4>1. job[r].pc = "writing" /\ job[r].fd = job[r].own
        BY <1>t, <3>8 DEF Write, Owned
      <4>2. job'[r] = [job[r] EXCEPT !.pc = "writing", !.fd = job[r].fd,
                                     !.wrote = job[r].wrote \cup {job[r].fd}]
        BY <1>t, <3>0, <3>8, <4>1 DEF Write, Becomes, JobType
      <4>3. job[r].wrote \cup {job[r].fd} \in SUBSET {job[r].own}
        BY <1>t, <4>1 DEF Owned
      <4>4. "writing" \in Steps \ {"none", "selected", "probed", "confirmed"}
        BY DEF Steps
      <4> QED BY <1>t, <2>1, <4>1, <4>2, <4>3, <4>4, OwnedStopped
    <3>9. CASE Finish(r)
      <4>1. job'[r] = [job[r] EXCEPT !.pc = "over", !.fd = NoDrive,
                                     !.wrote = job[r].wrote]
        BY <1>t, <3>0, <3>9 DEF Finish, Becomes, JobType
      <4> QED BY <1>t, <2>1, <3>9, <4>1, OwnedStopped DEF Finish, Owned, Steps
    <3>10. CASE Stop(r)
      BY <3>1, <3>10 DEF Stop
    <3>11. CASE Vanish(r)
      BY <3>2, <3>11 DEF Vanish
    <3>12. CASE Return(r)
      <4>1. ASSUME NEW d \in Match(r),
                   Becomes(r, [job[r] EXCEPT !.pc = "confirmed", !.path = Path(d)])
            PROVE  Owned(r)'
        <5>1. /\ job'[r].pc = "confirmed" /\ job'[r].own = job[r].own
              /\ job'[r].identity = job[r].identity /\ job'[r].ata = job[r].ata
              /\ job'[r].fd = job[r].fd /\ job'[r].wrote = job[r].wrote
              /\ job'[r].path = Path(d)
          BY <1>t, <3>0, <4>1 DEF Becomes, JobType
        <5>2. job[r].pc = "away"
          BY <3>12 DEF Return
        <5>3. d = job[r].own /\ d \in Attached
          BY <1>t, <5>2, MatchIsOwn
        <5>4. d \in Attached' /\ Path(d) \in Settled(d)'
          BY <2>1, <5>3, PathSettles DEF Attached, Settled
        <5> QED BY <1>t, <5>1, <5>2, <5>3, <5>4 DEF Owned
      <4> QED BY <3>1, <3>12, <4>1 DEF Return
    <3> QED BY <1>7, <2>3, <3>4, <3>5, <3>6, <3>7, <3>8, <3>9, <3>10, <3>11, <3>12
            DEF Child
  <2> QED BY <2>2, <2>3
<1>8. ASSUME NEW d \in Drives, MayMove(d), NEW to \in Places,
             where' = [where EXCEPT ![d] = to],
             \/ job'[r] = job[r]
             \/ job[r].fd = d /\ job'[r] = [job[r] EXCEPT !.fd = NoDrive]
      PROVE  Owned(r)'
  <2>1. /\ job'[r].pc = job[r].pc /\ job'[r].own = job[r].own
        /\ job'[r].identity = job[r].identity /\ job'[r].ata = job[r].ata
        /\ job'[r].fd \in {job[r].fd, NoDrive} /\ job'[r].wrote = job[r].wrote
        /\ job'[r].path = job[r].path
    BY <1>8, <1>t DEF JobType
  <2>2. job[r].own \in Silent /\ r \in Waiting => job[r].own # d
    BY <1>8 DEF MayMove
  <2>3. job[r].own \in Silent /\ r \in Waiting =>
          where'[job[r].own] = where[job[r].own]
    BY <1>8, <1>t, <2>2, DeviceSafetyAssumption
  <2> QED BY <1>t, <2>1, <2>3 DEF Owned, Waiting, Settled, Attached
<1>9. ASSUME NEW d \in Drives, PlugIn(d) PROVE Owned(r)'
  BY <1>8, <1>9 DEF PlugIn, others, Places
<1>10. ASSUME NEW d \in Drives, PullOut(d) PROVE Owned(r)'
  BY <1>8, <1>10 DEF PullOut, Places
<1>11. ASSUME NEW d \in Drives, UdevLinks(d) \/ TakeIntoUse(d) PROVE Owned(r)'
  BY <1>11, <1>t, OwnedKept DEF UdevLinks, TakeIntoUse, others
<1> QED BY <1>1, <1>2, <1>3, <1>4, <1>5, <1>6, <1>7, <1>9, <1>10, <1>11 DEF Next

LEMMA Owners == HandsOff \/ Silent = {} => (Spec => []OwnInv)
<1> SUFFICES ASSUME HandsOff \/ Silent = {} PROVE Spec => []OwnInv
  OBVIOUS
<1>1. Init => OwnInv
  BY Known DEF Init, OwnInv, Owned, NoRun, Waiting
<1>2. TypeInv /\ OwnInv /\ [Next]_vars => OwnInv'
  BY OwnStep
<1> QED BY <1>1, <1>2, Types, PTL DEF Spec

(* The right drive: where every drive shows its serial, or nobody swaps    *)
(* the silent ones under a run that is about to open one, a run writes the *)
(* drive it was confirmed for and no other.                                *)
THEOREM RightDrive ==
  HandsOff \/ Silent = {} => (Spec => []OnlyTheConfirmedIsWritten)
<1> SUFFICES ASSUME HandsOff \/ Silent = {} PROVE Spec => []OnlyTheConfirmedIsWritten
  OBVIOUS
<1>1. OwnInv => OnlyTheConfirmedIsWritten
  BY DEF OwnInv, Owned, OnlyTheConfirmedIsWritten
<1> QED BY <1>1, Owners, PTL

(* And so it writes one.                                                   *)
THEOREM OneDrive == HandsOff \/ Silent = {} => (Spec => []OneRunOneDrive)
<1> SUFFICES ASSUME HandsOff \/ Silent = {} PROVE Spec => []OneRunOneDrive
  OBVIOUS
<1>1. OwnInv => OneRunOneDrive
  <2> SUFFICES ASSUME OwnInv, NEW r \in Runs PROVE Cardinality(job[r].wrote) <= 1
    BY DEF OneRunOneDrive
  <2>1. job[r].wrote \subseteq {job[r].own}
    BY DEF OwnInv, Owned
  <2>2. job[r].wrote = {} \/ job[r].wrote = {job[r].own}
    BY <2>1
  <2>3. Cardinality({}) = 0 /\ Cardinality({job[r].own}) = 1
    BY FS_EmptySet, FS_Singleton
  <2>4. CASE job[r].wrote = {}
    BY <2>3, <2>4
  <2>5. CASE job[r].wrote = {job[r].own}
    BY <2>3, <2>5
  <2> QED BY <2>2, <2>4, <2>5
<1> QED BY <1>1, Owners, PTL

-----------------------------------------------------------------------------
(* What a token was made of, and what came through the gate under it.      *)
AtGate == {"selected", "probed"}
Named(r) == \E d \in planned.drives : Serial(d) = Serial(job[r].own)

TokenInv ==
  /\ \A t \in planned.token : \E d \in planned.drives : t[2] = Serial(d)
  /\ gate.for = "resume" => planned.drives = {}
  /\ \A r \in Runs :
       /\ job[r].pc \in AtGate /\ gate.for = "run"
            => \E t \in gate.token : t[2] = Serial(job[r].own)
       /\ job[r].pc \in AtGate => gate.for # "nothing"
       /\ planned.drives # {} /\ job[r].pc \notin AtGate \cup {"none", "stopped"}
            => Named(r)

LEMMA TokenOf ==
  ASSUME NEW disks
  PROVE  /\ \A t \in Token(disks) : \E d \in disks : t[2] = Serial(d)
         /\ \A d \in disks : \E t \in Token(disks) : t[2] = Serial(d)
<1>1. \A d : IdentityString(d)[2] = Serial(d)
  BY DEF IdentityString
<1> QED BY <1>1 DEF Token

LEMMA TokenStep == TypeInv /\ TokenInv /\ [Next]_vars => TokenInv'
<1> SUFFICES ASSUME TypeInv, TokenInv, [Next]_vars PROVE TokenInv'
  OBVIOUS
<1>t. job \in [Runs -> JobType]
  BY DEF TypeInv, JobInv
<1>0. ASSUME UNCHANGED <<gate, planned>>,
             \A r \in Runs : /\ job'[r].own = job[r].own
                             /\ \/ job'[r].pc = job[r].pc
                                \/ job[r].pc \in AtGate /\ job'[r].pc \in AtGate
                                \/ /\ job[r].pc \notin AtGate \cup {"none", "stopped"}
                                   /\ job'[r].pc \notin AtGate \cup {"none"}
      PROVE  TokenInv'
  BY <1>0 DEF TokenInv, Named
<1>1. CASE UNCHANGED vars
  BY <1>0, <1>1 DEF vars
<1>2. CASE Plan
  <2>1. planned' = [token |-> Token(Eligible), drives |-> Eligible]
        /\ UNCHANGED <<gate, job>> /\ gate.for = "nothing"
    BY <1>2 DEF Plan, Closed
  <2>2. \A r \in Runs : job[r].pc = "none"
    BY <1>2 DEF Plan, At
  <2> QED BY <2>1, <2>2, TokenOf DEF TokenInv, AtGate
<1>3. CASE Select
  <2>1. gate' = [for |-> "run", token |-> Token(Eligible)] /\ UNCHANGED planned
    BY <1>3 DEF Select
  <2>2. ASSUME NEW r \in Runs
        PROVE  /\ job'[r].pc \in {"none", "selected"}
               /\ job'[r].pc = "selected" => job'[r].own \in Eligible
    BY <1>3, SelectedRuns DEF NoRun, Fresh
  <2> QED BY <2>1, <2>2, TokenOf DEF TokenInv, AtGate
<1>4. CASE Confirm
  <2>1. /\ gate.for \in {"run", "resume"} /\ gate'.for = "nothing"
        /\ planned.drives # {} => gate.token = planned.token
        /\ UNCHANGED planned
    BY <1>4 DEF Confirm, Closed
  <2>2. ASSUME NEW r \in Runs
        PROVE  /\ job'[r].own = job[r].own /\ job'[r].pc \notin AtGate
               /\ job'[r].pc = job[r].pc \/ job[r].pc \in AtGate
    BY <1>4, <1>t DEF Confirm, JobType, AtGate
  <2>3. ASSUME NEW r \in Runs, planned.drives # {}, job[r].pc \in AtGate
        PROVE  Named(r)
    BY <2>1, <2>3 DEF TokenInv, Named
  <2> QED BY <2>1, <2>2, <2>3 DEF TokenInv, Named
<1>5. CASE Decline
  <2>1. gate'.for = "nothing" /\ UNCHANGED planned /\ gate.for \in {"run", "resume", "nothing"}
    BY <1>5 DEF Decline, Closed, TypeInv, GateInv
  <2>2. ASSUME NEW r \in Runs
        PROVE  /\ job'[r].pc \notin AtGate
               /\ \/ job'[r] = job[r]
                  \/ job'[r].pc \in {"none", "stopped"}
    BY <1>5, <1>t DEF Decline, JobType, AtGate, NoRun
  <2> QED BY <2>1, <2>2 DEF TokenInv, Named
<1>6. CASE Resume
  <2>1. gate'.for = "resume" /\ planned' = [token |-> {}, drives |-> {}]
    BY <1>6 DEF Resume
  <2> QED BY <2>1 DEF TokenInv
<1>7. ASSUME NEW q \in Runs, Child(q) PROVE TokenInv'
  <2>1. UNCHANGED <<gate, planned>>
    BY <1>7 DEF Child, Probe, Open, CheckIdentity, Recheck, Write, Finish,
                Stop, Vanish, Return
  <2>2. ASSUME NEW r \in Runs
        PROVE  /\ job'[r].own = job[r].own
               /\ \/ job'[r].pc = job[r].pc
                  \/ job[r].pc \in AtGate /\ job'[r].pc \in AtGate
                  \/ /\ job[r].pc \notin AtGate \cup {"none", "stopped"}
                     /\ job'[r].pc \notin AtGate \cup {"none"}
    <3>1. CASE q # r
      <4>1. job'[r] = job[r]
        BY <1>7, <1>t, <3>1 DEF Child, Probe, Open, CheckIdentity, Recheck, Write,
             Finish, Stop, Vanish, Return, Stops, Goes, Becomes
      <4> QED BY <4>1
    <3>2. CASE q = r
      <4>1. CASE Probe(r)
        BY <1>t, <4>1 DEF Probe, Becomes, JobType, AtGate
      <4>s. ASSUME Stops(r)
            PROVE  job'[r].own = job[r].own /\ job'[r].pc = "stopped"
        BY <1>t, <4>s DEF Stops, Becomes, JobType
      <4>g. ASSUME NEW to, Goes(r, to)
            PROVE  job'[r].own = job[r].own /\ job'[r].pc = to
        BY <1>t, <4>g DEF Goes, Becomes, JobType
      <4>2. CASE Open(r)
        <5>1. ASSUME NEW x, Becomes(r, [job[r] EXCEPT !.pc = "opened", !.fd = x,
                                                      !.since = uses[x]])
              PROVE  job'[r].own = job[r].own /\ job'[r].pc = "opened"
          BY <1>t, <5>1 DEF Becomes, JobType
        <5> QED BY <4>s, <4>2, <5>1 DEF Open, AtGate
      <4>3. CASE CheckIdentity(r) \/ Recheck(r) \/ Vanish(r) \/ Stop(r)
        BY <4>s, <4>g, <4>3 DEF CheckIdentity, Recheck, Vanish, Stop, AtGate
      <4>4. CASE Write(r)
        BY <1>t, <4>4 DEF Write, Becomes, JobType, AtGate
      <4>5. CASE Finish(r)
        BY <1>t, <4>5 DEF Finish, Becomes, JobType, AtGate
      <4>6. CASE Return(r)
        <5>1. ASSUME NEW d, Becomes(r, [job[r] EXCEPT !.pc = "confirmed",
                                                      !.path = Path(d)])
              PROVE  job'[r].own = job[r].own /\ job'[r].pc = "confirmed"
          BY <1>t, <5>1 DEF Becomes, JobType
        <5> QED BY <4>s, <4>6, <5>1 DEF Return, AtGate
      <4> QED BY <1>7, <3>2, <4>1, <4>2, <4>3, <4>4, <4>5, <4>6 DEF Child
    <3> QED BY <3>1, <3>2
  <2> QED BY <2>1, <2>2, <1>0
<1>8. ASSUME NEW d \in Drives, PlugIn(d) \/ UdevLinks(d) \/ TakeIntoUse(d)
      PROVE  TokenInv'
  BY <1>0, <1>8 DEF PlugIn, UdevLinks, TakeIntoUse, others
<1>9. ASSUME NEW d \in Drives, PullOut(d) PROVE TokenInv'
  <2>1. \A r \in Runs : job'[r].own = job[r].own /\ job'[r].pc = job[r].pc
    BY <1>9, <1>t DEF PullOut, JobType
  <2> QED BY <1>0, <1>9, <2>1 DEF PullOut
<1> QED BY <1>1, <1>2, <1>3, <1>4, <1>5, <1>6, <1>7, <1>8, <1>9 DEF Next

(* A stored token lets nothing through the gate but what it was made of.   *)
THEOREM TokenBinds == Spec => []TokenNamesTheDrives
<1>1. Init => TokenInv
  BY DEF Init, TokenInv, NoRun, Closed, AtGate
<1>2. TokenInv => TokenNamesTheDrives
  BY DEF TokenInv, TokenNamesTheDrives, Writing, Named, AtGate
<1> QED BY <1>1, <1>2, TokenStep, Types, PTL DEF Spec
=============================================================================
