------------------------------ MODULE StoredRuns ------------------------------
(***************************************************************************)
(* Whose run a directory under the output root holds: output_dir_for and   *)
(* prepare_states, which choose it, the runs and resumes that write        *)
(* state.json and report.json there, and select_runs, which finds a stored *)
(* run again by what the operator calls it.                                *)
(*                                                                         *)
(* A by-id name is that of a bay.  Directories older than the scheme that  *)
(* appends the drive's serial have the bay's name alone.                   *)
(***************************************************************************)
EXTENDS Naturals, FiniteSets

CONSTANTS
  Drives,    (* each stands for its own serial, too                        *)
  Silent,    (* drives whose serial the bridge does not show               *)
  Mute,      (* drives whose ATA serial smartctl cannot read               *)
  Bays,
  Procs,     (* instances, each at work on one drive                       *)
  MaxMoves,  (* bound: drives plugged in or pulled out                     *)
  MaxRuns,   (* bound: runs and resumes                                    *)
  None       (* no serial, no drive, no bay                                *)

ASSUME StoredRunsAssumption ==
  /\ Silent \subseteq Drives /\ Mute \subseteq Drives
  /\ None \notin Drives \cup Bays /\ Drives \cap Bays = {}
  /\ "masked" \notin Drives \cup Bays \cup {None}
  /\ MaxMoves \in Nat /\ MaxRuns \in Nat
  /\ IsFiniteSet(Drives) /\ IsFiniteSet(Bays)

VARIABLES
  where,      (* the bay each drive is in                                  *)
  moves,
  begun,      (* runs and resumes                                          *)
  state,      (* state.json of each directory                              *)
  report,     (* report.json                                               *)
  job,        (* what each instance is doing                               *)
  overlapped  (* history: a directory was chosen while it was in use       *)

files == <<state, report>>
vars  == <<where, moves, begun, files, job, overlapped>>

Directories == [bay : Bays, serial : Drives \cup {None}]
NoDir       == [bay |-> None, serial |-> None]

(* A name with a serial appended is neither a serial nor that of a bay.    *)
ASSUME NamesDiffer == Directories \cap (Drives \cup Bays) = {}

Serial(d)   == IF d \in Silent THEN None ELSE d
Ata(d)      == IF d \in Mute THEN None ELSE d
Attached    == {d \in Drives : where[d] # None}

(* enclosure_serial, ata_serial and by_id as a file records them.  owner   *)
(* is history: the drive the file is about.                                *)
NoFile == [owner |-> None, enclosure |-> None, ata |-> None, byId |-> None,
           over |-> TRUE]
States == [owner : Drives, enclosure : Drives \cup {None},
           ata : Drives \cup {None}, byId : Bays, over : BOOLEAN]
Reports == [owner : Drives, enclosure : Drives \cup {None, "masked"},
            ata : Drives \cup {None, "masked"}, byId : Bays, over : {TRUE}]

Idle == [pc |-> "idle", drive |-> None, dir |-> NoDir, bay |-> None,
         mem |-> NoFile]
At(p, where_) == job[p].pc = where_
Becomes(p, j) == job' = [job EXCEPT ![p] = j]

-----------------------------------------------------------------------------
(* runs.output_dir_for.                                                    *)

Exists(x) == state[x] # NoFile \/ report[x] # NoFile

(* A bug: a finished run is only known by its state.                       *)
Bug_StoredSerial(x) == state[x].enclosure

(* stored_serial: what the state says, else what the report says.          *)
StoredSerial(x) ==
  IF state[x].enclosure # None THEN state[x].enclosure
  ELSE IF report[x].ata # None THEN report[x].ata
  ELSE report[x].enclosure

Legacy(d) == [bay |-> where[d], serial |-> None]

(* A bug: the bay's name alone, as it was before.                          *)
Bug_OutputName(d) == Legacy(d)

OutputName(d) == [bay |-> where[d], serial |-> Serial(d)]

(* A bug: an old directory is left alone.                                  *)
Bug_Adopted(d) == FALSE

(* The old directory of the bay, if what it holds is this drive's.         *)
Adopted(d) ==
  /\ Legacy(d) # OutputName(d) /\ ~Exists(OutputName(d))
  /\ Serial(d) # None /\ StoredSerial(Legacy(d)) = Serial(d)

OutputDir(d) == IF Adopted(d) THEN Legacy(d) ELSE OutputName(d)

(* A bug: a drive without a serial is given the benefit of the doubt.      *)
Bug_Refused(d) ==
  Serial(d) # None /\ StoredSerial(OutputDir(d)) \notin {None, Serial(d)}

(* OutputCollision                                                         *)
Refused(d) == StoredSerial(OutputDir(d)) \notin {None, Serial(d)}

-----------------------------------------------------------------------------
(* run and resume.                                                         *)

Busy(p, x) == \E q \in Procs \ {p} : job[q].pc # "idle" /\ job[q].dir = x

Choose(p) ==
  /\ At(p, "idle") /\ begun < MaxRuns
  /\ begun' = begun + 1
  /\ \E d \in Attached :
       /\ ~Refused(d)
       /\ overlapped' = (overlapped \/ Busy(p, OutputDir(d)))
       /\ Becomes(p, [pc |-> "chosen", drive |-> d, dir |-> OutputDir(d),
                      bay |-> where[d],
                      mem |-> [owner |-> d, enclosure |-> Serial(d),
                               ata |-> None, byId |-> where[d],
                               over |-> FALSE]])
  /\ UNCHANGED <<where, moves, files>>

(* prepare_states makes the directory and saves a fresh state, with or     *)
(* without a lock.                                                         *)
Save(p) ==
  /\ At(p, "chosen")
  /\ state' = [state EXCEPT ![job[p].dir] = job[p].mem]
  /\ Becomes(p, [job[p] EXCEPT !.pc = "prepared"])
  /\ UNCHANGED <<where, moves, begun, report, overlapped>>

(* match_stored_drive                                                      *)
Matches(m) == {d \in Attached : Serial(d) = m.enclosure}
IsDrive(m, d) ==
  /\ Matches(m) = {d}
  /\ m.enclosure # None \/ (m.ata # None /\ Ata(d) = m.ata)

(* cmd_resume loads a state that is not over.                              *)
Resume(p) ==
  /\ At(p, "idle") /\ begun < MaxRuns
  /\ begun' = begun + 1
  /\ \E x \in Directories, d \in Attached :
       /\ ~state[x].over /\ IsDrive(state[x], d)
       /\ overlapped' = (overlapped \/ Busy(p, x))
       /\ Becomes(p, [pc |-> "prepared", drive |-> d, dir |-> x,
                      bay |-> where[d], mem |-> state[x]])
  /\ UNCHANGED <<where, moves, files>>

(* The lock is a file of the directory; a drive whose lock is taken is     *)
(* dropped.                                                                *)
Locked(p) ==
  \E q \in Procs \ {p} :
    job[q].dir = job[p].dir /\ job[q].pc \in {"running", "concluded", "reported"}

Lock(p) ==
  /\ At(p, "prepared")
  /\ IF Locked(p) THEN Becomes(p, Idle)
     ELSE Becomes(p, [job[p] EXCEPT !.pc = "running"])
  /\ UNCHANGED <<where, moves, begun, files, overlapped>>

(* Any checkpoint; phase 1 records the ATA serial before the first.        *)
Probed(p) == [job[p].mem EXCEPT !.ata = Ata(job[p].drive)]

Checkpoint(p) ==
  /\ At(p, "running")
  /\ Becomes(p, [job[p] EXCEPT !.mem = Probed(p)])
  /\ state' = [state EXCEPT ![job[p].dir] = Probed(p)]
  /\ UNCHANGED <<where, moves, begun, report, overlapped>>

(* A bug: a drive that is not found is taken for one that has moved.       *)
Bug_Reconnect(p) ==
  /\ At(p, "running")
  /\ job[p].bay # where[job[p].drive]
  /\ Becomes(p, [job[p] EXCEPT !.bay = where[job[p].drive]])
  /\ UNCHANGED <<where, moves, begun, files, overlapped>>

(* _await_return: the drive is back, perhaps in another bay.               *)
Reconnect(p) ==
  /\ At(p, "running") /\ job[p].drive \in Attached
  /\ job[p].bay # where[job[p].drive]
  /\ Becomes(p, [job[p] EXCEPT !.bay = where[job[p].drive]])
  /\ UNCHANGED <<where, moves, begun, files, overlapped>>

(* Phase 8 is entered: the state is over.                                  *)
Conclude(p) ==
  /\ At(p, "running")
  /\ LET m == [Probed(p) EXCEPT !.over = TRUE]
     IN /\ Becomes(p, [job[p] EXCEPT !.pc = "concluded", !.mem = m])
        /\ state' = [state EXCEPT ![job[p].dir] = m]
  /\ UNCHANGED <<where, moves, begun, report, overlapped>>

Hide(mask, serial) == IF mask /\ serial # None THEN "masked" ELSE serial

(* emit, with --mask-serial or without.                                    *)
Emit(p) ==
  /\ At(p, "concluded")
  /\ \E mask \in BOOLEAN :
       report' = [report EXCEPT ![job[p].dir] =
         [owner |-> job[p].drive,
          enclosure |-> Hide(mask, Serial(job[p].drive)),
          ata |-> Hide(mask, job[p].mem.ata),
          byId |-> job[p].bay, over |-> TRUE]]
  /\ Becomes(p, [job[p] EXCEPT !.pc = "reported"])
  /\ UNCHANGED <<where, moves, begun, state, overlapped>>

(* The checkpoint of a run that was cut short is put back for `resume`.    *)
PutBack(p) ==
  /\ At(p, "reported")
  /\ state' = [state EXCEPT ![job[p].dir] = [job[p].mem EXCEPT !.over = FALSE]]
  /\ Becomes(p, Idle)
  /\ UNCHANGED <<where, moves, begun, report, overlapped>>

(* The end, the gate declined, a stop, a kill.                             *)
Leave(p) ==
  /\ job[p].pc # "idle"
  /\ Becomes(p, Idle)
  /\ UNCHANGED <<where, moves, begun, files, overlapped>>

Instance(p) ==
  \/ Choose(p) \/ Save(p) \/ Resume(p) \/ Lock(p) \/ Checkpoint(p)
  \/ Reconnect(p) \/ Conclude(p) \/ Emit(p) \/ PutBack(p) \/ Leave(p)

Move(d) ==
  /\ moves < MaxMoves
  /\ moves' = moves + 1
  /\ \E to \in Bays \cup {None} :
       /\ to # where[d]
       /\ to # None => \A e \in Drives : where[e] # to
       /\ where' = [where EXCEPT ![d] = to]
  /\ UNCHANGED <<begun, files, job, overlapped>>

-----------------------------------------------------------------------------
(* select_runs.                                                            *)

(* stored_aliases: the directory's name, and what the report says; the     *)
(* state only where there is no report.                                    *)
Name(x) == IF x.serial = None THEN x.bay ELSE x
Told(x) == IF report[x] # NoFile THEN report[x] ELSE state[x]
Aliases(x) == {Name(x), Told(x).byId, Told(x).ata, Told(x).enclosure} \ {None}

Hits(request) == {x \in Directories : Exists(x) /\ request \in Aliases(x)}

(* A bug: a directory of that very name is preferred.                      *)
Bug_Selected(request) ==
  LET exact == {x \in Directories : Exists(x) /\ Name(x) = request}
  IN IF exact # {} THEN exact
     ELSE IF Cardinality(Hits(request)) > 1 THEN {} ELSE Hits(request)

(* What names several stored runs is refused.                              *)
Selected(request) ==
  IF Cardinality(Hits(request)) > 1 THEN {} ELSE Hits(request)

-----------------------------------------------------------------------------
(* A directory of the old scheme, with a run of the drive that was there.  *)
OldState(d, bay)  == [owner |-> d, enclosure |-> Serial(d), ata |-> Ata(d),
                      byId |-> bay, over |-> TRUE]

Init ==
  /\ where \in [Drives -> Bays \cup {None}]
  /\ \A d, e \in Drives : d # e /\ where[d] # None => where[d] # where[e]
  /\ moves = 0 /\ begun = 0
  /\ \E old \in [Bays -> Drives \cup {None}] :
       /\ state = [x \in Directories |->
            IF x.serial = None /\ old[x.bay] # None
            THEN OldState(old[x.bay], x.bay) ELSE NoFile]
       /\ report = state
  /\ job = [p \in Procs |-> Idle]
  /\ overlapped = FALSE

Next ==
  \/ \E p \in Procs : Instance(p)
  \/ \E d \in Drives : Move(d)

Spec == Init /\ [][Next]_vars
-----------------------------------------------------------------------------
(* Properties.                                                             *)

Jobs ==
  [pc : {"chosen", "prepared", "running", "concluded", "reported"},
   drive : Drives, dir : Directories, bay : Bays, mem : States]

TypeOK ==
  /\ where \in [Drives -> Bays \cup {None}]
  /\ moves \in 0..MaxMoves /\ begun \in 0..MaxRuns /\ overlapped \in BOOLEAN
  /\ state \in [Directories -> States \cup {NoFile}]
  /\ report \in [Directories -> Reports \cup {NoFile}]
  /\ job \in [Procs -> Jobs \cup {Idle}]

Shown == Drives \ Silent

(* What is stored of a drive that shows a serial -- its checkpoint with    *)
(* the findings, its report -- is only ever replaced by its own runs,      *)
(* whichever bays it and others pass through and whatever instances run at *)
(* once: "silently reusing another drive's directory is the failure this   *)
(* whole change exists to prevent" (output_dir_for).                       *)
HistoryIsKept ==
  [][\A x \in Directories :
       /\ state[x].owner \in Shown => state'[x].owner = state[x].owner
       /\ report[x].owner \in Shown => report'[x].owner = report[x].owner]_vars

(* The report of a drive that is known by its ATA serial only is not       *)
(* replaced by another drive's, nor by one that cannot be shown to be the  *)
(* same -- if no two instances were at work in one directory at once.      *)
SilentReportIsKept ==
  [][\A x \in Directories :
       report[x].owner \in Silent \ Mute /\ ~overlapped'
       => report'[x].owner = report[x].owner]_vars

(* What a drive did in a bay is in one directory: a run of a drive that    *)
(* has one of the old scheme goes on there, and does not strand it.        *)
OneHistory ==
  \A bay \in Bays, d \in Shown :
    LET old == [bay |-> bay, serial |-> None]
        new == [bay |-> bay, serial |-> d]
    IN ~(state[old].owner = d /\ state[new].owner = d)

(* By the serial a drive shows only that drive's stored runs are found; by *)
(* the name of a bay none, if two drives have runs there (select_runs).    *)
AskedIsAnswered ==
  /\ \A d \in Shown : \A x \in Selected(d) : Told(x).owner = d
  /\ \A x, y \in Directories :
       x \in Selected(Told(y).byId) => Told(x).owner = Told(y).owner

(* The same of the checkpoint of a drive that shows none: "It cannot prove *)
(* the directory is its own" (output_dir_for).                             *)
SilentCheckpointIsKept ==
  [][\A x \in Directories :
       state[x].owner \in Silent /\ ~state[x].over
       => state'[x].owner = state[x].owner]_vars
===============================================================================
