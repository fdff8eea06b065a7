--------------------------- MODULE StoredRuns_proofs ---------------------------
(***************************************************************************)
(* Whose run a directory holds, for any drives, bays and instances and any *)
(* number of runs and moves.                                               *)
(***************************************************************************)
EXTENDS StoredRuns, FiniteSetTheorems, TLAPS

USE StoredRunsAssumption

LEMMA Known ==
  /\ \A d \in Drives : /\ Serial(d) \in Drives \cup {None}
                       /\ Ata(d) \in Drives \cup {None}
                       /\ d \in Silent => Serial(d) = None
                       /\ d \in Shown => Serial(d) = d /\ d # None
                       /\ Ata(d) # None => Ata(d) = d
                       /\ Serial(d) # None => Serial(d) = d /\ d \in Shown
  /\ None \notin Drives /\ None \notin Bays
  /\ Directories = [bay : Bays, serial : Drives \cup {None}]
  /\ NoFile.owner = None /\ NoFile.enclosure = None /\ NoFile.ata = None
  /\ NoFile.over = TRUE /\ Idle.pc = "idle"
  /\ NoFile \notin States /\ NoFile \notin Reports
BY DEF Serial, Ata, Shown, Directories, NoFile, Idle, States, Reports

(* What a job of these drives has in memory, and where it is.              *)
LEMMA Places ==
  ASSUME where \in [Drives -> Bays \cup {None}], NEW d \in Attached
  PROVE  /\ d \in Drives /\ where[d] \in Bays
         /\ OutputDir(d) \in Directories
         /\ OutputDir(d).bay = where[d] /\ OutputDir(d).serial \in {None, Serial(d)}
BY Known DEF Attached, OutputDir, Legacy, OutputName

-----------------------------------------------------------------------------
LEMMA TypeInit == Init => TypeOK
<1> SUFFICES ASSUME Init PROVE TypeOK
  OBVIOUS
<1>1. PICK old \in [Bays -> Drives \cup {None}] :
        /\ state = [x \in Directories |->
            IF x.serial = None /\ old[x.bay] # None
            THEN OldState(old[x.bay], x.bay) ELSE NoFile]
        /\ report = state
  BY DEF Init
<1>2. ASSUME NEW x \in Directories, x.serial = None, old[x.bay] # None
      PROVE  OldState(old[x.bay], x.bay) \in States /\ OldState(old[x.bay], x.bay) \in Reports
  <2>1. x.bay \in Bays /\ old[x.bay] \in Drives
    BY <1>2 DEF Directories
  <2> QED BY <2>1, Known DEF OldState, States, Reports
<1>3. state \in [Directories -> States \cup {NoFile}]
      /\ report \in [Directories -> Reports \cup {NoFile}]
  BY <1>1, <1>2
<1>4. job \in [Procs -> Jobs \cup {Idle}]
  BY DEF Init
<1>5. where \in [Drives -> Bays \cup {None}] /\ overlapped \in BOOLEAN
  BY DEF Init
<1>6. moves \in 0..MaxMoves /\ begun \in 0..MaxRuns
  BY DEF Init
<1> QED BY <1>3, <1>4, <1>5, <1>6 DEF TypeOK

LEMMA TypeStep == TypeOK /\ [Next]_vars => TypeOK'
<1> SUFFICES ASSUME TypeOK, [Next]_vars PROVE TypeOK'
  OBVIOUS
<1>1. CASE UNCHANGED vars
  BY <1>1 DEF vars, files, TypeOK
<1>2. ASSUME NEW d \in Drives, Move(d) PROVE TypeOK'
  BY <1>2 DEF Move, files, TypeOK
<1>3. ASSUME NEW p \in Procs, Instance(p) PROVE TypeOK'
  <2>t. /\ job \in [Procs -> Jobs \cup {Idle}] /\ job[p] \in Jobs \cup {Idle}
        /\ Idle \notin Jobs
    BY DEF TypeOK, Idle, Jobs
  <2>m. ASSUME job[p] \in Jobs
        PROVE  /\ job[p].mem \in States /\ job[p].drive \in Drives
               /\ job[p].dir \in Directories /\ job[p].bay \in Bays
               /\ Probed(p) \in States
    BY <2>m, Known DEF Jobs, States, Probed
  <2>w. ASSUME job[p].pc # "idle" PROVE job[p] \in Jobs
    BY <2>t, <2>w DEF Idle
  <2>1. CASE Choose(p)
    <3>1. PICK d \in Attached :
            Becomes(p, [pc |-> "chosen", drive |-> d, dir |-> OutputDir(d),
                      bay |-> where[d],
                      mem |-> [owner |-> d, enclosure |-> Serial(d),
                               ata |-> None, byId |-> where[d],
                               over |-> FALSE]])
            /\ overlapped' = (overlapped \/ Busy(p, OutputDir(d)))
      BY <2>1 DEF Choose
    <3>2. d \in Drives /\ where[d] \in Bays /\ OutputDir(d) \in Directories
      BY Places DEF TypeOK
    <3>3. job' \in [Procs -> Jobs \cup {Idle}]
      BY <2>t, <3>1, <3>2, Known DEF Becomes, Jobs, States
    <3>4. overlapped' \in BOOLEAN
      BY <3>1 DEF TypeOK, Busy
    <3> QED BY <2>1, <3>3, <3>4 DEF Choose, TypeOK, files
  <2>2. CASE Resume(p)
    <3>1. PICK x \in Directories, d \in Attached :
            /\ ~state[x].over
            /\ overlapped' = (overlapped \/ Busy(p, x))
            /\ Becomes(p, [pc |-> "prepared", drive |-> d, dir |-> x,
                      bay |-> where[d], mem |-> state[x]])
      BY <2>2 DEF Resume
    <3>s. state[x] # NoFile /\ state[x] \in States \cup {NoFile}
      BY <3>1, Known DEF TypeOK
    <3>2. d \in Drives /\ where[d] \in Bays /\ state[x] \in States
      BY <3>s, Places DEF TypeOK
    <3>3. job' \in [Procs -> Jobs \cup {Idle}]
      BY <2>t, <3>1, <3>2 DEF Becomes, Jobs
    <3>4. overlapped' \in BOOLEAN
      BY <3>1 DEF TypeOK, Busy
    <3> QED BY <2>2, <3>3, <3>4 DEF Resume, TypeOK, files
  <2>3. CASE Save(p)
    BY <2>3, <2>t, <2>m, <2>w DEF Save, At, Becomes, TypeOK, Jobs
  <2>4. CASE Lock(p)
    BY <2>4, <2>t, <2>m, <2>w DEF Lock, At, Becomes, TypeOK, Jobs, files
  <2>5. CASE Checkpoint(p)
    BY <2>5, <2>t, <2>m, <2>w DEF Checkpoint, At, Becomes, TypeOK, Jobs
  <2>6. CASE Reconnect(p)
    BY <2>6, <2>t, <2>m, <2>w, Places DEF Reconnect, At, Becomes, TypeOK, Jobs, files
  <2>7. CASE Conclude(p)
    <3> DEFINE m == [Probed(p) EXCEPT !.over = TRUE]
    <3>1. m \in States
      BY <2>7, <2>m, <2>w DEF Conclude, At, States
    <3> QED BY <2>7, <2>t, <2>m, <2>w, <3>1 DEF Conclude, At, Becomes, TypeOK, Jobs
  <2>8. CASE Emit(p)
    <3>1. PICK mask \in BOOLEAN :
       report' = [report EXCEPT ![job[p].dir] =
         [owner |-> job[p].drive,
          enclosure |-> Hide(mask, Serial(job[p].drive)),
          ata |-> Hide(mask, job[p].mem.ata),
          byId |-> job[p].bay, over |-> TRUE]]
      BY <2>8 DEF Emit
    <3>2. job[p].mem.ata \in Drives \cup {None}
      BY <2>8, <2>m, <2>w DEF Emit, At, States
    <3>3. report' \in [Directories -> Reports \cup {NoFile}]
      BY <2>8, <2>m, <2>w, <3>1, <3>2, Known DEF Emit, At, TypeOK, Reports, Hide
    <3> QED BY <2>8, <2>t, <2>w, <3>3 DEF Emit, At, Becomes, TypeOK, Jobs
  <2>9. CASE PutBack(p)
    <3>1. [job[p].mem EXCEPT !.over = FALSE] \in States
      BY <2>9, <2>m, <2>w DEF PutBack, At, States
    <3> QED BY <2>9, <2>t, <2>m, <2>w, <3>1 DEF PutBack, At, Becomes, TypeOK
  <2>10. CASE Leave(p)
    BY <2>10, <2>t DEF Leave, Becomes, TypeOK, files
  <2> QED BY <1>3, <2>1, <2>2, <2>3, <2>4, <2>5, <2>6, <2>7, <2>8, <2>9, <2>10
          DEF Instance
<1> QED BY <1>1, <1>2, <1>3 DEF Next

(* Every variable keeps its type.                                          *)
THEOREM TypeCorrect == Spec => []TypeOK
BY TypeInit, TypeStep, PTL DEF Spec

-----------------------------------------------------------------------------
(* The owners of a directory: the drive whose serial is in its name, the   *)
(* drive that showed its serial when the directory was made under the old  *)
(* scheme, or the drives that show none.                                   *)
Owners == {Silent} \cup {{d} : d \in Drives}

OfFiles(x, owners) ==
  /\ state[x] # NoFile =>
       /\ state[x].owner \in owners /\ state[x].enclosure = Serial(state[x].owner)
       /\ state[x].ata \in owners \cup {None}
  /\ report[x] # NoFile =>
       /\ report[x].owner \in owners
       /\ report[x].enclosure \in {Serial(report[x].owner), "masked"}
       /\ report[x].ata \in owners \cup {None, "masked"}

OfJob(p, owners) ==
  /\ job[p].drive \in owners
  /\ job[p].mem.owner \in owners
  /\ job[p].mem.enclosure = Serial(job[p].mem.owner)
  /\ job[p].mem.ata \in owners \cup {None}

Home(x, owners) ==
  /\ OfFiles(x, owners)
  /\ \A p \in Procs : job[p].pc # "idle" /\ job[p].dir = x => OfJob(p, owners)
  /\ x.serial # None => owners = {x.serial}
  /\ x.serial = None =>
       owners = Silent \/ (state[x] # NoFile /\ \E d \in Shown : owners = {d})

(* A drive that is sent to a directory is one of its owners.               *)
LEMMA SentHome ==
  ASSUME TypeOK, NEW d \in Attached, ~Refused(d), NEW owners \in Owners,
         Home(OutputDir(d), owners)
  PROVE  d \in owners
<1> DEFINE x == OutputDir(d)
<1>1. d \in Drives /\ x \in Directories /\ x.serial \in {None, Serial(d)}
  BY Places DEF TypeOK
<1>2. CASE x.serial # None
  BY <1>1, <1>2, Known DEF Home
<1>3. CASE x.serial = None /\ owners = Silent /\ d \notin Silent
  <2>1. d \in Shown /\ Serial(d) = d /\ d # None
    BY <1>1, <1>3, Known DEF Shown
  <2>2. OutputName(d).serial = d
    BY <2>1 DEF OutputName
  <2>3. Adopted(d) /\ x = Legacy(d)
    BY <1>3, <2>1, <2>2 DEF OutputDir
  <2>4. StoredSerial(x) = d
    BY <2>1, <2>3 DEF Adopted
  <2>5. OfFiles(x, Silent)
    BY <1>3 DEF Home
  <2>6. StoredSerial(x) \in Silent \cup {None, "masked"}
    BY <2>5, Known DEF StoredSerial, OfFiles
  <2> QED BY <1>1, <1>3, <2>1, <2>4, <2>6
<1>4. ASSUME NEW e \in Shown, owners = {e}, x.serial = None, state[x] # NoFile
      PROVE  d = e
  <2>0. e \in Drives /\ Serial(e) = e /\ e # None
    BY Known DEF Shown
  <2>e. state[x].enclosure = e
    BY <1>4, <2>0 DEF Home, OfFiles
  <2>1. StoredSerial(x) = e
    BY <2>0, <2>e DEF StoredSerial
  <2>2. Serial(d) = e
    BY <1>4, <2>1, Known DEF Refused, Shown
  <2> QED BY <1>1, <1>4, <2>2, Known DEF Shown
<1> QED BY <1>2, <1>3, <1>4 DEF Home

(* So is one that a state is resumed for.                                  *)
LEMMA ResumedHome ==
  ASSUME TypeOK, NEW x \in Directories, NEW d \in Attached, ~state[x].over,
         IsDrive(state[x], d), NEW owners \in Owners, Home(x, owners)
  PROVE  d \in owners /\ state[x] # NoFile
<1>1. state[x] # NoFile /\ d \in Drives
  BY Known DEF Attached
<1>2. /\ Serial(d) = state[x].enclosure
      /\ state[x].enclosure # None \/ (state[x].ata # None /\ Ata(d) = state[x].ata)
  BY DEF IsDrive, Matches
<1>3. state[x].owner \in owners /\ state[x].enclosure = Serial(state[x].owner)
      /\ state[x].ata \in owners \cup {None} /\ state[x].owner \in Drives
  BY <1>1 DEF Home, OfFiles, Owners
<1> QED BY <1>1, <1>2, <1>3, Known

(* Nothing that is stored is removed.                                      *)
FilesStay(x) ==
  /\ state[x] # NoFile => state'[x] # NoFile
  /\ report[x] # NoFile => report'[x] # NoFile

LEMMA HomeKept ==
  ASSUME NEW x, NEW owners, Home(x, owners), NEW p,
         \A q \in Procs \ {p} : job'[q] = job[q],
         job'[p].pc # "idle" /\ job'[p].dir = x => OfJob(p, owners)',
         OfFiles(x, owners)', FilesStay(x)
  PROVE  Home(x, owners)'
BY DEF Home, OfJob, FilesStay

(* A state file that is written for one of the owners.                     *)
Writes(x, owners, m) ==
  /\ m # NoFile /\ m.owner \in owners /\ m.enclosure = Serial(m.owner)
  /\ m.ata \in owners \cup {None}

LEMMA HomeWritten ==
  ASSUME TypeOK, NEW x \in Directories, NEW owners, OfFiles(x, owners),
         NEW dir \in Directories, NEW m, state' = [state EXCEPT ![dir] = m],
         UNCHANGED report, dir = x => Writes(x, owners, m)
  PROVE  OfFiles(x, owners)' /\ FilesStay(x)
<1>1. state'[x] = IF dir = x THEN m ELSE state[x]
  BY DEF TypeOK
<1> QED BY <1>1 DEF OfFiles, Writes, FilesStay

(* Whoever the owners are, every step leaves the directory to them.        *)
LEMMA HomeStep ==
  ASSUME TypeOK, [Next]_vars, NEW x \in Directories, NEW owners \in Owners,
         Home(x, owners)
  PROVE  Home(x, owners)' /\ FilesStay(x)
<1>1. CASE UNCHANGED <<files, job>>
  BY <1>1 DEF files, Home, OfFiles, OfJob, FilesStay
<1>2. ASSUME NEW p \in Procs, Instance(p)
      PROVE  Home(x, owners)' /\ FilesStay(x)
  <2>t. job \in [Procs -> Jobs \cup {Idle}] /\ OfFiles(x, owners)
    BY DEF TypeOK, Home
  <2>k. ASSUME NEW j, Becomes(p, j)
        PROVE  job'[p] = j /\ \A q \in Procs \ {p} : job'[q] = job[q]
    BY <2>t, <2>k DEF Becomes
  <2>f. ASSUME UNCHANGED files
        PROVE  OfFiles(x, owners)' /\ FilesStay(x)
    BY <2>f, <2>t DEF files, OfFiles, FilesStay
  <2>w. ASSUME job[p].pc # "idle"
        PROVE  /\ job[p] \in Jobs /\ job[p].dir \in Directories
               /\ job[p].mem \in States /\ job[p].drive \in Drives
               /\ job[p].dir = x => OfJob(p, owners)
    BY <2>t, <2>w DEF Idle, Jobs, Home
  <2>s. \A m \in States : m # NoFile
    BY Known
  <2>p. ASSUME job[p].pc # "idle"
        PROVE  /\ Probed(p) \in States /\ Probed(p).owner = job[p].mem.owner
               /\ Probed(p).enclosure = job[p].mem.enclosure
               /\ Probed(p).ata = Ata(job[p].drive)
    BY <2>w, <2>p, Known DEF Probed, States
  <2>1. CASE Choose(p)
    <3>1. PICK d \in Attached :
            /\ ~Refused(d)
            /\ Becomes(p, [pc |-> "chosen", drive |-> d, dir |-> OutputDir(d),
                      bay |-> where[d],
                      mem |-> [owner |-> d, enclosure |-> Serial(d),
                               ata |-> None, byId |-> where[d],
                               over |-> FALSE]])
      BY <2>1 DEF Choose
    <3>2. OutputDir(d) = x => d \in owners
      BY <3>1, SentHome
    <3>3. UNCHANGED files
      BY <2>1 DEF Choose
    <3>4. job'[p].dir = x => OfJob(p, owners)'
      BY <2>k, <3>1, <3>2 DEF OfJob
    <3> QED BY <2>k, <2>f, <3>1, <3>3, <3>4, HomeKept
  <2>2. CASE Resume(p)
    <3>1. PICK y \in Directories, d \in Attached :
            /\ ~state[y].over /\ IsDrive(state[y], d)
            /\ Becomes(p, [pc |-> "prepared", drive |-> d, dir |-> y,
                      bay |-> where[d], mem |-> state[y]])
      BY <2>2 DEF Resume
    <3>2. y = x => d \in owners /\ state[x] # NoFile
      BY <3>1, ResumedHome
    <3>3. UNCHANGED files
      BY <2>2 DEF Resume
    <3>4. job'[p].dir = x => OfJob(p, owners)'
      BY <2>k, <2>t, <3>1, <3>2 DEF OfJob, OfFiles
    <3> QED BY <2>k, <2>f, <3>1, <3>3, <3>4, HomeKept
  <2>3. CASE Save(p)
    <3>1. /\ job[p].pc # "idle" /\ UNCHANGED report
          /\ state' = [state EXCEPT ![job[p].dir] = job[p].mem]
          /\ Becomes(p, [job[p] EXCEPT !.pc = "prepared"])
      BY <2>3 DEF Save, At
    <3>2. OfFiles(x, owners)' /\ FilesStay(x)
      BY <2>t, <2>w, <2>s, <3>1, HomeWritten DEF Writes, OfJob
    <3>3. job'[p].dir = x => OfJob(p, owners)'
      BY <2>k, <2>w, <3>1 DEF OfJob, Jobs
    <3> QED BY <2>k, <3>1, <3>2, <3>3, HomeKept
  <2>4. CASE Lock(p) \/ Reconnect(p) \/ Leave(p)
    <3>1. UNCHANGED files /\ job[p].pc # "idle"
      BY <2>4 DEF Lock, Reconnect, Leave, At
    <3>2. \/ Becomes(p, Idle)
          \/ Becomes(p, [job[p] EXCEPT !.pc = "running"])
          \/ Becomes(p, [job[p] EXCEPT !.bay = where[job[p].drive]])
      BY <2>4 DEF Lock, Reconnect, Leave
    <3>3. job'[p].pc # "idle" /\ job'[p].dir = x => OfJob(p, owners)'
      <4>1. CASE Becomes(p, Idle)
        BY <2>k, <4>1, Known
      <4>2. CASE Becomes(p, [job[p] EXCEPT !.pc = "running"])
        BY <2>k, <2>w, <3>1, <4>2 DEF OfJob, Jobs
      <4>3. CASE Becomes(p, [job[p] EXCEPT !.bay = where[job[p].drive]])
        BY <2>k, <2>w, <3>1, <4>3 DEF OfJob, Jobs
      <4> QED BY <3>2, <4>1, <4>2, <4>3
    <3>4. \A q \in Procs \ {p} : job'[q] = job[q]
      BY <2>k, <3>2
    <3> QED BY <2>f, <3>1, <3>3, <3>4, HomeKept
  <2>5. CASE Checkpoint(p)
    <3>1. /\ job[p].pc # "idle" /\ UNCHANGED report
          /\ state' = [state EXCEPT ![job[p].dir] = Probed(p)]
          /\ Becomes(p, [job[p] EXCEPT !.mem = Probed(p)])
      BY <2>5 DEF Checkpoint, At
    <3>2. job[p].dir = x => Writes(x, owners, Probed(p))
      BY <2>w, <2>s, <2>p, <3>1, Known DEF Writes, OfJob
    <3>3. OfFiles(x, owners)' /\ FilesStay(x)
      BY <2>t, <2>w, <3>1, <3>2, HomeWritten
    <3>4. job'[p].dir = x => OfJob(p, owners)'
      <4>1. job'[p].mem = Probed(p) /\ job'[p].drive = job[p].drive
            /\ job'[p].dir = job[p].dir
        BY <2>k, <2>w, <3>1 DEF Jobs
      <4> QED BY <2>w, <3>1, <3>2, <4>1 DEF OfJob, Writes
    <3> QED BY <2>k, <3>1, <3>3, <3>4, HomeKept
  <2>6. CASE Conclude(p)
    <3> DEFINE m == [Probed(p) EXCEPT !.over = TRUE]
    <3>1. /\ job[p].pc # "idle" /\ UNCHANGED report
          /\ state' = [state EXCEPT ![job[p].dir] = m]
          /\ Becomes(p, [job[p] EXCEPT !.pc = "concluded", !.mem = m])
      BY <2>6 DEF Conclude, At
    <3>m. /\ m \in States /\ m.owner = Probed(p).owner
          /\ m.enclosure = Probed(p).enclosure /\ m.ata = Probed(p).ata
      BY <2>p, <3>1 DEF States
    <3> HIDE DEF m
    <3>2. job[p].dir = x => Writes(x, owners, m)
      BY <2>w, <2>s, <2>p, <3>1, <3>m, Known DEF Writes, OfJob
    <3>3. OfFiles(x, owners)' /\ FilesStay(x)
      BY <2>t, <2>w, <3>1, <3>2, HomeWritten
    <3>4. job'[p].dir = x => OfJob(p, owners)'
      <4>0. job[p] \in Jobs
        BY <2>w, <3>1
      <4>j. job'[p] = [job[p] EXCEPT !.pc = "concluded", !.mem = m]
        BY <2>k, <3>1
      <4>1. job'[p].mem = m /\ job'[p].drive = job[p].drive
            /\ job'[p].dir = job[p].dir
        BY <4>0, <4>j DEF Jobs
      <4> QED BY <2>w, <3>1, <3>2, <4>1 DEF OfJob, Writes
    <3> QED BY <2>k, <3>1, <3>3, <3>4, HomeKept
  <2>7. CASE Emit(p)
    <3>0. job[p].pc # "idle"
      BY <2>7 DEF Emit, At
    <3>1. PICK mask \in BOOLEAN :
       report' = [report EXCEPT ![job[p].dir] =
         [owner |-> job[p].drive,
          enclosure |-> Hide(mask, Serial(job[p].drive)),
          ata |-> Hide(mask, job[p].mem.ata),
          byId |-> job[p].bay, over |-> TRUE]]
      BY <2>7 DEF Emit
    <3>2. job[p].dir # x => report'[x] = report[x]
      BY <3>1 DEF TypeOK
    <3>3. job[p].dir = x => /\ report'[x].owner \in owners
                           /\ report'[x].enclosure \in {Serial(report'[x].owner), "masked"}
                           /\ report'[x].ata \in owners \cup {None, "masked"}
      BY <2>w, <3>0, <3>1 DEF TypeOK, OfJob, Hide
    <3>n. job[p].dir = x => report'[x] # NoFile
      <4>1. job[p].dir = x => report'[x].owner = job[p].drive
        BY <2>w, <3>0, <3>1 DEF TypeOK
      <4> QED BY <2>w, <3>0, <4>1, Known
    <3>4. OfFiles(x, owners)' /\ FilesStay(x)
      BY <2>7, <2>t, <3>2, <3>3, <3>n DEF Emit, OfFiles, Serial, FilesStay
    <3>5. Becomes(p, [job[p] EXCEPT !.pc = "reported"])
      BY <2>7 DEF Emit
    <3>6. job'[p].dir = x => OfJob(p, owners)'
      BY <2>k, <2>w, <3>0, <3>5 DEF OfJob, Jobs
    <3> QED BY <2>k, <3>4, <3>5, <3>6, HomeKept
  <2>8. CASE PutBack(p)
    <3> DEFINE m == [job[p].mem EXCEPT !.over = FALSE]
    <3>1. /\ job[p].pc # "idle" /\ UNCHANGED report
          /\ state' = [state EXCEPT ![job[p].dir] = m] /\ Becomes(p, Idle)
      BY <2>8 DEF PutBack, At
    <3>m. /\ m \in States /\ m.owner = job[p].mem.owner
          /\ m.enclosure = job[p].mem.enclosure /\ m.ata = job[p].mem.ata
      BY <2>w, <3>1 DEF States
    <3> HIDE DEF m
    <3>2. job[p].dir = x => Writes(x, owners, m)
      BY <2>w, <2>s, <3>1, <3>m DEF Writes, OfJob
    <3>3. OfFiles(x, owners)' /\ FilesStay(x)
      BY <2>t, <2>w, <3>1, <3>2, HomeWritten
    <3> QED BY <2>k, <3>1, <3>3, Known, HomeKept
  <2> QED BY <1>2, <2>1, <2>2, <2>3, <2>4, <2>5, <2>6, <2>7, <2>8 DEF Instance
<1>3. ASSUME NEW d \in Drives, Move(d) PROVE UNCHANGED <<files, job>>
  BY <1>3 DEF Move
<1>4. CASE UNCHANGED vars
  BY <1>1, <1>4 DEF vars
<1> QED BY <1>1, <1>2, <1>3, <1>4 DEF Next

HomeInv == \A x \in Directories : \E owners \in Owners : Home(x, owners)

LEMMA HomeInit == Init => HomeInv
<1> SUFFICES ASSUME Init, NEW x \in Directories
             PROVE  \E owners \in Owners : Home(x, owners)
  BY DEF HomeInv
<1>1. PICK old \in [Bays -> Drives \cup {None}] :
        /\ state = [y \in Directories |->
            IF y.serial = None /\ old[y.bay] # None
            THEN OldState(old[y.bay], y.bay) ELSE NoFile]
        /\ report = state
  BY DEF Init
<1>2. \A p \in Procs : job[p].pc = "idle"
  BY Known DEF Init
<1>3. CASE x.serial # None
  <2>1. x.serial \in Drives /\ state[x] = NoFile /\ report[x] = NoFile
    BY <1>1, <1>3, Known
  <2>2. Home(x, {x.serial})
    BY <1>2, <1>3, <2>1 DEF Home, OfFiles
  <2> QED BY <2>1, <2>2 DEF Owners
<1>4. CASE x.serial = None /\ old[x.bay] = None
  <2>1. state[x] = NoFile /\ report[x] = NoFile
    BY <1>1, <1>4
  <2>2. Home(x, Silent)
    BY <1>2, <1>4, <2>1 DEF Home, OfFiles
  <2> QED BY <2>2 DEF Owners
<1>5. CASE x.serial = None /\ old[x.bay] # None
  <2> DEFINE d == old[x.bay]
             owners == IF d \in Silent THEN Silent ELSE {d}
  <2>1. d \in Drives
    BY <1>5, Known
  <2>2. state[x] = OldState(d, x.bay) /\ report[x] = OldState(d, x.bay)
    BY <1>1, <1>5
  <2>3. /\ state[x].owner = d /\ state[x].enclosure = Serial(d) /\ state[x].ata = Ata(d)
        /\ report[x].owner = d /\ report[x].enclosure = Serial(d) /\ report[x].ata = Ata(d)
        /\ state[x] # NoFile
    BY <2>1, <2>2, Known DEF OldState, NoFile
  <2>4. OfFiles(x, owners)
    BY <2>1, <2>3, Known DEF OfFiles
  <2>5. Home(x, owners)
    BY <1>2, <1>5, <2>1, <2>3, <2>4 DEF Home, Shown
  <2>6. owners \in Owners
    BY <2>1 DEF Owners
  <2> QED BY <2>5, <2>6
<1> QED BY <1>3, <1>4, <1>5

LEMMA HomeNext == TypeOK /\ HomeInv /\ [Next]_vars => HomeInv'
<1> SUFFICES ASSUME TypeOK, HomeInv, [Next]_vars, NEW x \in Directories
             PROVE  \E owners \in Owners : Home(x, owners)'
  BY DEF HomeInv, Owners, Directories
<1>1. PICK owners \in Owners : Home(x, owners)
  BY DEF HomeInv
<1> QED BY <1>1, HomeStep

LEMMA Homes == Spec => []HomeInv
<1> QED BY HomeInit, HomeNext, TypeCorrect, PTL DEF Spec

(* The history of a drive that shows its serial is never another's.        *)
THEOREM HistoryStays == Spec => HistoryIsKept
<1> DEFINE Kept ==
      \A x \in Directories :
        /\ state[x].owner \in Shown => state'[x].owner = state[x].owner
        /\ report[x].owner \in Shown => report'[x].owner = report[x].owner
<1>1. TypeOK /\ HomeInv /\ [Next]_vars => [Kept]_vars
  <2> SUFFICES ASSUME TypeOK, HomeInv, [Next]_vars, NEW x \in Directories
               PROVE  /\ state[x].owner \in Shown => state'[x].owner = state[x].owner
                      /\ report[x].owner \in Shown => report'[x].owner = report[x].owner
    OBVIOUS
  <2>1. PICK owners \in Owners : Home(x, owners)
    BY DEF HomeInv
  <2>2. Home(x, owners)' /\ FilesStay(x)
    BY <2>1, HomeStep
  <2>3. ASSUME state[x].owner \in Shown PROVE state'[x].owner = state[x].owner
    <3>1. state[x] # NoFile
      BY <2>3, Known DEF Shown
    <3>2. owners = {state[x].owner}
      BY <2>1, <2>3, <3>1 DEF Home, OfFiles, Owners, Shown
    <3> QED BY <2>2, <3>1, <3>2 DEF Home, OfFiles, FilesStay
  <2>4. ASSUME report[x].owner \in Shown PROVE report'[x].owner = report[x].owner
    <3>1. report[x] # NoFile
      BY <2>4, Known DEF Shown
    <3>2. owners = {report[x].owner}
      BY <2>1, <2>4, <3>1 DEF Home, OfFiles, Owners, Shown
    <3> QED BY <2>2, <3>1, <3>2 DEF Home, OfFiles, FilesStay
  <2> QED BY <2>3, <2>4
<1> QED BY <1>1, Homes, TypeCorrect, PTL DEF Spec, HistoryIsKept

-----------------------------------------------------------------------------
(* How an instance comes to a directory, and that it writes in no other.   *)
LEMMA Comes ==
  ASSUME TypeOK, NEW p \in Procs, Instance(p)
  PROVE  /\ \A q \in Procs \ {p} : job'[q] = job[q]
         /\ \/ job'[p].pc = "idle"
            \/ job[p].pc # "idle" /\ job'[p].dir = job[p].dir
            \/ \E d \in Attached : ~Refused(d) /\ job'[p].dir = OutputDir(d)
            \/ \E y \in Directories : ~state[y].over /\ job'[p].dir = y
         /\ \A x \in Directories :
              \/ state'[x] = state[x] /\ report'[x] = report[x]
              \/ job[p].pc # "idle" /\ job[p].dir = x
<1>t. job \in [Procs -> Jobs \cup {Idle}]
  BY DEF TypeOK
<1>k. ASSUME NEW j, Becomes(p, j)
      PROVE  job'[p] = j /\ \A q \in Procs \ {p} : job'[q] = job[q]
  BY <1>t, <1>k DEF Becomes
<1>w. ASSUME job[p].pc # "idle" PROVE job[p] \in Jobs /\ job[p].dir \in Directories
  BY <1>t, <1>w DEF Idle, Jobs
<1>1. CASE Choose(p)
  <2>1. PICK d \in Attached :
          /\ ~Refused(d)
          /\ Becomes(p, [pc |-> "chosen", drive |-> d, dir |-> OutputDir(d),
                      bay |-> where[d],
                      mem |-> [owner |-> d, enclosure |-> Serial(d),
                               ata |-> None, byId |-> where[d],
                               over |-> FALSE]])
    BY <1>1 DEF Choose
  <2>2. job'[p].dir = OutputDir(d)
    BY <1>k, <2>1
  <2>3. UNCHANGED files
    BY <1>1 DEF Choose
  <2> QED BY <1>k, <2>1, <2>2, <2>3 DEF files
<1>2. CASE Resume(p)
  <2>1. PICK y \in Directories, d \in Attached :
          /\ ~state[y].over
          /\ Becomes(p, [pc |-> "prepared", drive |-> d, dir |-> y,
                      bay |-> where[d], mem |-> state[y]])
    BY <1>2 DEF Resume
  <2>2. job'[p].dir = y
    BY <1>k, <2>1
  <2>3. UNCHANGED files
    BY <1>2 DEF Resume
  <2> QED BY <1>k, <2>1, <2>2, <2>3 DEF files
<1>3. ASSUME job[p].pc # "idle", NEW j, Becomes(p, j), j.pc = "idle" \/ j.dir = job[p].dir,
             NEW m, state' = [state EXCEPT ![job[p].dir] = m] \/ UNCHANGED state,
             NEW n, report' = [report EXCEPT ![job[p].dir] = n] \/ UNCHANGED report
      PROVE  /\ \A q \in Procs \ {p} : job'[q] = job[q]
             /\ job'[p].pc = "idle" \/ job'[p].dir = job[p].dir
             /\ \A x \in Directories :
                  \/ state'[x] = state[x] /\ report'[x] = report[x]
                  \/ job[p].dir = x
  BY <1>k, <1>w, <1>3 DEF TypeOK
<1>4. CASE Save(p)
  <2>1. [job[p] EXCEPT !.pc = "prepared"].dir = job[p].dir /\ job[p].pc # "idle"
    BY <1>4, <1>w DEF Save, At, Jobs
  <2> QED BY <1>3, <1>4, <2>1 DEF Save
<1>5. CASE Lock(p)
  <2>1. [job[p] EXCEPT !.pc = "running"].dir = job[p].dir /\ job[p].pc # "idle"
    BY <1>5, <1>w DEF Lock, At, Jobs
  <2> QED BY <1>3, <1>5, <2>1, Known DEF Lock, files
<1>6. CASE Checkpoint(p)
  <2>1. [job[p] EXCEPT !.mem = Probed(p)].dir = job[p].dir /\ job[p].pc # "idle"
    BY <1>6, <1>w DEF Checkpoint, At, Jobs
  <2> QED BY <1>3, <1>6, <2>1 DEF Checkpoint
<1>7. CASE Reconnect(p)
  <2>1. [job[p] EXCEPT !.bay = where[job[p].drive]].dir = job[p].dir /\ job[p].pc # "idle"
    BY <1>7, <1>w DEF Reconnect, At, Jobs
  <2> QED BY <1>3, <1>7, <2>1 DEF Reconnect, files
<1>8. CASE Conclude(p)
  <2>1. /\ [job[p] EXCEPT !.pc = "concluded",
                         !.mem = [Probed(p) EXCEPT !.over = TRUE]].dir = job[p].dir
        /\ job[p].pc # "idle"
    BY <1>8, <1>w DEF Conclude, At, Jobs
  <2> QED BY <1>3, <1>8, <2>1 DEF Conclude
<1>9. CASE Emit(p)
  <2>1. [job[p] EXCEPT !.pc = "reported"].dir = job[p].dir /\ job[p].pc # "idle"
    BY <1>9, <1>w DEF Emit, At, Jobs
  <2> QED BY <1>3, <1>9, <2>1 DEF Emit
<1>10. CASE PutBack(p) \/ Leave(p)
  <2>1. job[p].pc # "idle" /\ Becomes(p, Idle) /\ Idle.pc = "idle"
    BY <1>10, Known DEF PutBack, Leave, At
  <2>2. UNCHANGED report /\ (UNCHANGED state \/
          state' = [state EXCEPT ![job[p].dir] = [job[p].mem EXCEPT !.over = FALSE]])
    BY <1>10 DEF PutBack, Leave, files
  <2> QED BY <1>3, <2>1, <2>2
<1> QED BY <1>1, <1>2, <1>4, <1>5, <1>6, <1>7, <1>8, <1>9, <1>10 DEF Instance

Old(bay)    == [bay |-> bay, serial |-> None]
New(bay, d) == [bay |-> bay, serial |-> d]

(* Where the old directory is a drive's, the new one is not there, and     *)
(* nobody is on the way to it.                                             *)
Alone(bay, d) ==
  state[Old(bay)].owner = d =>
    /\ ~Exists(New(bay, d))
    /\ \A p \in Procs : job[p].pc # "idle" => job[p].dir # New(bay, d)

OneInv == \A bay \in Bays, d \in Shown : Alone(bay, d)

LEMMA OneStep == TypeOK /\ HomeInv /\ OneInv /\ [Next]_vars => OneInv'
<1> SUFFICES ASSUME TypeOK, HomeInv, OneInv, [Next]_vars,
                    NEW bay \in Bays, NEW d \in Shown, state'[Old(bay)].owner = d
             PROVE  /\ ~Exists(New(bay, d))'
                    /\ \A p \in Procs : job'[p].pc # "idle" => job'[p].dir # New(bay, d)
  BY DEF OneInv, Alone, Shown, Old
<1> DEFINE old == Old(bay)
           new == New(bay, d)
<1>d. /\ d \in Drives /\ d # None /\ Serial(d) = d
      /\ old \in Directories /\ new \in Directories /\ old # new
      /\ old.serial = None /\ new.serial = d /\ new.bay = bay
  BY Known DEF Shown, Old, New
<1>1. state[old].owner = d
  <2>1. PICK owners \in Owners : Home(old, owners)
    BY <1>d DEF HomeInv
  <2>2. Home(old, owners)'
    BY <1>d, <2>1, HomeStep
  <2>3. state'[old] # NoFile
    BY <1>d, Known
  <2>4. d \in owners
    BY <2>2, <2>3 DEF Home, OfFiles
  <2>5. state[old] # NoFile /\ owners = {d}
    BY <1>d, <2>1, <2>4 DEF Home, Shown
  <2> QED BY <2>1, <2>5 DEF Home, OfFiles
<1>2. ~Exists(new) /\ \A p \in Procs : job[p].pc # "idle" => job[p].dir # new
  BY <1>1 DEF OneInv, Alone
<1>3. state[new] = NoFile /\ report[new] = NoFile
  BY <1>2 DEF Exists
<1>4. ASSUME NEW e \in Attached PROVE OutputDir(e) # new
  <2> SUFFICES ASSUME OutputDir(e) = new PROVE FALSE
    OBVIOUS
  <2>1. e \in Drives /\ where[e] = bay /\ Serial(e) = d
    BY <1>d, Places DEF TypeOK
  <2>2. Legacy(e) = old /\ OutputName(e) = new
    BY <2>1 DEF Legacy, OutputName, Old, New
  <2>3. PICK owners \in Owners : Home(old, owners)
    BY <1>d DEF HomeInv
  <2>4. state[old] # NoFile /\ state[old].enclosure = d
    BY <1>1, <1>d, <2>3, Known DEF Home, OfFiles
  <2>5. StoredSerial(old) = d
    BY <1>d, <2>4 DEF StoredSerial
  <2>6. Adopted(e)
    BY <1>d, <1>2, <2>1, <2>2, <2>5 DEF Adopted
  <2> QED BY <1>d, <2>2, <2>6 DEF OutputDir
<1>5. CASE UNCHANGED <<files, job>>
  BY <1>2, <1>5 DEF files, Exists
<1>6. ASSUME NEW p \in Procs, Instance(p)
      PROVE  /\ ~Exists(New(bay, d))'
             /\ \A q \in Procs : job'[q].pc # "idle" => job'[q].dir # New(bay, d)
  <2>1. state'[new] = NoFile /\ report'[new] = NoFile
    BY <1>d, <1>2, <1>3, <1>6, Comes
  <2>2. job'[p].pc # "idle" => job'[p].dir # new
    BY <1>d, <1>2, <1>3, <1>4, <1>6, Comes, Known
  <2>3. \A q \in Procs \ {p} : job'[q] = job[q]
    BY <1>6, Comes
  <2> QED BY <1>2, <2>1, <2>2, <2>3 DEF Exists
<1>7. ASSUME NEW e \in Drives, Move(e) PROVE UNCHANGED <<files, job>>
  BY <1>7 DEF Move
<1>8. CASE UNCHANGED vars
  BY <1>5, <1>8 DEF vars
<1> QED BY <1>5, <1>6, <1>7, <1>8 DEF Next

(* A drive's history in a bay is never split between an old directory and  *)
(* a new one.                                                              *)
THEOREM Unsplit == Spec => []OneHistory
<1>1. Init => OneInv
  <2> SUFFICES ASSUME Init, NEW bay \in Bays, NEW d \in Shown
               PROVE  Alone(bay, d)
    BY DEF OneInv
  <2>1. New(bay, d) \in Directories /\ New(bay, d).serial # None
    BY Known DEF Shown, New
  <2>2. state[New(bay, d)] = NoFile /\ report[New(bay, d)] = NoFile
    BY <2>1 DEF Init
  <2>3. \A p \in Procs : job[p].pc = "idle"
    BY Known DEF Init
  <2> QED BY <2>2, <2>3 DEF Alone, Exists
<1>2. OneInv => OneHistory
  <2> SUFFICES ASSUME OneInv, NEW bay \in Bays, NEW d \in Shown
               PROVE  ~(state[Old(bay)].owner = d /\ state[New(bay, d)].owner = d)
    BY DEF OneHistory, Old, New
  <2>1. d # None
    BY Known DEF Shown
  <2>2. ASSUME state[Old(bay)].owner = d PROVE state[New(bay, d)] = NoFile
    BY <2>2 DEF OneInv, Alone, Exists
  <2> QED BY <2>1, <2>2, Known
<1> QED BY <1>1, <1>2, OneStep, Homes, TypeCorrect, PTL DEF Spec

-----------------------------------------------------------------------------
(* What an instance that has a directory does with it.                     *)
Late == {"concluded", "reported"}

Effect(p) ==
  LET j == job[p]
      k == job'[p]
      x == job[p].dir
  IN /\ j.pc # "idle" /\ UNCHANGED overlapped
     /\ \A q \in Procs \ {p} : job'[q] = job[q]
     /\ \A y \in Directories \ {x} : state'[y] = state[y] /\ report'[y] = report[y]
     /\ k.pc # "idle" =>
          /\ k.drive = j.drive /\ k.dir = x /\ k.mem.owner = j.mem.owner
          /\ k.mem.ata \in {j.mem.ata, Ata(j.drive)}
          /\ k.pc \in Late =>
               k.mem.ata = Ata(j.drive) \/ (j.pc \in Late /\ k.mem = j.mem)
          /\ k.pc # "chosen"
          /\ j.pc # "chosen" \/ state'[x].owner = j.mem.owner
     /\ \/ state'[x] = state[x]
        \/ /\ state'[x].owner = j.mem.owner /\ state'[x] # NoFile
           /\ state'[x].ata \in {j.mem.ata, Ata(j.drive)}
     /\ \/ report'[x] = report[x]
        \/ /\ j.pc = "concluded" /\ report'[x].owner = j.drive
           /\ report'[x].ata \in {j.mem.ata, "masked"}

LEMMA Effects ==
  ASSUME TypeOK, NEW p \in Procs, Instance(p)
  PROVE  Choose(p) \/ Resume(p) \/ Effect(p)
<1>t. job \in [Procs -> Jobs \cup {Idle}]
      /\ state \in [Directories -> States \cup {NoFile}]
      /\ report \in [Directories -> Reports \cup {NoFile}]
  BY DEF TypeOK
<1>k. ASSUME NEW j, Becomes(p, j)
      PROVE  job'[p] = j /\ \A q \in Procs \ {p} : job'[q] = job[q]
  BY <1>t, <1>k DEF Becomes
<1>w. ASSUME job[p].pc # "idle"
      PROVE  /\ job[p] \in Jobs /\ job[p].dir \in Directories
             /\ job[p].mem \in States /\ job[p].drive \in Drives
             /\ job[p].mem # NoFile
  BY <1>t, <1>w, Known DEF Idle, Jobs
<1>p. ASSUME job[p].pc # "idle"
      PROVE  /\ Probed(p) \in States /\ Probed(p).owner = job[p].mem.owner
             /\ Probed(p).ata = Ata(job[p].drive) /\ Probed(p) # NoFile
  BY <1>w, <1>p, Known DEF Probed, States
<1>f. ASSUME NEW m, state' = [state EXCEPT ![job[p].dir] = m], UNCHANGED report,
             job[p].pc # "idle"
      PROVE  /\ state'[job[p].dir] = m /\ report'[job[p].dir] = report[job[p].dir]
             /\ \A y \in Directories \ {job[p].dir} :
                  state'[y] = state[y] /\ report'[y] = report[y]
  BY <1>t, <1>w, <1>f
<1>1. CASE Save(p)
  <2>1. /\ job[p].pc = "chosen" /\ UNCHANGED <<report, overlapped>>
        /\ state' = [state EXCEPT ![job[p].dir] = job[p].mem]
        /\ Becomes(p, [job[p] EXCEPT !.pc = "prepared"])
    BY <1>1 DEF Save, At
  <2>2. /\ job'[p].drive = job[p].drive /\ job'[p].dir = job[p].dir
        /\ job'[p].mem = job[p].mem /\ job'[p].pc = "prepared"
    BY <1>k, <1>w, <2>1 DEF Jobs
  <2> QED BY <1>k, <1>f, <1>w, <2>1, <2>2 DEF Effect, Late
<1>2. CASE Lock(p) \/ Reconnect(p)
  <2>1. /\ job[p].pc \in {"prepared", "running"} /\ UNCHANGED <<files, overlapped>>
        /\ \/ Becomes(p, Idle)
           \/ Becomes(p, [job[p] EXCEPT !.pc = "running"])
           \/ Becomes(p, [job[p] EXCEPT !.bay = where[job[p].drive]])
    BY <1>2 DEF Lock, Reconnect, At
  <2>2. job'[p].pc = "idle" \/
        (/\ job'[p].drive = job[p].drive /\ job'[p].dir = job[p].dir
         /\ job'[p].mem = job[p].mem /\ job'[p].pc \in {"prepared", "running"})
    <3>1. CASE Becomes(p, Idle)
      BY <1>k, <3>1, Known
    <3>2. CASE Becomes(p, [job[p] EXCEPT !.pc = "running"])
      BY <1>k, <1>w, <2>1, <3>2 DEF Jobs
    <3>3. CASE Becomes(p, [job[p] EXCEPT !.bay = where[job[p].drive]])
      BY <1>k, <1>w, <2>1, <3>3 DEF Jobs
    <3> QED BY <2>1, <3>1, <3>2, <3>3
  <2>3. \A q \in Procs \ {p} : job'[q] = job[q]
    BY <1>k, <2>1
  <2> QED BY <2>1, <2>2, <2>3 DEF Effect, Late, files
<1>3. CASE Checkpoint(p)
  <2>1. /\ job[p].pc = "running" /\ UNCHANGED <<report, overlapped>>
        /\ state' = [state EXCEPT ![job[p].dir] = Probed(p)]
        /\ Becomes(p, [job[p] EXCEPT !.mem = Probed(p)])
    BY <1>3 DEF Checkpoint, At
  <2>2. /\ job'[p].drive = job[p].drive /\ job'[p].dir = job[p].dir
        /\ job'[p].mem = Probed(p) /\ job'[p].pc = "running"
    BY <1>k, <1>w, <2>1 DEF Jobs
  <2> QED BY <1>k, <1>f, <1>p, <2>1, <2>2 DEF Effect, Late
<1>4. CASE Conclude(p)
  <2> DEFINE m == [Probed(p) EXCEPT !.over = TRUE]
  <2>1. /\ job[p].pc = "running" /\ UNCHANGED <<report, overlapped>>
        /\ state' = [state EXCEPT ![job[p].dir] = m]
        /\ Becomes(p, [job[p] EXCEPT !.pc = "concluded", !.mem = m])
    BY <1>4 DEF Conclude, At
  <2>m. m.owner = Probed(p).owner /\ m.ata = Probed(p).ata /\ m # NoFile
    <3>1. m \in States
      BY <1>p, <2>1 DEF States
    <3> QED BY <1>p, <2>1, <3>1, Known DEF States
  <2> HIDE DEF m
  <2>2. job'[p] = [job[p] EXCEPT !.pc = "concluded", !.mem = m] /\ job[p] \in Jobs
    BY <1>k, <1>w, <2>1
  <2>3. /\ job'[p].drive = job[p].drive /\ job'[p].dir = job[p].dir
        /\ job'[p].mem = m /\ job'[p].pc = "concluded"
    BY <2>2 DEF Jobs
  <2> QED BY <1>k, <1>f, <1>p, <2>1, <2>m, <2>3 DEF Effect, Late
<1>5. CASE Emit(p)
  <2>1. PICK mask \in BOOLEAN :
          report' = [report EXCEPT ![job[p].dir] =
            [owner |-> job[p].drive,
             enclosure |-> Hide(mask, Serial(job[p].drive)),
             ata |-> Hide(mask, job[p].mem.ata),
             byId |-> job[p].bay, over |-> TRUE]]
    BY <1>5 DEF Emit
  <2>2. /\ job[p].pc = "concluded" /\ UNCHANGED <<state, overlapped>>
        /\ Becomes(p, [job[p] EXCEPT !.pc = "reported"])
    BY <1>5 DEF Emit, At
  <2>3. /\ report'[job[p].dir].owner = job[p].drive
        /\ report'[job[p].dir].ata \in {job[p].mem.ata, "masked"}
        /\ \A y \in Directories \ {job[p].dir} : report'[y] = report[y]
    BY <1>t, <1>w, <2>1, <2>2 DEF Hide
  <2>4. /\ job'[p].drive = job[p].drive /\ job'[p].dir = job[p].dir
        /\ job'[p].mem = job[p].mem /\ job'[p].pc = "reported"
    BY <1>k, <1>w, <2>2 DEF Jobs
  <2> QED BY <1>k, <2>2, <2>3, <2>4 DEF Effect, Late
<1>6. CASE PutBack(p)
  <2> DEFINE m == [job[p].mem EXCEPT !.over = FALSE]
  <2>1. /\ job[p].pc = "reported" /\ UNCHANGED <<report, overlapped>>
        /\ state' = [state EXCEPT ![job[p].dir] = m] /\ Becomes(p, Idle)
    BY <1>6 DEF PutBack, At
  <2>m. m.owner = job[p].mem.owner /\ m.ata = job[p].mem.ata /\ m # NoFile
    <3>1. m \in States
      BY <1>w, <2>1 DEF States
    <3> QED BY <1>w, <2>1, <3>1, Known DEF States
  <2> HIDE DEF m
  <2> QED BY <1>k, <1>f, <2>1, <2>m, Known DEF Effect
<1>7. CASE Leave(p)
  <2>1. job[p].pc # "idle" /\ UNCHANGED <<files, overlapped>> /\ Becomes(p, Idle)
    BY <1>7 DEF Leave
  <2> QED BY <1>k, <2>1, Known DEF Effect, files
<1> QED BY <1>1, <1>2, <1>3, <1>4, <1>5, <1>6, <1>7 DEF Instance

(* A job is about one drive, and so is what it leaves behind.              *)
TrueJob(p) ==
  job[p].pc # "idle" =>
    /\ job[p].mem.owner = job[p].drive
    /\ job[p].mem.ata \in {None, job[p].drive}
    /\ job[p].pc \in Late => job[p].mem.ata = Ata(job[p].drive)

TrueFiles(x) ==
  /\ state[x] # NoFile => state[x].ata \in {None, state[x].owner}
  /\ report[x] # NoFile => report[x].ata \in {Ata(report[x].owner), "masked"}

TrueInv ==
  /\ \A p \in Procs : TrueJob(p)
  /\ \A x \in Directories : TrueFiles(x)

(* A state is resumed for its owner.                                       *)
LEMMA ResumedOwn ==
  ASSUME TypeOK, HomeInv, TrueInv, NEW x \in Directories, NEW d \in Attached,
         ~state[x].over, IsDrive(state[x], d)
  PROVE  d = state[x].owner /\ d \in Drives /\ state[x] # NoFile
<1>1. state[x] # NoFile /\ d \in Drives
  BY Known DEF Attached
<1>2. /\ Serial(d) = state[x].enclosure
      /\ state[x].enclosure # None \/ (state[x].ata # None /\ Ata(d) = state[x].ata)
  BY DEF IsDrive, Matches
<1>3. PICK owners \in Owners : Home(x, owners)
  BY DEF HomeInv
<1>4. state[x].enclosure = Serial(state[x].owner) /\ state[x].owner \in Drives
      /\ state[x].ata \in {None, state[x].owner}
  BY <1>1, <1>3 DEF Home, OfFiles, Owners, TrueInv, TrueFiles
<1> QED BY <1>1, <1>2, <1>4, Known

LEMMA TrueStep == TypeOK /\ HomeInv /\ TrueInv /\ [Next]_vars => TrueInv'
<1> SUFFICES ASSUME TypeOK, HomeInv, TrueInv, [Next]_vars PROVE TrueInv'
  OBVIOUS
<1>1. CASE UNCHANGED <<files, job>>
  BY <1>1 DEF files, TrueInv, TrueJob, TrueFiles
<1>2. ASSUME NEW p \in Procs, Instance(p) PROVE TrueInv'
  <2>k. ASSUME NEW j, Becomes(p, j)
        PROVE  job'[p] = j /\ \A q \in Procs \ {p} : job'[q] = job[q]
    BY <2>k DEF Becomes, TypeOK
  <2>1. CASE Choose(p)
    <3>1. PICK d \in Attached :
            Becomes(p, [pc |-> "chosen", drive |-> d, dir |-> OutputDir(d),
                      bay |-> where[d],
                      mem |-> [owner |-> d, enclosure |-> Serial(d),
                               ata |-> None, byId |-> where[d],
                               over |-> FALSE]])
      BY <2>1 DEF Choose
    <3>2. TrueJob(p)'
      BY <2>k, <3>1 DEF TrueJob, Late
    <3> QED BY <2>k, <2>1, <3>1, <3>2 DEF Choose, files, TrueInv, TrueJob, TrueFiles
  <2>2. CASE Resume(p)
    <3>1. PICK y \in Directories, d \in Attached :
            /\ ~state[y].over /\ IsDrive(state[y], d)
            /\ Becomes(p, [pc |-> "prepared", drive |-> d, dir |-> y,
                      bay |-> where[d], mem |-> state[y]])
      BY <2>2 DEF Resume
    <3>2. d = state[y].owner /\ state[y].ata \in {None, d}
      BY <3>1, ResumedOwn DEF TrueInv, TrueFiles
    <3>3. TrueJob(p)'
      BY <2>k, <3>1, <3>2 DEF TrueJob, Late
    <3> QED BY <2>k, <2>2, <3>1, <3>3 DEF Resume, files, TrueInv, TrueJob, TrueFiles
  <2>3. CASE Effect(p)
    <3>1. /\ job[p].mem.owner = job[p].drive /\ job[p].mem.ata \in {None, job[p].drive}
          /\ job[p].pc \in Late => job[p].mem.ata = Ata(job[p].drive)
          /\ Ata(job[p].drive) \in {None, job[p].drive}
      BY <2>3 DEF Effect, TrueInv, TrueJob, Ata
    <3>2. TrueJob(p)'
      BY <2>3, <3>1 DEF Effect, TrueJob
    <3>3. ASSUME NEW q \in Procs \ {p} PROVE TrueJob(q)'
      BY <2>3 DEF Effect, TrueInv, TrueJob
    <3>4. ASSUME NEW x \in Directories \ {job[p].dir} PROVE TrueFiles(x)'
      BY <2>3 DEF Effect, TrueInv, TrueFiles, Ata
    <3>5. ASSUME NEW x \in Directories, x = job[p].dir PROVE TrueFiles(x)'
      <4>1. state'[x] # NoFile => state'[x].ata \in {None, state'[x].owner}
        BY <2>3, <3>1, <3>5 DEF Effect, TrueInv, TrueFiles
      <4>2. report'[x] # NoFile => report'[x].ata \in {Ata(report'[x].owner), "masked"}
        BY <2>3, <3>1, <3>5 DEF Effect, TrueInv, TrueFiles, Late
      <4> QED BY <4>1, <4>2 DEF TrueFiles, Ata
    <3> QED BY <3>2, <3>3, <3>4, <3>5 DEF TrueInv
  <2> QED BY <1>2, <2>1, <2>2, <2>3, Effects
<1>3. ASSUME NEW d \in Drives, Move(d) PROVE UNCHANGED <<files, job>>
  BY <1>3 DEF Move
<1>4. CASE UNCHANGED vars
  BY <1>1, <1>4 DEF vars
<1> QED BY <1>1, <1>2, <1>3, <1>4 DEF Next

(* As long as nobody joined another in a directory: each instance is alone *)
(* in its own, and a report that names a silent drive keeps others out.    *)
Attested(x) == report[x].owner \in Silent \ Mute

SoleInv ==
  ~overlapped =>
    /\ \A p, q \in Procs :
         p # q /\ job[p].pc # "idle" /\ job[q].pc # "idle" => job[p].dir # job[q].dir
    /\ \A p \in Procs :
         job[p].pc \notin {"idle", "chosen"} => state[job[p].dir].owner = job[p].drive
    /\ \A x \in Directories :
         Attested(x) =>
           /\ state[x].owner \in {None, report[x].owner}
           /\ \A p \in Procs : job[p].pc # "idle" /\ job[p].dir = x
                              => job[p].drive = report[x].owner

(* No run is begun where such a report is.                                 *)
LEMMA KeptOut ==
  ASSUME TypeOK, HomeInv, TrueInv, NEW x \in Directories, Attested(x),
         state[x].owner \in {None, report[x].owner},
         NEW d \in Attached, OutputDir(d) = x
  PROVE  Refused(d)
<1> DEFINE c == report[x].owner
<1>1. c \in Drives /\ Serial(c) = None /\ Ata(c) = c /\ c # None /\ c # "masked"
  BY Known DEF Attested, Ata
<1>2. report[x] # NoFile
  BY <1>1, Known
<1>3. PICK owners \in Owners : Home(x, owners)
  BY DEF HomeInv
<1>4. state[x].enclosure = None
  <2>1. CASE state[x] = NoFile
    BY <2>1, Known
  <2>2. CASE state[x] # NoFile
    <3>1. state[x].owner \in owners /\ state[x].enclosure = Serial(state[x].owner)
      BY <1>3, <2>2 DEF Home, OfFiles
    <3>2. state[x].owner = c
      BY <3>1, Known DEF Owners
    <3> QED BY <1>1, <3>1, <3>2
  <2> QED BY <2>1, <2>2
<1>5. report[x].ata \in {c, "masked"}
  BY <1>1, <1>2 DEF TrueInv, TrueFiles
<1>6. StoredSerial(x) \in {c, "masked"}
  BY <1>1, <1>4, <1>5 DEF StoredSerial
<1>7. d \in Drives /\ Serial(d) # c /\ Serial(d) # "masked"
  BY <1>1, Known DEF Attached, Attested, Serial
<1> QED BY <1>1, <1>6, <1>7 DEF Refused

LEMMA SoleStep ==
  TypeOK /\ HomeInv /\ TrueInv /\ SoleInv /\ [Next]_vars => SoleInv'
<1> SUFFICES ASSUME TypeOK, HomeInv, TrueInv, SoleInv, [Next]_vars, ~overlapped'
             PROVE  SoleInv'
  BY DEF SoleInv
<1>1. CASE UNCHANGED <<files, job>> /\ UNCHANGED overlapped
  BY <1>1 DEF files, SoleInv, Attested
<1>2. ASSUME NEW p \in Procs, Instance(p) PROVE SoleInv'
  <2>k. ASSUME NEW j, Becomes(p, j)
        PROVE  job'[p] = j /\ \A q \in Procs \ {p} : job'[q] = job[q]
    BY <2>k DEF Becomes, TypeOK
  <2>1. CASE Choose(p)
    <3>1. PICK d \in Attached :
            /\ ~Refused(d)
            /\ overlapped' = (overlapped \/ Busy(p, OutputDir(d)))
            /\ Becomes(p, [pc |-> "chosen", drive |-> d, dir |-> OutputDir(d),
                      bay |-> where[d],
                      mem |-> [owner |-> d, enclosure |-> Serial(d),
                               ata |-> None, byId |-> where[d],
                               over |-> FALSE]])
      BY <2>1 DEF Choose
    <3>2. ~overlapped /\ ~Busy(p, OutputDir(d))
      BY <3>1
    <3>3. job'[p].pc = "chosen" /\ job'[p].dir = OutputDir(d) /\ UNCHANGED files
      BY <2>k, <2>1, <3>1 DEF Choose
    <3>4. \A q \in Procs \ {p} : job'[q] = job[q]
                               /\ (job[q].pc # "idle" => job[q].dir # OutputDir(d))
      BY <2>k, <3>1, <3>2 DEF Busy
    <3>5. OutputDir(d) \in Directories => ~Attested(OutputDir(d))
      BY <3>1, <3>2, KeptOut DEF SoleInv
    <3> QED BY <3>2, <3>3, <3>4, <3>5 DEF SoleInv, files, Attested
  <2>2. CASE Resume(p)
    <3>1. PICK y \in Directories, d \in Attached :
            /\ ~state[y].over /\ IsDrive(state[y], d)
            /\ overlapped' = (overlapped \/ Busy(p, y))
            /\ Becomes(p, [pc |-> "prepared", drive |-> d, dir |-> y,
                      bay |-> where[d], mem |-> state[y]])
      BY <2>2 DEF Resume
    <3>2. ~overlapped /\ ~Busy(p, y)
      BY <3>1
    <3>3. job'[p].pc = "prepared" /\ job'[p].dir = y /\ job'[p].drive = d
          /\ UNCHANGED files
      BY <2>k, <2>2, <3>1 DEF Resume
    <3>4. \A q \in Procs \ {p} : job'[q] = job[q] /\ (job[q].pc # "idle" => job[q].dir # y)
      BY <2>k, <3>1, <3>2 DEF Busy
    <3>5. d = state[y].owner /\ d # None
      BY <3>1, ResumedOwn, Known
    <3> QED BY <3>2, <3>3, <3>4, <3>5 DEF SoleInv, files, Attested
  <2>3. CASE Effect(p)
    <3> DEFINE x == job[p].dir
    <3>0. ~overlapped /\ job[p].pc # "idle" /\ x \in Directories
          /\ job[p].mem.owner = job[p].drive
      BY <2>3 DEF Effect, TypeOK, Idle, Jobs, TrueInv, TrueJob
    <3>1. \A q \in Procs \ {p} : job'[q] = job[q] /\ (job[q].pc # "idle" => job[q].dir # x)
      BY <2>3, <3>0 DEF Effect, SoleInv
    <3>2. job'[p].pc # "idle" => /\ job'[p].dir = x /\ job'[p].drive = job[p].drive
                                /\ job'[p].pc # "chosen"
      BY <2>3 DEF Effect
    <3>3. \A y \in Directories \ {x} : state'[y] = state[y] /\ report'[y] = report[y]
      BY <2>3 DEF Effect
    <3>4. job'[p].pc # "idle" => state'[x].owner = job[p].drive
      <4>1. job[p].pc # "chosen" => state[x].owner = job[p].drive
        BY <3>0 DEF SoleInv
      <4> QED BY <2>3, <3>0, <4>1 DEF Effect
    <3>5. report'[x].owner \in Silent \ Mute =>
            /\ state'[x].owner \in {None, report'[x].owner}
            /\ job[p].drive = report'[x].owner
      <4>1. CASE report'[x] = report[x]
        <5>1. report[x].owner \in Silent \ Mute =>
                /\ state[x].owner \in {None, report[x].owner}
                /\ job[p].drive = report[x].owner
          BY <3>0 DEF SoleInv, Attested
        <5>2. state'[x] = state[x] \/ state'[x].owner = job[p].drive
          BY <2>3, <3>0 DEF Effect
        <5> QED BY <4>1, <5>1, <5>2
      <4>2. CASE job[p].pc = "concluded" /\ report'[x].owner = job[p].drive
        <5>1. state[x].owner = job[p].drive
          BY <3>0, <4>2 DEF SoleInv
        <5> QED BY <2>3, <3>0, <4>2, <5>1 DEF Effect
      <4> QED BY <2>3, <4>1, <4>2 DEF Effect
    <3>6. \A q, r \in Procs :
            q # r /\ job'[q].pc # "idle" /\ job'[r].pc # "idle" => job'[q].dir # job'[r].dir
      BY <3>0, <3>1, <3>2 DEF SoleInv
    <3>7. \A q \in Procs : job'[q].pc \notin {"idle", "chosen"}
                          => state'[job'[q].dir].owner = job'[q].drive
      <4> SUFFICES ASSUME NEW q \in Procs, job'[q].pc \notin {"idle", "chosen"}
                   PROVE  state'[job'[q].dir].owner = job'[q].drive
        OBVIOUS
      <4>1. CASE q = p
        BY <3>2, <3>4, <4>1
      <4>2. CASE q # p
        <5>1. job'[q] = job[q] /\ job[q].dir \in Directories \ {x}
          BY <3>1, <4>2 DEF TypeOK, Idle, Jobs
        <5> QED BY <3>0, <3>3, <5>1 DEF SoleInv
      <4> QED BY <4>1, <4>2
    <3>8. ASSUME NEW y \in Directories, report'[y].owner \in Silent \ Mute
          PROVE  /\ state'[y].owner \in {None, report'[y].owner}
                 /\ \A q \in Procs : job'[q].pc # "idle" /\ job'[q].dir = y
                                    => job'[q].drive = report'[y].owner
      <4>1. CASE y = x
        BY <3>1, <3>2, <3>5, <3>8, <4>1
      <4>2. CASE y # x
        BY <3>0, <3>1, <3>2, <3>3, <3>8, <4>2 DEF SoleInv, Attested
      <4> QED BY <4>1, <4>2
    <3> QED BY <3>6, <3>7, <3>8 DEF SoleInv, Attested
  <2> QED BY <1>2, <2>1, <2>2, <2>3, Effects
<1>3. ASSUME NEW d \in Drives, Move(d)
      PROVE  UNCHANGED <<files, job>> /\ UNCHANGED overlapped
  BY <1>3 DEF Move
<1>4. CASE UNCHANGED vars
  BY <1>1, <1>4 DEF vars
<1> QED BY <1>1, <1>2, <1>3, <1>4 DEF Next

LEMMA TrueInit == Init => TrueInv /\ SoleInv
<1> SUFFICES ASSUME Init PROVE TrueInv /\ SoleInv
  OBVIOUS
<1>1. PICK old \in [Bays -> Drives \cup {None}] :
        /\ state = [y \in Directories |->
            IF y.serial = None /\ old[y.bay] # None
            THEN OldState(old[y.bay], y.bay) ELSE NoFile]
        /\ report = state
  BY DEF Init
<1>2. \A p \in Procs : job[p].pc = "idle"
  BY Known DEF Init
<1>3. ASSUME NEW x \in Directories
      PROVE  TrueFiles(x) /\ state[x].owner = report[x].owner
  <2>1. state[x] = NoFile \/ \E d \in Drives : state[x] = OldState(d, x.bay)
    BY <1>1 DEF Directories
  <2>2. report[x] = state[x]
    BY <1>1
  <2>3. CASE state[x] = NoFile
    BY <2>2, <2>3 DEF TrueFiles
  <2>4. ASSUME NEW d \in Drives, state[x] = OldState(d, x.bay) PROVE TrueFiles(x)
    <3>1. /\ state[x].owner = d /\ state[x].ata = Ata(d)
          /\ report[x].owner = d /\ report[x].ata = Ata(d)
      BY <2>2, <2>4 DEF OldState
    <3> QED BY <3>1, Known DEF TrueFiles
  <2> QED BY <2>1, <2>2, <2>3, <2>4
<1> QED BY <1>2, <1>3 DEF TrueInv, TrueJob, SoleInv

LEMMA TrueSole == Spec => [](TypeOK /\ HomeInv /\ TrueInv /\ SoleInv)
BY TypeInit, TypeStep, HomeInit, HomeNext, TrueInit, TrueStep, SoleStep, PTL DEF Spec

(* Nor is the report of a drive that shows none, if two instances never    *)
(* shared a directory.                                                     *)
THEOREM SilentStays == Spec => SilentReportIsKept
<1> DEFINE Kept ==
      \A x \in Directories :
        report[x].owner \in Silent \ Mute /\ ~overlapped'
        => report'[x].owner = report[x].owner
<1>1. TypeOK /\ HomeInv /\ TrueInv /\ SoleInv /\ [Next]_vars => [Kept]_vars
  <2> SUFFICES ASSUME TypeOK, HomeInv, TrueInv, SoleInv, [Next]_vars,
                      NEW x \in Directories, Attested(x), ~overlapped'
               PROVE  report'[x].owner = report[x].owner
    BY DEF Attested
  <2>1. CASE UNCHANGED files
    BY <2>1 DEF files
  <2>2. ASSUME NEW p \in Procs, Instance(p)
        PROVE  report'[x].owner = report[x].owner
    <3>1. CASE Choose(p) \/ Resume(p)
      BY <2>1, <3>1 DEF Choose, Resume
    <3>2. CASE Effect(p)
      <4>1. ~overlapped /\ job[p].pc # "idle"
        BY <3>2 DEF Effect
      <4>2. CASE x = job[p].dir
        <5>1. job[p].drive = report[x].owner
          BY <4>1, <4>2 DEF SoleInv
        <5> QED BY <3>2, <4>2, <5>1 DEF Effect
      <4>3. CASE x # job[p].dir
        BY <3>2, <4>3 DEF Effect
      <4> QED BY <4>2, <4>3
    <3> QED BY <2>2, <3>1, <3>2, Effects
  <2>3. ASSUME NEW d \in Drives, Move(d) PROVE UNCHANGED files
    BY <2>3 DEF Move
  <2> QED BY <2>1, <2>2, <2>3 DEF Next, vars
<1> QED BY <1>1, TrueSole, PTL DEF Spec, SilentReportIsKept

-----------------------------------------------------------------------------
(* What select_runs finds.                                                 *)

LEMMA StoredIsFinite == \A request : IsFiniteSet(Hits(request))
<1> DEFINE pairs == Bays \X (Drives \cup {None})
           parts == [x \in Directories |-> <<x.bay, x.serial>>]
<1>1. IsFiniteSet(Drives \cup {None})
  BY FS_AddElement
<1>2. IsFiniteSet(pairs)
  BY <1>1, FS_Product
<1>3. parts \in [Directories -> pairs]
  BY DEF Directories
<1>4. ASSUME NEW x \in Directories, NEW y \in Directories, parts[x] = parts[y]
      PROVE  x = y
  BY <1>4 DEF Directories
<1>5. parts \in Injection(Directories, pairs)
  BY <1>3, <1>4 DEF Injection, IsInjective
<1>6. IsFiniteSet(Directories)
  BY <1>2, <1>5, FS_Injection
<1>7. \A request : Hits(request) \in SUBSET Directories
  BY DEF Hits
<1> QED BY <1>6, <1>7, FS_Subset

(* A request is answered with one directory.                               *)
LEMMA OneAnswer ==
  ASSUME NEW request, NEW x \in Selected(request), NEW y \in Hits(request)
  PROVE  x = y
<1> SUFFICES ASSUME x # y PROVE FALSE
  OBVIOUS
<1>1. x \in Hits(request) /\ ~(Cardinality(Hits(request)) > 1)
  BY DEF Selected
<1>2. IsFiniteSet(Hits(request))
  BY StoredIsFinite
<1>3. IsFiniteSet({x}) /\ Cardinality({x}) = 1
  BY FS_Singleton
<1>4. Cardinality({x} \cup {y}) = 2
  <2>1. Cardinality({x} \cup {y})
          = IF y \in {x} THEN Cardinality({x}) ELSE Cardinality({x}) + 1
    BY <1>3, FS_AddElement
  <2> QED BY <1>3, <2>1
<1>5. Cardinality({x} \cup {y}) <= Cardinality(Hits(request))
  BY <1>1, <1>2, FS_Subset
<1>6. Cardinality(Hits(request)) \in Nat
  BY <1>2, FS_CardinalityType
<1> QED BY <1>1, <1>4, <1>5, <1>6

(* What is told of a stored run is told of its owner.                      *)
LEMMA ToldOfOwner ==
  ASSUME TypeOK, HomeInv, TrueInv, NEW x \in Directories, Exists(x)
  PROVE  /\ Told(x).byId \in Bays
         /\ Told(x).ata \in {None, "masked", Told(x).owner}
         /\ Told(x).enclosure \in {Serial(Told(x).owner), "masked"}
         /\ Told(x).owner \in Drives
<1>1. PICK owners \in Owners : OfFiles(x, owners)
  BY DEF HomeInv, Home
<1>2. state[x] \in States \cup {NoFile} /\ report[x] \in Reports \cup {NoFile}
  BY DEF TypeOK
<1>3. CASE report[x] # NoFile
  <2>1. Told(x) = report[x] /\ report[x] \in Reports
    BY <1>2, <1>3 DEF Told
  <2>2. Told(x).byId \in Bays /\ Told(x).owner \in Drives
    BY <2>1 DEF Reports
  <2>3. Told(x).ata \in {Ata(Told(x).owner), "masked"}
    BY <1>3, <2>1 DEF TrueInv, TrueFiles
  <2>4. Told(x).enclosure \in {Serial(Told(x).owner), "masked"}
    BY <1>1, <1>3, <2>1 DEF OfFiles
  <2> QED BY <2>2, <2>3, <2>4 DEF Ata
<1>4. CASE report[x] = NoFile
  <2>1. Told(x) = state[x] /\ state[x] \in States /\ state[x] # NoFile
    BY <1>2, <1>4 DEF Told, Exists
  <2>2. Told(x).byId \in Bays /\ Told(x).owner \in Drives
    BY <2>1 DEF States
  <2>3. Told(x).ata \in {None, Told(x).owner}
    BY <2>1 DEF TrueInv, TrueFiles
  <2>4. Told(x).enclosure = Serial(Told(x).owner)
    BY <1>1, <2>1 DEF OfFiles
  <2> QED BY <2>2, <2>3, <2>4
<1> QED BY <1>3, <1>4

(* The operator who asks for a drive's serial is shown no other drive's    *)
(* run; who asks for a bay, one run or, where several are stored, none.    *)
THEOREM AnswersAreRight == Spec => []AskedIsAnswered
<1>1. TypeOK /\ HomeInv /\ TrueInv => AskedIsAnswered
  <2> SUFFICES ASSUME TypeOK, HomeInv, TrueInv PROVE AskedIsAnswered
    OBVIOUS
  <2>1. ASSUME NEW d \in Shown, NEW x \in Selected(d)
        PROVE  Told(x).owner = d
    <3>1. x \in Directories /\ Exists(x) /\ d \in Aliases(x)
      BY DEF Selected, Hits
    <3>2. d \in Drives /\ d # None /\ d # "masked" /\ d \notin Bays
      BY Known DEF Shown
    <3>3. d # Name(x)
      BY <3>1, <3>2, NamesDiffer DEF Name, Directories
    <3>4. d \in {Told(x).byId, Told(x).ata, Told(x).enclosure}
      BY <3>1, <3>3 DEF Aliases
    <3>5. d \in {Told(x).owner, Serial(Told(x).owner)} /\ Told(x).owner \in Drives
      BY <3>1, <3>2, <3>4, ToldOfOwner
    <3> QED BY <3>2, <3>5, Known
  <2>2. ASSUME NEW x \in Directories, NEW y \in Directories,
               x \in Selected(Told(y).byId)
        PROVE  Told(x).owner = Told(y).owner
    <3>1. x \in Hits(Told(y).byId)
      BY <2>2 DEF Selected
    <3>2. Told(y).byId # None
      BY <3>1 DEF Hits, Aliases
    <3>3. Exists(y)
      BY <3>2, Known DEF Told, Exists, NoFile
    <3>4. y \in Hits(Told(y).byId)
      BY <3>2, <3>3 DEF Hits, Aliases
    <3> QED BY <2>2, <3>4, OneAnswer
  <2> QED BY <2>1, <2>2 DEF AskedIsAnswered
<1> QED BY <1>1, TrueSole, PTL
=============================================================================
