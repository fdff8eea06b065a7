----------------------------- MODULE DeviceSafety -----------------------------
(***************************************************************************)
(* Which drive is written: inventory, eligibility, the confirmation gate   *)
(* and guarded_open, the wait for a drive that dropped off the bus, and    *)
(* `resume`, while people move drives between the bays of a dock.          *)
(*                                                                         *)
(* The dock gives a by-id name to the bay, not to the drive in it, and the *)
(* drives are of one model and size.  Between a look at a drive and the    *)
(* use made of it anything may be unplugged, plugged in, mounted or        *)
(* written into fstab.                                                     *)
(***************************************************************************)
EXTENDS Naturals, FiniteSets

CONSTANTS
  Drives,
  Silent,     (* drives whose serial the bridge does not show              *)
  Mute,       (* drives whose ATA serial smartctl cannot read              *)
  Solid,      (* solid state devices                                       *)
  Bays,
  Runs,       (* stored runs there is room for                             *)
  MaxMoves,   (* bound: drives plugged in or pulled out                    *)
  MaxUses,    (* bound: times a drive is taken into use                    *)
  HandsOff,   (* nobody swaps silent drives between a match and the open   *)
  Away        (* where a drive is that is in no bay                        *)

ASSUME DeviceSafetyAssumption ==
  /\ Silent \subseteq Drives /\ Mute \subseteq Drives /\ Solid \subseteq Drives
  /\ Away \notin Bays \cup Drives /\ "none" \notin Drives
  /\ MaxMoves \in Nat /\ MaxUses \in Nat /\ HandsOff \in BOOLEAN

VARIABLES
  where,    (* the bay each drive is in                                    *)
  linked,   (* drives udev has made the by-id link for                     *)
  uses,     (* what the system has each drive in use for                   *)
  moves, used,
  job,      (* the stored runs and the children at work on them            *)
  gate,     (* what waits for confirmation, and the token it is shown with *)
  planned   (* the token of a plan, and history: the drives it was made of *)

world == <<where, linked, uses, moves, used>>
vars  == <<world, job, gate, planned>>

NoDrive   == Away
Places    == Bays \cup {Away}
Attached  == {d \in Drives : where[d] # Away}
In(bay)   == {d \in Attached : where[d] = bay}

(* "claimed": mounted, swapped to, held by md, dm or ZFS -- the kernel     *)
(* lets nobody else open it exclusively.  "configured": a member of a      *)
(* storage stack that is not active, or in fstab or crypttab.              *)
Uses == {"claimed", "configured"}

-----------------------------------------------------------------------------
(* What is known of a drive.                                               *)

NoSerial == "none"
Serial(d)   == IF d \in Silent THEN NoSerial ELSE d
Identity(d) == [serial |-> Serial(d)]     \* class, size and model are alike
Ata(d)      == IF d \in Mute THEN NoSerial ELSE d

(* Disk.dev_path: the by-id name where there is one, which is the bay's;   *)
(* else the kernel name.                                                   *)
Path(d) == IF d \in linked THEN [bay |-> where[d], drive |-> d]
           ELSE [bay |-> Away, drive |-> d]

(* What opening a path reaches.  A kernel name may have passed to another  *)
(* drive when its own is gone.                                             *)
Reached(path) ==
  IF path.bay # Away THEN In(path.bay) \cap linked
  ELSE IF path.drive \in Attached THEN {path.drive} ELSE Attached

(* check_media_type of what smartctl said of the drive.  None of evaluate's *)
(* callers hands it smart_info.                                            *)
MediaReasons(d, info) == IF info # {} /\ d \in Solid THEN {"solid"} ELSE {}

(* evaluate                                                                *)
Reasons(d) ==
  uses[d] \cup MediaReasons(d, {})
          \cup IF d \in linked THEN {} ELSE {"no by-id entry"}
Eligible == {d \in Attached : Reasons(d) = {}}

(* A bug: the by-id name alone, which is the bay's.                      *)
Bug_IdentityString(d) == <<where[d]>>

(* identity_string and compute_token; the hash is taken to be injective.   *)
IdentityString(d) == <<where[d], Serial(d)>>
Token(disks) == {IdentityString(d) : d \in disks}

(* A bug: the first device whose identity matches.                       *)
Bug_Confirmed(r, d) == TRUE

(* match_stored_drive: the drives that may be gone on with, and whether    *)
(* that is refused outright.                                               *)
Matches(r) == {d \in Attached : Identity(d) = job[r].identity}
Confirmed(r, d) ==
  \/ job[r].identity.serial # NoSerial
  \/ job[r].ata # NoSerial /\ Ata(d) = job[r].ata
Refused(r) ==
  \/ Cardinality(Matches(r)) > 1
  \/ \E d \in Matches(r) : ~Confirmed(r, d)
Match(r) == IF Refused(r) THEN {} ELSE Matches(r)

-----------------------------------------------------------------------------
NoPath == [bay |-> Away, drive |-> NoDrive]

(* own: the drive the operator was shown; since: what it was in use for    *)
(* when it was opened; wrote: the drives the run has written.  The last    *)
(* three are history.                                                      *)
NoRun == [pc |-> "none", path |-> NoPath, identity |-> [serial |-> NoSerial],
          ata |-> NoSerial, fd |-> NoDrive,
          own |-> NoDrive, since |-> {}, wrote |-> {}]

At(where_)  == {r \in Runs : job[r].pc = where_}
Becomes(r, changed) == job' = [job EXCEPT ![r] = changed]
Goes(r, to) == Becomes(r, [job[r] EXCEPT !.pc = to])

(* An exception ends the child; guarded_open closes the descriptor; the    *)
(* checkpoint stays where it was.                                          *)
Stops(r) == Becomes(r, [job[r] EXCEPT !.pc = "stopped", !.fd = NoDrive])

-----------------------------------------------------------------------------
(* The gate.                                                               *)

Closed == [for |-> "nothing", token |-> {}]

(* `driveprep run --all` in plan mode: it prints the token.                *)
Plan ==
  /\ gate = Closed /\ At("none") = Runs
  /\ planned.drives = {} /\ Eligible # {}
  /\ planned' = [token |-> Token(Eligible), drives |-> Eligible]
  /\ UNCHANGED <<world, job, gate>>

(* cmd_run: a fresh state for each drive that is selected.                 *)
Select ==
  /\ gate = Closed /\ At("none") = Runs
  /\ \E chosen \in [Runs -> Eligible \cup {NoDrive}] :
       /\ {chosen[r] : r \in Runs} \ {NoDrive} = Eligible
       /\ \A r, s \in Runs : r # s /\ chosen[r] # NoDrive
                               => chosen[r] # chosen[s]
       /\ job' = [r \in Runs |->
            IF chosen[r] = NoDrive THEN NoRun
            ELSE [NoRun EXCEPT !.pc = "selected", !.path = Path(chosen[r]),
                               !.identity = Identity(chosen[r]),
                               !.own = chosen[r]]]
  /\ Eligible # {}
  /\ gate' = [for |-> "run", token |-> Token(Eligible)]
  /\ UNCHANGED <<world, planned>>

(* phase1_smart_before: the ATA serial of what the path reaches by then.   *)
Probe(r) ==
  /\ gate.for = "run" /\ job[r].pc = "selected"
  /\ \E x \in Reached(job[r].path) \cup {NoDrive} :
       /\ x = NoDrive => Reached(job[r].path) = {}
       /\ Becomes(r, [job[r] EXCEPT !.pc = "probed",
                        !.ata = IF x = NoDrive THEN NoSerial ELSE Ata(x)])
  /\ UNCHANGED <<world, gate, planned>>

(* confirm: the operator types the token he is shown, or a stored token is *)
(* supplied and compared.                                                  *)
Confirm ==
  /\ \/ gate.for = "run" /\ At("selected") = {}
     \/ gate.for = "resume"
  /\ planned.drives # {} => gate.token = planned.token
  /\ gate' = Closed
  /\ job' = [r \in Runs |-> IF job[r].pc \in {"selected", "probed"}
                            THEN [job[r] EXCEPT !.pc = "confirmed"]
                            ELSE job[r]]
  /\ UNCHANGED <<world, planned>>

(* A token that is not given, or differs.  prepare_states has written the  *)
(* checkpoints of a `run`: they can be resumed, or the next `run` puts its *)
(* own in their place.                                                     *)
Decline ==
  /\ gate # Closed
  /\ gate' = Closed
  /\ \E replaced \in {FALSE, gate.for = "run"} :
       job' = [r \in Runs |->
         IF job[r].pc \in {"selected", "probed"}
         THEN IF replaced THEN NoRun ELSE [job[r] EXCEPT !.pc = "stopped"]
         ELSE job[r]]
  /\ UNCHANGED <<world, planned>>

(* cmd_resume: a drive that two stored runs match is taken for neither.    *)
(* A token stored for `run` is of no use here.                             *)
Resume ==
  /\ gate = Closed
  /\ LET candidate == {r \in At("stopped") : Match(r) # {}}
         drive(r)  == CHOOSE d \in Match(r) : TRUE
         taken     == {r \in candidate :
                         /\ drive(r) \in Eligible
                         /\ \A s \in candidate \ {r} : drive(s) # drive(r)}
     IN /\ taken # {}
        /\ job' = [r \in Runs |->
             IF r \in taken
             THEN [job[r] EXCEPT !.pc = "selected", !.own = drive(r),
                                 !.path = Path(drive(r))]
             ELSE job[r]]
        /\ gate' = [for |-> "resume", token |-> Token({drive(r) : r \in taken})]
  /\ planned' = [token |-> {}, drives |-> {}]
  /\ UNCHANGED world

-----------------------------------------------------------------------------
(* guarded_open and the pass.                                              *)

(* os.open with O_EXCL: EBUSY for a claimed drive and for one another      *)
(* child has open.                                                         *)
Busy(x) == "claimed" \in uses[x] \/ \E s \in Runs : job[s].fd = x

Open(r) ==
  /\ job[r].pc = "confirmed"
  /\ \/ \E x \in Reached(job[r].path) :
          /\ ~Busy(x)
          /\ Becomes(r, [job[r] EXCEPT !.pc = "opened", !.fd = x,
                                       !.since = uses[x]])
     \/ Reached(job[r].path) = {} /\ Stops(r)
     \/ (\E x \in Reached(job[r].path) : Busy(x)) /\ Stops(r)
  /\ UNCHANGED <<world, gate, planned>>

(* A bug: the path is trusted.                                           *)
Bug_CheckIdentity(r) ==
  /\ job[r].pc = "opened"
  /\ IF job[r].fd # NoDrive THEN Goes(r, "checked") ELSE Stops(r)
  /\ UNCHANGED <<world, gate, planned>>

(* assert_matches, on the open descriptor.  One whose drive was pulled out *)
(* resolves to nothing: the kernel keeps the name until it is closed.      *)
CheckIdentity(r) ==
  /\ job[r].pc = "opened"
  /\ IF job[r].fd # NoDrive /\ Identity(job[r].fd) = job[r].identity
     THEN Goes(r, "checked") ELSE Stops(r)
  /\ UNCHANGED <<world, gate, planned>>

(* A bug: the verdict of the inventory is trusted.                       *)
Bug_Recheck(r) ==
  /\ job[r].pc = "checked"
  /\ IF job[r].fd # NoDrive THEN Goes(r, "writing") ELSE Stops(r)
  /\ UNCHANGED <<world, gate, planned>>

(* _recheck_eligibility, with an inventory of its own.                     *)
Recheck(r) ==
  /\ job[r].pc = "checked"
  /\ IF job[r].fd \in Eligible THEN Goes(r, "writing") ELSE Stops(r)
  /\ UNCHANGED <<world, gate, planned>>

(* A bug: ENODEV is not noticed.                                         *)
Bug_Write(r) ==
  /\ job[r].pc = "writing" /\ job[r].fd \notin job[r].wrote
  /\ Becomes(r, [job[r] EXCEPT !.wrote = @ \cup {job[r].fd}])
  /\ UNCHANGED <<world, gate, planned>>

Write(r) ==
  /\ job[r].pc = "writing" /\ job[r].fd \notin job[r].wrote \cup {NoDrive}
  /\ Becomes(r, [job[r] EXCEPT !.wrote = @ \cup {job[r].fd}])
  /\ UNCHANGED <<world, gate, planned>>

(* The end of the run, and a stop of it.                                   *)
Finish(r) ==
  /\ job[r].pc = "writing" /\ job[r].wrote # {}
  /\ Becomes(r, [job[r] EXCEPT !.pc = "over", !.fd = NoDrive])
  /\ UNCHANGED <<world, gate, planned>>

Stop(r) ==
  /\ job[r].pc \in {"confirmed", "writing", "away"}
  /\ Stops(r)
  /\ UNCHANGED <<world, gate, planned>>

(* DeviceVanishedError.                                                    *)
Vanish(r) ==
  /\ job[r].pc = "writing" /\ job[r].fd = NoDrive
  /\ Goes(r, "away")
  /\ UNCHANGED <<world, gate, planned>>

(* _await_return: a match is gone on with, a refusal ends the run.         *)
Return(r) ==
  /\ job[r].pc = "away"
  /\ \/ \E d \in Match(r) :
          Becomes(r, [job[r] EXCEPT !.pc = "confirmed", !.path = Path(d)])
     \/ Refused(r) /\ Stops(r)
  /\ UNCHANGED <<world, gate, planned>>

-----------------------------------------------------------------------------
(* The world.                                                              *)

Waiting == {r \in Runs : job[r].pc \in {"selected", "probed", "confirmed"}}
MayMove(d) ==
  /\ moves < MaxMoves
  /\ HandsOff /\ d \in Silent => Waiting = {}

others == <<uses, used, job, gate, planned>>

PlugIn(d) ==
  /\ MayMove(d) /\ where[d] = Away
  /\ \E bay \in Bays : In(bay) = {} /\ where' = [where EXCEPT ![d] = bay]
  /\ moves' = moves + 1
  /\ UNCHANGED <<linked, others>>

(* A descriptor of the drive is dead from then on.  The drive is           *)
(* unmounted; fstab keeps its line.                                        *)
PullOut(d) ==
  /\ MayMove(d) /\ where[d] # Away
  /\ where' = [where EXCEPT ![d] = Away]
  /\ linked' = linked \ {d}
  /\ uses' = [uses EXCEPT ![d] = @ \ {"claimed"}]
  /\ job' = [r \in Runs |-> IF job[r].fd = d
                            THEN [job[r] EXCEPT !.fd = NoDrive] ELSE job[r]]
  /\ moves' = moves + 1
  /\ UNCHANGED <<used, gate, planned>>

UdevLinks(d) ==
  /\ d \in Attached \ linked
  /\ linked' = linked \cup {d}
  /\ UNCHANGED <<where, moves, others>>

(* The kernel claims nothing that is open exclusively.                     *)
TakeIntoUse(d) ==
  /\ used < MaxUses /\ d \in Attached
  /\ \E u \in Uses \ uses[d] :
       /\ u = "claimed" => \A r \in Runs : job[r].fd # d
       /\ uses' = [uses EXCEPT ![d] = @ \cup {u}]
  /\ used' = used + 1
  /\ UNCHANGED <<where, linked, moves, job, gate, planned>>

-----------------------------------------------------------------------------
Init ==
  /\ where \in [Drives -> Places]
  /\ \A d, e \in Drives : d # e /\ where[d] # Away => where[d] # where[e]
  /\ linked = Attached
  /\ uses = [d \in Drives |-> {}] /\ moves = 0 /\ used = 0
  /\ job = [r \in Runs |-> NoRun]
  /\ gate = Closed
  /\ planned = [token |-> {}, drives |-> {}]

Child(r) ==
  \/ Probe(r) \/ Open(r) \/ CheckIdentity(r) \/ Recheck(r) \/ Write(r)
  \/ Finish(r) \/ Stop(r) \/ Vanish(r) \/ Return(r)

Next ==
  \/ Plan \/ Select \/ Confirm \/ Decline \/ Resume
  \/ \E r \in Runs : Child(r)
  \/ \E d \in Drives : PlugIn(d) \/ PullOut(d) \/ UdevLinks(d) \/ TakeIntoUse(d)

Spec == Init /\ [][Next]_vars
-----------------------------------------------------------------------------
(* Properties.                                                             *)

TypeOK ==
  /\ where \in [Drives -> Places] /\ linked \subseteq Attached
  /\ uses \in [Drives -> SUBSET Uses]
  /\ moves \in 0..MaxMoves /\ used \in 0..MaxUses
  /\ gate.for \in {"nothing", "run", "resume"}
  /\ planned.drives \subseteq Drives
  /\ \A r \in Runs :
       /\ job[r].pc \in {"none", "selected", "probed", "confirmed", "opened",
                         "checked", "writing", "away", "stopped", "over"}
       /\ job[r].fd \in Attached \cup {NoDrive}
       /\ job[r].own \in Drives \cup {NoDrive}
       /\ job[r].wrote \subseteq Drives /\ job[r].since \subseteq Uses

Writing == {r \in Runs : job[r].pc = "writing"}

(* A drive is written only as the drive the operator was shown at the      *)
(* gate: not one that has come into its bay, nor one that has got its      *)
(* kernel name, nor its twin (guarded_open, match_stored_drive).           *)
OnlyTheConfirmedIsWritten ==
  \A r \in Runs : job[r].wrote \subseteq {job[r].own}

(* Through unplugging, reconnecting and resuming, one run writes one       *)
(* drive: it never goes on with another from its checkpoint.               *)
OneRunOneDrive == \A r \in Runs : Cardinality(job[r].wrote) <= 1

(* No drive is written that the kernel has in use, nor one that the system *)
(* was configured to use when it was opened, whatever changed since the    *)
(* inventory (_recheck_eligibility).                                       *)
InUseIsLeftAlone ==
  \A r \in Writing :
    /\ job[r].fd # NoDrive => "claimed" \notin uses[job[r].fd]
    /\ job[r].since = {}

(* A token that was computed over other drives is not accepted: what is    *)
(* written under a stored token was there when it was planned -- or cannot *)
(* be told from what was (compute_token).                                  *)
TokenNamesTheDrives ==
  \A r \in Writing :
    planned.drives # {} => \E d \in planned.drives :
                             Serial(d) = Serial(job[r].own)

(* README: "SSDs, NVMe, SAS, hardware RAID volumes -- each is detected and *)
(* refused with a specific reason".                                        *)
SolidStateIsRefused == \A r \in Runs : job[r].wrote \cap Solid = {}

(* _run_pass: "surviving disconnects".  A drive that is back is gone on    *)
(* with, unless it is in use or cannot be told from another.               *)
ReturnIsSurvived ==
  [][\A r \in Runs :
       /\ job[r].pc = "checked" /\ job'[r].pc = "stopped"
       /\ job[r].wrote # {} /\ job[r].fd # NoDrive
       => uses[job[r].fd] # {}]_vars
===============================================================================
