------------------------------ MODULE Locators ------------------------------
(***************************************************************************)
(* The kernel log evidence of one run: the locator epochs _run_pass opens  *)
(* and closes (LocatorHistory), and the sweep of phase 7 over them, while  *)
(* the drive drops off the bus and comes back elsewhere, other drives take *)
(* the places it had, and the run is killed and resumed.                   *)
(*                                                                         *)
(* Time is in seconds, which is as fine as an epoch's stamps are.          *)
(***************************************************************************)
EXTENDS Naturals, Sequences

CONSTANTS
  Drives,
  Mine,      (* the run's own drive                                        *)
  Names,     (* kernel names, each with the H:C:T:L that goes with it      *)
  Ports,     (* USB port paths                                             *)
  Nowhere,   (* the place of a drive that is not attached                  *)
  MaxTime,   (* bound: seconds                                             *)
  MaxLines,  (* bound: lines of the journal                                *)
  MaxPlugs,  (* bound: drives plugged in                                   *)
  MaxOpens   (* bound: times the device is opened                          *)

ASSUME LocatorsAssumption ==
  /\ Mine \in Drives
  /\ Names \cap Ports = {} /\ Nowhere \notin Names \cup Ports
  /\ MaxTime \in Nat /\ MaxLines \in Nat
  /\ MaxPlugs \in Nat /\ MaxOpens \in Nat

VARIABLES
  clock,
  place,     (* the port and the name each drive has                       *)
  plugs,
  journal,   (* the lines that match a pattern, and of each, as history:   *)
             (* whose it is, and whether a pass was open then              *)
  pc,        (* the run is "between" passes, in a "pass", or has "swept"   *)
  lost,      (* the drive left while the pass has its descriptor           *)
  passes,    (* passes that are complete: the erase, the verify            *)
  epochs,    (* LocatorHistory.epochs                                      *)
  counted,   (* the lines the sweep counted, by position in the journal    *)
  killed     (* history: a pass was left with its epoch open               *)

bus  == <<place, plugs, journal>>
run  == <<pc, passes, epochs, counted, killed>>
vars == <<clock, bus, lost, run>>

Forever  == MaxTime + 1            \* valid_until of None
Times    == 0..MaxTime
Unplaced == [port |-> Nowhere, name |-> Nowhere]
Epochs   == [port : Ports, name : Names, from : Times, until : 0..Forever]
Lines    == [mark : Names \cup Ports, time : Times, drive : Drives,
             open : BOOLEAN]

Attached(d) == place[d] # Unplaced

-----------------------------------------------------------------------------
(* LocatorHistory.                                                         *)

(* close_current: an epoch is closed once.                                 *)
CloseCurrent ==
  [i \in DOMAIN epochs |->
     IF i = Len(epochs) /\ epochs[i].until = Forever
     THEN [epochs[i] EXCEPT !.until = clock] ELSE epochs[i]]

(* A bug: the epoch a kill left open stays open.                           *)
Bug_OpenEpoch ==
  Append(epochs, [port |-> place[Mine].port, name |-> place[Mine].name,
                  from |-> clock, until |-> Forever])

OpenEpoch ==
  Append(CloseCurrent, [port |-> place[Mine].port, name |-> place[Mine].name,
                        from |-> clock, until |-> Forever])

-----------------------------------------------------------------------------
(* _run_pass.                                                              *)

OpenPass ==
  /\ pc = "between" /\ passes < 2 /\ Attached(Mine)
  /\ Len(epochs) < MaxOpens
  /\ pc' = "pass" /\ lost' = FALSE
  /\ epochs' = OpenEpoch
  /\ UNCHANGED <<clock, bus, passes, counted, killed>>

(* A bug: the epoch is closed where the next one is opened, and only there. *)
Bug_EndPass ==
  /\ pc = "pass" /\ ~lost
  /\ pc' = "between"
  /\ passes' \in {passes, passes + 1}
  /\ UNCHANGED <<clock, bus, epochs, lost, counted, killed>>

(* The runner returns: at the end of the surface, or told to stop.         *)
EndPass ==
  /\ pc = "pass" /\ ~lost
  /\ pc' = "between"
  /\ passes' \in {passes, passes + 1}
  /\ epochs' = CloseCurrent
  /\ UNCHANGED <<clock, bus, lost, counted, killed>>

(* A bug: an epoch is opened for where the drive is now.                   *)
Bug_Vanished ==
  /\ pc = "pass" /\ lost
  /\ pc' = "between" /\ lost' = FALSE
  /\ epochs' = OpenEpoch
  /\ UNCHANGED <<clock, bus, passes, counted, killed>>

(* DeviceVanishedError, at the next request, which a pause may delay.      *)
Vanished ==
  /\ pc = "pass" /\ lost
  /\ pc' = "between" /\ lost' = FALSE
  /\ epochs' = CloseCurrent
  /\ UNCHANGED <<clock, bus, passes, counted, killed>>

(* A kill, a loss of power, or any other exception: nothing is closed, the *)
(* checkpoint holds the open epoch.  It may hold the end of the surface,   *)
(* and then the pass is not opened again.                                  *)
Die ==
  /\ pc = "pass"
  /\ pc' = "between" /\ lost' = FALSE
  /\ passes' \in {passes, passes + 1}
  /\ killed' = TRUE
  /\ UNCHANGED <<clock, bus, epochs, counted>>

-----------------------------------------------------------------------------
(* kernlog.sweep.                                                          *)

(* A bug: --until is the stamp itself.                                     *)
Bug_InWindow(line, e) == e.from <= line.time /\ line.time < e.until

(* journalctl --since the one stamp --until a second past the other; the   *)
(* latter excludes its bound.  An open epoch has no --until.               *)
InWindow(line, e) == e.from <= line.time /\ line.time < e.until + 1

(* _line_matches_epoch                                                     *)
MatchesEpoch(line, e) == line.mark \in {e.port, e.name}

Sweep ==
  /\ pc = "between" /\ passes = 2
  /\ pc' = "swept"
  /\ counted' = {i \in DOMAIN journal :
                   \E j \in DOMAIN epochs :
                     /\ InWindow(journal[i], epochs[j])
                     /\ MatchesEpoch(journal[i], epochs[j])}
  /\ UNCHANGED <<clock, bus, lost, passes, epochs, killed>>

-----------------------------------------------------------------------------
(* The kernel and the bus.                                                 *)

Ongoing == pc # "swept"

Says(d, mark) ==
  /\ Len(journal) < MaxLines
  /\ journal' = Append(journal, [mark |-> mark, time |-> clock, drive |-> d,
                                 open |-> pc = "pass" /\ ~(d = Mine /\ lost)])

Tick ==
  /\ Ongoing /\ clock < MaxTime
  /\ clock' = clock + 1
  /\ UNCHANGED <<bus, lost, run>>

(* A fault of a drive or its link: block lines carry the name, bus lines   *)
(* the port.                                                               *)
Fault(d) ==
  /\ Ongoing /\ Attached(d)
  /\ \E mark \in {place[d].name, place[d].port} : Says(d, mark)
  /\ UNCHANGED <<clock, place, plugs, lost, run>>

(* "usb 2-1.4: USB disconnect"                                             *)
Unplug(d) ==
  /\ Ongoing /\ Attached(d)
  /\ Says(d, place[d].port)
  /\ place' = [place EXCEPT ![d] = Unplaced]
  /\ lost' = (lost \/ (d = Mine /\ pc = "pass"))
  /\ UNCHANGED <<clock, plugs, run>>

(* The kernel gives no name away that an open descriptor still has.        *)
FreePorts == Ports \ {place[d].port : d \in Drives}
FreeNames ==
  Names \ ({place[d].name : d \in Drives}
             \cup IF pc = "pass" THEN {epochs[Len(epochs)].name} ELSE {})

Plug(d) ==
  /\ Ongoing /\ ~Attached(d) /\ plugs < MaxPlugs
  /\ \E port \in FreePorts, name \in FreeNames :
       place' = [place EXCEPT ![d] = [port |-> port, name |-> name]]
  /\ plugs' = plugs + 1
  /\ UNCHANGED <<clock, journal, lost, run>>

-----------------------------------------------------------------------------
Init ==
  /\ clock = 0 /\ plugs = 0 /\ journal = <<>>
  /\ \E port \in Ports, name \in Names :
       place = [d \in Drives |-> IF d = Mine THEN [port |-> port, name |-> name]
                                 ELSE Unplaced]
  /\ pc = "between" /\ lost = FALSE /\ passes = 0
  /\ epochs = <<>> /\ counted = {} /\ killed = FALSE

Next ==
  \/ OpenPass \/ EndPass \/ Vanished \/ Die \/ Sweep \/ Tick
  \/ \E d \in Drives : Fault(d) \/ Unplug(d) \/ Plug(d)

Spec == Init /\ [][Next]_vars
-----------------------------------------------------------------------------
(* Properties.                                                             *)

TypeOK ==
  /\ clock \in Times /\ plugs \in 0..MaxPlugs
  /\ place \in [Drives -> [port : Ports, name : Names] \cup {Unplaced}]
  /\ journal \in Seq(Lines) /\ Len(journal) <= MaxLines
  /\ pc \in {"between", "pass", "swept"} /\ {lost, killed} \subseteq BOOLEAN
  /\ passes \in 0..2
  /\ epochs \in Seq(Epochs) /\ counted \subseteq DOMAIN journal

(* The epochs follow one another in time and only the last may be open, so *)
(* what two of them share is the second in which one gave way to the next. *)
EpochsFollowOneAnother ==
  \A i, j \in DOMAIN epochs : i < j => epochs[i].until <= epochs[j].from

(* Whatever the kernel logged of the drive while a pass had it open is in  *)
(* the report -- the disconnect that ended the epoch, and what it said     *)
(* under another name after it came back, or before the run was killed:    *)
(* the sweep "is anchored on a LIST of locator epochs" so as not to        *)
(* "silently under-report exactly the I/O errors".                         *)
OwnFaultsAreCounted ==
  pc = "swept" =>
    \A i \in DOMAIN journal :
      journal[i].drive = Mine /\ journal[i].open => i \in counted

(* A line of another drive is in the report only if it was logged while a  *)
(* pass was open, or in the second an epoch began or ended: not one of the *)
(* drive that has its name, or its port, while it is away or between the   *)
(* passes.                                                                 *)
Borderline(line) ==
  line.open \/ \E j \in DOMAIN epochs :
                 line.time \in {epochs[j].from, epochs[j].until}

OnlyOwnFaultsAreCounted ==
  pc = "swept" /\ ~killed =>
    \A i \in counted : journal[i].drive = Mine \/ Borderline(journal[i])

(* The same of a run that was killed: the bound on each window "is what    *)
(* keeps a reused kernel name from pulling in another drive's messages".   *)
KilledOrNot ==
  pc = "swept" =>
    \A i \in counted : journal[i].drive = Mine \/ Borderline(journal[i])
=============================================================================
