---------------------------- MODULE Locators_proofs ----------------------------
(***************************************************************************)
(* What the sweep finds, for any number of drives, names, ports, openings, *)
(* lines and seconds.                                                      *)
(***************************************************************************)
EXTENDS Locators, TLAPS

USE LocatorsAssumption

(* close_current changes one thing, of one epoch.                          *)
LEMMA Closing ==
  ASSUME TypeOK
  PROVE  /\ CloseCurrent \in Seq(Epochs) /\ Len(CloseCurrent) = Len(epochs)
         /\ DOMAIN CloseCurrent = DOMAIN epochs
         /\ \A i \in DOMAIN epochs :
              /\ CloseCurrent[i].port = epochs[i].port
              /\ CloseCurrent[i].name = epochs[i].name
              /\ CloseCurrent[i].from = epochs[i].from
              /\ CloseCurrent[i].until =
                   IF i = Len(epochs) /\ epochs[i].until = Forever THEN clock
                   ELSE epochs[i].until
<1>1. /\ epochs \in Seq(Epochs) /\ clock \in 0..Forever
      /\ DOMAIN epochs = 1..Len(epochs) /\ Len(epochs) \in Nat
      /\ \A i \in DOMAIN epochs : epochs[i] \in Epochs
  BY DEF TypeOK, Times, Forever
<1>2. ASSUME NEW i \in DOMAIN epochs
      PROVE  /\ CloseCurrent[i] \in Epochs
             /\ CloseCurrent[i].port = epochs[i].port
             /\ CloseCurrent[i].name = epochs[i].name
             /\ CloseCurrent[i].from = epochs[i].from
             /\ CloseCurrent[i].until =
                  IF i = Len(epochs) /\ epochs[i].until = Forever THEN clock
                  ELSE epochs[i].until
  BY <1>1 DEF CloseCurrent, Epochs
<1>3. CloseCurrent \in Seq(Epochs) /\ Len(CloseCurrent) = Len(epochs)
      /\ DOMAIN CloseCurrent = DOMAIN epochs
  <2>1. DOMAIN CloseCurrent = 1..Len(epochs)
    BY <1>1 DEF CloseCurrent
  <2>2. CloseCurrent \in [1..Len(epochs) -> Epochs]
    BY <1>1, <1>2 DEF CloseCurrent
  <2>3. CloseCurrent \in Seq(Epochs)
    BY <1>1, <2>2
  <2> QED BY <1>1, <2>1, <2>3
<1> QED BY <1>2, <1>3

(* The epoch that is opened is the last one.                               *)
LEMMA Opening ==
  ASSUME TypeOK, Attached(Mine)
  PROVE  /\ OpenEpoch \in Seq(Epochs) /\ Len(OpenEpoch) = Len(epochs) + 1
         /\ \A i \in DOMAIN epochs : OpenEpoch[i] = CloseCurrent[i]
         /\ LET e == OpenEpoch[Len(epochs) + 1]
            IN /\ e.port = place[Mine].port /\ e.name = place[Mine].name
               /\ e.from = clock /\ e.until = Forever
<1> DEFINE e == [port |-> place[Mine].port, name |-> place[Mine].name,
                 from |-> clock, until |-> Forever]
<1>1. e \in Epochs
  BY DEF TypeOK, Attached, Epochs, Times, Forever
<1>2. OpenEpoch = Append(CloseCurrent, e)
  BY DEF OpenEpoch
<1> HIDE DEF e
<1>3. /\ OpenEpoch \in Seq(Epochs) /\ Len(OpenEpoch) = Len(epochs) + 1
      /\ OpenEpoch[Len(epochs) + 1] = e
      /\ \A i \in 1..Len(CloseCurrent) : OpenEpoch[i] = CloseCurrent[i]
  BY <1>1, <1>2, Closing
<1>4. \A i \in DOMAIN epochs : i \in 1..Len(CloseCurrent)
  BY Closing DEF TypeOK
<1> QED BY <1>3, <1>4 DEF e

-----------------------------------------------------------------------------
(* A third pass is never opened.                                           *)
TypeInv == TypeOK /\ (pc = "pass" => passes < 2)

LEMMA TypeInit == Init => TypeInv
<1> SUFFICES ASSUME Init PROVE TypeInv
  OBVIOUS
<1>1. place \in [Drives -> [port : Ports, name : Names] \cup {Unplaced}]
  BY DEF Init
<1>2. epochs \in Seq(Epochs)
  BY DEF Init
<1>3. journal \in Seq(Lines) /\ Len(journal) <= MaxLines
  BY DEF Init
<1>4. clock \in Times /\ plugs \in 0..MaxPlugs
  BY DEF Init, Times
<1>5. passes \in 0..2
  BY DEF Init
<1>8. {lost, killed} \subseteq BOOLEAN
  BY DEF Init
<1>7. pc \in {"between", "pass", "swept"} /\ pc # "pass"
  BY DEF Init
<1>6. counted \subseteq DOMAIN journal
  BY DEF Init
<1> QED BY <1>1, <1>2, <1>3, <1>4, <1>5, <1>6, <1>7, <1>8 DEF TypeOK, TypeInv

LEMMA Said ==
  ASSUME TypeOK, NEW d \in Drives, NEW mark \in Names \cup Ports, Says(d, mark)
  PROVE  /\ journal' \in Seq(Lines) /\ Len(journal') = Len(journal) + 1
         /\ Len(journal') <= MaxLines
         /\ \A i \in DOMAIN journal : journal'[i] = journal[i]
         /\ LET line == journal'[Len(journal) + 1]
            IN /\ line.mark = mark /\ line.time = clock /\ line.drive = d
               /\ line.open = (pc = "pass" /\ ~(d = Mine /\ lost))
<1> DEFINE line == [mark |-> mark, time |-> clock, drive |-> d,
                    open |-> pc = "pass" /\ ~(d = Mine /\ lost)]
<1>1. line \in Lines
  BY DEF TypeOK, Lines
<1>2. journal' = Append(journal, line) /\ Len(journal) < MaxLines
  BY DEF Says
<1>l. /\ line.mark = mark /\ line.time = clock /\ line.drive = d
      /\ line.open = (pc = "pass" /\ ~(d = Mine /\ lost))
  OBVIOUS
<1> HIDE DEF line
<1>3. /\ journal' \in Seq(Lines) /\ Len(journal') = Len(journal) + 1
      /\ journal'[Len(journal) + 1] = line
      /\ \A i \in DOMAIN journal : journal'[i] = journal[i]
  BY <1>1, <1>2 DEF TypeOK
<1> QED BY <1>2, <1>3, <1>l DEF TypeOK

LEMMA TypeStep == TypeInv /\ [Next]_vars => TypeInv'
<1> SUFFICES ASSUME TypeInv, [Next]_vars PROVE TypeInv'
  OBVIOUS
<1>t. TypeOK /\ (pc = "pass" => passes < 2)
  BY DEF TypeInv
<1>p. ASSUME NEW x \in {passes, passes + 1}, pc = "pass" PROVE x \in 0..2
  BY <1>t, <1>t, <1>p DEF TypeOK, TypeInv
<1>1. CASE UNCHANGED vars
  BY <1>1, <1>t DEF vars, bus, run, TypeOK, TypeInv
<1>2. CASE OpenPass
  BY <1>t, <1>2, Opening DEF OpenPass, bus, TypeOK, TypeInv
<1>3. CASE EndPass
  <2>1. passes' \in 0..2
    BY <1>3, <1>p DEF EndPass
  <2> QED BY <1>t, <1>3, <2>1, Closing DEF EndPass, bus, TypeOK, TypeInv
<1>4. CASE Vanished
  BY <1>t, <1>4, Closing DEF Vanished, bus, TypeOK, TypeInv
<1>5. CASE Die
  <2>1. passes' \in 0..2
    BY <1>5, <1>p DEF Die
  <2> QED BY <1>5, <1>t, <2>1 DEF Die, bus, TypeOK, TypeInv
<1>6. CASE Sweep
  BY <1>t, <1>6 DEF Sweep, bus, TypeOK, TypeInv
<1>7. CASE Tick
  BY <1>t, <1>7 DEF Tick, bus, run, TypeOK, TypeInv, Times
<1>8. ASSUME NEW d \in Drives, Fault(d) PROVE TypeInv'
  <2>1. PICK mark \in {place[d].name, place[d].port} : Says(d, mark)
    BY <1>8 DEF Fault
  <2>2. mark \in Names \cup Ports
    BY <1>t, <1>8, <2>1 DEF Fault, Attached, TypeOK
  <2>3. journal' \in Seq(Lines) /\ Len(journal') <= MaxLines
        /\ DOMAIN journal \subseteq DOMAIN journal'
    BY <1>t, <2>1, <2>2, Said DEF TypeOK
  <2> QED BY <1>t, <1>8, <2>3 DEF Fault, run, TypeOK, TypeInv
<1>9. ASSUME NEW d \in Drives, Unplug(d) PROVE TypeInv'
  <2>2. place[d].port \in Names \cup Ports /\ Says(d, place[d].port)
    BY <1>t, <1>9 DEF Unplug, Attached, TypeOK
  <2>3. journal' \in Seq(Lines) /\ Len(journal') <= MaxLines
        /\ DOMAIN journal \subseteq DOMAIN journal'
    BY <1>t, <2>2, Said DEF TypeOK
  <2>4. place' \in [Drives -> [port : Ports, name : Names] \cup {Unplaced}]
    BY <1>t, <1>9 DEF Unplug, TypeOK
  <2>5. lost' \in BOOLEAN
    BY <1>t, <1>9 DEF Unplug, TypeOK
  <2> QED BY <1>t, <1>9, <2>3, <2>4, <2>5 DEF Unplug, run, TypeOK, TypeInv
<1>10. ASSUME NEW d \in Drives, Plug(d) PROVE TypeInv'
  <2>1. place' \in [Drives -> [port : Ports, name : Names] \cup {Unplaced}]
    BY <1>t, <1>10 DEF Plug, TypeOK, FreePorts, FreeNames
  <2>2. plugs' \in 0..MaxPlugs
    BY <1>t, <1>10 DEF Plug, TypeOK
  <2> QED BY <1>t, <1>10, <2>1, <2>2 DEF Plug, run, TypeOK, TypeInv
<1> QED BY <1>1, <1>2, <1>3, <1>4, <1>5, <1>6, <1>7, <1>8, <1>9, <1>10 DEF Next

(* Every variable keeps its type.                                          *)
THEOREM TypeCorrect == Spec => []TypeOK
<1>1. TypeInv => TypeOK
  BY DEF TypeInv
<1> QED BY <1>1, TypeInit, TypeStep, PTL DEF Spec

-----------------------------------------------------------------------------
(* The epochs up to now: only the last may be open, and it is if a pass    *)
(* is; a pass that has its drive is where the epoch says.                  *)
EpochInv ==
  /\ \A i \in DOMAIN epochs :
       /\ epochs[i].from <= clock
       /\ epochs[i].until <= clock \/ (i = Len(epochs) /\ epochs[i].until = Forever)
  /\ EpochsFollowOneAnother
  /\ pc = "pass" =>
       /\ Len(epochs) # 0 /\ epochs[Len(epochs)].until = Forever
       /\ ~lost => /\ epochs[Len(epochs)].port = place[Mine].port
                   /\ epochs[Len(epochs)].name = place[Mine].name
                   /\ Attached(Mine)

LEMMA EpochStep == TypeOK /\ EpochInv /\ [Next]_vars => EpochInv'
<1> SUFFICES ASSUME TypeOK, EpochInv, [Next]_vars PROVE EpochInv'
  OBVIOUS
<1>t. /\ Len(epochs) \in Nat /\ DOMAIN epochs = 1..Len(epochs)
      /\ clock \in Nat /\ MaxTime \in Nat /\ clock < Forever
      /\ \A i \in DOMAIN epochs : epochs[i].from \in Nat /\ epochs[i].until \in Nat
  <2>1. Len(epochs) \in Nat /\ DOMAIN epochs = 1..Len(epochs)
        /\ \A i \in DOMAIN epochs : epochs[i] \in Epochs
    BY DEF TypeOK
  <2>2. clock \in Nat /\ MaxTime \in Nat /\ clock < Forever
    BY DEF TypeOK, Times, Forever
  <2>3. \A i \in DOMAIN epochs : epochs[i].from \in Nat /\ epochs[i].until \in Nat
    BY <2>1 DEF Epochs, Times, Forever
  <2> QED BY <2>1, <2>2, <2>3
<1>k. ASSUME UNCHANGED <<clock, epochs, pc, lost>>,
             pc = "pass" /\ ~lost => place'[Mine] = place[Mine]
      PROVE  EpochInv'
  BY <1>k DEF EpochInv, EpochsFollowOneAnother, Attached
<1>c. ASSUME epochs' = CloseCurrent, UNCHANGED clock, pc' # "pass"
      PROVE  EpochInv'
  <2>1. ASSUME NEW i \in DOMAIN epochs
        PROVE  epochs'[i].from = epochs[i].from /\ epochs'[i].until <= clock
               /\ (i # Len(epochs) => epochs'[i].until = epochs[i].until)
    BY <1>t, <1>c, Closing DEF EpochInv
  <2>2. DOMAIN epochs' = DOMAIN epochs
    BY <1>c, Closing
  <2>3. \A i \in DOMAIN epochs : epochs'[i].from <= clock /\ epochs'[i].until <= clock
    BY <2>1 DEF EpochInv
  <2>4. EpochsFollowOneAnother'
    BY <1>t, <2>1, <2>2 DEF EpochInv, EpochsFollowOneAnother
  <2> QED BY <1>c, <2>2, <2>3, <2>4 DEF EpochInv
<1>1. CASE UNCHANGED vars
  BY <1>1, <1>k DEF vars, bus, run
<1>2. CASE OpenPass
  <2> DEFINE n == Len(epochs) + 1
  <2>1. /\ Len(epochs') = n /\ DOMAIN epochs' = 1..n
        /\ \A i \in 1..Len(epochs) : epochs'[i] = CloseCurrent[i]
        /\ epochs'[n].port = place[Mine].port /\ epochs'[n].name = place[Mine].name
        /\ epochs'[n].from = clock /\ epochs'[n].until = Forever
    BY <1>2, <1>t, Opening DEF OpenPass
  <2>2. ASSUME NEW i \in 1..Len(epochs)
        PROVE  epochs'[i].from = epochs[i].from /\ epochs'[i].until <= clock
               /\ (i # Len(epochs) => epochs'[i].until = epochs[i].until)
    <3>1. i \in DOMAIN epochs /\ epochs'[i] = CloseCurrent[i]
      BY <1>t, <2>1
    <3>2. /\ CloseCurrent[i].from = epochs[i].from
          /\ CloseCurrent[i].until =
               IF i = Len(epochs) /\ epochs[i].until = Forever THEN clock
               ELSE epochs[i].until
      BY <3>1, Closing
    <3>3. epochs[i].until <= clock \/ (i = Len(epochs) /\ epochs[i].until = Forever)
      BY <3>1 DEF EpochInv
    <3> QED BY <1>t, <3>1, <3>2, <3>3
  <2>3. UNCHANGED <<clock, place>> /\ pc' = "pass" /\ ~lost' /\ Attached(Mine)
    BY <1>2 DEF OpenPass, bus
  <2>4. EpochsFollowOneAnother'
    <3> SUFFICES ASSUME NEW i \in 1..n, NEW j \in 1..n, i < j
                 PROVE  epochs'[i].until <= epochs'[j].from
      BY <2>1 DEF EpochsFollowOneAnother
    <3>1. Len(epochs) \in Nat
      BY <1>t
    <3>2. i \in 1..Len(epochs)
      BY <3>1
    <3>3. CASE j = n
      BY <2>1, <2>2, <3>2, <3>3
    <3>4. CASE j # n
      <4>1. j \in 1..Len(epochs) /\ i # Len(epochs)
        BY <3>1, <3>4
      <4>2. epochs[i].until <= epochs[j].from
        BY <1>t, <3>2, <4>1 DEF EpochInv, EpochsFollowOneAnother
      <4> QED BY <2>2, <3>2, <4>1, <4>2
    <3> QED BY <3>3, <3>4
  <2>5. \A i \in DOMAIN epochs' :
          /\ epochs'[i].from <= clock
          /\ epochs'[i].until <= clock \/ (i = n /\ epochs'[i].until = Forever)
    <3>1. ASSUME NEW i \in 1..Len(epochs)
          PROVE  epochs'[i].from <= clock /\ epochs'[i].until <= clock
      BY <1>t, <2>2 DEF EpochInv
    <3>2. \A i \in 1..n : i \in 1..Len(epochs) \/ i = n
      BY <1>t
    <3> QED BY <1>t, <2>1, <3>1, <3>2
  <2> QED BY <1>t, <2>1, <2>3, <2>4, <2>5 DEF EpochInv, Attached, Forever
<1>3. CASE EndPass \/ Vanished
  BY <1>3, <1>c DEF EndPass, Vanished
<1>4. CASE Die
  BY <1>4 DEF Die, EpochInv, EpochsFollowOneAnother
<1>5. CASE Sweep
  BY <1>5 DEF Sweep, EpochInv, EpochsFollowOneAnother
<1>6. CASE Tick
  <2>1. clock' = clock + 1 /\ UNCHANGED <<epochs, pc, lost, place>>
    BY <1>6 DEF Tick, bus, run
  <2> QED BY <1>t, <2>1 DEF EpochInv, EpochsFollowOneAnother, Attached
<1>7. ASSUME NEW d \in Drives, Fault(d) PROVE EpochInv'
  BY <1>7, <1>k DEF Fault, run
<1>8. ASSUME NEW d \in Drives, Plug(d) PROVE EpochInv'
  <2>1. pc = "pass" /\ ~lost => d # Mine
    BY <1>8 DEF Plug, EpochInv
  <2>2. d # Mine => place'[Mine] = place[Mine]
    BY <1>8 DEF Plug, TypeOK
  <2> QED BY <1>8, <2>1, <2>2, <1>k DEF Plug, run
<1>9. ASSUME NEW d \in Drives, Unplug(d) PROVE EpochInv'
  <2>1. CASE d = Mine /\ pc = "pass"
    BY <1>9, <2>1 DEF Unplug, run, EpochInv, EpochsFollowOneAnother, TypeOK
  <2>2. CASE d = Mine /\ pc # "pass"
    BY <1>9, <2>2 DEF Unplug, run, EpochInv, EpochsFollowOneAnother
  <2>3. CASE d # Mine
    <3>1. place'[Mine] = place[Mine] /\ lost' = lost
      BY <1>9, <2>3 DEF Unplug, TypeOK
    <3> QED BY <1>9, <3>1, <1>k DEF Unplug, run
  <2> QED BY <2>1, <2>2, <2>3
<1> QED BY <1>1, <1>2, <1>3, <1>4, <1>5, <1>6, <1>7, <1>8, <1>9 DEF Next

LEMMA EpochsInv == Spec => [](TypeOK /\ EpochInv)
<1>1. Init => EpochInv
  BY DEF Init, EpochInv, EpochsFollowOneAnother
<1> QED BY <1>1, TypeCorrect, EpochStep, PTL DEF Spec

(* However the run is interrupted, an epoch ends before the next begins.   *)
THEOREM EpochsFollow == Spec => []EpochsFollowOneAnother
<1>1. EpochInv => EpochsFollowOneAnother
  BY DEF EpochInv
<1> QED BY <1>1, EpochsInv, PTL

-----------------------------------------------------------------------------
(* A line is covered by an epoch whose window and place are its own.       *)
Covers(line, e) ==
  e.from <= line.time /\ line.time <= e.until /\ line.mark \in {e.port, e.name}

(* A line is outside an epoch, but for the seconds it begins and ends.     *)
Outside(line, e) == line.time <= e.from \/ e.until <= line.time

(* Nothing that was said of the drive is beyond its epochs.                *)
OwnInv ==
  /\ \A i \in DOMAIN journal : journal[i].time <= clock
  /\ \A i \in DOMAIN journal :
       journal[i].drive = Mine /\ journal[i].open =>
         \E j \in DOMAIN epochs : Covers(journal[i], epochs[j])
  /\ OwnFaultsAreCounted

(* A run that is not killed has no epoch open between its passes, so what  *)
(* is said of others then is outside them all.                             *)
OthersInv ==
  /\ ~killed =>
       /\ pc # "pass" => \A j \in DOMAIN epochs : epochs[j].until <= clock
       /\ \A i \in DOMAIN journal, j \in DOMAIN epochs :
            journal[i].drive # Mine /\ ~journal[i].open =>
              Outside(journal[i], epochs[j])
  /\ OnlyOwnFaultsAreCounted

LEMMA Numbers ==
  ASSUME TypeOK
  PROVE  /\ Len(epochs) \in Nat /\ DOMAIN epochs = 1..Len(epochs)
         /\ Len(journal) \in Nat /\ DOMAIN journal = 1..Len(journal)
         /\ clock \in Nat /\ clock < Forever /\ Forever \in Nat
         /\ \A i \in DOMAIN epochs : epochs[i].from \in Nat /\ epochs[i].until \in Nat
         /\ \A i \in DOMAIN journal : journal[i].time \in Nat
<1>1. /\ \A i \in DOMAIN epochs : epochs[i] \in Epochs
      /\ \A i \in DOMAIN journal : journal[i] \in Lines
  BY DEF TypeOK
<1>2. clock \in Nat /\ clock < Forever /\ Forever \in Nat
  BY DEF TypeOK, Times, Forever
<1>3. \A i \in DOMAIN epochs : epochs[i].from \in Nat /\ epochs[i].until \in Nat
  BY <1>1 DEF Epochs, Times, Forever
<1>4. \A i \in DOMAIN journal : journal[i].time \in Nat
  BY <1>1 DEF Lines, Times
<1>5. /\ Len(epochs) \in Nat /\ DOMAIN epochs = 1..Len(epochs)
      /\ Len(journal) \in Nat /\ DOMAIN journal = 1..Len(journal)
  BY DEF TypeOK
<1> QED BY <1>2, <1>3, <1>4, <1>5

(* Closing an epoch takes no line of the past out of it, nor one in.       *)
LEMMA ClosingKeeps ==
  ASSUME TypeOK, NEW line, line.time \in Nat, line.time <= clock,
         NEW j \in DOMAIN epochs
  PROVE  /\ Covers(line, epochs[j]) => Covers(line, CloseCurrent[j])
         /\ Outside(line, epochs[j]) => Outside(line, CloseCurrent[j])
<1>1. /\ CloseCurrent[j].port = epochs[j].port
      /\ CloseCurrent[j].name = epochs[j].name
      /\ CloseCurrent[j].from = epochs[j].from
      /\ CloseCurrent[j].until =
           IF j = Len(epochs) /\ epochs[j].until = Forever THEN clock
           ELSE epochs[j].until
  BY Closing
<1>2. epochs[j].from \in Nat /\ epochs[j].until \in Nat /\ clock \in Nat
      /\ clock < Forever /\ Forever \in Nat
  BY Numbers
<1> QED BY <1>1, <1>2 DEF Covers, Outside

(* What a step does to the epochs, seen from a line of the past: it stays  *)
(* covered, and it stays outside.                                          *)
LEMMA EpochsKeep ==
  ASSUME TypeOK, Next, NEW line, line.time \in Nat, line.time <= clock
  PROVE  /\ (\E j \in DOMAIN epochs : Covers(line, epochs[j])) =>
              \E j \in DOMAIN epochs' : Covers(line, epochs'[j])
         /\ (\A j \in DOMAIN epochs : Outside(line, epochs[j])) =>
              \A j \in DOMAIN epochs' : Outside(line, epochs'[j])
<1>1. CASE epochs' = epochs
  BY <1>1
<1>2. CASE epochs' = CloseCurrent
  <2>1. DOMAIN epochs' = DOMAIN epochs
    BY <1>2, Closing
  <2> QED BY <1>2, <2>1, ClosingKeeps
<1>3. CASE OpenPass
  <2> DEFINE n == Len(epochs) + 1
  <2>1. /\ Len(OpenEpoch) = n /\ OpenEpoch \in Seq(Epochs)
        /\ \A j \in DOMAIN epochs : OpenEpoch[j] = CloseCurrent[j]
        /\ OpenEpoch[n].from = clock
    BY <1>3, Opening DEF OpenPass
  <2>2. epochs' = OpenEpoch
    BY <1>3 DEF OpenPass
  <2>3. DOMAIN epochs' = 1..n
    BY <2>1, <2>2
  <2>4. DOMAIN epochs = 1..Len(epochs) /\ Len(epochs) \in Nat
    BY Numbers
  <2>5. \A j \in DOMAIN epochs : j \in 1..n
    BY <2>4
  <2>6. \A j \in 1..n : j \in DOMAIN epochs \/ j = n
    BY <2>4
  <2>7. Outside(line, epochs'[n])
    BY <2>1, <2>2 DEF Outside
  <2> QED BY <2>1, <2>2, <2>3, <2>5, <2>6, <2>7, ClosingKeeps
<1> QED BY <1>1, <1>2, <1>3 DEF Next, EndPass, Vanished, Die, Sweep, Tick, Fault,
           Unplug, Plug, run

(* What a step does to the journal: nothing, or one line, of this second.  *)
LEMMA JournalKeeps ==
  ASSUME TypeOK, Next
  PROVE  \/ journal' = journal
         \/ \E d \in Drives : \E mark \in {place[d].name, place[d].port} :
              /\ Attached(d) /\ Says(d, mark) /\ mark \in Names \cup Ports
              /\ UNCHANGED <<clock, run>>
<1>1. ASSUME NEW d \in Drives, Attached(d)
      PROVE  place[d].name \in Names \cup Ports /\ place[d].port \in Names \cup Ports
  BY <1>1 DEF Attached, TypeOK
<1>2. ASSUME NEW d \in Drives, Fault(d) \/ Unplug(d)
      PROVE  \E mark \in {place[d].name, place[d].port} :
               /\ Attached(d) /\ Says(d, mark) /\ mark \in Names \cup Ports
               /\ UNCHANGED <<clock, run>>
  BY <1>1, <1>2 DEF Fault, Unplug
<1> QED BY <1>2 DEF Next, OpenPass, EndPass, Vanished, Die, Sweep, Tick, Plug, bus

(* The lines after a step: those before, and of this second one at most.   *)
LEMMA NewLine ==
  ASSUME TypeOK, Next, \A i \in DOMAIN journal : journal[i].time <= clock
  PROVE  /\ \A i \in DOMAIN journal' : journal'[i].time <= clock'
         /\ \A i \in DOMAIN journal : i \in DOMAIN journal' /\ journal'[i] = journal[i]
         /\ \A i \in DOMAIN journal' \ DOMAIN journal :
              /\ UNCHANGED <<clock, run>> /\ Attached(journal'[i].drive)
              /\ journal'[i].time = clock
              /\ journal'[i].mark \in {place[journal'[i].drive].name,
                                       place[journal'[i].drive].port}
              /\ journal'[i].open =
                   (pc = "pass" /\ ~(journal'[i].drive = Mine /\ lost))
<1>1. clock \in Nat /\ clock' \in Nat /\ clock <= clock'
  <2>1. clock' = clock \/ clock' = clock + 1
    BY DEF Next, OpenPass, EndPass, Vanished, Die, Sweep, Tick, Fault, Unplug, Plug
  <2> QED BY <2>1, Numbers
<1>2. CASE journal' = journal
  BY <1>1, <1>2, Numbers
<1>3. ASSUME NEW d \in Drives, NEW mark \in {place[d].name, place[d].port},
             Attached(d), Says(d, mark), mark \in Names \cup Ports,
             UNCHANGED <<clock, run>>
      PROVE  /\ \A i \in DOMAIN journal' : journal'[i].time <= clock'
             /\ \A i \in DOMAIN journal :
                  i \in DOMAIN journal' /\ journal'[i] = journal[i]
             /\ \A i \in DOMAIN journal' \ DOMAIN journal :
                  /\ i = Len(journal) + 1 /\ journal'[i].drive = d
                  /\ journal'[i].time = clock /\ journal'[i].mark = mark
                  /\ journal'[i].open = (pc = "pass" /\ ~(d = Mine /\ lost))
  <2>1. /\ journal' \in Seq(Lines) /\ Len(journal') = Len(journal) + 1
        /\ \A i \in DOMAIN journal : journal'[i] = journal[i]
        /\ journal'[Len(journal) + 1].mark = mark
        /\ journal'[Len(journal) + 1].time = clock
        /\ journal'[Len(journal) + 1].drive = d
        /\ journal'[Len(journal) + 1].open = (pc = "pass" /\ ~(d = Mine /\ lost))
    BY <1>3, Said
  <2>2. DOMAIN journal = 1..Len(journal) /\ Len(journal) \in Nat
    BY Numbers
  <2>3. DOMAIN journal' = 1..Len(journal) + 1
    BY <2>1
  <2>4. \A i \in DOMAIN journal' : i \in DOMAIN journal \/ i = Len(journal) + 1
    BY <2>2, <2>3
  <2>5. \A i \in DOMAIN journal : i \in DOMAIN journal'
    BY <2>2, <2>3
  <2>6. \A i \in DOMAIN journal' : journal'[i].time <= clock'
    BY <1>1, <1>3, <2>1, <2>4
  <2> QED BY <2>1, <2>4, <2>5, <2>6
<1>4. CASE journal' # journal
  <2>1. PICK d \in Drives : \E mark \in {place[d].name, place[d].port} :
          /\ Attached(d) /\ Says(d, mark) /\ mark \in Names \cup Ports
          /\ UNCHANGED <<clock, run>>
    BY <1>4, JournalKeeps
  <2>2. PICK mark \in {place[d].name, place[d].port} :
          /\ Attached(d) /\ Says(d, mark) /\ mark \in Names \cup Ports
          /\ UNCHANGED <<clock, run>>
    BY <2>1
  <2> QED BY <2>2, <1>3
<1> QED BY <1>2, <1>4

LEMMA OwnStep == TypeOK /\ EpochInv /\ OwnInv /\ [Next]_vars => OwnInv'
<1> SUFFICES ASSUME TypeOK, EpochInv, OwnInv, [Next]_vars PROVE OwnInv'
  OBVIOUS
<1>1. CASE UNCHANGED vars
  BY <1>1 DEF vars, bus, run, OwnInv, OwnFaultsAreCounted
<1>2. CASE Next
  <2>t. \A i \in DOMAIN journal : journal[i].time <= clock
    BY DEF OwnInv
  <2>1. /\ \A i \in DOMAIN journal' : journal'[i].time <= clock'
        /\ \A i \in DOMAIN journal : i \in DOMAIN journal' /\ journal'[i] = journal[i]
    BY <1>2, <2>t, NewLine
  <2>2. ASSUME NEW i \in DOMAIN journal', journal'[i].drive = Mine, journal'[i].open
        PROVE  \E j \in DOMAIN epochs' : Covers(journal'[i], epochs'[j])
    <3>1. CASE i \in DOMAIN journal
      <4>1. journal'[i] = journal[i] /\ journal[i].time \in Nat /\ journal[i].time <= clock
        BY <2>1, <2>t, <3>1, Numbers
      <4>2. \E j \in DOMAIN epochs : Covers(journal[i], epochs[j])
        BY <2>2, <3>1, <4>1 DEF OwnInv
      <4> QED BY <1>2, <4>1, <4>2, EpochsKeep
    <3>2. CASE i \notin DOMAIN journal
      <4>1. /\ UNCHANGED run /\ journal'[i].time = clock
            /\ journal'[i].mark \in {place[Mine].name, place[Mine].port}
            /\ pc = "pass" /\ ~lost
        BY <1>2, <2>t, <2>2, <3>2, NewLine
      <4>2. LET e == epochs[Len(epochs)]
            IN  /\ Len(epochs) # 0 /\ e.until = Forever /\ e.from <= clock
                /\ e.port = place[Mine].port /\ e.name = place[Mine].name
                /\ Len(epochs) \in DOMAIN epochs
        BY <4>1, Numbers DEF EpochInv
      <4>3. Covers(journal'[i], epochs[Len(epochs)])
        BY <4>1, <4>2, Numbers DEF Covers
      <4> QED BY <4>1, <4>2, <4>3 DEF run
    <3> QED BY <3>1, <3>2
  <2>3. OwnFaultsAreCounted'
    <3>1. CASE Sweep
      <4> SUFFICES ASSUME NEW i \in DOMAIN journal,
                          journal[i].drive = Mine, journal[i].open
                   PROVE  i \in counted'
        BY <3>1 DEF Sweep, bus, OwnFaultsAreCounted
      <4>1. PICK j \in DOMAIN epochs : Covers(journal[i], epochs[j])
        BY DEF OwnInv
      <4>2. InWindow(journal[i], epochs[j]) /\ MatchesEpoch(journal[i], epochs[j])
        BY <4>1, Numbers DEF Covers, InWindow, MatchesEpoch
      <4> QED BY <3>1, <4>2 DEF Sweep
    <3>2. CASE ~Sweep
      <4>1. pc' # "swept"
        BY <1>2, <3>2 DEF Next, OpenPass, EndPass, Vanished, Die, Tick, Fault,
             Unplug, Plug, run, Ongoing
      <4> QED BY <4>1 DEF OwnFaultsAreCounted
    <3> QED BY <3>1, <3>2
  <2> QED BY <2>1, <2>2, <2>3 DEF OwnInv
<1> QED BY <1>1, <1>2

(* Whatever the kernel said of the drive while a pass had it is counted.   *)
THEOREM OwnCounted == Spec => []OwnFaultsAreCounted
<1>1. Init => OwnInv
  BY DEF Init, OwnInv, OwnFaultsAreCounted
<1>2. OwnInv => OwnFaultsAreCounted
  BY DEF OwnInv
<1> QED BY <1>1, <1>2, TypeCorrect, EpochsInv, OwnStep, PTL DEF Spec

LEMMA OthersStep ==
  TypeOK /\ EpochInv /\ OwnInv /\ OthersInv /\ [Next]_vars => OthersInv'
<1> SUFFICES ASSUME TypeOK, EpochInv, OwnInv, OthersInv, [Next]_vars
             PROVE  OthersInv'
  OBVIOUS
<1>1. CASE UNCHANGED vars
  BY <1>1 DEF vars, bus, run, OthersInv, OnlyOwnFaultsAreCounted, Borderline
<1>2. CASE Next
  <2>t. \A i \in DOMAIN journal : journal[i].time <= clock
    BY DEF OwnInv
  <2>k. ~killed' => ~killed
    <3>1. CASE Die
      BY <3>1 DEF Die
    <3>2. CASE ~Die
      BY <1>2, <3>2 DEF Next, OpenPass, EndPass, Vanished, Sweep, Tick, Fault,
           Unplug, Plug, run
    <3> QED BY <3>1, <3>2
  <2>1. ASSUME ~killed', pc' # "pass"
        PROVE  \A j \in DOMAIN epochs' : epochs'[j].until <= clock'
    <3>1. CASE EndPass \/ Vanished
      <4>1. epochs' = CloseCurrent /\ clock' = clock
        BY <3>1 DEF EndPass, Vanished
      <4>2. ASSUME NEW j \in DOMAIN epochs PROVE CloseCurrent[j].until <= clock
        BY Closing, Numbers DEF EpochInv
      <4> QED BY <4>1, <4>2, Closing
    <3>2. CASE ~(EndPass \/ Vanished)
      <4>1. epochs' = epochs /\ pc # "pass" /\ (clock' = clock \/ clock' = clock + 1)
        BY <1>2, <2>1, <3>2 DEF Next, OpenPass, Die, Sweep, Tick, Fault, Unplug,
             Plug, run
      <4>2. \A j \in DOMAIN epochs : epochs[j].until <= clock
        BY <2>1, <2>k, <4>1 DEF OthersInv
      <4> QED BY <4>1, <4>2, Numbers
    <3> QED BY <3>1, <3>2
  <2>2. ASSUME ~killed', NEW i \in DOMAIN journal', NEW j \in DOMAIN epochs',
               journal'[i].drive # Mine, ~journal'[i].open
        PROVE  Outside(journal'[i], epochs'[j])
    <3>1. CASE i \in DOMAIN journal
      <4>1. journal'[i] = journal[i] /\ journal[i].time \in Nat /\ journal[i].time <= clock
        BY <1>2, <2>t, <3>1, NewLine, Numbers
      <4>2. \A k \in DOMAIN epochs : Outside(journal[i], epochs[k])
        BY <2>2, <2>k, <3>1, <4>1 DEF OthersInv
      <4> QED BY <1>2, <4>1, <4>2, EpochsKeep
    <3>2. CASE i \notin DOMAIN journal
      <4>1. UNCHANGED <<clock, run>> /\ journal'[i].time = clock /\ pc # "pass"
        BY <1>2, <2>t, <2>2, <3>2, NewLine
      <4>2. epochs'[j].until <= clock
        BY <2>2, <2>k, <4>1 DEF OthersInv, run
      <4> QED BY <4>1, <4>2 DEF Outside
    <3> QED BY <3>1, <3>2
  <2>3. OnlyOwnFaultsAreCounted'
    <3>1. CASE Sweep
      <4> SUFFICES ASSUME ~killed, NEW i \in counted', journal[i].drive # Mine
                   PROVE  Borderline(journal[i])
        BY <3>1 DEF Sweep, bus, OnlyOwnFaultsAreCounted, Borderline
      <4>1. PICK j \in DOMAIN epochs : InWindow(journal[i], epochs[j])
        BY <3>1 DEF Sweep
      <4>2. i \in DOMAIN journal
        BY <3>1 DEF Sweep
      <4>3. ~journal[i].open => Outside(journal[i], epochs[j])
        BY <4>2 DEF OthersInv
      <4>4. Outside(journal[i], epochs[j]) =>
              journal[i].time \in {epochs[j].from, epochs[j].until}
        BY <4>1, <4>2, Numbers DEF Outside, InWindow
      <4> QED BY <4>3, <4>4 DEF Borderline
    <3>2. CASE ~Sweep
      <4>1. pc' # "swept"
        BY <1>2, <3>2 DEF Next, OpenPass, EndPass, Vanished, Die, Tick, Fault,
             Unplug, Plug, run, Ongoing
      <4> QED BY <4>1 DEF OnlyOwnFaultsAreCounted
    <3> QED BY <3>1, <3>2
  <2> QED BY <2>1, <2>2, <2>3 DEF OthersInv
<1> QED BY <1>1, <1>2

(* And of other drives nothing that was said outside the passes, but in    *)
(* the seconds they begin and end.                                         *)
THEOREM OthersNotCounted == Spec => []OnlyOwnFaultsAreCounted
<1>1. Init => OwnInv /\ OthersInv
  BY DEF Init, OwnInv, OwnFaultsAreCounted, OthersInv, OnlyOwnFaultsAreCounted
<1>2. OthersInv => OnlyOwnFaultsAreCounted
  BY DEF OthersInv
<1> QED BY <1>1, <1>2, TypeCorrect, EpochsInv, OwnStep, OthersStep, PTL DEF Spec
=============================================================================
