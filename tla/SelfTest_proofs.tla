---------------------------- MODULE SelfTest_proofs ----------------------------
(***************************************************************************)
(* What holds of a self-test of any length, with any number of retries, on *)
(* a drive with a log of any size.                                         *)
(***************************************************************************)
EXTENDS SelfTest, SequenceTheorems, TLAPS

Entries == [kind : Kinds, status : Statuses, hours : 0..Hours]

LEMMA Bounds ==
  /\ Length \in Nat \ {0} /\ StallPolls \in Nat /\ ExtendedRetries \in Nat
  /\ LogSize \in Nat \ {0} /\ Hours \in Nat /\ ByHand \in Nat
  /\ Retries \in Nat
BY SelfTestAssumption DEF Retries

(* A test that ends waits to be logged; an abort ends the one that runs.   *)
LEMMA EndedType ==
  ASSUME TypeOK, test # NoTest, NEW status \in Statuses, Ended(status)
  PROVE  /\ test' = NoTest /\ pending' \in Seq(Kinds \X Statuses)
         /\ test' \in Tests \cup {NoTest}
<1>1. <<test.kind, status>> \in Kinds \X Statuses
  BY DEF TypeOK, Tests
<1> QED BY <1>1, AppendProperties DEF Ended, TypeOK

LEMMA AbortType ==
  ASSUME TypeOK, Abort
  PROVE  /\ test' \in {test, NoTest} /\ pending' \in Seq(Kinds \X Statuses)
         /\ test' \in Tests \cup {NoTest}
         /\ refused' \in BOOLEAN /\ (refused => refused')
         /\ ~refused' => test' = NoTest
<1>1. "aborted_by_host" \in Statuses
  BY DEF Statuses
<1>2. CASE test # NoTest /\ Ended("aborted_by_host") /\ UNCHANGED refused
  BY <1>1, <1>2, EndedType DEF TypeOK
<1>3. CASE test = NoTest /\ UNCHANGED <<test, pending, refused>>
  BY <1>3 DEF TypeOK
<1>4. CASE refused' = TRUE /\ UNCHANGED <<test, pending>>
  BY <1>4 DEF TypeOK
<1> QED BY <1>2, <1>3, <1>4 DEF Abort

(* The newest entry, if the log has one, is what smartctl shows of it.     *)
LEMMA SignatureType ==
  ASSUME TypeOK, NEW sig \in LogAnswers
  PROVE  /\ sig.read \in BOOLEAN
         /\ IsKind(sig) => sig.top[2] \in Statuses
<1>1. CASE sig = NoLog
  BY <1>1 DEF NoLog, IsKind, NoEntry
<1>2. CASE sig = Signature
  <2>1. CASE entries = <<>>
    BY <1>2, <2>1 DEF Signature, IsKind, NoEntry
  <2>2. CASE entries # <<>>
    <3>1. Head(entries) \in Entries
      BY <2>2, HeadTailProperties DEF TypeOK, Entries
    <3>2. sig.top = Visible(Head(entries)) /\ sig.read = TRUE
      BY <1>2, <2>2 DEF Signature
    <3>3. Visible(Head(entries))[2] = Head(entries).status
      BY DEF Visible
    <3>4. Head(entries).status \in Statuses
      BY <3>1 DEF Entries
    <3> QED BY <3>2, <3>3, <3>4
  <2> QED BY <2>1, <2>2
<1> QED BY <1>1, <1>2 DEF LogAnswers

(* What the drive logs is an entry, and the log keeps its size.            *)
LEMMA LogType ==
  ASSUME TypeOK, DriveLogs
  PROVE  /\ pending' \in Seq(Kinds \X Statuses) /\ hours' \in 0..Hours
         /\ entries' \in Seq(Entries) /\ Len(entries') \in 0..LogSize
<1> DEFINE e      == [kind |-> Head(pending)[1], status |-> Head(pending)[2],
                      hours |-> hours']
           longer == <<e>> \o entries
           size   == IF Len(longer) > LogSize THEN LogSize ELSE Len(longer)
<1>1. Head(pending) \in Kinds \X Statuses /\ pending' \in Seq(Kinds \X Statuses)
  BY HeadTailProperties DEF DriveLogs, TypeOK
<1>2. hours' \in 0..Hours
  BY Bounds DEF DriveLogs, TypeOK
<1>3. e \in Entries
  BY <1>1, <1>2 DEF Entries
<1> HIDE DEF e
<1>4. <<e>> \in Seq(Entries) /\ Len(<<e>>) = 1 /\ entries \in Seq(Entries)
      /\ Len(entries) \in Nat
  BY <1>3, LenProperties DEF TypeOK, Entries
<1>5. longer \in Seq(Entries) /\ Len(longer) \in Nat
  BY <1>4, ConcatProperties
<1> HIDE DEF longer
<1>6. size \in 0..LogSize /\ size <= Len(longer)
  BY <1>5, Bounds
<1> HIDE DEF size
<1>7. \A i \in 1..size : longer[i] \in Entries
  BY <1>5, <1>6, ElementOfSeq
<1>8. /\ SubSeq(longer, 1, size) \in Seq(Entries)
      /\ Len(SubSeq(longer, 1, size)) = IF 1 <= size THEN size - 1 + 1 ELSE 0
  BY <1>6, <1>7, Bounds, SubSeqProperties
<1>9. entries' = SubSeq(longer, 1, size)
  BY DEF DriveLogs, longer, size, e
<1> QED BY <1>1, <1>2, <1>6, <1>8, <1>9, Bounds

-----------------------------------------------------------------------------
(* Types: the drive's half and the caller's half.                          *)

DriveType ==
  /\ test \in Tests \cup {NoTest}
  /\ pending \in Seq(Kinds \X Statuses)
  /\ entries \in Seq(Entries) /\ Len(entries) \in 0..LogSize /\ logged \in BOOLEAN
  /\ hours \in 0..Hours /\ byHand \in 0..ByHand /\ opaque \in BOOLEAN

PollType ==
  /\ before.read \in BOOLEAN
  /\ seen \in BOOLEAN /\ lastLeft \in 0..Length /\ quiet \in 0..StallPolls
  /\ answer \in [state : {"running", "idle", "unreadable"}, left : 0..Length]
  /\ result \in Results

RunType ==
  /\ kind \in Kinds /\ attempt \in 0..Retries
  /\ pc \in {"before", "start", "top", "ask", "asklog", "wedged",
             "read", "done", "recorded"}
  /\ evidence \in BOOLEAN /\ refused \in BOOLEAN
  /\ stop \in BOOLEAN /\ guard \in {"watching", "aborting", "aborted"}

LEMMA TypeParts ==
  /\ TypeOK => DriveType /\ PollType /\ RunType
  /\ DriveType /\ PollType /\ RunType => TypeOK
  /\ DriveType' /\ PollType' /\ RunType' => TypeOK'
BY DEF TypeOK, DriveType, PollType, RunType, Entries

LEMMA NothingType ==
  /\ NoLog.read = FALSE
  /\ NoAnswer \in [state : {"running", "idle", "unreadable"}, left : 0..Length]
<1>1. NoLog.read = FALSE
  BY DEF NoLog
<1>2. NoAnswer \in [state : {"running", "idle", "unreadable"}, left : 0..Length]
  BY Bounds DEF NoAnswer
<1> QED BY <1>1, <1>2

LEMMA NoPollType ==
  ASSUME NoPoll, before' = NoLog
  PROVE  /\ before'.read \in BOOLEAN
         /\ seen' \in BOOLEAN /\ lastLeft' \in 0..Length /\ quiet' \in 0..StallPolls
         /\ answer' \in [state : {"running", "idle", "unreadable"}, left : 0..Length]
<1>1. before'.read \in BOOLEAN
  BY NothingType
<1>2. seen' \in BOOLEAN
  BY DEF NoPoll
<1>3. lastLeft' \in 0..Length /\ quiet' \in 0..StallPolls
  BY Bounds DEF NoPoll
<1>4. answer' \in [state : {"running", "idle", "unreadable"}, left : 0..Length]
  BY NothingType DEF NoPoll
<1> QED BY <1>1, <1>2, <1>3, <1>4

LEMMA ReturnedType ==
  ASSUME TypeOK, NEW status \in Results, Returned(status)
  PROVE  PollType' /\ pc' = "done"
BY NoPollType DEF Returned, PollType

LEMMA TypeInit == Init => TypeOK
<1> SUFFICES ASSUME Init PROVE TypeOK
  OBVIOUS
<1>1. entries \in Seq(Entries) /\ Len(entries) \in 0..LogSize
  <2>1. CASE entries = <<>>
    BY <2>1, EmptySeq, Bounds
  <2>2. CASE entries = [i \in 1..LogSize |-> Passed]
    <3>1. Passed \in Entries
      BY Bounds DEF Init, Passed, Entries, Statuses
    <3>2. entries \in Seq(Entries) /\ Len(entries) = LogSize
      BY <2>2, <3>1, Bounds
    <3> QED BY <3>2, Bounds
  <2> QED BY <2>1, <2>2 DEF Init, OldLogs
<1>2. DriveType
  <2>1. pending \in Seq(Kinds \X Statuses)
    BY EmptySeq DEF Init
  <2>2. test \in Tests \cup {NoTest} /\ logged \in BOOLEAN /\ opaque \in BOOLEAN
    BY Zenon DEF Init
  <2>3. hours \in 0..Hours /\ byHand \in 0..ByHand
    BY Bounds DEF Init
  <2> QED BY <1>1, <2>1, <2>2, <2>3 DEF DriveType
<1>3. PollType
  <2>1. before.read \in BOOLEAN /\ seen \in BOOLEAN
    BY NothingType, Zenon DEF Init
  <2>2. lastLeft \in 0..Length /\ quiet \in 0..StallPolls
    BY Bounds DEF Init
  <2>3. answer \in [state : {"running", "idle", "unreadable"}, left : 0..Length]
    BY NothingType DEF Init
  <2>4. result \in Results
    BY DEF Init, Results
  <2> QED BY <2>1, <2>2, <2>3, <2>4 DEF PollType
<1>4. RunType
  <2>1. attempt \in 0..Retries
    BY Bounds DEF Init
  <2> QED BY <2>1 DEF Init, RunType
<1> QED BY <1>2, <1>3, <1>4, TypeParts

LEMMA CallStep ==
  ASSUME TypeOK, Host
  PROVE  TypeOK'
<1>t. DriveType /\ PollType /\ RunType
  BY TypeParts
<1>1. CASE ReadBefore
  <2>1. before'.read \in BOOLEAN
    BY <1>1, SignatureType DEF ReadBefore
  <2>2. DriveType' /\ PollType' /\ RunType'
    BY <1>1, <1>t, <2>1
       DEF ReadBefore, world, poll, run, DriveType, PollType, RunType, Retries
  <2> QED BY <2>2, TypeParts
<1>2. CASE Start
  <2>1. test' \in Tests \cup {NoTest}
    <3>1. [kind |-> kind, left |-> Length, ours |-> TRUE] \in Tests
      BY <1>t, Bounds DEF RunType, Tests
    <3>2. test' \in {test, Started}
      BY <1>2 DEF Start
    <3> QED BY <1>t, <3>1, <3>2 DEF Started, DriveType
  <2>2. PollType' /\ pc' \in {"top", "done"}
    <3>1. CASE pc' = "top" /\ UNCHANGED <<poll, before, result>>
      BY <1>t, <3>1 DEF poll, PollType
    <3>2. CASE Returned("could_not_start") \/ Returned("raised")
      BY <3>2, ReturnedType DEF Results
    <3> QED BY <1>2, <3>1, <3>2 DEF Start
  <2>3. DriveType' /\ RunType'
    BY <1>2, <1>t, <2>1, <2>2 DEF Start, world, run, DriveType, RunType, Retries
  <2> QED BY <2>2, <2>3, TypeParts
<1>3. CASE Sleep \/ Record
  <2>1. result' \in Results
    BY <1>3, <1>t DEF Sleep, Record, PollType, Results
  <2>2. DriveType' /\ PollType' /\ RunType'
    BY <1>3, <1>t, <2>1
       DEF Sleep, Record, drive, world, poll, call, run, DriveType, PollType, RunType, Retries
  <2> QED BY <2>2, TypeParts
<1>4. CASE StopTest
  <2>1. PollType' /\ pc' = "done"
    BY <1>4, ReturnedType DEF StopTest, Results
  <2>2. DriveType' /\ RunType'
    BY <1>4, <1>t, <2>1, AbortType
       DEF StopTest, world, run, DriveType, RunType, Retries
  <2> QED BY <2>1, <2>2, TypeParts
<1>5. CASE AskState
  <2>1. answer' \in [state : {"running", "idle", "unreadable"}, left : 0..Length]
    BY <1>5, <1>t, Bounds DEF AskState, StateAnswers, NoAnswer, DriveType, Tests, NoTest
  <2>2. seen' \in BOOLEAN
    BY <1>5, <1>t, Zenon DEF AskState, PollType
  <2>3. lastLeft' \in 0..Length
    BY <1>5, <1>t, <2>1 DEF AskState, PollType
  <2>4. quiet' \in 0..StallPolls /\ pc' \in {"top", "wedged", "asklog"}
    BY <1>5, <1>t, Bounds DEF AskState, Overdue, PollType
  <2>5. DriveType' /\ RunType'
    BY <1>5, <1>t, <2>4
       DEF AskState, drive, world, call, run, DriveType, RunType, Retries
  <2>6. PollType'
    BY <1>5, <1>t, <2>1, <2>2, <2>3, <2>4 DEF AskState, call, PollType
  <2> QED BY <2>5, <2>6, TypeParts
<1>6. CASE AskLog
  <2>1. PollType' /\ pc' \in {"read", "done", "top"}
    <3>1. CASE pc' = "read" /\ UNCHANGED <<poll, before, result>>
      BY <1>t, <3>1 DEF poll, PollType
    <3>2. CASE Returned("inconclusive")
      BY <3>2, ReturnedType DEF Results
    <3>3. CASE /\ ~Overdue /\ pc' = "top" /\ quiet' = quiet + 1
               /\ UNCHANGED <<seen, answer, lastLeft, before, result>>
      BY <1>t, <3>3, Bounds DEF Overdue, PollType
    <3> QED BY <1>6, <3>1, <3>2, <3>3 DEF AskLog
  <2>2. DriveType' /\ RunType'
    BY <1>6, <1>t, <2>1
       DEF AskLog, drive, world, run, DriveType, RunType, Retries
  <2> QED BY <2>1, <2>2, TypeParts
<1>7. CASE Wedged
  <2>1. PollType' /\ pc' \in {"before", "done"}
    <3>1. CASE pc' = "before" /\ before' = NoLog /\ NoPoll /\ UNCHANGED result
      BY <1>t, <3>1, NoPollType DEF PollType
    <3>2. CASE Returned("inconclusive")
      BY <3>2, ReturnedType DEF Results
    <3> QED BY <1>7, <3>1, <3>2 DEF Wedged
  <2>2. attempt' \in 0..Retries
    BY <1>7, <1>t, Bounds DEF Wedged, RunType
  <2>3. DriveType' /\ RunType'
    BY <1>7, <1>t, <2>1, <2>2, AbortType
       DEF Wedged, world, run, DriveType, RunType, Retries
  <2> QED BY <2>1, <2>3, TypeParts
<1>8. CASE ReadEntry
  <2>1. PICK sig \in LogAnswers :
          \/ IsKind(sig) /\ Returned(sig.top[2]) /\ evidence' = logged
          \/ Returned("inconclusive") /\ UNCHANGED evidence
    BY <1>8 DEF ReadEntry
  <2>2. PollType' /\ pc' = "done"
    BY <2>1, SignatureType, ReturnedType DEF Results
  <2>3. evidence' \in BOOLEAN
    BY <1>t, <2>1 DEF DriveType, RunType
  <2>4. DriveType' /\ RunType'
    BY <1>8, <1>t, <2>2, <2>3
       DEF ReadEntry, drive, world, run, DriveType, RunType, Retries
  <2> QED BY <2>2, <2>4, TypeParts
<1> QED BY <1>1, <1>2, <1>3, <1>4, <1>5, <1>6, <1>7, <1>8 DEF Host

LEMMA AroundStep ==
  ASSUME TypeOK, Around
  PROVE  TypeOK'
<1>t. DriveType /\ PollType /\ RunType
  BY TypeParts
<1>1. CASE Overheat \/ StopAsked
  <2>1. UNCHANGED <<drive, world, poll, call, pc, result, evidence, refused>>
    BY <1>1 DEF Overheat, StopAsked
  <2>2. stop' \in BOOLEAN /\ guard' \in {"watching", "aborting", "aborted"}
    BY <1>1, <1>t, Zenon DEF Overheat, StopAsked, RunType
  <2>3. DriveType'
    BY <1>t, <2>1 DEF drive, world, DriveType
  <2>4. PollType'
    BY <1>t, <2>1 DEF poll, call, PollType
  <2>5. RunType'
    BY <1>t, <2>1, <2>2 DEF call, RunType, Retries
  <2> QED BY <2>3, <2>4, <2>5, TypeParts
<1>2. CASE GuardAborts
  <2>1. DriveType' /\ PollType' /\ RunType'
    BY <1>2, <1>t, AbortType DEF GuardAborts, world, poll, call, DriveType,
       PollType, RunType, Retries
  <2> QED BY <2>1, TypeParts
<1>h. ASSUME DriveType', UNCHANGED host PROVE TypeOK'
  <2>1. PollType' /\ RunType'
    BY <1>h, <1>t DEF host, poll, call, run, PollType, RunType, Retries
  <2> QED BY <1>h, <2>1, TypeParts
<1>3. CASE Progress
  <2>1. test \in Tests /\ test.left > 1
    BY <1>3, <1>t, Zenon DEF Progress, DriveType
  <2>2. test.left - 1 \in 1..Length
    BY <2>1, Bounds DEF Tests
  <2>3. test' = [test EXCEPT !.left = test.left - 1]
    BY <1>3 DEF Progress
  <2>4. test' \in Tests
    BY <2>1, <2>2, <2>3 DEF Tests
  <2> QED BY <1>3, <1>t, <1>h, <2>4 DEF Progress, world, DriveType
<1>4. CASE Finish
  <2>1. PICK status \in Statuses : Ended(status)
    BY <1>4 DEF Finish, Statuses
  <2>2. test # NoTest
    BY <1>4 DEF Finish
  <2>3. DriveType'
    BY <1>4, <1>t, <2>1, <2>2, EndedType DEF Finish, world, DriveType
  <2> QED BY <1>4, <1>h, <2>3 DEF Finish
<1>5. CASE DriveLogs
  <2>1. DriveType'
    BY <1>5, <1>t, LogType DEF DriveLogs, DriveType
  <2> QED BY <1>5, <1>h, <2>1 DEF DriveLogs
<1>6. CASE SomebodyElse
  <2>1. byHand' \in 0..ByHand
    BY <1>6, <1>t, Bounds DEF SomebodyElse, DriveType
  <2>2. test' \in Tests \cup {NoTest} /\ pending' \in Seq(Kinds \X Statuses)
    <3>1. CASE test # NoTest /\ Ended("aborted_by_host")
      BY <3>1, EndedType DEF Statuses
    <3>2. CASE UNCHANGED pending /\ \E k \in Kinds :
                 test' = [kind |-> k, left |-> Length, ours |-> FALSE]
      BY <1>t, <3>2, Bounds DEF Tests, DriveType
    <3> QED BY <1>6, <3>1, <3>2 DEF SomebodyElse
  <2> QED BY <1>6, <1>t, <1>h, <2>1, <2>2 DEF SomebodyElse, DriveType
<1> QED BY <1>1, <1>2, <1>3, <1>4, <1>5, <1>6 DEF Around

(* Every variable keeps its type, however long the test and the log are.   *)
THEOREM TypeCorrect == Spec => []TypeOK
<1>1. TypeOK /\ [Next]_vars => TypeOK'
  <2> SUFFICES ASSUME TypeOK, [Next]_vars PROVE TypeOK'
    OBVIOUS
  <2>1. CASE UNCHANGED vars
    BY <2>1 DEF vars, drive, world, poll, call, run, TypeOK, Retries
  <2> QED BY <2>1, CallStep, AroundStep DEF Next
<1> QED BY <1>1, TypeInit, PTL DEF Spec

-----------------------------------------------------------------------------
(* The log: a verdict is of an entry that was not there before.            *)

(* What smartctl shows of the log is what it showed before the start,      *)
(* until the drive logs something; and what is read, is read after that.   *)
Unlogged == before = IF opaque THEN NoLog ELSE Signature

Asking == {"start", "top", "ask", "asklog", "wedged"}

LogInv ==
  /\ pc \in Asking /\ ~opaque => before.read
  /\ pc \in Asking /\ (opaque \/ ~logged) => Unlogged
  /\ pc = "read" /\ ~opaque => logged
  /\ result \in Statuses => evidence

(* A step that leaves the call where it was, and the log or `logged`.      *)
LEMMA LogStays ==
  ASSUME LogInv, UNCHANGED <<opaque, pc, before, result, evidence>>,
         logged' = TRUE \/ UNCHANGED <<entries, logged>>
  PROVE  LogInv'
<1>1. CASE logged' = TRUE
  <2>1. pc' \in Asking /\ opaque' => Unlogged'
    BY <1>1 DEF LogInv, Unlogged
  <2> QED BY <1>1, <2>1 DEF LogInv
<1>2. CASE UNCHANGED <<entries, logged>>
  BY <1>2 DEF LogInv, Unlogged, Signature
<1> QED BY <1>1, <1>2

(* The call is over, or starts afresh, and has no verdict of the log.      *)
LEMMA LogLeft ==
  ASSUME LogInv, pc' \in {"before", "done", "recorded"},
         result' \notin Statuses \/ UNCHANGED <<result, evidence>>
  PROVE  LogInv'
BY DEF LogInv, Asking

LEMMA LogAnswer ==
  ASSUME "log" \notin Blips, NEW sig \in LogAnswers
  PROVE  sig = IF opaque THEN NoLog ELSE Signature
BY DEF LogAnswers

LEMMA LogInit == Init => LogInv
BY DEF Init, LogInv, Asking, Statuses

LEMMA LogHost ==
  ASSUME "log" \notin Blips, LogInv, Host
  PROVE  LogInv'
<1>1. CASE ReadBefore
  <2>1. /\ before' = IF opaque THEN NoLog ELSE Signature
        /\ UNCHANGED <<opaque, entries, result, evidence>> /\ pc' = "start"
    BY <1>1, LogAnswer DEF ReadBefore, world
  <2>2. Unlogged'
    BY <2>1 DEF Unlogged, Signature
  <2>3. ~opaque' => before'.read
    BY <2>1 DEF Signature
  <2> QED BY <2>1, <2>2, <2>3 DEF LogInv
<1>2. CASE Start
  <2>1. CASE pc' = "top" /\ UNCHANGED <<poll, before, result>>
    <3>1. /\ pc = "start"
          /\ UNCHANGED <<entries, logged, opaque, before, result, evidence>>
      BY <1>2, <2>1 DEF Start, world
    <3>2. Unlogged' <=> Unlogged
      BY <3>1 DEF Unlogged, Signature
    <3> QED BY <2>1, <3>1, <3>2 DEF LogInv, Asking
  <2>2. CASE Returned("could_not_start") \/ Returned("raised")
    BY <2>2, LogLeft DEF Returned, Statuses
  <2> QED BY <1>2, <2>1, <2>2 DEF Start
<1>3. CASE Sleep \/ AskState
  <2>1. /\ pc \in Asking /\ pc' \in Asking
        /\ UNCHANGED <<entries, logged, opaque, before, result, evidence>>
    BY <1>3 DEF Sleep, AskState, drive, world, call, Asking
  <2>2. Unlogged' <=> Unlogged
    BY <2>1 DEF Unlogged, Signature
  <2> QED BY <2>1, <2>2 DEF LogInv, Asking
<1>4. CASE StopTest
  BY <1>4, LogLeft DEF StopTest, Returned, Statuses
<1>5. CASE AskLog
  <2>0. pc = "asklog" /\ UNCHANGED <<entries, logged, opaque, evidence>>
    BY <1>5 DEF AskLog, drive, world
  <2>1. PICK sig \in LogAnswers :
          \/ IsNew(sig) /\ pc' = "read" /\ UNCHANGED result
          \/ Returned("inconclusive")
          \/ pc' = "top" /\ UNCHANGED <<before, result>>
    BY <1>5 DEF AskLog
  <2>2. CASE IsNew(sig) /\ pc' = "read" /\ UNCHANGED result
    <3>1. sig # before
      BY <2>2 DEF IsNew
    <3>2. ~opaque => logged
      BY <2>0, <3>1, LogAnswer DEF LogInv, Unlogged, Asking
    <3> QED BY <2>0, <2>2, <3>2 DEF LogInv, Asking
  <2>3. CASE Returned("inconclusive")
    BY <2>3, LogLeft DEF Returned, Statuses
  <2>4. CASE pc' = "top" /\ UNCHANGED <<before, result>>
    <3>1. Unlogged' <=> Unlogged
      BY <2>0, <2>4 DEF Unlogged, Signature
    <3> QED BY <2>0, <2>4, <3>1 DEF LogInv, Asking
  <2> QED BY <2>1, <2>2, <2>3, <2>4
<1>6. CASE Wedged
  <2>1. \/ pc' = "before" /\ UNCHANGED <<result, evidence>>
        \/ pc' = "done" /\ result' = "inconclusive"
    BY <1>6 DEF Wedged, Returned
  <2> QED BY <2>1, LogLeft DEF Statuses
<1>7. CASE ReadEntry
  <2>1. PICK sig \in LogAnswers :
          \/ IsKind(sig) /\ Returned(sig.top[2]) /\ evidence' = logged
          \/ Returned("inconclusive")
    BY <1>7 DEF ReadEntry
  <2>2. CASE IsKind(sig) /\ Returned(sig.top[2]) /\ evidence' = logged
    <3>1. ~opaque
      BY <2>2, LogAnswer DEF IsKind, NoLog, NoEntry
    <3>2. evidence'
      BY <1>7, <2>2, <3>1 DEF ReadEntry, LogInv
    <3> QED BY <2>2, <3>2 DEF LogInv, Returned, Asking
  <2>3. CASE Returned("inconclusive")
    BY <2>3, LogLeft DEF Returned, Statuses
  <2> QED BY <2>1, <2>2, <2>3
<1>8. CASE Record
  <2>1. /\ pc' = "recorded" /\ UNCHANGED evidence
        /\ result' = "inconclusive" \/ UNCHANGED result
    BY <1>8 DEF Record
  <2> QED BY <2>1, LogLeft DEF Statuses
<1> QED BY <1>1, <1>2, <1>3, <1>4, <1>5, <1>6, <1>7, <1>8 DEF Host

LEMMA LogAround ==
  ASSUME LogInv, Around
  PROVE  LogInv'
<1>1. UNCHANGED <<opaque, pc, before, result, evidence>>
  BY DEF Around, Overheat, GuardAborts, StopAsked, Progress, Finish, DriveLogs,
         SomebodyElse, host, world, call
<1>2. logged' = TRUE \/ UNCHANGED <<entries, logged>>
  BY DEF Around, Overheat, GuardAborts, StopAsked, Progress, Finish, DriveLogs,
         SomebodyElse, drive
<1> QED BY <1>1, <1>2, LogStays

(* As long as no answer about the log is lost: either every one is, or     *)
(* none.                                                                   *)
LEMMA LogInvariant ==
  ASSUME "log" \notin Blips
  PROVE  Spec => []LogInv
<1>1. LogInv /\ [Next]_vars => LogInv'
  <2> SUFFICES ASSUME LogInv, [Next]_vars PROVE LogInv'
    OBVIOUS
  <2>1. CASE UNCHANGED vars
    BY <2>1, LogStays DEF vars, drive, world, call
  <2> QED BY <2>1, LogHost, LogAround DEF Next
<1> QED BY <1>1, LogInit, PTL DEF Spec

(* A pass, and a failure that bars the drive, is read from an entry that   *)
(* the drive has logged since the test was asked for (_run_selftest_once): *)
(* however often the test is retried, whoever else tests the drive, and    *)
(* however full the log is -- if the bridge does not lose single answers   *)
(* about the log.                                                          *)
THEOREM OnlyNewEntriesCount ==
  ASSUME "log" \notin Blips
  PROVE  Spec => []VerdictIsNew
<1>1. LogInv => VerdictIsNew
  BY DEF LogInv, VerdictIsNew, Statuses
<1> QED BY <1>1, LogInvariant, PTL

-----------------------------------------------------------------------------
(* The guard and the stop.                                                 *)

(* Of a test that was hot when it was recorded, only a pass stands.        *)
HotInv ==
  pc = "recorded" /\ hot
  => result \in {"inconclusive", "completed_without_error", "raised"}

LEMMA HotInvariant == Spec => []HotInv
<1>1. Init => HotInv
  BY DEF Init, HotInv
<1>2. HotInv /\ [Next]_vars => HotInv'
  <2> SUFFICES ASSUME HotInv, [Next]_vars, pc' = "recorded", hot'
               PROVE  result' \in {"inconclusive", "completed_without_error", "raised"}
    BY DEF HotInv
  <2>1. CASE UNCHANGED vars
    BY <2>1 DEF vars, run, HotInv, hot
  <2>2. CASE Record
    BY <2>2 DEF Record, run, hot
  <2>3. CASE Host /\ ~Record
    BY <2>3 DEF Host, ReadBefore, Start, Sleep, StopTest, AskState, AskLog,
                Wedged, ReadEntry, Returned
  <2>4. CASE Around
    <3>1. UNCHANGED <<pc, result>>
      BY <2>4 DEF Around, Overheat, GuardAborts, StopAsked, Progress, Finish,
                  DriveLogs, SomebodyElse, host
    <3>2. CASE Overheat
      BY <3>1, <3>2 DEF Overheat
    <3>3. CASE ~Overheat
      <4>1. hot
        BY <2>4, <3>3 DEF Around, GuardAborts, StopAsked, Progress, Finish,
                          DriveLogs, SomebodyElse, host, run, hot
      <4> QED BY <3>1, <4>1 DEF HotInv
    <3> QED BY <3>2, <3>3
  <2> QED BY <2>1, <2>2, <2>3, <2>4 DEF Next
<1> QED BY <1>1, <1>2, PTL DEF Spec

(* What the guard cut short is neither the drive's failure nor a pass it   *)
(* had not finished (phase6_extended_test), wherever in the poll, in the   *)
(* retry or in the start the abort falls.                                  *)
THEOREM CutShortCounts ==
  ASSUME "log" \notin Blips
  PROVE  Spec => []CutShortIsNoVerdict
<1>1. LogInv /\ HotInv => CutShortIsNoVerdict
  BY DEF LogInv, HotInv, CutShortIsNoVerdict, Statuses
<1> QED BY <1>1, LogInvariant, HotInvariant, PTL

Over == pc \in {"done", "recorded"}

(* After the guard's abort only one test of ours can run: the one whose    *)
(* smartctl -t was on its way.  The top of the loop stops it, unless the   *)
(* call that began it raised.                                              *)
RestInv ==
  /\ hot => kind = "long"
  /\ ~Over => result = "none"
  /\ guard = "aborted" /\ ~refused /\ test.ours
     => pc = "top" \/ (Over /\ result = "raised")
  /\ result = "interrupted" /\ ~refused => ~test.ours

(* A step after which no test of ours runs.                                *)
LEMMA RestsWithout ==
  ASSUME RestInv, ~refused' => ~test'.ours, UNCHANGED kind,
         hot' => hot \/ kind = "long",
         Over' \/ (~Over /\ UNCHANGED result)
  PROVE  RestInv'
BY DEF RestInv

(* A step that begins no test of ours, and leaves the call where it was.   *)
LEMMA RestsOn ==
  ASSUME RestInv, UNCHANGED <<kind, pc, result, run>>,
         refused => refused', test'.ours => test.ours
  PROVE  RestInv'
BY DEF RestInv, run, hot, Over

LEMMA AbortRests ==
  ASSUME Abort
  PROVE  /\ refused => refused'
         /\ ~refused' => ~test'.ours
         /\ test' \in {test, NoTest}
<1>1. ~NoTest.ours
  BY DEF NoTest
<1> QED BY <1>1 DEF Abort, Ended

LEMMA RestInit == Init => RestInv
BY DEF Init, RestInv, hot, NoTest

LEMMA RestHost ==
  ASSUME TypeOK, RestInv, Host
  PROVE  RestInv'
<1>k. UNCHANGED <<kind, run>>
  BY DEF Host, ReadBefore, Start, Sleep, StopTest, AskState, AskLog, Wedged,
         ReadEntry, Record, call
<1>h. hot' <=> hot
  BY <1>k DEF run, hot
<1>1. CASE ReadBefore \/ AskState \/ Sleep
  <2>1. /\ UNCHANGED <<test, result, refused>> /\ ~Over /\ ~Over'
        /\ pc = "top" => ~hot \/ kind # "long"
    BY <1>1 DEF ReadBefore, AskState, Sleep, drive, Over, ShouldStop
  <2> QED BY <1>k, <1>h, <2>1 DEF RestInv, hot, run
<1>2. CASE Start
  <2>1. pc = "start" /\ UNCHANGED refused
    BY <1>2 DEF Start
  <2>2. CASE pc' = "top" /\ UNCHANGED result
    BY <1>k, <1>h, <2>1, <2>2 DEF RestInv, Over
  <2>3. CASE Returned("could_not_start") /\ UNCHANGED test
    BY <1>k, <1>h, <2>1, <2>3 DEF RestInv, Over, Returned, run
  <2>4. CASE Returned("raised")
    BY <1>k, <1>h, <2>1, <2>4 DEF RestInv, Over, Returned
  <2> QED BY <1>2, <2>2, <2>3, <2>4 DEF Start
<1>3. CASE StopTest
  <2>1. Over' /\ (~refused' => ~test'.ours)
    BY <1>3, AbortRests DEF StopTest, Returned, Over
  <2> QED BY <1>k, <1>h, <2>1, RestsWithout
<1>4. CASE AskLog
  <2>1. pc = "asklog" /\ UNCHANGED <<test, refused>>
    BY <1>4 DEF AskLog, drive
  <2>2. UNCHANGED result \/ (pc' = "done" /\ result' = "inconclusive")
    BY <1>4 DEF AskLog, Returned
  <2> QED BY <1>k, <1>h, <2>1, <2>2 DEF RestInv, Over, run
<1>5. CASE Wedged
  <2>1. pc = "wedged" /\ (~refused' => ~test'.ours)
    BY <1>5, AbortRests DEF Wedged
  <2>2. UNCHANGED result \/ pc' = "done"
    BY <1>5 DEF Wedged, Returned
  <2> QED BY <1>k, <1>h, <2>1, <2>2, RestsWithout DEF Over
<1>6. CASE ReadEntry
  <2>1. pc = "read" /\ pc' = "done" /\ UNCHANGED <<test, refused>>
    BY <1>6 DEF ReadEntry, Returned, drive
  <2>2. result' # "interrupted"
    BY <1>6, SignatureType DEF ReadEntry, Returned, Statuses
  <2> QED BY <1>k, <1>h, <2>1, <2>2 DEF RestInv, Over, run
<1>7. CASE Record
  <2>1. /\ Over /\ Over' /\ UNCHANGED <<test, refused>>
        /\ UNCHANGED result \/ (result' = "inconclusive" /\ result # "raised")
    BY <1>7 DEF Record, drive, Over
  <2>2. pc # "top"
    BY <1>7 DEF Record
  <2> QED BY <1>k, <1>h, <2>1, <2>2 DEF RestInv, run
<1> QED BY <1>1, <1>2, <1>3, <1>4, <1>5, <1>6, <1>7 DEF Host

LEMMA RestAround ==
  ASSUME RestInv, Around
  PROVE  RestInv'
<1>1. CASE Overheat
  <2>1. /\ kind = "long" /\ guard' = "aborting"
        /\ UNCHANGED <<test, kind, pc, result, refused>>
    BY <1>1 DEF Overheat, drive, call
  <2> QED BY <2>1 DEF RestInv, Over
<1>2. CASE GuardAborts
  <2>1. /\ ~refused' => ~test'.ours
        /\ hot /\ UNCHANGED <<kind, pc, result>>
    BY <1>2, AbortRests DEF GuardAborts, call, hot
  <2> QED BY <2>1, RestsWithout DEF RestInv, Over
<1>3. CASE StopAsked
  <2>1. UNCHANGED <<kind, pc, result, guard, test, refused>>
    BY <1>3 DEF StopAsked, drive, call
  <2> QED BY <2>1 DEF RestInv, hot, Over
<1>4. CASE Progress \/ Finish \/ DriveLogs \/ SomebodyElse
  <2>1. UNCHANGED <<kind, pc, result, run, refused>>
    BY <1>4 DEF Progress, Finish, DriveLogs, SomebodyElse, host, call
  <2>2. test'.ours => test.ours
    <3>1. ~NoTest.ours
      BY DEF NoTest
    <3>2. CASE Progress
      BY <3>2 DEF Progress
    <3>3. CASE Finish
      BY <3>1, <3>3 DEF Finish, Ended
    <3>4. CASE DriveLogs
      BY <3>4 DEF DriveLogs
    <3>5. CASE SomebodyElse
      BY <3>1, <3>5 DEF SomebodyElse, Ended
    <3> QED BY <1>4, <3>2, <3>3, <3>4, <3>5
  <2> QED BY <2>1, <2>2, RestsOn
<1> QED BY <1>1, <1>2, <1>3, <1>4 DEF Around

(* A drive whose test was stopped, or aborted for its heat, is not left    *)
(* testing: whichever call the stop or the abort falls between, however    *)
(* often the test is retried, and whatever answers are lost -- unless      *)
(* smartctl -X did not get through.                                        *)
THEOREM StoppedTestEnds == Spec => []StoppedDriveRests
<1>1. TypeOK /\ RestInv /\ [Next]_vars => RestInv'
  <2> SUFFICES ASSUME TypeOK, RestInv, [Next]_vars PROVE RestInv'
    OBVIOUS
  <2>1. CASE UNCHANGED vars
    BY <2>1, RestsOn DEF vars, drive, call
  <2> QED BY <2>1, RestHost, RestAround DEF Next
<1>2. RestInv => StoppedDriveRests
  BY DEF RestInv, StoppedDriveRests
<1> QED BY <1>1, <1>2, RestInit, TypeCorrect, PTL DEF Spec
=============================================================================
