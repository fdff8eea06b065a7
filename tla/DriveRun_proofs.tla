--------------------------- MODULE DriveRun_proofs ----------------------------
(***************************************************************************)
(* Theorems about one drive's run, for every drive size, every choice of   *)
(* chunk lengths and every limit.                                          *)
(***************************************************************************)
EXTENDS DriveRun, TLAPS

(* Rounding an offset down to a chunk boundary never moves it forward.     *)
LEMMA RoundedDown ==
  ASSUME NEW o \in Nat, NEW c \in Nat \ {0}
  PROVE  (o \div c) * c \in 0 .. o
<1> DEFINE q == o \div c
           r == o % c
<1>1. q \in Int /\ r \in 0 .. (c - 1) /\ o = c * q + r
  OBVIOUS
<1>2. q >= 0
  BY <1>1, SMT
<1>3. c * q \in Nat /\ q * c = c * q
  BY <1>1, <1>2, SMT
<1> QED
  BY <1>1, <1>3

(* The offset a phase restarts at is one of the drive's.                   *)
LEMMA ResumeOffsetType ==
  ASSUME NEW m \in DriveStates, NEW c \in Chunks
  PROVE  ResumeOffset(m, c) \in Offsets /\ ResumeOffset(m, c) <= m.offset
<1>1. m.offset \in 0 .. Size /\ c \in Nat \ {0} /\ Size \in Nat
  BY SizeAssumption DEF DriveStates, Offsets
<1>2. (m.offset \div c) * c \in 0 .. m.offset
  BY <1>1, RoundedDown
<1> QED
  BY <1>1, <1>2 DEF ResumeOffset, Offsets

(* A checkpoint is read back as it was written.                            *)
LEMMA LoadIsExact ==
  ASSUME NEW m \in DriveStates PROVE Load(m) = m
BY DEF Load, FreshState, DriveStates

(* A transfer stays on the device and moves the pass forward.              *)
LEMMA ChunkBounds ==
  ASSUME NEW at \in Offsets, at < Size, NEW c \in Chunks
  PROVE  /\ at + ClampChunk(at, c) \in Offsets
         /\ ClampChunk(at, c) \in Nat \ {0}
         /\ ChunkAt(at, c) \subseteq Blocks
         /\ ChunkAt(at, c) = {b \in Blocks : at <= b /\ b < at + ClampChunk(at, c)}
BY SizeAssumption DEF Offsets, ClampChunk, ChunkAt, Blocks

(* The state a drive starts from is a drive state.                         *)
LEMMA FreshStateType == FreshState \in DriveStates
BY SizeAssumption DEF FreshState, DriveStates, Phases, Offsets, ExtStatus,
   SHORT_TEST

(* A drive state stays one when a phase is entered, when a pass moves, and *)
(* when a finding is recorded.                                             *)
LEMMA PhaseUpdate ==
  ASSUME NEW m \in DriveStates, NEW p \in Phases, NEW at \in Offsets
  PROVE  EnterPhase(m, p, at) \in DriveStates
BY DEF EnterPhase, DriveStates

LEMMA PositionUpdate ==
  ASSUME NEW m \in DriveStates, NEW at \in Offsets
  PROVE  /\ SetDone(m, at) \in DriveStates
         /\ Done(m) \in Offsets
         /\ [m EXCEPT !.offset = Done(m)] \in DriveStates
         /\ [m EXCEPT !.eraseDone = at] \in DriveStates
         /\ [m EXCEPT !.verifyDone = at] \in DriveStates
<1>1. Done(m) \in Offsets
  BY DEF Done, DriveStates
<1> QED
  BY <1>1 DEF SetDone, DriveStates

LEMMA FindingUpdate ==
  ASSUME NEW m \in DriveStates, NEW chunk \in SUBSET Blocks
  PROVE  /\ RecordWriteError(m, chunk) \in DriveStates
         /\ RecordNonzero(m, chunk) \in DriveStates
         /\ \A unread \in SUBSET chunk :
              NarrowReadError(m, chunk, unread) \in DriveStates
<1>1. ASSUME NEW n \in DriveStates, NEW some \in SUBSET Blocks
      PROVE  /\ RecordNonzero(n, some) \in DriveStates
             /\ [n EXCEPT !.badReads = @ \cup some] \in DriveStates
             /\ RecordWriteError(n, some) \in DriveStates
  BY DEF RecordNonzero, RecordWriteError, DriveStates
<1>2. ASSUME NEW unread \in SUBSET chunk
      PROVE  NarrowReadError(m, chunk, unread) \in DriveStates
  <2>1. unread \in SUBSET Blocks /\ chunk \ unread \in SUBSET Blocks
    OBVIOUS
  <2> QED
    BY <1>1, <2>1 DEF NarrowReadError
<1> QED
  BY <1>1, <1>2

LEMMA OutcomeUpdate ==
  ASSUME NEW m \in DriveStates, NEW v \in BOOLEAN
  PROVE  /\ [m EXCEPT !.abandoned = v] \in DriveStates
         /\ [m EXCEPT !.erased = v] \in DriveStates
         /\ [m EXCEPT !.verified = v] \in DriveStates
         /\ [m EXCEPT !.stoppedOnFail = v] \in DriveStates
BY DEF DriveStates

LEMMA TestUpdate ==
  ASSUME NEW m \in DriveStates, NEW r \in ExtStatus
  PROVE  [m EXCEPT !.extTest = r] \in DriveStates
BY DEF DriveStates

LEMMA CoverageType ==
  ASSUME NEW m \in DriveStates
  PROVE  EraseCoverage(m) \in BOOLEAN /\ VerifyCoverage(m) \in BOOLEAN
BY DEF EraseCoverage, VerifyCoverage

-----------------------------------------------------------------------------
LEMMA PhaseTypes ==
  /\ {SHORT_TEST, ERASE, VERIFY, EXTENDED_TEST, SMART_AFTER, REPORT} = Phases
  /\ Phases \subseteq Nat
  /\ 0 \in Offsets /\ Size \in Offsets
BY SizeAssumption DEF Phases, SHORT_TEST, ERASE, VERIFY, EXTENDED_TEST,
   SMART_AFTER, REPORT, Offsets

LEMMA LimitTypes ==
  /\ MaxReconnects \in Nat /\ 0 \in 0 .. MaxReconnects
  /\ MaxWriteFailures \in Nat \ {0} /\ 0 \in 0 .. MaxWriteFailures
<1>1. MaxReconnects \in Nat /\ MaxWriteFailures \in Nat \ {0}
  BY LimitsAssumption, Zenon
<1> QED
  BY <1>1

(* What a progress callback leaves in memory and on disk is a drive state. *)
LEMMA ProgressType ==
  ASSUME TypeOK, NEW m \in DriveStates, Progress(m)
  PROVE  mem' \in DriveStates /\ ckpt' \in DriveStates
BY PositionUpdate DEF Progress, Persist, TypeOK

LEMMA LoseCacheType ==
  ASSUME TypeOK, LoseCache PROVE surface' \in [Blocks -> Contents]
BY DEF LoseCache, TypeOK, Contents

LEMMA NoOptionsType == NoOptions \in Options
BY SizeAssumption DEF NoOptions, Options

(* The locals a child starts and ends with.                                *)
LEMMA ProcessGoneType ==
  ASSUME ProcessGone
  PROVE  /\ pc' \in Controls /\ mem' \in DriveStates /\ cursor' \in Offsets
         /\ reconnects' \in 0 .. MaxReconnects
         /\ failures' \in 0 .. MaxWriteFailures
         /\ stop' \in BOOLEAN /\ hot' \in BOOLEAN
         /\ stoppedAt' \in {Finished} \cup (Phases \X Offsets)
         /\ opts' \in Options
<1>1. mem' \in DriveStates /\ opts' \in Options /\ pc' \in Controls
  BY FreshStateType, NoOptionsType DEF ProcessGone, Controls
<1>2. /\ cursor' \in Offsets
      /\ reconnects' \in 0 .. MaxReconnects
      /\ failures' \in 0 .. MaxWriteFailures
  BY PhaseTypes, LimitTypes DEF ProcessGone, PassOver
<1>3. stop' \in BOOLEAN /\ hot' \in BOOLEAN
  BY Zenon DEF ProcessGone
<1>4. stoppedAt' \in {Finished} \cup (Phases \X Offsets)
  BY DEF ProcessGone
<1> QED
  BY <1>1, <1>2, <1>3, <1>4

LEMMA UnwindType ==
  ASSUME NEW m \in DriveStates, Unwind(m)
  PROVE  /\ pc' \in Controls /\ cursor' \in Offsets
         /\ reconnects' \in 0 .. MaxReconnects
         /\ failures' \in 0 .. MaxWriteFailures
         /\ stoppedAt' \in {Finished} \cup (Phases \X Offsets)
BY PhaseTypes, LimitTypes DEF Unwind, PassOver, Controls, DriveStates

(* A phase starts at one of the drive's offsets.                           *)
LEMMA StartType ==
  ASSUME TypeOK, NEW p \in Phases
  PROVE  StartOffsetFor(mem, p, opts.chunk) \in Offsets
BY ResumeOffsetType, PhaseTypes DEF StartOffsetFor, TypeOK, Options

(* The grade written is one of the four.                                   *)
LEMMA GradeType ==
  ASSUME WriteReport PROVE report' \in Grades
BY DEF WriteReport, Grade, Grades

LEMMA TypeInit ==
  ASSUME Init PROVE TypeOK
<1>1. surface \in [Blocks -> Contents]
  BY DEF Init, Contents
<1>2. /\ ckpt \in DriveStates /\ mem \in DriveStates
      /\ pc \in Controls /\ opts \in Options
      /\ stoppedAt \in {Finished} \cup (Phases \X Offsets)
      /\ report \in Grades \cup {"none"}
  BY FreshStateType, NoOptionsType DEF Init, Controls
<1>3. /\ cursor \in Offsets
      /\ reconnects \in 0 .. MaxReconnects
      /\ failures \in 0 .. MaxWriteFailures
  BY PhaseTypes, LimitTypes DEF Init
<1>4. stop \in BOOLEAN /\ hot \in BOOLEAN /\ gateFailed \in BOOLEAN
  BY Zenon DEF Init
<1> QED
  BY <1>1, <1>2, <1>3, <1>4 DEF TypeOK

(* Every variable keeps its type, whatever the run goes through.           *)
THEOREM TypeCorrect == Spec => []TypeOK
<1>1. Init => TypeOK
  BY TypeInit
<1>2. TypeOK /\ [Next]_vars => TypeOK'
  <2> SUFFICES ASSUME TypeOK, [Next]_vars PROVE TypeOK'
    OBVIOUS
  <2>1. CASE EnterErase
    <3>1. mem' \in DriveStates /\ ckpt' \in DriveStates
      BY <2>1, StartType, PhaseUpdate, PhaseTypes
         DEF EnterErase, Persist, TypeOK
    <3> QED
      BY <2>1, <3>1, LimitTypes DEF EnterErase, TypeOK, Controls
  <2>2. CASE EnterVerify
    <3> DEFINE m == EnterPhase(mem, VERIFY,
                               StartOffsetFor(mem, VERIFY, opts.chunk))
    <3>1. m \in DriveStates
      BY StartType, PhaseUpdate, PhaseTypes DEF TypeOK
    <3>2. [m EXCEPT !.verified = FALSE] \in DriveStates
      BY <3>1, OutcomeUpdate
    <3>3. mem' \in DriveStates /\ ckpt' \in DriveStates /\ pc' \in Controls
      BY <2>2, <3>1, <3>2 DEF EnterVerify, Persist, Controls
    <3> QED
      BY <2>2, <3>3, LimitTypes DEF EnterVerify, TypeOK
  <2>3. CASE PassesBehind
    BY <2>3
       DEF PassesBehind, TypeOK, Controls, locals
  <2>4. CASE InterruptedAtOpen
    BY <2>4, UnwindType
       DEF InterruptedAtOpen, TypeOK, Controls, locals
  <2>5. CASE NothingLeft
    BY <2>5, PhaseTypes, LimitTypes
       DEF NothingLeft, TypeOK, Controls, locals, PassOver
  <2>6. CASE OpenPass
    <3> DEFINE at == ResumeOffset(mem, opts.chunk)
    <3>1. at \in Offsets
      BY ResumeOffsetType DEF TypeOK, Options
    <3>2. cursor' \in Offsets /\ mem' \in DriveStates
      BY <2>6, <3>1, PositionUpdate DEF OpenPass, TypeOK
    <3> QED
      BY <2>6, <3>2, LimitTypes DEF OpenPass, TypeOK, Controls
  <2>7. CASE WriteChunk
    <3>1. /\ cursor' \in Offsets
          /\ [mem EXCEPT !.eraseDone = cursor'] \in DriveStates
          /\ Progress([mem EXCEPT !.eraseDone = cursor'])
      BY <2>7, ChunkBounds, PositionUpdate
         DEF WriteChunk, InPass, Transfers, TypeOK, Options
    <3>2. mem' \in DriveStates /\ ckpt' \in DriveStates
      BY <3>1, ProgressType
    <3>3. surface' \in [Blocks -> Contents]
      BY <2>7 DEF WriteChunk, TypeOK, Contents
    <3> QED
      BY <2>7, <3>1, <3>2, <3>3, LimitTypes DEF WriteChunk, TypeOK, Controls
  <2>8. CASE RefuseChunk
    <3> DEFINE next == cursor + ClampChunk(cursor, opts.chunk)
               m == RecordWriteError([mem EXCEPT !.eraseDone = next],
                                     ChunkAt(cursor, opts.chunk))
    <3>1. next \in Offsets /\ ChunkAt(cursor, opts.chunk) \in SUBSET Blocks
      BY <2>8, ChunkBounds DEF RefuseChunk, InPass, Transfers, TypeOK, Options
    <3>2. m \in DriveStates
      BY <3>1, PositionUpdate, FindingUpdate DEF TypeOK
    <3>3. CASE failures + 1 < MaxWriteFailures
      <4>1. Progress(m) /\ cursor' = next /\ failures' = failures + 1
        BY <2>8, <3>3 DEF RefuseChunk
      <4>2. mem' \in DriveStates /\ ckpt' \in DriveStates
        BY <3>2, <4>1, ProgressType
      <4> QED
        BY <2>8, <3>1, <3>3, <4>1, <4>2, LimitTypes
           DEF RefuseChunk, TypeOK, Controls
    <3>4. CASE ~(failures + 1 < MaxWriteFailures)
      <4>1. [m EXCEPT !.abandoned = TRUE] \in DriveStates
        BY <3>2, OutcomeUpdate
      <4>2. mem' \in DriveStates
        BY <2>8, <3>4, <4>1 DEF RefuseChunk
      <4> QED
        BY <2>8, <3>4, <4>2, PhaseTypes, LimitTypes
           DEF RefuseChunk, TypeOK, Controls
    <3> QED
      BY <3>3, <3>4
  <2>9. CASE ReadChunk
    <3> DEFINE next == cursor + ClampChunk(cursor, opts.chunk)
               m == RecordNonzero([mem EXCEPT !.verifyDone = next],
                                  ChunkAt(cursor, opts.chunk))
    <3>1. next \in Offsets /\ ChunkAt(cursor, opts.chunk) \in SUBSET Blocks
      BY <2>9, ChunkBounds DEF ReadChunk, InPass, Transfers, TypeOK, Options
    <3>2. m \in DriveStates
      BY <3>1, PositionUpdate, FindingUpdate DEF TypeOK
    <3>3. mem' \in DriveStates /\ ckpt' \in DriveStates
      BY <2>9, <3>2, ProgressType DEF ReadChunk
    <3> QED
      BY <2>9, <3>1, <3>3 DEF ReadChunk, TypeOK, Controls
  <2>10. CASE ReadErrorChunk
    <3> DEFINE next == cursor + ClampChunk(cursor, opts.chunk)
    <3>1. next \in Offsets /\ ChunkAt(cursor, opts.chunk) \in SUBSET Blocks
      BY <2>10, ChunkBounds DEF ReadErrorChunk, InPass, Transfers, TypeOK, Options
    <3>2. [mem EXCEPT !.verifyDone = next] \in DriveStates
      BY <3>1, PositionUpdate DEF TypeOK
    <3>3. mem' \in DriveStates
      BY <2>10, <3>1, <3>2, FindingUpdate DEF ReadErrorChunk
    <3> QED
      BY <2>10, <3>1, <3>3 DEF ReadErrorChunk, TypeOK, Controls
  <2>11. CASE EndLoop
    <3>1. mem' \in DriveStates
      BY <2>11, OutcomeUpdate DEF EndLoop, NoteStop, TypeOK
    <3> QED
      BY <2>11, <3>1, PhaseTypes, LimitTypes DEF EndLoop, TypeOK, Controls
  <2>12. CASE FlushCache
    BY <2>12
       DEF FlushCache, TypeOK, Controls, locals, Contents
  <2>13. CASE ClosePass
    <3> DEFINE m == [mem EXCEPT !.offset = Done(mem)]
    <3>1. m \in DriveStates
      BY PositionUpdate DEF TypeOK
    <3>2. CASE hot
      BY <2>13, <3>1, <3>2, UnwindType DEF ClosePass, Persist, TypeOK
    <3>3. CASE ~hot
      BY <2>13, <3>1, <3>3, PhaseTypes, LimitTypes
         DEF ClosePass, Persist, PassOver, TypeOK, Controls
    <3> QED
      BY <3>2, <3>3
  <2>14. CASE GiveUpWaiting
    BY <2>14, UnwindType
       DEF GiveUpWaiting, TypeOK, Controls, locals
  <2>15. CASE ConcludeErase
    <3>1. mem' \in DriveStates /\ ckpt' \in DriveStates
      BY <2>15, OutcomeUpdate, CoverageType DEF ConcludeErase, Persist, TypeOK
    <3> QED
      BY <2>15, <3>1 DEF ConcludeErase, TypeOK, Controls, locals
  <2>16. CASE ConcludeVerify
    <3>1. mem' \in DriveStates /\ ckpt' \in DriveStates
      BY <2>16, OutcomeUpdate, CoverageType DEF ConcludeVerify, Persist, TypeOK
    <3> QED
      BY <2>16, <3>1 DEF ConcludeVerify, TypeOK, Controls, locals
  <2>17. CASE EnterExtended
    <3> DEFINE m == EnterPhase(mem, EXTENDED_TEST, 0)
    <3>1. m \in DriveStates
      BY PhaseUpdate, PhaseTypes DEF TypeOK
    <3>2. [m EXCEPT !.extTest = "unmeasured"] \in DriveStates
      BY <3>1, TestUpdate DEF ExtStatus
    <3>3. mem' \in DriveStates /\ ckpt' \in DriveStates /\ pc' \in Controls
      BY <2>17, <3>1, <3>2 DEF EnterExtended, Persist, Controls
    <3> QED
      BY <2>17, <3>3 DEF EnterExtended, TypeOK, locals
  <2>18. CASE ExtendedTest
    <3>1. PICK r \in ExtStatus :
            LET m == [mem EXCEPT !.extTest = r] IN
            /\ Persist(m)
            /\ IF stop THEN Unwind(m)
               ELSE pc' = "after" /\ PassOver /\ UNCHANGED stoppedAt
      BY <2>18 DEF ExtendedTest, TestOutcomes, ExtStatus
    <3>2. [mem EXCEPT !.extTest = r] \in DriveStates
      BY TestUpdate DEF TypeOK
    <3>3. CASE stop
      BY <2>18, <3>1, <3>2, <3>3, UnwindType DEF ExtendedTest, Persist, TypeOK
    <3>4. CASE ~stop
      BY <2>18, <3>1, <3>2, <3>4, PhaseTypes, LimitTypes
         DEF ExtendedTest, Persist, PassOver, TypeOK, Controls
    <3> QED
      BY <3>3, <3>4
  <2>19. CASE AfterSnapshot
    BY <2>19, PhaseUpdate, PhaseTypes
       DEF AfterSnapshot, TypeOK, Controls, locals, Persist
  <2>20. CASE BuildReport
    BY <2>20, PhaseUpdate, PhaseTypes
       DEF BuildReport, TypeOK, Controls, locals, Persist
  <2>21. CASE EmitReport
    BY <2>21, GradeType
       DEF EmitReport, TypeOK, Controls, locals
  <2>22. CASE Exit
    <3>1. RestoredCheckpoint \in DriveStates
      BY PhaseUpdate DEF RestoredCheckpoint, TypeOK, Finished
    <3> QED
      BY <2>22, <3>1, ProcessGoneType DEF Exit, TypeOK
  <2>23. CASE Run
    BY <2>23, LoadIsExact DEF Run, Launch, TypeOK, Controls, Options
  <2>24. CASE Resume
    BY <2>24, LoadIsExact DEF Resume, Launch, TypeOK, Controls, Options
  <2>25. CASE Vanish
    <3>1. surface' \in [Blocks -> Contents]
      BY <2>25, LoseCacheType DEF Vanish, TypeOK
    <3>2. mem' \in DriveStates /\ ckpt' \in DriveStates
      BY <2>25, PositionUpdate DEF Vanish, Persist, TypeOK
    <3>3. /\ pc' \in Controls /\ cursor' \in Offsets
          /\ reconnects' \in 0 .. MaxReconnects
          /\ failures' \in 0 .. MaxWriteFailures
          /\ stoppedAt' \in {Finished} \cup (Phases \X Offsets)
      <4>1. CASE CountedReconnects > MaxReconnects
        BY <2>25, <4>1, PositionUpdate, UnwindType DEF Vanish, TypeOK
      <4>2. CASE ~(CountedReconnects > MaxReconnects)
        BY <2>25, <4>2, PhaseTypes, LimitTypes
           DEF Vanish, CountedReconnects, Controls, TypeOK
      <4> QED
        BY <4>1, <4>2
    <3> QED
      BY <2>25, <3>1, <3>2, <3>3 DEF Vanish, TypeOK
  <2>26. CASE DeviceReturns
    BY <2>26
       DEF DeviceReturns, TypeOK, Controls, locals
  <2>27. CASE Fault
    BY <2>27, UnwindType, LoseCacheType
       DEF Fault, TypeOK, Controls, locals
  <2>28. CASE GuardAborts \/ GateHolds \/ GateOpens
    BY <2>28
       DEF GuardAborts, GateHolds, GateOpens, InLoop, TypeOK, Controls, locals
  <2>29. CASE EmitFails
    BY <2>29, GradeType, ProcessGoneType
       DEF EmitFails, TypeOK, Controls, locals
  <2>30. CASE Signal
    BY <2>30
       DEF Signal, TypeOK, Controls, locals
  <2>31. CASE Kill
    BY <2>31, ProcessGoneType
       DEF Kill, TypeOK, Controls, locals
  <2>32. CASE PowerCut
    BY <2>32, ProcessGoneType, LoseCacheType
       DEF PowerCut, TypeOK, Controls, locals
  <2>33. CASE UNCHANGED vars
    BY <2>33 DEF TypeOK, vars, locals
  <2> QED
    BY <2>1, <2>2, <2>3, <2>4, <2>5, <2>6, <2>7, <2>8, <2>9, <2>10,
       <2>11, <2>12, <2>13, <2>14, <2>15, <2>16, <2>17, <2>18, <2>19,
       <2>20, <2>21, <2>22, <2>23, <2>24, <2>25, <2>26, <2>27, <2>28,
       <2>29, <2>30, <2>31, <2>32, <2>33
       DEF Next, Step, Environment
<1> QED
  BY <1>1, <1>2, PTL DEF Spec

-----------------------------------------------------------------------------
(* The inductive invariant.  Every DriveState in the system - the child's, *)
(* the saved one, and the one Exit would save - has to be sound on the     *)
(* surface as it is: the properties speak of ckpt only, but what the next  *)
(* checkpoint will say is decided by what memory holds now.                *)

(* The bridge commits its cache before a verify reads: it has none to lose,*)
(* or the erase that was interrupted always has a rest of a chunk to write,*)
(* so that it is never found complete without the fsync that ends it.      *)
CacheIsCommitted ==
  ~VolatileCache \/ \A c \in Chunks : Size % c # 0

DirtyOn(s, b)     == s[b] \in {"old", "stale"}
Uncommitted(s)    == {b \in Blocks : s[b] = "cached"}

EraseAccounted(s, m) ==
  \A b \in Blocks :
    /\ s[b] = "old"
    /\ m.erased \/ b < m.eraseDone \/ (m.phase = ERASE /\ b < m.offset)
    => b \in m.badWrites

VerifyAccounted(s, m) ==
  \A b \in Blocks :
    /\ DirtyOn(s, b)
    /\ m.verified \/ b < m.verifyDone \/ (m.phase = VERIFY /\ b < m.offset)
    => b \in m.nonzero \cup m.badReads

NothingVerified(m) == m.verifyDone = 0 /\ ~m.verified

(* Only a drive whose cache is committed is, or has been, verified.        *)
CommittedFirst(s, m) ==
  Uncommitted(s) # {}
    => NothingVerified(m) /\ m.phase # VERIFY /\ m.phase # EXTENDED_TEST

Sound(s, m) ==
  /\ EraseAccounted(s, m)
  /\ m.phase <= ERASE => NothingVerified(m)
  /\ CacheIsCommitted => VerifyAccounted(s, m) /\ CommittedFirst(s, m)

Unwinding == {"after", "report", "emit", "restore"}

(* What the child's position says of its DriveState and of the checkpoint. *)
ControlOK ==
  /\ pc \in {"open", "io", "paused", "through", "closing", "covered", "waiting"}
       => mem.phase \in {ERASE, VERIFY}
  /\ pc \in {"flush", "erased"} => mem.phase = ERASE
  /\ pc = "verified" => mem.phase = VERIFY
  /\ pc \in {"io", "paused", "through"}
       => ckpt.phase = mem.phase /\ cursor = Done(mem)
  /\ pc \in {"open", "waiting"} => ckpt.phase = mem.phase
  /\ pc \in {"emit", "restore"} => mem.phase = REPORT /\ ckpt = mem
  /\ pc \notin Unwinding => stoppedAt = Finished
  /\ CacheIsCommitted /\ pc \in {"closing", "covered", "erased"}
       /\ mem.phase = ERASE => Cached = {}
  /\ ~VolatileCache => Cached = {}

(* A verdict stands: the drive is out of reach of `run` and `resume`.      *)
VerdictOK ==
  report \in {"PASS", "CAUTION", "FAIL"}
    => /\ pc \in {"idle", "restore"}
       /\ ckpt.phase = REPORT
       /\ stoppedAt = Finished
       /\ Certified => ckpt.verified /\ ~HasFailed(ckpt)

(* Memory has every finding the checkpoint has.                            *)
Keeps(m, n) ==
  /\ m.badWrites \subseteq n.badWrites
  /\ m.badReads \subseteq n.badReads
  /\ m.nonzero \subseteq n.nonzero

EvidenceOK == pc # "idle" => Keeps(ckpt, mem)

IInv ==
  /\ TypeOK
  /\ Sound(surface, ckpt)
  /\ Sound(surface, mem)
  /\ Sound(surface, RestoredCheckpoint)
  /\ ControlOK
  /\ VerdictOK
  /\ EvidenceOK

-----------------------------------------------------------------------------
(* What keeps a drive state sound on a surface that does not change.       *)

LEMMA PhaseOrder ==
  /\ SHORT_TEST < ERASE /\ ERASE < VERIFY /\ VERIFY < EXTENDED_TEST
  /\ EXTENDED_TEST < SMART_AFTER /\ SMART_AFTER < REPORT
  /\ {SHORT_TEST, ERASE, VERIFY, EXTENDED_TEST, SMART_AFTER, REPORT}
        \subseteq Nat
BY DEF SHORT_TEST, ERASE, VERIFY, EXTENDED_TEST, SMART_AFTER, REPORT

(* Entering the phases after the passes.                                   *)
LEMMA SoundAfter ==
  ASSUME NEW s, NEW m \in DriveStates, Sound(s, m),
         NEW p \in {SMART_AFTER, REPORT}
  PROVE  Sound(s, EnterPhase(m, p, 0))
BY PhaseOrder DEF Sound, EnterPhase, EraseAccounted, VerifyAccounted,
   NothingVerified, CommittedFirst, DriveStates

(* Entering a pass, at zero or at a rounded-down offset of its own.        *)
LEMMA SoundErase ==
  ASSUME NEW s, NEW m \in DriveStates, Sound(s, m), m.phase <= ERASE,
         NEW at \in Offsets,
         IF m.phase = ERASE THEN at <= m.offset ELSE at = 0
  PROVE  Sound(s, EnterPhase(m, ERASE, at))
BY PhaseOrder DEF Sound, EnterPhase, EraseAccounted, VerifyAccounted,
   NothingVerified, CommittedFirst, DriveStates, Offsets, Blocks

LEMMA SoundVerify ==
  ASSUME NEW s, NEW m \in DriveStates, Sound(s, m),
         CacheIsCommitted => Uncommitted(s) = {},
         NEW at \in Offsets,
         IF m.phase = VERIFY THEN at <= m.offset ELSE at = 0
  PROVE  /\ Sound(s, EnterPhase(m, VERIFY, at))
         /\ Sound(s, [EnterPhase(m, VERIFY, at) EXCEPT !.verified = FALSE])
<1>1. Sound(s, EnterPhase(m, VERIFY, at))
  BY PhaseOrder DEF Sound, EnterPhase, EraseAccounted, VerifyAccounted,
     NothingVerified, CommittedFirst, DriveStates, Offsets, Blocks
<1>2. Sound(s, [EnterPhase(m, VERIFY, at) EXCEPT !.verified = FALSE])
  BY PhaseOrder DEF Sound, EnterPhase, EraseAccounted, VerifyAccounted,
     NothingVerified, CommittedFirst, DriveStates, Offsets, Blocks
<1> QED
  BY <1>1, <1>2

LEMMA SoundTest ==
  ASSUME NEW s, NEW m \in DriveStates, Sound(s, m),
         CacheIsCommitted => Uncommitted(s) = {},
         NEW r \in ExtStatus
  PROVE  /\ Sound(s, EnterPhase(m, EXTENDED_TEST, 0))
         /\ Sound(s, [EnterPhase(m, EXTENDED_TEST, 0) EXCEPT !.extTest = r])
<1>1. Sound(s, EnterPhase(m, EXTENDED_TEST, 0))
  BY PhaseOrder DEF Sound, EnterPhase, EraseAccounted, VerifyAccounted,
     NothingVerified, CommittedFirst, DriveStates
<1>2. Sound(s, [EnterPhase(m, EXTENDED_TEST, 0) EXCEPT !.extTest = r])
  BY PhaseOrder DEF Sound, EnterPhase, EraseAccounted, VerifyAccounted,
     NothingVerified, CommittedFirst, DriveStates
<1> QED
  BY <1>1, <1>2

(* The runner opening at an offset, and the offset following the runner.   *)
LEMMA SoundOpen ==
  ASSUME NEW s, NEW m \in DriveStates, Sound(s, m),
         m.phase \in {ERASE, VERIFY}, NEW at \in Offsets, at <= m.offset
  PROVE  Sound(s, SetDone(m, at))
<1>1. CASE m.phase = ERASE
  BY <1>1, PhaseOrder DEF Sound, SetDone, EraseAccounted, VerifyAccounted,
     NothingVerified, CommittedFirst, DriveStates, Offsets, Blocks
<1>2. CASE m.phase = VERIFY
  BY <1>2, PhaseOrder DEF Sound, SetDone, EraseAccounted, VerifyAccounted,
     NothingVerified, CommittedFirst, DriveStates, Offsets, Blocks
<1> QED
  BY <1>1, <1>2

LEMMA SoundOffset ==
  ASSUME NEW s, NEW m \in DriveStates, Sound(s, m),
         m.phase \in {ERASE, VERIFY}
  PROVE  Sound(s, [m EXCEPT !.offset = Done(m)])
<1>1. CASE m.phase = ERASE
  BY <1>1, PhaseOrder DEF Sound, Done, EraseAccounted, VerifyAccounted,
     NothingVerified, CommittedFirst, DriveStates, Offsets, Blocks
<1>2. CASE m.phase = VERIFY
  BY <1>2, PhaseOrder DEF Sound, Done, EraseAccounted, VerifyAccounted,
     NothingVerified, CommittedFirst, DriveStates, Offsets, Blocks
<1> QED
  BY <1>1, <1>2

(* Flags that claim nothing of the surface, and the two that do.           *)
LEMMA SoundFlags ==
  ASSUME NEW s, NEW m \in DriveStates, Sound(s, m), NEW v \in BOOLEAN,
         NEW r \in ExtStatus
  PROVE  /\ Sound(s, [m EXCEPT !.abandoned = v])
         /\ Sound(s, [m EXCEPT !.stoppedOnFail = v])
         /\ Sound(s, [m EXCEPT !.extTest = r])
BY DEF Sound, EraseAccounted, VerifyAccounted, NothingVerified,
   CommittedFirst, DriveStates

LEMMA SoundErased ==
  ASSUME NEW s, NEW m \in DriveStates, Sound(s, m)
  PROVE  Sound(s, [m EXCEPT !.erased = EraseCoverage(m)])
<1>1. \A b \in Blocks : EraseCoverage(m) => b < m.eraseDone
  BY SizeAssumption DEF EraseCoverage, DriveStates, Offsets, Blocks
<1> QED
  BY <1>1 DEF Sound, EraseAccounted, VerifyAccounted, NothingVerified,
     CommittedFirst, DriveStates

LEMMA SoundVerified ==
  ASSUME NEW s, NEW m \in DriveStates, Sound(s, m), m.phase = VERIFY
  PROVE  Sound(s, [m EXCEPT !.verified = VerifyCoverage(m)])
<1>1. \A b \in Blocks : VerifyCoverage(m) => b < m.verifyDone
  BY SizeAssumption DEF VerifyCoverage, DriveStates, Offsets, Blocks
<1> QED
  BY <1>1, PhaseOrder DEF Sound, EraseAccounted, VerifyAccounted,
     NothingVerified, CommittedFirst, DriveStates

-----------------------------------------------------------------------------
(* What keeps it sound on a surface that changes.                          *)

(* The bridge losing what it had not committed touches no verified drive.  *)
LEMMA SoundLose ==
  ASSUME NEW s \in [Blocks -> Contents], NEW t \in [Blocks -> Contents],
         \A b \in Blocks : t[b] = s[b] \/ (s[b] = "cached" /\ t[b] = "stale"),
         NEW m \in DriveStates, Sound(s, m)
  PROVE  Sound(t, m)
<1>1. EraseAccounted(t, m)
  BY DEF Sound, EraseAccounted
<1>2. ASSUME CacheIsCommitted
      PROVE  VerifyAccounted(t, m) /\ CommittedFirst(t, m)
  <2>1. VerifyAccounted(s, m) /\ CommittedFirst(s, m)
    BY <1>2 DEF Sound
  <2>2. CASE Uncommitted(s) = {}
    <3>1. \A b \in Blocks : t[b] = s[b]
      BY <2>2 DEF Uncommitted
    <3> QED
      BY <2>1, <3>1
         DEF VerifyAccounted, DirtyOn, CommittedFirst, Uncommitted
  <2>3. CASE Uncommitted(s) # {}
    <3>1. /\ NothingVerified(m)
          /\ m.phase # VERIFY /\ m.phase # EXTENDED_TEST
      BY <2>1, <2>3 DEF CommittedFirst
    <3> QED
      BY <3>1 DEF NothingVerified, VerifyAccounted, CommittedFirst, Blocks
  <2> QED
    BY <2>2, <2>3
<1> QED
  BY <1>1, <1>2 DEF Sound

(* Committing the cache.                                                   *)
LEMMA SoundFlush ==
  ASSUME NEW s, NEW t,
         \A b \in Blocks : t[b] = IF s[b] = "cached" THEN "zero" ELSE s[b],
         NEW m \in DriveStates, Sound(s, m)
  PROVE  Sound(t, m) /\ Uncommitted(t) = {}
BY DEF Sound, EraseAccounted, VerifyAccounted, DirtyOn, CommittedFirst,
   Uncommitted

(* A write dirties no drive that has been verified, because an erase is    *)
(* under way.                                                              *)
LEMMA SoundUnderErase ==
  ASSUME NEW s, NEW t, \A b \in Blocks : t[b] = "old" => s[b] = "old",
         NEW m \in DriveStates, Sound(s, m), m.phase = ERASE
  PROVE  Sound(t, m)
BY PhaseOrder DEF Sound, EraseAccounted, VerifyAccounted, DirtyOn,
   CommittedFirst, NothingVerified, Blocks, DriveStates, Offsets

(* A transfer: what it wrote, was refused, read or could not read is       *)
(* behind the position it leaves.                                          *)
LEMMA SoundWrite ==
  ASSUME NEW at \in Offsets, at < Size, NEW c \in Chunks,
         NEW s, NEW t,
         \A b \in Blocks :
           t[b] = "old" => s[b] = "old" /\ b \notin ChunkAt(at, c),
         NEW m \in DriveStates, Sound(s, m), m.phase = ERASE,
         m.eraseDone = at
  PROVE  Sound(t, [m EXCEPT !.eraseDone = at + ClampChunk(at, c)])
<1> DEFINE next == at + ClampChunk(at, c)
<1>1. next \in Offsets
  BY ChunkBounds
<1>2. \A b \in Blocks : b < next => b < at \/ b \in ChunkAt(at, c)
  BY ChunkBounds DEF Blocks, Offsets
<1> HIDE DEF next
<1>3. Sound(t, m)
  BY SoundUnderErase
<1> QED
  BY <1>1, <1>2, <1>3, PhaseOrder DEF next, Sound, EraseAccounted,
     VerifyAccounted, NothingVerified, CommittedFirst, DriveStates

LEMMA SoundRefusal ==
  ASSUME NEW at \in Offsets, at < Size, NEW c \in Chunks, NEW s,
         NEW m \in DriveStates, Sound(s, m), m.phase = ERASE,
         m.eraseDone = at
  PROVE  Sound(s, RecordWriteError(
                    [m EXCEPT !.eraseDone = at + ClampChunk(at, c)],
                    ChunkAt(at, c)))
<1> DEFINE next == at + ClampChunk(at, c)
<1>1. next \in Offsets
  BY ChunkBounds
<1>2. \A b \in Blocks : b < next => b < at \/ b \in ChunkAt(at, c)
  BY ChunkBounds DEF Blocks, Offsets
<1> HIDE DEF next
<1> QED
  BY <1>1, <1>2, PhaseOrder DEF next, Sound, RecordWriteError,
     EraseAccounted, VerifyAccounted, NothingVerified, CommittedFirst,
     DriveStates

LEMMA SoundRead ==
  ASSUME NEW at \in Offsets, at < Size, NEW c \in Chunks,
         NEW m \in DriveStates, Sound(surface, m), m.phase = VERIFY,
         m.verifyDone = at,
         NEW unread \in SUBSET ChunkAt(at, c)
  PROVE  Sound(surface, NarrowReadError(
                          [m EXCEPT !.verifyDone = at + ClampChunk(at, c)],
                          ChunkAt(at, c), unread))
<1> DEFINE next == at + ClampChunk(at, c)
<1>1. next \in Offsets
  BY ChunkBounds
<1>2. \A b \in Blocks : b < next => b < at \/ b \in ChunkAt(at, c)
  BY ChunkBounds DEF Blocks, Offsets
<1>3. \A b \in ChunkAt(at, c) : DirtyOn(surface, b) <=> Dirty(b)
  BY DEF DirtyOn, Dirty
<1> HIDE DEF next
<1> QED
  BY <1>1, <1>2, <1>3, PhaseOrder DEF next, Sound, NarrowReadError,
     RecordNonzero, EraseAccounted, VerifyAccounted, NothingVerified,
     CommittedFirst, DriveStates

(* A chunk read without an error is one of which nothing was unread.       *)
LEMMA ReadIsNarrowing ==
  ASSUME NEW m \in DriveStates, NEW chunk
  PROVE  RecordNonzero(m, chunk) = NarrowReadError(m, chunk, {})
<1>1. chunk \ {} = chunk /\ m.badReads \cup {} = m.badReads
  OBVIOUS
<1>2. [m EXCEPT !.badReads = @ \cup {}] = m
  BY <1>1 DEF DriveStates
<1> QED
  BY <1>1, <1>2, Zenon DEF NarrowReadError

-----------------------------------------------------------------------------
LEMMA RestLeft ==
  ASSUME NEW m \in DriveStates, NEW c \in Chunks, Size % c # 0
  PROVE  ResumeOffset(m, c) < Size
<1> DEFINE q == m.offset \div c
<1>1. /\ c \in Nat \ {0} /\ Size \in Nat /\ m.offset \in Nat
      /\ q * c <= Size /\ q * c \in Nat
  BY ResumeOffsetType, SizeAssumption
     DEF ResumeOffset, Offsets, DriveStates
<1>2. q \in Int
  BY <1>1
<1>3. (q * c) % c = 0
  BY <1>1, <1>2, SMT
<1>4. q * c # Size
  BY <1>3
<1> QED
  BY <1>1, <1>4 DEF ResumeOffset

-----------------------------------------------------------------------------
(* Soundness is kept by every step.                                       *)

LEMMA SoundProgress ==
  ASSUME NEW t, NEW m \in DriveStates, Sound(t, m),
         m.phase \in {ERASE, VERIFY}, Sound(t, ckpt), Progress(m)
  PROVE  Sound(t, mem') /\ Sound(t, ckpt')
BY SoundOffset DEF Progress, Persist

LEMMA RestoredNext ==
  /\ stoppedAt' = Finished => RestoredCheckpoint' = mem'
  /\ ControlOK /\ pc \notin Unwinding => RestoredCheckpoint = mem
BY DEF RestoredCheckpoint, ControlOK

(* What a handler remembers is where the run is.                           *)
LEMMA UnwindRestores ==
  ASSUME NEW m \in DriveStates, Unwind(m), mem' = m
  PROVE  RestoredCheckpoint' = m
<1>1. EnterPhase(m, m.phase, m.offset) = m
  BY DEF EnterPhase, DriveStates
<1> QED
  BY <1>1 DEF RestoredCheckpoint, Unwind

(* The later phases do not disturb what Exit will put back.                *)
LEMMA PhaseKeepsRestored ==
  ASSUME TypeOK, Sound(surface, mem), Sound(surface, RestoredCheckpoint),
         NEW p \in {SMART_AFTER, REPORT}, mem' = EnterPhase(mem, p, 0),
         UNCHANGED stoppedAt
  PROVE  Sound(surface, mem') /\ Sound(surface, RestoredCheckpoint')
<1>1. Sound(surface, mem')
  BY SoundAfter DEF TypeOK
<1>2. EnterPhase(mem', stoppedAt[1], stoppedAt[2])
        = EnterPhase(mem, stoppedAt[1], stoppedAt[2])
  BY DEF EnterPhase, TypeOK, DriveStates
<1> QED
  BY <1>1, <1>2 DEF RestoredCheckpoint

LEMMA FreshIsSound ==
  \A s : Sound(s, FreshState)
BY SizeAssumption, PhaseOrder DEF Sound, FreshState, EraseAccounted,
   VerifyAccounted, NothingVerified, CommittedFirst, Blocks

(* A child that is gone leaves an empty memory.                            *)
LEMMA SoundGone ==
  ASSUME ProcessGone, NEW t
  PROVE  Sound(t, mem') /\ Sound(t, RestoredCheckpoint')
BY FreshIsSound, RestoredNext DEF ProcessGone

LEMMA LoseCacheSteps ==
  ASSUME TypeOK, LoseCache
  PROVE  /\ surface' \in [Blocks -> Contents]
         /\ \A b \in Blocks :
              \/ surface'[b] = surface[b]
              \/ surface[b] = "cached" /\ surface'[b] = "stale"
         /\ Cached = {} => surface' = surface
<1>1. PICK lost \in SUBSET Cached :
        surface' = [b \in Blocks |-> IF b \in lost THEN "stale" ELSE surface[b]]
  BY DEF LoseCache
<1> QED
  BY <1>1, LoseCacheType DEF Cached, TypeOK

LEMMA CachedIs == Cached = Uncommitted(surface)
BY DEF Cached, Uncommitted

LEMMA SoundStep ==
  ASSUME IInv, [Next]_vars
  PROVE  /\ Sound(surface', ckpt')
         /\ Sound(surface', mem')
         /\ Sound(surface', RestoredCheckpoint')
<1> DEFINE Goal == /\ Sound(surface', ckpt')
                  /\ Sound(surface', mem')
                  /\ Sound(surface', RestoredCheckpoint')
<1>0. TypeOK /\ ControlOK
  BY DEF IInv
<1>1. CASE Run
  <2>1. mem' = ckpt /\ UNCHANGED <<surface, ckpt, stoppedAt>> /\ stoppedAt = Finished
    BY <1>1, <1>0, LoadIsExact DEF Run, Launch, TypeOK, ControlOK, Unwinding
  <2> QED
    BY <2>1, RestoredNext DEF IInv
<1>2. CASE Resume
  <2>1. mem' = ckpt /\ UNCHANGED <<surface, ckpt, stoppedAt>> /\ stoppedAt = Finished
    BY <1>2, <1>0, LoadIsExact DEF Resume, Launch, TypeOK, ControlOK, Unwinding
  <2> QED
    BY <2>1, RestoredNext DEF IInv
<1>3. CASE EnterErase
  <2> DEFINE at == StartOffsetFor(mem, ERASE, opts.chunk)
  <2>1. at \in Offsets /\ IF mem.phase = ERASE THEN at <= mem.offset ELSE at = 0
    BY <1>0, ResumeOffsetType, PhaseTypes DEF StartOffsetFor, TypeOK, Options
  <2>2. Sound(surface, EnterPhase(mem, ERASE, at))
    BY <1>3, <1>0, <2>1, SoundErase DEF EnterErase, IInv, TypeOK
  <2>3. stoppedAt' = Finished
    BY <1>3, <1>0 DEF EnterErase, ControlOK, Unwinding
  <2> QED
    BY <1>3, <2>2, <2>3, RestoredNext DEF EnterErase, Persist
<1>4. CASE EnterVerify
  <2> DEFINE at == StartOffsetFor(mem, VERIFY, opts.chunk)
  <2>1. at \in Offsets /\ IF mem.phase = VERIFY THEN at <= mem.offset ELSE at = 0
    BY <1>0, ResumeOffsetType, PhaseTypes DEF StartOffsetFor, TypeOK, Options
  <2>2. CacheIsCommitted => Uncommitted(surface) = {}
    <3>1. CASE mem.phase = VERIFY
      BY <3>1 DEF IInv, Sound, CommittedFirst
    <3>2. CASE pc = "erased"
      BY <1>0, <3>2, CachedIs DEF ControlOK
    <3> QED
      BY <1>4, <3>1, <3>2 DEF EnterVerify
  <2>3. /\ Sound(surface, EnterPhase(mem, VERIFY, at))
        /\ Sound(surface,
                 [EnterPhase(mem, VERIFY, at) EXCEPT !.verified = FALSE])
    BY <1>0, <2>1, <2>2, SoundVerify DEF IInv, TypeOK
  <2>4. stoppedAt' = Finished
    BY <1>4, <1>0 DEF EnterVerify, ControlOK, Unwinding
  <2> QED
    BY <1>4, <2>3, <2>4, RestoredNext DEF EnterVerify, Persist
<1>5. CASE PassesBehind
  BY <1>5, <1>0 DEF PassesBehind, IInv, locals, RestoredCheckpoint
<1>6. CASE InterruptedAtOpen
  <2>1. Unwind(mem) /\ mem' = mem /\ UNCHANGED <<surface, ckpt>>
    BY <1>6 DEF InterruptedAtOpen
  <2> QED
    BY <1>0, <2>1, UnwindRestores DEF IInv, TypeOK
<1>7. CASE NothingLeft
  BY <1>7, <1>0 DEF NothingLeft, IInv, locals, RestoredCheckpoint
<1>8. CASE OpenPass
  <2> DEFINE at == ResumeOffset(mem, opts.chunk)
  <2>1. at \in Offsets /\ at <= mem.offset
    BY <1>0, ResumeOffsetType DEF TypeOK, Options
  <2>2. mem.phase \in {ERASE, VERIFY} /\ stoppedAt' = Finished
    BY <1>8, <1>0 DEF OpenPass, ControlOK, Unwinding
  <2>3. Sound(surface, SetDone(mem, at))
    BY <1>0, <2>1, <2>2, SoundOpen DEF IInv, TypeOK
  <2> QED
    BY <1>8, <2>2, <2>3, RestoredNext DEF OpenPass, IInv
<1>9. CASE WriteChunk
  <2>1. /\ cursor \in Offsets /\ cursor < Size /\ opts.chunk \in Chunks
        /\ mem \in DriveStates /\ ckpt \in DriveStates
        /\ mem.phase = ERASE /\ ckpt.phase = ERASE
        /\ mem.eraseDone = cursor /\ stoppedAt' = Finished
    BY <1>9, <1>0
       DEF WriteChunk, InPass, Transfers, TypeOK, ControlOK, Options, Done, Unwinding
  <2>2. \A b \in Blocks : surface'[b] = "old"
          => surface[b] = "old" /\ b \notin ChunkAt(cursor, opts.chunk)
    BY <1>9 DEF WriteChunk
  <2> DEFINE m == [mem EXCEPT !.eraseDone = cursor + ClampChunk(cursor, opts.chunk)]
  <2>3. Sound(surface', m)
    BY <2>1, <2>2, SoundWrite DEF IInv
  <2>4. Sound(surface', ckpt)
    BY <2>1, <2>2, SoundUnderErase DEF IInv
  <2>5. m \in DriveStates /\ m.phase = ERASE
    BY <2>1, ChunkBounds, PositionUpdate DEF DriveStates
  <2>6. Progress(m)
    BY <1>9 DEF WriteChunk
  <2> QED
    BY <2>1, <2>3, <2>4, <2>5, <2>6, SoundProgress, RestoredNext
<1>10. CASE RefuseChunk
  <2>1. /\ cursor \in Offsets /\ cursor < Size /\ opts.chunk \in Chunks
        /\ mem \in DriveStates /\ mem.phase = ERASE
        /\ mem.eraseDone = cursor /\ stoppedAt' = Finished
    BY <1>10, <1>0
       DEF RefuseChunk, InPass, Transfers, TypeOK, ControlOK, Options, Done, Unwinding
  <2> DEFINE m == RecordWriteError(
                   [mem EXCEPT !.eraseDone = cursor + ClampChunk(cursor, opts.chunk)],
                   ChunkAt(cursor, opts.chunk))
  <2>2. Sound(surface, m)
    BY <2>1, SoundRefusal DEF IInv
  <2>3. m \in DriveStates /\ m.phase = ERASE
    <3>1. /\ cursor + ClampChunk(cursor, opts.chunk) \in Offsets
          /\ ChunkAt(cursor, opts.chunk) \in SUBSET Blocks
      BY <2>1, ChunkBounds
    <3>2. m \in DriveStates
      BY <2>1, <3>1, PositionUpdate, FindingUpdate
    <3>3. m.phase = mem.phase
      BY <2>1 DEF RecordWriteError, DriveStates
    <3> QED
      BY <2>1, <3>2, <3>3
  <2>4. /\ UNCHANGED surface
        /\ \/ Progress(m)
           \/ mem' = [m EXCEPT !.abandoned = TRUE] /\ UNCHANGED ckpt
    BY <1>10 DEF RefuseChunk
  <2>5. Sound(surface, [m EXCEPT !.abandoned = TRUE])
    BY <2>2, <2>3, SoundFlags DEF ExtStatus
  <2> QED
    BY <2>1, <2>2, <2>3, <2>4, <2>5, SoundProgress, RestoredNext DEF IInv
<1>11. CASE ReadChunk
  <2>1. /\ cursor \in Offsets /\ cursor < Size /\ opts.chunk \in Chunks
        /\ mem \in DriveStates /\ mem.phase = VERIFY
        /\ mem.verifyDone = cursor /\ stoppedAt' = Finished
    BY <1>11, <1>0, PhaseOrder
       DEF ReadChunk, InPass, Transfers, TypeOK, ControlOK, Options, Done, Unwinding
  <2> DEFINE n == [mem EXCEPT !.verifyDone = cursor + ClampChunk(cursor, opts.chunk)]
             m == RecordNonzero(n, ChunkAt(cursor, opts.chunk))
  <2>2. n \in DriveStates /\ m \in DriveStates /\ m.phase = VERIFY
    <3>1. /\ cursor + ClampChunk(cursor, opts.chunk) \in Offsets
          /\ ChunkAt(cursor, opts.chunk) \in SUBSET Blocks
      BY <2>1, ChunkBounds
    <3>2. n \in DriveStates /\ m \in DriveStates
      BY <2>1, <3>1, PositionUpdate, FindingUpdate
    <3>3. m.phase = mem.phase
      BY <2>1 DEF RecordNonzero, DriveStates
    <3> QED
      BY <2>1, <3>2, <3>3
  <2>3. {} \in SUBSET ChunkAt(cursor, opts.chunk)
    OBVIOUS
  <2>4. Sound(surface, NarrowReadError(n, ChunkAt(cursor, opts.chunk), {}))
    BY <2>1, <2>3, SoundRead DEF IInv
  <2>5. Sound(surface, m)
    BY <2>2, <2>4, ReadIsNarrowing
  <2>6. Progress(m) /\ UNCHANGED surface
    BY <1>11 DEF ReadChunk
  <2> QED
    BY <2>1, <2>2, <2>5, <2>6, SoundProgress, RestoredNext DEF IInv
<1>12. CASE ReadErrorChunk
  <2>1. /\ cursor \in Offsets /\ cursor < Size /\ opts.chunk \in Chunks
        /\ mem \in DriveStates /\ mem.phase = VERIFY
        /\ mem.verifyDone = cursor /\ stoppedAt' = Finished
    BY <1>12, <1>0, PhaseOrder
       DEF ReadErrorChunk, InPass, Transfers, TypeOK, ControlOK, Options, Done, Unwinding
  <2>2. PICK unread \in SUBSET ChunkAt(cursor, opts.chunk) :
          mem' = NarrowReadError(
                   [mem EXCEPT !.verifyDone = cursor + ClampChunk(cursor, opts.chunk)],
                   ChunkAt(cursor, opts.chunk), unread)
    BY <1>12 DEF ReadErrorChunk
  <2>3. Sound(surface, mem')
    BY <2>1, <2>2, SoundRead DEF IInv
  <2> QED
    BY <1>12, <2>1, <2>3, RestoredNext DEF ReadErrorChunk, IInv
<1>13. CASE EndLoop
  <2>1. stoppedAt' = Finished /\ mem \in DriveStates
    BY <1>13, <1>0 DEF EndLoop, ControlOK, Unwinding, TypeOK
  <2>2. Sound(surface, [mem EXCEPT !.stoppedOnFail = TRUE])
    BY <2>1, SoundFlags DEF IInv, ExtStatus
  <2> QED
    BY <1>13, <2>1, <2>2, RestoredNext DEF EndLoop, NoteStop, IInv
<1>14. CASE FlushCache
  <2>1. /\ \A b \in Blocks :
             surface'[b] = IF surface[b] = "cached" THEN "zero" ELSE surface[b]
        /\ mem \in DriveStates /\ ckpt \in DriveStates
        /\ UNCHANGED <<mem, ckpt, stoppedAt>> /\ stoppedAt' = Finished
    BY <1>14, <1>0
       DEF FlushCache, Cached, locals, TypeOK, ControlOK, Unwinding
  <2>2. Sound(surface', mem) /\ Sound(surface', ckpt)
    BY <2>1, SoundFlush DEF IInv
  <2> QED
    BY <2>1, <2>2, RestoredNext
<1>15. CASE ClosePass
  <2> DEFINE m == [mem EXCEPT !.offset = Done(mem)]
  <2>1. m \in DriveStates /\ mem.phase \in {ERASE, VERIFY} /\ stoppedAt = Finished
    BY <1>15, <1>0, PositionUpdate DEF ClosePass, TypeOK, ControlOK, Unwinding
  <2>2. Sound(surface, m)
    BY <1>0, <2>1, SoundOffset DEF IInv, TypeOK
  <2>3. mem' = m /\ ckpt' = m /\ UNCHANGED surface
    BY <1>15 DEF ClosePass, Persist
  <2>4. RestoredCheckpoint' = m
    BY <1>15, <2>1, <2>3, UnwindRestores, RestoredNext DEF ClosePass
  <2> QED
    BY <2>2, <2>3, <2>4
<1>16. CASE Vanish
  <2> DEFINE m == [mem EXCEPT !.offset = Done(mem)]
  <2>1. m \in DriveStates /\ mem.phase \in {ERASE, VERIFY} /\ stoppedAt = Finished
    BY <1>16, <1>0, PositionUpdate
       DEF Vanish, Transfers, TypeOK, ControlOK, Unwinding
  <2>2. Sound(surface, m)
    BY <1>0, <2>1, SoundOffset DEF IInv, TypeOK
  <2>3. Sound(surface', m)
    <3>1. CASE UNCHANGED surface
      BY <2>2, <3>1
    <3>2. CASE LoseCache
      BY <1>0, <2>1, <2>2, <3>2, LoseCacheSteps, SoundLose DEF TypeOK
    <3> QED
      BY <1>16, <3>1, <3>2 DEF Vanish
  <2>4. mem' = m /\ ckpt' = m
    BY <1>16 DEF Vanish, Persist
  <2>5. RestoredCheckpoint' = m
    BY <1>16, <2>1, <2>4, UnwindRestores, RestoredNext DEF Vanish
  <2> QED
    BY <2>3, <2>4, <2>5
<1>17. CASE DeviceReturns
  BY <1>17, <1>0 DEF DeviceReturns, IInv, locals, RestoredCheckpoint
<1>18. CASE GiveUpWaiting
  <2>1. Unwind(mem) /\ mem' = mem /\ UNCHANGED <<surface, ckpt>>
    BY <1>18 DEF GiveUpWaiting
  <2> QED
    BY <1>0, <2>1, UnwindRestores DEF IInv, TypeOK
<1>19. CASE Fault
  <2>1. Unwind(mem) /\ mem' = mem /\ UNCHANGED ckpt /\ mem \in DriveStates
        /\ ckpt \in DriveStates
    BY <1>19, <1>0 DEF Fault, TypeOK
  <2>2. Sound(surface', mem) /\ Sound(surface', ckpt)
    <3>1. CASE UNCHANGED surface
      BY <3>1 DEF IInv
    <3>2. CASE LoseCache
      BY <1>0, <2>1, <3>2, LoseCacheSteps, SoundLose DEF IInv, TypeOK
    <3> QED
      BY <1>19, <3>1, <3>2 DEF Fault
  <2> QED
    BY <2>1, <2>2, UnwindRestores
<1>20. CASE ConcludeErase
  <2>1. Sound(surface, [mem EXCEPT !.erased = EraseCoverage(mem)])
    BY <1>0, SoundErased DEF IInv, TypeOK
  <2>2. stoppedAt' = Finished
    BY <1>20, <1>0 DEF ConcludeErase, locals, ControlOK, Unwinding
  <2> QED
    BY <1>20, <2>1, <2>2, RestoredNext DEF ConcludeErase, Persist
<1>21. CASE ConcludeVerify
  <2>1. Sound(surface, [mem EXCEPT !.verified = VerifyCoverage(mem)])
    BY <1>21, <1>0, SoundVerified DEF ConcludeVerify, IInv, TypeOK
  <2>2. stoppedAt' = Finished
    BY <1>21, <1>0 DEF ConcludeVerify, locals, ControlOK, Unwinding
  <2> QED
    BY <1>21, <2>1, <2>2, RestoredNext DEF ConcludeVerify, Persist
<1>22. CASE EnterExtended
  <2>1. mem.phase \in {VERIFY, EXTENDED_TEST} /\ stoppedAt' = Finished
    BY <1>22, <1>0 DEF EnterExtended, locals, ControlOK, Unwinding
  <2>2. CacheIsCommitted => Uncommitted(surface) = {}
    BY <2>1 DEF IInv, Sound, CommittedFirst
  <2>3. /\ Sound(surface, EnterPhase(mem, EXTENDED_TEST, 0))
        /\ Sound(surface, [EnterPhase(mem, EXTENDED_TEST, 0)
                             EXCEPT !.extTest = "unmeasured"])
    BY <1>0, <2>2, SoundTest DEF IInv, TypeOK, ExtStatus
  <2> QED
    BY <1>22, <2>1, <2>3, RestoredNext DEF EnterExtended, Persist
<1>23. CASE ExtendedTest
  <2>1. PICK r \in ExtStatus :
          LET m == [mem EXCEPT !.extTest = r] IN
          /\ Persist(m)
          /\ IF stop THEN Unwind(m)
             ELSE pc' = "after" /\ PassOver /\ UNCHANGED stoppedAt
    BY <1>23 DEF ExtendedTest, TestOutcomes, ExtStatus
  <2> DEFINE m == [mem EXCEPT !.extTest = r]
  <2>2. TRUE \in BOOLEAN
    OBVIOUS
  <2>3. Sound(surface, m) /\ m \in DriveStates
    BY <1>0, <2>2, SoundFlags, TestUpdate DEF IInv, TypeOK
  <2>4. mem' = m /\ ckpt' = m /\ UNCHANGED surface /\ stoppedAt = Finished
    BY <1>23, <1>0, <2>1 DEF ExtendedTest, Persist, ControlOK, Unwinding
  <2>5. RestoredCheckpoint' = m
    BY <2>1, <2>3, <2>4, UnwindRestores, RestoredNext
  <2> QED
    BY <2>3, <2>4, <2>5
<1>24. CASE GuardAborts \/ GateHolds \/ GateOpens
  BY <1>24, <1>0
     DEF GuardAborts, GateHolds, GateOpens, InLoop, IInv, locals,
         RestoredCheckpoint
<1>25. CASE AfterSnapshot
  <2>1. /\ mem' = EnterPhase(mem, SMART_AFTER, 0) /\ ckpt' = mem'
        /\ UNCHANGED <<surface, stoppedAt>>
    BY <1>25 DEF AfterSnapshot, Persist, locals
  <2> QED
    BY <1>0, <2>1, PhaseKeepsRestored DEF IInv
<1>26. CASE BuildReport
  <2>1. /\ mem' = EnterPhase(mem, REPORT, 0) /\ ckpt' = mem'
        /\ UNCHANGED <<surface, stoppedAt>>
    BY <1>26 DEF BuildReport, Persist, locals
  <2> QED
    BY <1>0, <2>1, PhaseKeepsRestored DEF IInv
<1>27. CASE EmitReport
  BY <1>27, <1>0 DEF EmitReport, IInv, locals, RestoredCheckpoint
<1>28. CASE EmitFails
  <2>1. ProcessGone /\ UNCHANGED <<surface, ckpt>>
    BY <1>28 DEF EmitFails
  <2> QED
    BY <2>1, SoundGone DEF IInv
<1>29. CASE Exit
  <2>1. ProcessGone /\ ckpt' = RestoredCheckpoint /\ UNCHANGED surface
    BY <1>29 DEF Exit
  <2> QED
    BY <2>1, SoundGone DEF IInv
<1>30. CASE Signal
  BY <1>30, <1>0 DEF Signal, IInv, locals, RestoredCheckpoint
<1>31. CASE Kill
  <2>1. ProcessGone /\ UNCHANGED <<surface, ckpt>>
    BY <1>31 DEF Kill
  <2> QED
    BY <2>1, SoundGone DEF IInv
<1>32. CASE PowerCut
  <2>1. ProcessGone /\ LoseCache /\ UNCHANGED ckpt
    BY <1>32 DEF PowerCut
  <2>2. Sound(surface', ckpt)
    BY <1>0, <2>1, LoseCacheSteps, SoundLose DEF IInv, TypeOK
  <2> QED
    BY <2>1, <2>2, SoundGone
<1>33. CASE UNCHANGED vars
  BY <1>33, <1>0 DEF vars, locals, IInv, RestoredCheckpoint
<1> QED
  BY <1>1, <1>2, <1>3, <1>4, <1>5, <1>6, <1>7, <1>8, <1>9, <1>10,
     <1>11, <1>12, <1>13, <1>14, <1>15, <1>16, <1>17, <1>18, <1>19,
     <1>20, <1>21, <1>22, <1>23, <1>24, <1>25, <1>26, <1>27, <1>28,
     <1>29, <1>30, <1>31, <1>32, <1>33
     DEF Next, Step, Environment

-----------------------------------------------------------------------------
(* The other three parts of the invariant.                                  *)

LEMMA ControlStep ==
  ASSUME IInv, TypeOK', [Next]_vars
  PROVE  ControlOK'
<1>0. TypeOK /\ ControlOK
  BY DEF IInv
<1>1. CASE Run
  BY <1>1, <1>0, PhaseOrder
     DEF Run, ControlOK, locals, Unwinding, Cached, Launch
<1>2. CASE Resume
  BY <1>2, <1>0, PhaseOrder
     DEF Resume, ControlOK, locals, Unwinding, Cached, Launch
<1>3. CASE EnterErase
  <2>1. mem'.phase = ERASE /\ ckpt'.phase = ERASE
    BY <1>3, <1>0 DEF EnterErase, Persist, EnterPhase, TypeOK, DriveStates
  <2> QED
    BY <1>3, <1>0, <2>1, PhaseOrder
       DEF EnterErase, ControlOK, Unwinding, Cached
<1>4. CASE EnterVerify
  <2>1. mem'.phase = VERIFY /\ ckpt'.phase = VERIFY
    BY <1>4, <1>0 DEF EnterVerify, Persist, EnterPhase, TypeOK, DriveStates
  <2> QED
    BY <1>4, <1>0, <2>1, PhaseOrder
       DEF EnterVerify, ControlOK, Unwinding, Cached
<1>5. CASE PassesBehind
  BY <1>5, <1>0, PhaseOrder
     DEF PassesBehind, ControlOK, locals, Unwinding, Cached
<1>6. CASE InterruptedAtOpen
  BY <1>6, <1>0, PhaseOrder
     DEF InterruptedAtOpen, ControlOK, locals, Unwinding, Cached, Unwind
<1>7. CASE NothingLeft
  <2>1. mem \in DriveStates /\ opts.chunk \in Chunks
    BY <1>0 DEF TypeOK, Options
  <2>2. CacheIsCommitted => ~VolatileCache
    <3>1. ~(Size % opts.chunk # 0)
      <4> SUFFICES ASSUME Size % opts.chunk # 0 PROVE FALSE
        OBVIOUS
      <4>1. ResumeOffset(mem, opts.chunk) \in 0 .. Size /\ Size \in Nat
        BY <2>1, ResumeOffsetType, SizeAssumption DEF Offsets
      <4>2. ResumeOffset(mem, opts.chunk) < Size
        BY <2>1, RestLeft
      <4>3. ResumeOffset(mem, opts.chunk) >= Size
        BY <1>7 DEF NothingLeft
      <4> QED
        BY <4>1, <4>2, <4>3
    <3> QED
      BY <2>1, <3>1 DEF CacheIsCommitted
  <2> QED
    BY <1>7, <1>0, <2>2 DEF NothingLeft, ControlOK, Unwinding, Cached
<1>8. CASE OpenPass
  <2> DEFINE at == ResumeOffset(mem, opts.chunk)
  <2>1. mem'.phase = mem.phase /\ Done(mem') = at
    BY <1>8, <1>0 DEF OpenPass, SetDone, Done, TypeOK, DriveStates
  <2> QED
    BY <1>8, <1>0, <2>1 DEF OpenPass, ControlOK, Unwinding, Cached
<1>9. CASE WriteChunk
  <2> DEFINE m == [mem EXCEPT !.eraseDone = cursor + ClampChunk(cursor, opts.chunk)]
  <2>1. /\ m \in DriveStates /\ m.phase = mem.phase
        /\ Done(m) = cursor + ClampChunk(cursor, opts.chunk)
    <3>1. mem \in DriveStates /\ mem.phase = ERASE /\ cursor \in Offsets
          /\ cursor < Size /\ opts.chunk \in Chunks
      BY <1>9, <1>0 DEF WriteChunk, InPass, Transfers, TypeOK, Options
    <3>2. /\ cursor + ClampChunk(cursor, opts.chunk) \in Offsets
          /\ ChunkAt(cursor, opts.chunk) \in SUBSET Blocks
      BY <3>1, ChunkBounds
    <3>3. m \in DriveStates
      BY <3>1, <3>2, PositionUpdate, FindingUpdate
    <3> QED
      BY <3>1, <3>2, <3>3, PhaseOrder DEF Done, DriveStates
  <2>2. Progress(m) /\ cursor' = cursor + ClampChunk(cursor, opts.chunk)
    BY <1>9 DEF WriteChunk
  <2>3. UNCHANGED stoppedAt /\ pc' = "io" /\ pc \in {"io", "paused", "through"}
    BY <1>9 DEF WriteChunk, InPass, Transfers
  <2>4. ckpt'.phase = mem'.phase /\ mem'.phase = mem.phase
        /\ cursor' = Done(mem')
    BY <1>0, <2>1, <2>2, <2>3, PhaseOrder
       DEF Progress, Persist, Done, DriveStates, ControlOK
  <2>5. ~VolatileCache => {b \in Blocks : surface'[b] = "cached"} = {}
    BY <1>9, <1>0 DEF WriteChunk, ControlOK, Cached
  <2> QED
    BY <1>0, <2>3, <2>4, <2>5 DEF ControlOK, Unwinding, Cached
<1>10. CASE RefuseChunk
  <2> DEFINE m == RecordWriteError(
                   [mem EXCEPT !.eraseDone = cursor + ClampChunk(cursor, opts.chunk)],
                   ChunkAt(cursor, opts.chunk))
  <2>1. /\ m \in DriveStates /\ m.phase = ERASE /\ mem.phase = ERASE
        /\ Done(m) = cursor + ClampChunk(cursor, opts.chunk)
    <3>1. mem \in DriveStates /\ mem.phase = ERASE /\ cursor \in Offsets
          /\ cursor < Size /\ opts.chunk \in Chunks
      BY <1>10, <1>0 DEF RefuseChunk, InPass, Transfers, TypeOK, Options
    <3>2. /\ cursor + ClampChunk(cursor, opts.chunk) \in Offsets
          /\ ChunkAt(cursor, opts.chunk) \in SUBSET Blocks
      BY <3>1, ChunkBounds
    <3>3. m \in DriveStates
      BY <3>1, <3>2, PositionUpdate, FindingUpdate
    <3> QED
      BY <3>1, <3>2, <3>3, PhaseOrder DEF Done, DriveStates, RecordWriteError
  <2>2. UNCHANGED <<surface, stoppedAt>> /\ pc \in {"io", "paused", "through"}
    BY <1>10 DEF RefuseChunk, InPass, Transfers
  <2>3. CASE failures + 1 < MaxWriteFailures
    <3>1. /\ Progress(m) /\ cursor' = cursor + ClampChunk(cursor, opts.chunk)
          /\ pc' = "io"
      BY <1>10, <2>3 DEF RefuseChunk
    <3>2. ckpt'.phase = mem'.phase /\ mem'.phase = ERASE /\ cursor' = Done(mem')
      BY <1>0, <2>1, <2>2, <3>1, PhaseOrder
         DEF Progress, Persist, Done, DriveStates, ControlOK
    <3> QED
      BY <1>0, <2>2, <3>1, <3>2 DEF ControlOK, Unwinding, Cached
  <2>4. CASE ~(failures + 1 < MaxWriteFailures)
    <3>1. mem' = [m EXCEPT !.abandoned = TRUE] /\ pc' = "flush"
      BY <1>10, <2>4 DEF RefuseChunk
    <3>2. mem'.phase = ERASE
      BY <2>1, <3>1 DEF DriveStates
    <3> QED
      BY <1>0, <2>2, <3>1, <3>2 DEF ControlOK, Unwinding, Cached
  <2> QED
    BY <2>3, <2>4
<1>11. CASE ReadChunk
  <2> DEFINE m == RecordNonzero(
                   [mem EXCEPT !.verifyDone = cursor + ClampChunk(cursor, opts.chunk)],
                   ChunkAt(cursor, opts.chunk))
  <2>1. /\ m \in DriveStates /\ m.phase = mem.phase
        /\ Done(m) = cursor + ClampChunk(cursor, opts.chunk)
    <3>1. mem \in DriveStates /\ mem.phase = VERIFY /\ cursor \in Offsets
          /\ cursor < Size /\ opts.chunk \in Chunks
      BY <1>11, <1>0 DEF ReadChunk, InPass, Transfers, TypeOK, Options
    <3>2. /\ cursor + ClampChunk(cursor, opts.chunk) \in Offsets
          /\ ChunkAt(cursor, opts.chunk) \in SUBSET Blocks
      BY <3>1, ChunkBounds
    <3>3. m \in DriveStates
      BY <3>1, <3>2, PositionUpdate, FindingUpdate
    <3>4. /\ m.phase = mem.phase
          /\ m.verifyDone = cursor + ClampChunk(cursor, opts.chunk)
      BY <3>1 DEF RecordNonzero, DriveStates
    <3> QED
      BY <3>1, <3>2, <3>3, <3>4, PhaseOrder DEF Done, DriveStates
  <2>2. Progress(m) /\ cursor' = cursor + ClampChunk(cursor, opts.chunk)
    BY <1>11 DEF ReadChunk
  <2>3. UNCHANGED stoppedAt /\ pc' = "io" /\ pc \in {"io", "paused", "through"}
    BY <1>11 DEF ReadChunk, InPass, Transfers
  <2>4. ckpt'.phase = mem'.phase /\ mem'.phase = mem.phase
        /\ cursor' = Done(mem')
    BY <1>0, <2>1, <2>2, <2>3, PhaseOrder
       DEF Progress, Persist, Done, DriveStates, ControlOK
  <2> QED
    BY <1>11, <1>0, <2>3, <2>4 DEF ReadChunk, ControlOK, Unwinding, Cached
<1>12. CASE ReadErrorChunk
  <2> DEFINE n == [mem EXCEPT !.verifyDone = cursor + ClampChunk(cursor, opts.chunk)]
  <2>1. mem \in DriveStates /\ mem.phase = VERIFY /\ ckpt.phase = VERIFY
        /\ pc \in {"io", "paused", "through"}
    BY <1>12, <1>0 DEF ReadErrorChunk, InPass, Transfers, TypeOK, ControlOK
  <2>2. PICK unread \in SUBSET ChunkAt(cursor, opts.chunk) :
          mem' = NarrowReadError(n, ChunkAt(cursor, opts.chunk), unread)
    BY <1>12 DEF ReadErrorChunk
  <2>3. mem'.phase = VERIFY /\ mem'.verifyDone = cursor'
    BY <1>12, <2>1, <2>2
       DEF ReadErrorChunk, NarrowReadError, RecordNonzero, DriveStates
  <2> QED
    BY <1>12, <1>0, <2>1, <2>3, PhaseOrder
       DEF ReadErrorChunk, ControlOK, Unwinding, Cached, Done
<1>13. CASE EndLoop
  <2>1. mem'.phase = mem.phase
    BY <1>13, <1>0 DEF EndLoop, NoteStop, TypeOK, DriveStates
  <2> QED
    BY <1>13, <1>0, <2>1, PhaseOrder DEF EndLoop, ControlOK, Unwinding, Cached
<1>14. CASE FlushCache
  <2>1. Cached' = {}
    BY <1>14 DEF FlushCache, Cached
  <2> QED
    BY <1>14, <1>0, <2>1 DEF FlushCache, ControlOK, Unwinding, locals
<1>15. CASE ClosePass
  <2>1. mem'.phase = mem.phase
    BY <1>15, <1>0 DEF ClosePass, Persist, TypeOK, DriveStates
  <2>2. pc' \in {"after", "covered"} /\ (pc' = "covered" => UNCHANGED stoppedAt)
        /\ UNCHANGED surface
    BY <1>15 DEF ClosePass, Unwind
  <2> QED
    BY <1>15, <1>0, <2>1, <2>2 DEF ClosePass, ControlOK, Unwinding, Cached
<1>16. CASE Vanish
  <2>1. mem'.phase = mem.phase /\ ckpt' = mem'
    BY <1>16, <1>0 DEF Vanish, Persist, TypeOK, DriveStates
  <2>2. /\ pc' \in {"after", "waiting"}
        /\ pc' = "waiting" => UNCHANGED stoppedAt
        /\ pc \in {"io", "paused", "through"}
    BY <1>16 DEF Vanish, Transfers, Unwind
  <2>3. ~VolatileCache => Cached' = {}
    BY <1>16, <1>0 DEF Vanish, ControlOK, Cached
  <2> QED
    BY <1>0, <2>1, <2>2, <2>3 DEF ControlOK, Unwinding
<1>17. CASE DeviceReturns
  BY <1>17, <1>0, PhaseOrder
     DEF DeviceReturns, ControlOK, locals, Unwinding, Cached
<1>18. CASE GiveUpWaiting
  BY <1>18, <1>0, PhaseOrder
     DEF GiveUpWaiting, ControlOK, locals, Unwinding, Cached, Unwind
<1>19. CASE Fault
  <2>1. pc' = "after"
    BY <1>19 DEF Fault, Unwind
  <2>2. ~VolatileCache => Cached' = {}
    BY <1>19, <1>0 DEF Fault, ControlOK, Cached
  <2> QED
    BY <2>1, <2>2 DEF ControlOK, Unwinding
<1>20. CASE ConcludeErase
  <2>1. mem'.phase = mem.phase /\ mem.phase = ERASE
    BY <1>20, <1>0 DEF ConcludeErase, Persist, TypeOK, DriveStates
  <2> QED
    BY <1>20, <1>0, <2>1, PhaseOrder
       DEF ConcludeErase, ControlOK, Unwinding, Cached, locals
<1>21. CASE ConcludeVerify
  <2>1. mem'.phase = mem.phase /\ mem.phase = VERIFY
    BY <1>21, <1>0 DEF ConcludeVerify, Persist, TypeOK, DriveStates
  <2> QED
    BY <1>21, <1>0, <2>1, PhaseOrder
       DEF ConcludeVerify, ControlOK, Unwinding, Cached, locals
<1>22. CASE EnterExtended
  <2>1. pc' \in {"after", "test"} /\ UNCHANGED <<surface, stoppedAt>>
    BY <1>22 DEF EnterExtended, locals
  <2>2. stoppedAt' = Finished
    BY <1>22, <1>0, <2>1 DEF EnterExtended, ControlOK, Unwinding
  <2> QED
    BY <1>0, <2>1, <2>2 DEF ControlOK, Unwinding, Cached
<1>23. CASE ExtendedTest
  BY <1>23, <1>0, PhaseOrder
     DEF ExtendedTest, ControlOK, locals, Unwinding, Cached, Unwind, PassOver, Persist
<1>24. CASE GuardAborts \/ GateHolds \/ GateOpens
  BY <1>24, <1>0, PhaseOrder
     DEF GuardAborts, GateHolds, GateOpens, InLoop, ControlOK, locals, Unwinding, Cached
<1>25. CASE AfterSnapshot
  BY <1>25, <1>0, PhaseOrder
     DEF AfterSnapshot, ControlOK, locals, Unwinding, Cached
<1>26. CASE BuildReport
  <2>1. mem'.phase = REPORT /\ ckpt' = mem'
    BY <1>26, <1>0 DEF BuildReport, Persist, EnterPhase, TypeOK, DriveStates
  <2> QED
    BY <1>26, <1>0, <2>1 DEF BuildReport, ControlOK, Unwinding, Cached, locals
<1>27. CASE EmitReport
  BY <1>27, <1>0, PhaseOrder
     DEF EmitReport, ControlOK, locals, Unwinding, Cached, WriteReport
<1>28. CASE EmitFails
  BY <1>28, <1>0, PhaseOrder
     DEF EmitFails, ControlOK, locals, Unwinding, Cached, ProcessGone, PassOver
<1>29. CASE Exit
  BY <1>29, <1>0, PhaseOrder
     DEF Exit, ControlOK, locals, Unwinding, Cached, ProcessGone, PassOver
<1>30. CASE Signal
  BY <1>30, <1>0, PhaseOrder
     DEF Signal, ControlOK, locals, Unwinding, Cached
<1>31. CASE Kill
  BY <1>31, <1>0, PhaseOrder
     DEF Kill, ControlOK, locals, Unwinding, Cached, ProcessGone, PassOver
<1>32. CASE PowerCut
  <2>1. pc' = "idle" /\ stoppedAt' = Finished /\ VolatileCache
    BY <1>32 DEF PowerCut, ProcessGone
  <2> QED
    BY <2>1 DEF ControlOK, Unwinding
<1>33. CASE UNCHANGED vars
  BY <1>33, <1>0 DEF vars, locals, ControlOK, Cached, Done
<1> QED
  BY <1>1, <1>2, <1>3, <1>4, <1>5, <1>6, <1>7, <1>8, <1>9, <1>10,
     <1>11, <1>12, <1>13, <1>14, <1>15, <1>16, <1>17, <1>18, <1>19,
     <1>20, <1>21, <1>22, <1>23, <1>24, <1>25, <1>26, <1>27, <1>28,
     <1>29, <1>30, <1>31, <1>32, <1>33
     DEF Next, Step, Environment

LEMMA VerdictStep ==
  ASSUME IInv, [Next]_vars
  PROVE  VerdictOK'
<1>0. TypeOK /\ ControlOK /\ VerdictOK
  BY DEF IInv
<1>1. CASE Run
  <2>1. ckpt.phase # REPORT /\ UNCHANGED report
    BY <1>1, PhaseOrder DEF Run, Launch
  <2> QED
    BY <1>0, <2>1 DEF VerdictOK, Certified
<1>2. CASE Resume
  <2>1. ckpt.phase # REPORT /\ UNCHANGED report
    BY <1>2, PhaseOrder DEF Resume, Launch
  <2> QED
    BY <1>0, <2>1 DEF VerdictOK, Certified
<1>3. CASE EnterErase
  <2>1. pc \notin {"idle", "restore"} /\ UNCHANGED report
    BY <1>3 DEF EnterErase
  <2> QED
    BY <1>0, <2>1 DEF VerdictOK, Certified
<1>4. CASE EnterVerify
  <2>1. pc \notin {"idle", "restore"} /\ UNCHANGED report
    BY <1>4 DEF EnterVerify
  <2> QED
    BY <1>0, <2>1 DEF VerdictOK, Certified
<1>5. CASE PassesBehind
  <2>1. pc \notin {"idle", "restore"} /\ UNCHANGED report
    BY <1>5 DEF PassesBehind
  <2> QED
    BY <1>0, <2>1 DEF VerdictOK, Certified
<1>6. CASE InterruptedAtOpen
  <2>1. pc \notin {"idle", "restore"} /\ UNCHANGED report
    BY <1>6 DEF InterruptedAtOpen
  <2> QED
    BY <1>0, <2>1 DEF VerdictOK, Certified
<1>7. CASE NothingLeft
  <2>1. pc \notin {"idle", "restore"} /\ UNCHANGED report
    BY <1>7 DEF NothingLeft
  <2> QED
    BY <1>0, <2>1 DEF VerdictOK, Certified
<1>8. CASE OpenPass
  <2>1. pc \notin {"idle", "restore"} /\ UNCHANGED report
    BY <1>8 DEF OpenPass
  <2> QED
    BY <1>0, <2>1 DEF VerdictOK, Certified
<1>9. CASE WriteChunk
  <2>1. pc \notin {"idle", "restore"} /\ UNCHANGED report
    BY <1>9 DEF WriteChunk, InPass, Transfers
  <2> QED
    BY <1>0, <2>1 DEF VerdictOK, Certified
<1>10. CASE RefuseChunk
  <2>1. pc \notin {"idle", "restore"} /\ UNCHANGED report
    BY <1>10 DEF RefuseChunk, InPass, Transfers
  <2> QED
    BY <1>0, <2>1 DEF VerdictOK, Certified
<1>11. CASE ReadChunk
  <2>1. pc \notin {"idle", "restore"} /\ UNCHANGED report
    BY <1>11 DEF ReadChunk, InPass, Transfers
  <2> QED
    BY <1>0, <2>1 DEF VerdictOK, Certified
<1>12. CASE ReadErrorChunk
  <2>1. pc \notin {"idle", "restore"} /\ UNCHANGED report
    BY <1>12 DEF ReadErrorChunk, InPass, Transfers
  <2> QED
    BY <1>0, <2>1 DEF VerdictOK, Certified
<1>13. CASE EndLoop
  <2>1. pc \notin {"idle", "restore"} /\ UNCHANGED report
    BY <1>13 DEF EndLoop
  <2> QED
    BY <1>0, <2>1 DEF VerdictOK, Certified
<1>14. CASE FlushCache
  <2>1. pc \notin {"idle", "restore"} /\ UNCHANGED report
    BY <1>14 DEF FlushCache
  <2> QED
    BY <1>0, <2>1 DEF VerdictOK, Certified
<1>15. CASE ClosePass
  <2>1. pc \notin {"idle", "restore"} /\ UNCHANGED report
    BY <1>15 DEF ClosePass
  <2> QED
    BY <1>0, <2>1 DEF VerdictOK, Certified
<1>16. CASE Vanish
  <2>1. pc \notin {"idle", "restore"} /\ UNCHANGED report
    BY <1>16 DEF Vanish, Transfers
  <2> QED
    BY <1>0, <2>1 DEF VerdictOK, Certified
<1>17. CASE DeviceReturns
  <2>1. pc \notin {"idle", "restore"} /\ UNCHANGED report
    BY <1>17 DEF DeviceReturns
  <2> QED
    BY <1>0, <2>1 DEF VerdictOK, Certified
<1>18. CASE GiveUpWaiting
  <2>1. pc \notin {"idle", "restore"} /\ UNCHANGED report
    BY <1>18 DEF GiveUpWaiting
  <2> QED
    BY <1>0, <2>1 DEF VerdictOK, Certified
<1>19. CASE Fault
  <2>1. pc \notin {"idle", "restore"} /\ UNCHANGED report
    BY <1>19 DEF Fault, Transfers
  <2> QED
    BY <1>0, <2>1 DEF VerdictOK, Certified
<1>20. CASE ConcludeErase
  <2>1. pc \notin {"idle", "restore"} /\ UNCHANGED report
    BY <1>20 DEF ConcludeErase
  <2> QED
    BY <1>0, <2>1 DEF VerdictOK, Certified
<1>21. CASE ConcludeVerify
  <2>1. pc \notin {"idle", "restore"} /\ UNCHANGED report
    BY <1>21 DEF ConcludeVerify
  <2> QED
    BY <1>0, <2>1 DEF VerdictOK, Certified
<1>22. CASE EnterExtended
  <2>1. pc \notin {"idle", "restore"} /\ UNCHANGED report
    BY <1>22 DEF EnterExtended
  <2> QED
    BY <1>0, <2>1 DEF VerdictOK, Certified
<1>23. CASE ExtendedTest
  <2>1. pc \notin {"idle", "restore"} /\ UNCHANGED report
    BY <1>23 DEF ExtendedTest
  <2> QED
    BY <1>0, <2>1 DEF VerdictOK, Certified
<1>24. CASE GuardAborts \/ GateHolds \/ GateOpens
  <2>1. pc \notin {"idle", "restore"} /\ UNCHANGED report
    BY <1>24 DEF GuardAborts, GateHolds, GateOpens, InLoop
  <2> QED
    BY <1>0, <2>1 DEF VerdictOK, Certified
<1>25. CASE AfterSnapshot
  <2>1. pc \notin {"idle", "restore"} /\ UNCHANGED report
    BY <1>25 DEF AfterSnapshot
  <2> QED
    BY <1>0, <2>1 DEF VerdictOK, Certified
<1>26. CASE BuildReport
  <2>1. pc \notin {"idle", "restore"} /\ UNCHANGED report
    BY <1>26 DEF BuildReport
  <2> QED
    BY <1>0, <2>1 DEF VerdictOK, Certified
<1>27. CASE EmitReport
  <2>1. /\ pc = "emit" /\ ckpt.phase = REPORT /\ ckpt = mem
    BY <1>27, <1>0 DEF EmitReport, ControlOK
  <2>2. /\ UNCHANGED ckpt
        /\ pc' = "restore" /\ UNCHANGED stoppedAt
        /\ WriteReport
    BY <1>27 DEF EmitReport, locals
  <2>3. report' \in {"PASS", "CAUTION", "FAIL"}
          => /\ stoppedAt = Finished
             /\ report' # "FAIL" => mem.verified /\ ~HasFailed(mem)
    BY <2>2 DEF WriteReport, Grade
  <2> QED
    BY <1>0, <2>1, <2>2, <2>3 DEF VerdictOK, Certified, HasFailed
<1>28. CASE EmitFails
  <2>1. /\ pc = "emit" /\ ckpt.phase = REPORT /\ ckpt = mem
    BY <1>28, <1>0 DEF EmitFails, ControlOK
  <2>2. /\ UNCHANGED ckpt
        /\ pc' = "idle" /\ stoppedAt' = Finished
        /\ WriteReport \/ UNCHANGED report
    BY <1>28 DEF EmitFails, ProcessGone
  <2>3. WriteReport /\ report' \in {"PASS", "CAUTION"}
          => mem.verified /\ ~HasFailed(mem)
    BY DEF WriteReport, Grade
  <2> QED
    BY <1>0, <2>1, <2>2, <2>3 DEF VerdictOK, Certified, HasFailed
<1>29. CASE Exit
  <2>1. pc' = "idle" /\ stoppedAt' = Finished /\ UNCHANGED report
        /\ ckpt' = RestoredCheckpoint /\ pc = "restore"
    BY <1>29 DEF Exit, ProcessGone
  <2>2. stoppedAt = Finished => ckpt' = ckpt
    BY <1>0, <2>1 DEF RestoredCheckpoint, ControlOK
  <2> QED
    BY <1>0, <2>1, <2>2 DEF VerdictOK, Certified, HasFailed
<1>30. CASE Signal
  BY <1>30, <1>0 DEF Signal, VerdictOK, Certified, HasFailed
<1>31. CASE Kill
  <2>1. pc' = "idle" /\ stoppedAt' = Finished /\ UNCHANGED <<ckpt, report>>
    BY <1>31 DEF Kill, ProcessGone
  <2> QED
    BY <1>0, <2>1 DEF VerdictOK, Certified, HasFailed
<1>32. CASE PowerCut
  <2>1. pc' = "idle" /\ stoppedAt' = Finished /\ UNCHANGED <<ckpt, report>>
    BY <1>32 DEF PowerCut, ProcessGone
  <2> QED
    BY <1>0, <2>1 DEF VerdictOK, Certified, HasFailed
<1>33. CASE UNCHANGED vars
  BY <1>33, <1>0 DEF vars, VerdictOK, Certified, HasFailed, locals
<1> QED
  BY <1>1, <1>2, <1>3, <1>4, <1>5, <1>6, <1>7, <1>8, <1>9, <1>10,
     <1>11, <1>12, <1>13, <1>14, <1>15, <1>16, <1>17, <1>18, <1>19,
     <1>20, <1>21, <1>22, <1>23, <1>24, <1>25, <1>26, <1>27, <1>28,
     <1>29, <1>30, <1>31, <1>32, <1>33
     DEF Next, Step, Environment

-----------------------------------------------------------------------------
(* Findings are only ever added.                                           *)

LEMMA KeepsTransitive ==
  ASSUME NEW m, NEW n, NEW q, Keeps(m, n), Keeps(n, q)
  PROVE  Keeps(m, q)
BY DEF Keeps

LEMMA KeepsSame == \A m : Keeps(m, m)
BY DEF Keeps

(* A step of a session that adds to memory and saves nothing else.         *)
LEMMA EvidenceInSession ==
  ASSUME EvidenceOK, pc # "idle", Keeps(mem, mem'),
         ckpt' \in {ckpt, mem, mem'}
  PROVE  EvidenceOK' /\ Keeps(ckpt, ckpt')
BY KeepsTransitive, KeepsSame DEF EvidenceOK

LEMMA EvidenceStep ==
  ASSUME IInv, [Next]_vars
  PROVE  EvidenceOK' /\ Keeps(ckpt, ckpt')
<1>0. TypeOK /\ EvidenceOK
  BY DEF IInv
<1>1. CASE Run
  <2>1. mem' = ckpt /\ ckpt' = ckpt
    BY <1>1, <1>0, LoadIsExact DEF Run, Launch, TypeOK
  <2> QED
    BY <2>1, KeepsSame DEF EvidenceOK
<1>2. CASE Resume
  <2>1. mem' = ckpt /\ ckpt' = ckpt
    BY <1>2, <1>0, LoadIsExact DEF Resume, Launch, TypeOK
  <2> QED
    BY <2>1, KeepsSame DEF EvidenceOK
<1>3. CASE EnterErase
  <2>1. Keeps(mem, mem') /\ pc # "idle" /\ ckpt' \in {ckpt, mem, mem'}
    BY <1>3, <1>0 DEF EnterErase, Keeps, TypeOK, DriveStates, Persist, EnterPhase
  <2> QED
    BY <1>0, <2>1, EvidenceInSession
<1>4. CASE EnterVerify
  <2>1. Keeps(mem, mem') /\ pc # "idle" /\ ckpt' \in {ckpt, mem, mem'}
    BY <1>4, <1>0 DEF EnterVerify, Keeps, TypeOK, DriveStates, Persist, EnterPhase
  <2> QED
    BY <1>0, <2>1, EvidenceInSession
<1>5. CASE PassesBehind
  BY <1>5, <1>0, KeepsSame DEF PassesBehind, EvidenceOK
<1>6. CASE InterruptedAtOpen
  BY <1>6, <1>0, KeepsSame DEF InterruptedAtOpen, EvidenceOK
<1>7. CASE NothingLeft
  BY <1>7, <1>0, KeepsSame DEF NothingLeft, EvidenceOK
<1>8. CASE OpenPass
  <2>1. Keeps(mem, mem') /\ pc # "idle" /\ ckpt' \in {ckpt, mem, mem'}
    BY <1>8, <1>0 DEF OpenPass, Keeps, TypeOK, DriveStates, SetDone
  <2> QED
    BY <1>0, <2>1, EvidenceInSession
<1>9. CASE WriteChunk
  <2> DEFINE m == [mem EXCEPT !.eraseDone = cursor + ClampChunk(cursor, opts.chunk)]
  <2>1. Keeps(mem, m) /\ pc # "idle"
    BY <1>9, <1>0 DEF WriteChunk, InPass, Transfers, Keeps, TypeOK, DriveStates
  <2>2. \A at : Keeps(m, [m EXCEPT !.offset = at])
    BY <1>0 DEF Keeps, TypeOK, DriveStates
  <2>3. Progress(m)
    BY <1>9 DEF WriteChunk
  <2> HIDE DEF m
  <2>4. /\ mem' = m \/ mem' = [m EXCEPT !.offset = Done(m)]
        /\ ckpt' \in {ckpt, mem'}
    BY <2>3 DEF Progress, Persist
  <2>5. Keeps(m, mem')
    BY <2>2, <2>4, KeepsSame
  <2>6. Keeps(mem, mem')
    BY <2>1, <2>5, KeepsTransitive
  <2> QED
    BY <1>0, <2>1, <2>4, <2>6, EvidenceInSession
<1>10. CASE RefuseChunk
  <2> DEFINE m == RecordWriteError(
                   [mem EXCEPT !.eraseDone = cursor + ClampChunk(cursor, opts.chunk)],
                   ChunkAt(cursor, opts.chunk))
  <2>1. Keeps(mem, m) /\ pc # "idle"
    BY <1>10, <1>0
       DEF RefuseChunk, InPass, Transfers, Keeps, TypeOK, DriveStates, RecordWriteError
  <2>2. /\ \A at : Keeps(m, [m EXCEPT !.offset = at])
        /\ Keeps(m, [m EXCEPT !.abandoned = TRUE])
    BY <1>0 DEF Keeps, TypeOK, DriveStates, RecordWriteError
  <2>3. Progress(m) \/ (mem' = [m EXCEPT !.abandoned = TRUE] /\ UNCHANGED ckpt)
    BY <1>10 DEF RefuseChunk
  <2> HIDE DEF m
  <2>4. /\ \/ mem' = m \/ mem' = [m EXCEPT !.offset = Done(m)]
           \/ mem' = [m EXCEPT !.abandoned = TRUE]
        /\ ckpt' \in {ckpt, mem'}
    BY <2>3 DEF Progress, Persist
  <2>5. Keeps(m, mem')
    BY <2>2, <2>4, KeepsSame
  <2>6. Keeps(mem, mem')
    BY <2>1, <2>5, KeepsTransitive
  <2> QED
    BY <1>0, <2>1, <2>4, <2>6, EvidenceInSession
<1>11. CASE ReadChunk
  <2> DEFINE m == RecordNonzero(
                   [mem EXCEPT !.verifyDone = cursor + ClampChunk(cursor, opts.chunk)],
                   ChunkAt(cursor, opts.chunk))
  <2>1. Keeps(mem, m) /\ pc # "idle"
    BY <1>11, <1>0
       DEF ReadChunk, InPass, Transfers, Keeps, TypeOK, DriveStates,
           RecordNonzero
  <2>2. \A at : Keeps(m, [m EXCEPT !.offset = at])
    BY <1>0 DEF Keeps, TypeOK, DriveStates, RecordNonzero
  <2>3. Progress(m)
    BY <1>11 DEF ReadChunk
  <2> HIDE DEF m
  <2>4. /\ mem' = m \/ mem' = [m EXCEPT !.offset = Done(m)]
        /\ ckpt' \in {ckpt, mem'}
    BY <2>3 DEF Progress, Persist
  <2>5. Keeps(m, mem')
    BY <2>2, <2>4, KeepsSame
  <2>6. Keeps(mem, mem')
    BY <2>1, <2>5, KeepsTransitive
  <2> QED
    BY <1>0, <2>1, <2>4, <2>6, EvidenceInSession
<1>12. CASE ReadErrorChunk
  <2> DEFINE n == [mem EXCEPT !.verifyDone = cursor + ClampChunk(cursor, opts.chunk)]
  <2>1. PICK unread \in SUBSET ChunkAt(cursor, opts.chunk) :
          mem' = NarrowReadError(n, ChunkAt(cursor, opts.chunk), unread)
    BY <1>12 DEF ReadErrorChunk
  <2>2. Keeps(mem, mem')
    BY <1>0, <2>1
       DEF NarrowReadError, RecordNonzero, Keeps, TypeOK, DriveStates
  <2>3. pc # "idle" /\ ckpt' = ckpt
    BY <1>12 DEF ReadErrorChunk, InPass, Transfers
  <2> QED
    BY <1>0, <2>2, <2>3, EvidenceInSession
<1>13. CASE EndLoop
  <2>1. Keeps(mem, mem') /\ pc # "idle" /\ ckpt' \in {ckpt, mem, mem'}
    BY <1>13, <1>0 DEF EndLoop, Keeps, TypeOK, DriveStates, NoteStop
  <2> QED
    BY <1>0, <2>1, EvidenceInSession
<1>14. CASE FlushCache
  BY <1>14, <1>0, KeepsSame DEF FlushCache, EvidenceOK
<1>15. CASE ClosePass
  <2>1. Keeps(mem, mem') /\ pc # "idle" /\ ckpt' \in {ckpt, mem, mem'}
    BY <1>15, <1>0 DEF ClosePass, Keeps, TypeOK, DriveStates, Persist
  <2> QED
    BY <1>0, <2>1, EvidenceInSession
<1>16. CASE Vanish
  <2>1. Keeps(mem, mem') /\ pc # "idle" /\ ckpt' \in {ckpt, mem, mem'}
    BY <1>16, <1>0 DEF Vanish, Transfers, Keeps, TypeOK, DriveStates, Persist
  <2> QED
    BY <1>0, <2>1, EvidenceInSession
<1>17. CASE DeviceReturns
  BY <1>17, <1>0, KeepsSame DEF DeviceReturns, EvidenceOK
<1>18. CASE GiveUpWaiting
  BY <1>18, <1>0, KeepsSame DEF GiveUpWaiting, EvidenceOK
<1>19. CASE Fault
  BY <1>19, <1>0, KeepsSame DEF Fault, Transfers, EvidenceOK
<1>20. CASE ConcludeErase
  <2>1. Keeps(mem, mem') /\ pc # "idle" /\ ckpt' \in {ckpt, mem, mem'}
    BY <1>20, <1>0 DEF ConcludeErase, Keeps, TypeOK, DriveStates, Persist
  <2> QED
    BY <1>0, <2>1, EvidenceInSession
<1>21. CASE ConcludeVerify
  <2>1. Keeps(mem, mem') /\ pc # "idle" /\ ckpt' \in {ckpt, mem, mem'}
    BY <1>21, <1>0 DEF ConcludeVerify, Keeps, TypeOK, DriveStates, Persist
  <2> QED
    BY <1>0, <2>1, EvidenceInSession
<1>22. CASE EnterExtended
  <2>1. Keeps(mem, mem') /\ pc # "idle" /\ ckpt' \in {ckpt, mem, mem'}
    BY <1>22, <1>0 DEF EnterExtended, Keeps, TypeOK, DriveStates, Persist, EnterPhase
  <2> QED
    BY <1>0, <2>1, EvidenceInSession
<1>23. CASE ExtendedTest
  <2>1. PICK r \in TestOutcomes : mem' = [mem EXCEPT !.extTest = r] /\ ckpt' = mem'
    BY <1>23 DEF ExtendedTest, Persist
  <2>2. Keeps(mem, mem') /\ pc # "idle"
    BY <1>23, <1>0, <2>1 DEF ExtendedTest, Keeps, TypeOK, DriveStates
  <2> QED
    BY <1>0, <2>1, <2>2, EvidenceInSession
<1>24. CASE GuardAborts \/ GateHolds \/ GateOpens
  BY <1>24, <1>0, KeepsSame DEF GuardAborts, GateHolds, GateOpens, InLoop, EvidenceOK
<1>25. CASE AfterSnapshot
  <2>1. Keeps(mem, mem') /\ pc # "idle" /\ ckpt' \in {ckpt, mem, mem'}
    BY <1>25, <1>0 DEF AfterSnapshot, Keeps, TypeOK, DriveStates, Persist, EnterPhase
  <2> QED
    BY <1>0, <2>1, EvidenceInSession
<1>26. CASE BuildReport
  <2>1. Keeps(mem, mem') /\ pc # "idle" /\ ckpt' \in {ckpt, mem, mem'}
    BY <1>26, <1>0 DEF BuildReport, Keeps, TypeOK, DriveStates, Persist, EnterPhase
  <2> QED
    BY <1>0, <2>1, EvidenceInSession
<1>27. CASE EmitReport
  BY <1>27, <1>0, KeepsSame DEF EmitReport, EvidenceOK
<1>28. CASE EmitFails
  <2>1. pc' = "idle" /\ ckpt' = ckpt
    BY <1>28 DEF EmitFails, ProcessGone
  <2> QED
    BY <2>1, KeepsSame DEF EvidenceOK
<1>29. CASE Exit
  <2>1. pc' = "idle" /\ pc = "restore" /\ ckpt' = RestoredCheckpoint
    BY <1>29 DEF Exit, ProcessGone
  <2>2. Keeps(mem, RestoredCheckpoint)
    BY <1>0 DEF RestoredCheckpoint, EnterPhase, Keeps, TypeOK, DriveStates
  <2> QED
    BY <1>0, <2>1, <2>2, KeepsTransitive DEF EvidenceOK
<1>30. CASE Signal
  BY <1>30, <1>0, KeepsSame DEF Signal, EvidenceOK
<1>31. CASE Kill
  <2>1. pc' = "idle" /\ ckpt' = ckpt
    BY <1>31 DEF Kill, ProcessGone
  <2> QED
    BY <2>1, KeepsSame DEF EvidenceOK
<1>32. CASE PowerCut
  <2>1. pc' = "idle" /\ ckpt' = ckpt
    BY <1>32 DEF PowerCut, ProcessGone
  <2> QED
    BY <2>1, KeepsSame DEF EvidenceOK
<1>33. CASE UNCHANGED vars
  BY <1>33, <1>0, KeepsSame DEF vars, EvidenceOK
<1> QED
  BY <1>1, <1>2, <1>3, <1>4, <1>5, <1>6, <1>7, <1>8, <1>9, <1>10,
     <1>11, <1>12, <1>13, <1>14, <1>15, <1>16, <1>17, <1>18, <1>19,
     <1>20, <1>21, <1>22, <1>23, <1>24, <1>25, <1>26, <1>27, <1>28,
     <1>29, <1>30, <1>31, <1>32, <1>33
     DEF Next, Step, Environment

-----------------------------------------------------------------------------
(* The theorems.                                                           *)

LEMMA InitSound ==
  ASSUME Init PROVE IInv
<1>1. TypeOK
  BY TypeInit
<1>2. /\ Sound(surface, ckpt) /\ Sound(surface, mem)
      /\ Sound(surface, RestoredCheckpoint)
  BY FreshIsSound DEF Init, RestoredCheckpoint
<1>3. Cached = {}
  BY DEF Init, Cached
<1>4. ControlOK
  BY <1>3 DEF Init, ControlOK, Unwinding
<1>5. VerdictOK /\ EvidenceOK
  BY DEF Init, VerdictOK, EvidenceOK
<1> QED
  BY <1>1, <1>2, <1>4, <1>5 DEF IInv

(* Memory, the checkpoint and what Exit would save are sound on the        *)
(* surface throughout; a verdict stands; no finding is dropped.            *)
THEOREM RunInvariant == Spec => []IInv
<1>1. Init => IInv
  BY InitSound
<1>2. IInv /\ TypeOK' /\ [Next]_vars => IInv'
  BY SoundStep, ControlStep, VerdictStep, EvidenceStep DEF IInv
<1> QED
  BY <1>1, <1>2, TypeCorrect, PTL DEF Spec

(* An erase never passes over a block it neither wrote nor recorded as     *)
(* refusing the write, through crashes, resumes and lost writes.           *)
THEOREM EraseIsAccounted == Spec => []ErasedPrefixIsAccounted
<1>1. IInv => ErasedPrefixIsAccounted
  BY DEF IInv, Sound, EraseAccounted, ErasedPrefixIsAccounted
<1> QED
  BY <1>1, RunInvariant, PTL

(* A finding that was checkpointed is in every later checkpoint.           *)
THEOREM EvidenceSurvives == Spec => EvidenceIsKept
<1>1. IInv /\ [Next]_vars
        => [/\ ckpt.badWrites \subseteq ckpt'.badWrites
            /\ ckpt.badReads \subseteq ckpt'.badReads
            /\ ckpt.nonzero \subseteq ckpt'.nonzero]_ckpt
  BY EvidenceStep DEF Keeps
<1> QED
  BY <1>1, RunInvariant, PTL DEF Spec, EvidenceIsKept

(* No later session turns a FAIL into a grade a buyer may see.             *)
THEOREM VerdictStands == Spec => FailIsFinal
<1>1. IInv /\ [Next]_vars => [report = "FAIL" => ~Certified']_report
  <2> SUFFICES ASSUME IInv, [Next]_vars, report = "FAIL"
               PROVE  UNCHANGED report
    BY DEF Certified
  <2>1. pc \in {"idle", "restore"} /\ ckpt.phase = REPORT
    BY DEF IInv, VerdictOK
  <2>2. CASE UNCHANGED vars
    BY <2>2 DEF vars
  <2>3. CASE Next
    BY <2>1, <2>3, PhaseOrder
       DEF Next, Step, Environment, EnterErase, EnterVerify, PassesBehind,
           InterruptedAtOpen, NothingLeft, OpenPass, WriteChunk, RefuseChunk,
           ReadChunk, ReadErrorChunk, InPass, Transfers, EndLoop, FlushCache, ClosePass,
           Vanish, DeviceReturns, GiveUpWaiting, Fault, ConcludeErase,
           ConcludeVerify, EnterExtended, ExtendedTest, GuardAborts,
           GateHolds, GateOpens, AfterSnapshot, BuildReport, EmitReport,
           EmitFails, Exit, Signal, Kill, PowerCut, Run, Resume, Launch
  <2> QED
    BY <2>2, <2>3
<1> QED
  BY <1>1, RunInvariant, PTL DEF Spec, FailIsFinal

(* A verify accounts for every block below its offset that is not zero,    *)
(* wherever the bridge commits its cache before the verify.                *)
THEOREM VerifyIsAccounted ==
  ASSUME CacheIsCommitted PROVE Spec => []VerifiedPrefixIsAccounted
<1>1. IInv => VerifiedPrefixIsAccounted
  BY CacheIsCommitted
     DEF IInv, Sound, VerifyAccounted, VerifiedPrefixIsAccounted, Dirty, DirtyOn
<1> QED
  BY <1>1, RunInvariant, PTL

(* A drive graded PASS or CAUTION is zero everywhere, under the same       *)
(* condition.                                                              *)
THEOREM CertificateIsTrue ==
  ASSUME CacheIsCommitted PROVE Spec => []CertifiedDriveIsZero
<1>1. IInv => CertifiedDriveIsZero
  <2> SUFFICES ASSUME IInv, Certified, NEW b \in Blocks, Dirty(b)
               PROVE  FALSE
    BY DEF CertifiedDriveIsZero
  <2>1. ckpt.verified /\ ~HasFailed(ckpt)
    BY DEF IInv, VerdictOK, Certified
  <2>2. b \in ckpt.nonzero \cup ckpt.badReads
    BY CacheIsCommitted, <2>1
       DEF IInv, Sound, VerifyAccounted, Dirty, DirtyOn
  <2> QED
    BY <2>1, <2>2 DEF HasFailed
<1> QED
  BY <1>1, RunInvariant, PTL

(* And no verify reads a surface the bridge may still lose.                *)
THEOREM CacheIsFlushed ==
  ASSUME CacheIsCommitted PROVE Spec => []FlushedBeforeVerify
<1>1. IInv => FlushedBeforeVerify
  BY CacheIsCommitted, CachedIs
     DEF IInv, Sound, CommittedFirst, FlushedBeforeVerify, InLoop
<1> QED
  BY <1>1, RunInvariant, PTL

-----------------------------------------------------------------------------
(* The run implements Wipe.                                                *)

DirtyBlocks  == {b \in Blocks : Dirty(b)}
FindingsSaved == ckpt.badWrites \cup ckpt.badReads \cup ckpt.nonzero

(* What the checkpoint says was verified is clean, or found; a certificate *)
(* is of a drive that is sure, clean and without a finding.                *)
Whole ==
  /\ DirtyBlocks \cap Accounted \subseteq FindingsSaved
  /\ FindingsSaved \subseteq Blocks /\ Accounted \subseteq Blocks
  /\ Certified
       => Accounted = Blocks /\ FindingsSaved = {} /\ DirtyBlocks = {}

LEMMA WholeHolds ==
  ASSUME CacheIsCommitted, IInv PROVE Whole
<1>1. /\ DirtyBlocks \cap Accounted \subseteq FindingsSaved
      /\ FindingsSaved \subseteq Blocks /\ Accounted \subseteq Blocks
  BY DEF IInv, Sound, VerifyAccounted, DirtyOn, Dirty, DirtyBlocks, Accounted,
         FindingsSaved, TypeOK, DriveStates
<1>2. ASSUME Certified
      PROVE  Accounted = Blocks /\ FindingsSaved = {} /\ DirtyBlocks = {}
  <2>1. ckpt.verified /\ ~HasFailed(ckpt)
    BY <1>2 DEF IInv, VerdictOK, Certified
  <2>2. Accounted = Blocks /\ FindingsSaved = {}
    BY <2>1 DEF Accounted, FindingsSaved, HasFailed
  <2> QED
    BY <1>1, <2>2 DEF DirtyBlocks
<1> QED
  BY <1>1, <1>2 DEF Whole

(* An erase under way, or a cache that may be lost: nothing is verified.   *)
LEMMA NothingSure ==
  ASSUME CacheIsCommitted, IInv,
         (pc \in {"io", "paused", "through"} /\ mem.phase = ERASE) \/ Cached # {}
  PROVE  Accounted = {}
BY PhaseOrder, CachedIs
   DEF IInv, Sound, CommittedFirst, NothingVerified, ControlOK, Accounted

LEMMA LossIsUnsure ==
  ASSUME CacheIsCommitted, IInv, LoseCache
  PROVE  DirtyBlocks' \cap Accounted = DirtyBlocks \cap Accounted
<1>1. CASE Cached = {}
  BY <1>1, LoseCacheSteps DEF IInv, DirtyBlocks, Dirty
<1>2. CASE Cached # {}
  BY <1>2, NothingSure
<1> QED
  BY <1>1, <1>2

(* No step writes, or loses, a block that is verified.                     *)
LEMMA SureIsUntouched ==
  ASSUME CacheIsCommitted, IInv, [Next]_vars
  PROVE  DirtyBlocks' \cap Accounted = DirtyBlocks \cap Accounted
<1>1. CASE surface' = surface
  BY <1>1 DEF DirtyBlocks, Dirty
<1>2. CASE WriteChunk
  BY <1>2, NothingSure DEF WriteChunk, InPass, Transfers
<1>3. CASE FlushCache
  <2>1. \A b \in Blocks : Dirty(b)' <=> Dirty(b)
    BY <1>3 DEF FlushCache, Dirty, Cached
  <2> QED
    BY <2>1 DEF DirtyBlocks
<1>4. CASE LoseCache
  BY <1>4, LossIsUnsure
<1>5. \/ surface' = surface \/ WriteChunk \/ FlushCache \/ LoseCache
  <2>1. CASE UNCHANGED vars
    BY <2>1 DEF vars
  <2>2. CASE Next
    BY <2>2
       DEF Next, Step, Environment, EnterErase, EnterVerify, PassesBehind,
           InterruptedAtOpen, NothingLeft, OpenPass, RefuseChunk,
           ReadChunk, ReadErrorChunk, EndLoop, ClosePass,
           Vanish, DeviceReturns, GiveUpWaiting, Fault, ConcludeErase,
           ConcludeVerify, EnterExtended, ExtendedTest, GuardAborts,
           GateHolds, GateOpens, AfterSnapshot, BuildReport, EmitReport,
           EmitFails, Exit, Signal, Kill, PowerCut, Run, Resume, Launch
  <2> QED
    BY <2>1, <2>2
<1> QED
  BY <1>1, <1>2, <1>3, <1>4, <1>5

(* A report is only written at its place, over no verdict.                 *)
LEMMA ReportStep ==
  ASSUME IInv, [Next]_vars, report' # report
  PROVE  /\ report # "FAIL" /\ report' \in Grades
         /\ UNCHANGED <<surface, ckpt>>
<1>1. EmitReport \/ EmitFails
  BY DEF vars, Next, Step, Environment, EnterErase, EnterVerify, PassesBehind,
         InterruptedAtOpen, NothingLeft, OpenPass, WriteChunk, RefuseChunk,
         ReadChunk, ReadErrorChunk, EndLoop, FlushCache, ClosePass,
         Vanish, DeviceReturns, GiveUpWaiting, Fault, ConcludeErase,
         ConcludeVerify, EnterExtended, ExtendedTest, GuardAborts,
         GateHolds, GateOpens, AfterSnapshot, BuildReport, Exit, Signal, Kill,
         PowerCut, Run, Resume, Launch
<1>2. pc = "emit" /\ WriteReport /\ UNCHANGED <<surface, ckpt>>
  BY <1>1 DEF EmitReport, EmitFails
<1> QED
  BY <1>2, GradeType DEF IInv, VerdictOK, WriteReport

(* Every step of the run is a step of Wipe, or none.                       *)
LEMMA StepKeepsPromise ==
  ASSUME CacheIsCommitted, IInv, Whole, Whole', [Next]_vars
  PROVE  [Promise!Next]_(Promise!vars)
<1>0. FindingsSaved \subseteq FindingsSaved'
  BY EvidenceStep DEF Keeps, FindingsSaved
<1>1. CASE report' # report
  <2>1. /\ report # "FAIL" /\ report' \in Grades
        /\ UNCHANGED <<surface, ckpt>>
    BY <1>1, ReportStep
  <2>2. /\ DirtyBlocks' = DirtyBlocks /\ FindingsSaved' = FindingsSaved
        /\ Accounted' = Accounted
    BY <2>1 DEF Dirty, DirtyBlocks, FindingsSaved, Accounted
  <2>3. Certified' => Accounted' = Blocks /\ FindingsSaved' = {}
    BY DEF Whole
  <2>4. Promise!Grade
    BY <2>1, <2>2, <2>3
       DEF Promise!Grade, Promise!Certified, Certified, Grades, DirtyBlocks,
           FindingsSaved
  <2> QED
    BY <2>4 DEF Promise!Next
<1>2. CASE report' = report /\ Certified
  <2>1. Certified'
    BY <1>2 DEF Certified
  <2>2. /\ DirtyBlocks' = DirtyBlocks /\ FindingsSaved' = FindingsSaved
        /\ Accounted' = Accounted
    BY <1>2, <2>1 DEF Whole
  <2> QED
    BY <1>2, <2>2 DEF Promise!vars, DirtyBlocks, FindingsSaved
<1>3. CASE report' = report /\ ~Certified
  <2>1. DirtyBlocks' \cap Accounted = DirtyBlocks \cap Accounted
    BY SureIsUntouched
  <2>2. /\ DirtyBlocks' \cap Accounted' \subseteq FindingsSaved'
        /\ FindingsSaved' \subseteq Blocks /\ Accounted' \subseteq Blocks
    BY DEF Whole
  <2>3. Promise!Work
    BY <1>0, <1>3, <2>1, <2>2
       DEF Promise!Work, Promise!Certified, Certified, DirtyBlocks,
           FindingsSaved
  <2> QED
    BY <2>3 DEF Promise!Next
<1> QED
  BY <1>1, <1>2, <1>3

(* The run does what Wipe allows and no more: through crashes, lost writes *)
(* and realigned offsets a verified block is not written or lost again, no *)
(* finding is given up, and a certificate rests on the whole surface.      *)
THEOREM RunKeepsPromise ==
  ASSUME CacheIsCommitted PROVE Spec => Promised
<1>1. Init => Promise!Init
  BY DEF Init, Promise!Init, FreshState, Dirty, Accounted,
         VERIFY, SHORT_TEST
<1>2. IInv => Whole
  BY CacheIsCommitted, WholeHolds
<1>3. IInv /\ Whole /\ Whole' /\ [Next]_vars => [Promise!Next]_(Promise!vars)
  BY CacheIsCommitted, StepKeepsPromise
<1> QED
  BY <1>1, <1>2, <1>3, RunInvariant, PTL DEF Spec, Promised, Promise!Spec

-----------------------------------------------------------------------------
(* What a session that nobody stops or kills leaves behind.                *)

(* A drive state that lacks a part of the verify says why.                 *)
Told(m) == HasFailed(m) /\ (m.abandoned \/ m.stoppedOnFail)

VerifyBehind(m) == (m.verifyDone = Size /\ m.verified) \/ Told(m)

(* The passes before the phase a drive state is in ran to the end of the   *)
(* device, or the drive had failed.  An offset at the end is one the pass  *)
(* got to: `resume` would otherwise take the pass as done.                 *)
Complete(m) ==
  /\ m.phase > ERASE  => m.eraseDone = Size \/ HasFailed(m)
  /\ m.phase > VERIFY => VerifyBehind(m)
  /\ m.phase \in {ERASE, VERIFY} /\ m.offset = Size => Done(m) = Size
  /\ m.abandoned => HasFailed(m)

(* The same of what Exit will put back, and what the child's position adds.*)
SessionOK ==
  /\ Complete(RestoredCheckpoint)
  /\ pc = "open" => mem.offset < Size \/ ResumeOffset(mem, opts.chunk) = Size
  /\ pc \in {"io", "paused", "through"}
       => mem.offset < Size \/ cursor = Size
  /\ pc = "waiting" => mem.offset < Size
  /\ pc \in {"flush", "closing", "covered"} => Done(mem) = Size \/ Told(mem)
  /\ pc = "erased" => mem.eraseDone = Size \/ HasFailed(mem)
  /\ pc = "verified" => VerifyBehind(mem)
  /\ pc = "test" => mem.phase > VERIFY
  /\ pc \in Unwinding /\ stoppedAt = Finished => mem.phase > VERIFY

PassesOK ==
  \/ gateFailed
  \/ /\ ~stop
     /\ IF pc = "idle" THEN Complete(ckpt) \/ (EmitFaults /\ ckpt.phase = REPORT)
                       ELSE SessionOK

(* An offset that was rounded once stays where it is.                      *)
LEMMA RoundedTwice ==
  ASSUME NEW m \in DriveStates, NEW c \in Chunks, NEW p \in Phases
  PROVE  ResumeOffset(EnterPhase(m, p, ResumeOffset(m, c)), c) = ResumeOffset(m, c)
<1> DEFINE q == m.offset \div c
<1>1. m.offset \in Nat /\ c \in Nat \ {0}
  BY SizeAssumption DEF DriveStates, Offsets
<1>2. q \in Int
  BY <1>1
<1>3. (q * c) \div c = q
  BY <1>1, <1>2, SMT
<1>4. EnterPhase(m, p, q * c).offset = q * c
  BY DEF EnterPhase, DriveStates
<1> QED BY <1>3, <1>4 DEF ResumeOffset

LEMMA FailedStays ==
  ASSUME NEW m, NEW n, Keeps(m, n)
  PROVE  HasFailed(m) => HasFailed(n)
BY DEF Keeps, HasFailed

(* A pass moves, records a finding, or notes what ended it.                *)
LEMMA CompletePass ==
  ASSUME NEW m \in DriveStates, NEW n \in DriveStates, Complete(m), Keeps(m, n),
         m.phase \in {ERASE, VERIFY}, n.phase = m.phase,
         m.phase = VERIFY => n.eraseDone = m.eraseDone,
         n.abandoned => m.abandoned \/ HasFailed(n),
         n.offset = Size => Done(n) = Size
  PROVE  Complete(n)
BY FailedStays, PhaseOrder DEF Complete

(* A phase after the passes is entered.                                    *)
LEMMA CompleteLater ==
  ASSUME NEW m \in DriveStates, Complete(m), m.phase >= VERIFY, VerifyBehind(m),
         NEW p \in {EXTENDED_TEST, SMART_AFTER, REPORT}
  PROVE  Complete(EnterPhase(m, p, 0))
<1> DEFINE n == EnterPhase(m, p, 0)
<1>1. /\ n.phase = p /\ n.eraseDone = m.eraseDone /\ n.verifyDone = m.verifyDone
      /\ n.verified = m.verified /\ n.abandoned = m.abandoned
      /\ n.stoppedOnFail = m.stoppedOnFail
      /\ HasFailed(n) = HasFailed(m)
  BY DEF EnterPhase, DriveStates, HasFailed
<1>2. m.phase > ERASE /\ p \notin {ERASE, VERIFY}
  BY PhaseOrder DEF DriveStates, Phases
<1> HIDE DEF n
<1>3. Complete(n)
  BY <1>1, <1>2 DEF Complete, VerifyBehind, Told
<1> QED BY <1>3 DEF n

(* An exception handler puts back what was there.                          *)
LEMMA CompleteUnwind ==
  ASSUME NEW m \in DriveStates, Complete(m), Unwind(m), mem' = m
  PROVE  SessionOK' /\ pc' = "after"
<1>1. RestoredCheckpoint' = m
  BY UnwindRestores
<1>2. pc' = "after" /\ stoppedAt' # Finished
  BY DEF Unwind, Finished
<1> QED BY <1>1, <1>2 DEF SessionOK

(* Until the after-snapshot Exit would put back what memory says.          *)
Working ==
  /\ Complete(mem) /\ mem \in DriveStates /\ stoppedAt = Finished
  /\ mem.offset \in 0 .. Size /\ cursor \in 0 .. Size /\ Done(mem) \in 0 .. Size
  /\ mem.eraseDone \in 0 .. Size /\ mem.verifyDone \in 0 .. Size
  /\ Size \in Nat \ {0} /\ opts.chunk \in Chunks

LEMMA InMemory ==
  ASSUME IInv, SessionOK, pc \notin Unwinding
  PROVE  Working
<1>1. mem \in DriveStates /\ opts \in Options /\ cursor \in Offsets
  BY DEF IInv, TypeOK
<1>2. stoppedAt = Finished /\ Complete(mem)
  BY DEF IInv, ControlOK, SessionOK, RestoredCheckpoint
<1> QED BY <1>1, <1>2, PositionUpdate, SizeAssumption
      DEF DriveStates, Options, Offsets, Working

(* A step that stays before the after-snapshot.                            *)
LEMMA StaysInSession ==
  ASSUME NEW m \in DriveStates, mem' = m, Complete(m), stoppedAt' = Finished,
         pc' \notin Unwinding,
         pc' = "open" => m.offset < Size \/ ResumeOffset(m, opts'.chunk) = Size,
         pc' \in {"io", "paused", "through"}
           => m.offset < Size \/ cursor' = Size,
         pc' = "waiting" => m.offset < Size,
         pc' \in {"flush", "closing", "covered"} => Done(m) = Size \/ Told(m),
         pc' = "erased" => m.eraseDone = Size \/ HasFailed(m),
         pc' = "verified" => VerifyBehind(m),
         pc' = "test" => m.phase > VERIFY
  PROVE  SessionOK'
<1>1. RestoredCheckpoint' = m
  BY RestoredNext
<1> QED BY <1>1 DEF SessionOK

(* A pass is entered, at zero or where it was.                             *)
LEMMA EraseEntered ==
  ASSUME IInv, SessionOK, EnterErase
  PROVE  SessionOK'
<1> DEFINE at == StartOffsetFor(mem, ERASE, opts.chunk)
           m  == EnterPhase(mem, ERASE, at)
<1>1. /\ pc = "start" /\ mem.phase <= ERASE /\ mem' = m /\ pc' = "open"
      /\ UNCHANGED <<opts, stoppedAt>>
  BY DEF EnterErase, Persist
<1>2. Working
  BY <1>1, InMemory DEF Unwinding
<1>3. at \in Offsets /\ m \in DriveStates
  BY <1>1, <1>2, StartType, PhaseTypes, PhaseUpdate DEF IInv, TypeOK
<1>4. /\ m.phase = ERASE /\ m.offset = at /\ m.eraseDone = mem.eraseDone
      /\ m.abandoned = mem.abandoned /\ HasFailed(m) = HasFailed(mem)
  BY <1>2 DEF Working, EnterPhase, DriveStates, HasFailed
<1>5. mem.phase = ERASE => at = ResumeOffset(mem, opts.chunk) /\ at <= mem.offset
  BY <1>2, ResumeOffsetType DEF StartOffsetFor, Working
<1>6. mem.phase # ERASE => at = 0
  BY DEF StartOffsetFor
<1>7. m.offset = Size => mem.phase = ERASE /\ mem.offset = Size
  BY <1>2, <1>3, <1>4, <1>5, <1>6 DEF Working, Offsets
<1>8. Complete(m)
  BY <1>2, <1>4, <1>7, PhaseOrder DEF Complete, Done, Working
<1>9. m.offset < Size \/ ResumeOffset(m, opts.chunk) = Size
  <2>1. m.offset < Size \/ m.offset = Size
    BY <1>2, <1>3, <1>4 DEF Offsets, Working
  <2>2. CASE m.offset = Size
    BY <1>2, <1>4, <1>5, <1>7, <2>2, RoundedTwice, PhaseTypes DEF Working
  <2> QED BY <2>1, <2>2
<1> HIDE DEF m, at
<1> QED BY <1>1, <1>2, <1>3, <1>8, <1>9, StaysInSession DEF Unwinding, Working

LEMMA VerifyEntered ==
  ASSUME IInv, SessionOK, EnterVerify
  PROVE  SessionOK'
<1> DEFINE at == StartOffsetFor(mem, VERIFY, opts.chunk)
           m  == EnterPhase(mem, VERIFY, at)
           n  == [m EXCEPT !.verified = FALSE]
<1>1. /\ pc \in {"start", "erased"}
      /\ pc = "start" => mem.phase = VERIFY
      /\ \/ m.abandoned /\ mem' = n /\ pc' = "verified"
         \/ mem' = m /\ pc' = "open"
      /\ UNCHANGED <<opts, stoppedAt>>
  BY DEF EnterVerify, Persist
<1>2. Working /\ (mem.phase = VERIFY \/ mem.eraseDone = Size \/ HasFailed(mem))
  BY <1>1, InMemory DEF Unwinding, SessionOK
<1>3. at \in Offsets /\ m \in DriveStates /\ n \in DriveStates
  <2>1. at \in Offsets /\ m \in DriveStates
    BY <1>2, StartType, PhaseTypes, PhaseUpdate DEF IInv, TypeOK, Working
  <2> QED BY <2>1, OutcomeUpdate
<1>4. /\ m.phase = VERIFY /\ m.offset = at /\ m.eraseDone = mem.eraseDone
      /\ m.verifyDone = mem.verifyDone
      /\ m.abandoned = mem.abandoned /\ HasFailed(m) = HasFailed(mem)
  BY <1>2 DEF Working, EnterPhase, DriveStates, HasFailed
<1>5. mem.phase = VERIFY => at = ResumeOffset(mem, opts.chunk) /\ at <= mem.offset
  BY <1>2, ResumeOffsetType DEF StartOffsetFor, Working
<1>6. mem.phase # VERIFY => at = 0
  BY DEF StartOffsetFor
<1>7. m.offset = Size => mem.phase = VERIFY /\ mem.offset = Size
  BY <1>2, <1>3, <1>4, <1>5, <1>6 DEF Working, Offsets
<1>8. Complete(m)
  <2>1. m.eraseDone = Size \/ HasFailed(m)
    BY <1>2, <1>4, PhaseOrder DEF Complete, Working
  <2>2. m.offset = Size => Done(m) = Size
    BY <1>2, <1>4, <1>7, PhaseOrder DEF Complete, Done, Working
  <2>3. m.abandoned => HasFailed(m)
    BY <1>2, <1>4 DEF Complete, Working
  <2> QED BY <1>4, <2>1, <2>2, <2>3, PhaseOrder DEF Complete
<1>9. m.offset < Size \/ ResumeOffset(m, opts.chunk) = Size
  <2>1. m.offset < Size \/ m.offset = Size
    BY <1>2, <1>3, <1>4 DEF Offsets, Working
  <2>2. CASE m.offset = Size
    BY <1>2, <1>4, <1>5, <1>7, <2>2, RoundedTwice, PhaseTypes DEF Working
  <2> QED BY <2>1, <2>2
<1>10. /\ n.phase = m.phase /\ n.offset = m.offset /\ n.eraseDone = m.eraseDone
       /\ n.verifyDone = m.verifyDone /\ n.abandoned = m.abandoned
       /\ Keeps(m, n)
  BY <1>3 DEF DriveStates, Keeps
<1>11. m.abandoned => VerifyBehind(n)
  BY <1>8, <1>10, FailedStays DEF Complete, VerifyBehind, Told
<1> HIDE DEF m, n, at
<1>12. Complete(n)
  <2>1. n.offset = Size => Done(n) = Size
    BY <1>4, <1>8, <1>10, PhaseOrder DEF Complete, Done
  <2> QED BY <1>3, <1>4, <1>8, <1>10, <2>1, CompletePass
<1>13. CASE m.abandoned /\ mem' = n /\ pc' = "verified"
  BY <1>1, <1>2, <1>3, <1>11, <1>12, <1>13, StaysInSession DEF Unwinding, Working
<1>14. CASE mem' = m /\ pc' = "open"
  BY <1>1, <1>2, <1>3, <1>8, <1>9, <1>14, StaysInSession DEF Unwinding, Working
<1> QED BY <1>1, <1>13, <1>14

(* Opening the device for what is left of a pass, if anything is.          *)
LEMMA PassOpened ==
  ASSUME IInv, SessionOK, NothingLeft \/ OpenPass
  PROVE  SessionOK'
<1>1. pc = "open" /\ mem.phase \in {ERASE, VERIFY} /\ UNCHANGED stoppedAt
  BY DEF NothingLeft, OpenPass, IInv, ControlOK
<1>2. Working
  BY <1>1, InMemory DEF Unwinding
<1>3. /\ ResumeOffset(mem, opts.chunk) \in Offsets
      /\ ResumeOffset(mem, opts.chunk) <= mem.offset
  BY <1>2, ResumeOffsetType DEF Working
<1>4. CASE NothingLeft
  <2>1. mem.offset = Size
    BY <1>2, <1>3, <1>4 DEF NothingLeft, Working, Offsets
  <2>2. Done(mem) = Size
    BY <1>1, <1>2, <2>1 DEF Working, Complete
  <2> QED BY <1>2, <1>4, <2>2, StaysInSession DEF NothingLeft, Working, Unwinding
<1>5. CASE OpenPass
  <2> DEFINE at == ResumeOffset(mem, opts.chunk)
             m  == SetDone(mem, at)
  <2>1. at < Size /\ mem' = m /\ pc' = "io"
    BY <1>5 DEF OpenPass
  <2>2. mem.offset < Size
    BY <1>1, <2>1, <1>2 DEF SessionOK, Working
  <2>3. m \in DriveStates
    BY <1>2, <1>3, PositionUpdate DEF Working
  <2>4. /\ m.phase = mem.phase /\ m.offset = mem.offset /\ Keeps(mem, m)
        /\ mem.phase = VERIFY => m.eraseDone = mem.eraseDone
        /\ m.abandoned = mem.abandoned
    BY <1>2, PhaseOrder DEF SetDone, Working, DriveStates, Keeps
  <2>5. Complete(m)
    <3>1. m.offset # Size
      BY <1>2, <2>2, <2>4 DEF Working
    <3> QED BY <1>1, <1>2, <2>3, <2>4, <3>1, CompletePass DEF Working
  <2> HIDE DEF m
  <2> QED BY <1>1, <1>2, <2>1, <2>2, <2>3, <2>4, <2>5, StaysInSession
          DEF Unwinding, Working
<1> QED BY <1>4, <1>5

(* A transfer, whether a progress callback was due after it or not.        *)
LEMMA Transferred ==
  ASSUME Working, cursor < Size, SessionOK, pc' = "io",
         pc \in {"io", "paused", "through"},
         mem.phase \in {ERASE, VERIFY}, NEW m \in DriveStates, Keeps(mem, m),
         m.phase = mem.phase, m.offset = mem.offset, m.abandoned = mem.abandoned,
         mem.phase = VERIFY => m.eraseDone = mem.eraseDone,
         cursor' = Done(m), UNCHANGED stoppedAt,
         mem' \in {m, [m EXCEPT !.offset = Done(m)]}
  PROVE  SessionOK'
<1> DEFINE ticked == [m EXCEPT !.offset = Done(m)]
<1>1. mem.offset < Size /\ m.offset # Size
  BY DEF SessionOK, Working
<1>2. Complete(m)
  BY <1>1, CompletePass DEF Working
<1>3. /\ ticked \in DriveStates /\ Keeps(m, ticked) /\ Done(ticked) = Done(m)
      /\ ticked.phase = m.phase /\ ticked.eraseDone = m.eraseDone
      /\ ticked.abandoned = m.abandoned /\ ticked.offset = Done(m)
      /\ Done(m) \in Offsets
  BY PositionUpdate DEF DriveStates, Keeps, Done
<1>4. ticked.offset < Size \/ cursor' = Size
  BY <1>3 DEF Offsets, Working
<1> HIDE DEF ticked
<1>5. Complete(ticked)
  BY <1>2, <1>3, CompletePass
<1>6. CASE mem' = m
  BY <1>1, <1>2, <1>6, StaysInSession DEF Working, Unwinding
<1>7. CASE mem' = ticked
  BY <1>3, <1>4, <1>5, <1>7, StaysInSession DEF Working, Unwinding
<1> QED BY <1>6, <1>7 DEF ticked

(* Where a transfer leads, and that it is within the device.               *)
LEMMA NextPosition ==
  ASSUME Working, cursor < Size
  PROVE  /\ cursor + ClampChunk(cursor, opts.chunk) \in Offsets
         /\ ChunkAt(cursor, opts.chunk) \in SUBSET Blocks
         /\ cursor \in ChunkAt(cursor, opts.chunk)
<1>1. cursor \in Offsets /\ opts.chunk \in Chunks
  BY DEF Working, Offsets
<1>2. /\ cursor + ClampChunk(cursor, opts.chunk) \in Offsets
      /\ ClampChunk(cursor, opts.chunk) \in Nat \ {0}
      /\ ChunkAt(cursor, opts.chunk) \in SUBSET Blocks
  BY <1>1, ChunkBounds
<1>3. cursor \in ChunkAt(cursor, opts.chunk)
  BY <1>1, <1>2 DEF ChunkAt, Offsets
<1> QED BY <1>2, <1>3

(* The fill's transfers.                                                   *)
LEMMA FillMoves ==
  ASSUME IInv, SessionOK, WriteChunk \/ RefuseChunk
  PROVE  SessionOK'
<1> DEFINE chunk == ChunkAt(cursor, opts.chunk)
           next  == cursor + ClampChunk(cursor, opts.chunk)
           m     == [mem EXCEPT !.eraseDone = next]
           n     == RecordWriteError(m, chunk)
           over  == [n EXCEPT !.abandoned = TRUE]
<1>1. /\ pc \in {"io", "paused", "through"}
      /\ mem.phase = ERASE /\ cursor < Size /\ UNCHANGED stoppedAt
  BY DEF WriteChunk, RefuseChunk, InPass, Transfers
<1>2. Working
  BY <1>1, InMemory DEF Unwinding
<1>3. next \in Offsets /\ chunk \in SUBSET Blocks /\ cursor \in chunk
  BY <1>1, <1>2, NextPosition
<1> HIDE DEF chunk, next
<1>4. m \in DriveStates /\ n \in DriveStates /\ over \in DriveStates
  <2>1. m \in DriveStates
    BY <1>2, <1>3, PositionUpdate DEF Working
  <2>2. n \in DriveStates
    BY <1>3, <2>1, FindingUpdate
  <2> QED BY <2>1, <2>2, OutcomeUpdate
<1>5. /\ m.phase = mem.phase /\ m.offset = mem.offset /\ Keeps(mem, m)
      /\ m.abandoned = mem.abandoned /\ Done(m) = next
  BY <1>1, <1>2 DEF Working, DriveStates, Keeps, Done
<1>6. /\ n.phase = mem.phase /\ n.offset = mem.offset /\ Keeps(mem, n)
      /\ n.abandoned = mem.abandoned /\ Done(n) = next
      /\ n.badWrites = m.badWrites \cup chunk
  BY <1>1, <1>4, <1>5 DEF RecordWriteError, DriveStates, Keeps, Done
<1>7. /\ over.phase = mem.phase /\ over.offset = mem.offset /\ Keeps(mem, over)
      /\ over.abandoned /\ over.badWrites = n.badWrites
  BY <1>4, <1>6 DEF DriveStates, Keeps
<1> HIDE DEF m, n, over
<1>8. CASE WriteChunk
  <2>1. Progress(m) /\ cursor' = next /\ pc' = "io"
    BY <1>1, <1>8 DEF WriteChunk, m, next
  <2> QED BY <1>1, <1>2, <1>4, <1>5, <2>1, Transferred, PhaseOrder
          DEF Progress, Persist
<1>9. CASE RefuseChunk /\ failures + 1 < MaxWriteFailures
  <2>1. Progress(n) /\ cursor' = next /\ pc' = "io"
    BY <1>1, <1>9 DEF RefuseChunk, m, n, next, chunk
  <2> QED BY <1>1, <1>2, <1>4, <1>6, <2>1, Transferred, PhaseOrder
          DEF Progress, Persist
<1>10. CASE RefuseChunk /\ ~(failures + 1 < MaxWriteFailures)
  <2>1. mem' = over /\ pc' = "flush"
    BY <1>10 DEF RefuseChunk, m, n, over, next, chunk
  <2>2. Told(over)
    BY <1>3, <1>6, <1>7 DEF Told, HasFailed
  <2>3. over.offset # Size
    BY <1>1, <1>2, <1>7 DEF SessionOK, Working
  <2>4. Complete(over)
    BY <1>1, <1>2, <1>4, <1>7, <2>2, <2>3, CompletePass, PhaseOrder DEF Told, Working
  <2> QED BY <1>1, <1>2, <1>4, <2>1, <2>2, <2>4, StaysInSession
          DEF Unwinding, Working
<1> QED BY <1>8, <1>9, <1>10

(* The verify's transfers.                                                 *)
LEMMA VerifyMoves ==
  ASSUME IInv, SessionOK, ReadChunk \/ ReadErrorChunk
  PROVE  SessionOK'
<1> DEFINE chunk == ChunkAt(cursor, opts.chunk)
           next  == cursor + ClampChunk(cursor, opts.chunk)
           m     == [mem EXCEPT !.verifyDone = next]
<1>1. /\ pc \in {"io", "paused", "through"}
      /\ mem.phase = VERIFY /\ cursor < Size /\ UNCHANGED stoppedAt
  BY DEF ReadChunk, ReadErrorChunk, InPass, Transfers
<1>2. Working
  BY <1>1, InMemory DEF Unwinding
<1>3. next \in Offsets /\ chunk \in SUBSET Blocks
  BY <1>1, <1>2, NextPosition
<1> HIDE DEF chunk, next
<1>4. m \in DriveStates
  BY <1>2, <1>3, PositionUpdate DEF Working
<1>5. /\ m.phase = mem.phase /\ m.offset = mem.offset /\ Keeps(mem, m)
      /\ m.abandoned = mem.abandoned /\ m.eraseDone = mem.eraseDone
      /\ m.verifyDone = next
  BY <1>2 DEF Working, DriveStates, Keeps
<1> HIDE DEF m
<1>6. ASSUME NEW n \in DriveStates, n.phase = m.phase, n.offset = m.offset, Keeps(m, n),
             n.abandoned = m.abandoned, n.eraseDone = m.eraseDone,
             n.verifyDone = m.verifyDone, cursor' = next, pc' = "io",
             mem' \in {n, [n EXCEPT !.offset = Done(n)]}
      PROVE  SessionOK'
  <2>1. Keeps(mem, n) /\ Done(n) = next
    BY <1>1, <1>5, <1>6, KeepsTransitive, PhaseOrder DEF Done
  <2> QED BY <1>1, <1>2, <1>5, <1>6, <2>1, Transferred
<1>7. CASE ReadChunk
  <2> DEFINE n == RecordNonzero(m, chunk)
  <2>1. /\ n \in DriveStates /\ n.phase = m.phase /\ n.offset = m.offset
        /\ Keeps(m, n) /\ n.abandoned = m.abandoned /\ n.eraseDone = m.eraseDone
        /\ n.verifyDone = m.verifyDone
    BY <1>3, <1>4, FindingUpdate DEF RecordNonzero, DriveStates, Keeps
  <2>2. Progress(n) /\ cursor' = next /\ pc' = "io"
    BY <1>1, <1>7 DEF ReadChunk, m, next, chunk
  <2> HIDE DEF n
  <2> QED BY <1>6, <2>1, <2>2 DEF Progress, Persist
<1>8. CASE ReadErrorChunk
  <2>1. PICK unread \in SUBSET chunk : mem' = NarrowReadError(m, chunk, unread)
    BY <1>8 DEF ReadErrorChunk, m, next, chunk
  <2> DEFINE n == NarrowReadError(m, chunk, unread)
  <2>2. /\ n.phase = m.phase /\ n.offset = m.offset
        /\ Keeps(m, n) /\ n.abandoned = m.abandoned /\ n.eraseDone = m.eraseDone
        /\ n.verifyDone = m.verifyDone
    BY <1>3, <1>4 DEF NarrowReadError, RecordNonzero, DriveStates, Keeps
  <2>3. n \in DriveStates /\ cursor' = next /\ pc' = "io"
    BY <1>1, <1>3, <1>4, <1>8, FindingUpdate DEF ReadErrorChunk, next
  <2> HIDE DEF n
  <2> QED BY <1>6, <2>1, <2>2, <2>3 DEF n
<1> QED BY <1>7, <1>8

(* A pass ends at the end of the device or, nobody having asked it to stop,*)
(* because the drive failed.                                               *)
LEMMA PassEnds ==
  ASSUME IInv, SessionOK, ~stop, EndLoop
  PROVE  SessionOK'
<1> DEFINE n == [mem EXCEPT !.stoppedOnFail = TRUE]
<1>1. /\ pc = "io" /\ mem.phase \in {ERASE, VERIFY} /\ cursor = Done(mem)
      /\ pc' \in {"flush", "closing"} /\ UNCHANGED stoppedAt
  BY DEF EndLoop, IInv, ControlOK
<1>2. Working
  BY <1>1, InMemory DEF Unwinding
<1>3. CASE cursor = Size
  <2>1. mem' = mem
    BY <1>2, <1>3 DEF EndLoop, Working
  <2> QED BY <1>1, <1>2, <1>3, <2>1, StaysInSession DEF Working, Unwinding
<1>4. CASE cursor # Size
  <2>1. HasFailed(mem) /\ mem' = n
    BY <1>2, <1>4 DEF EndLoop, StopRequested, NoteStop, Working
  <2>2. /\ n \in DriveStates /\ n.phase = mem.phase /\ n.offset = mem.offset
        /\ n.eraseDone = mem.eraseDone /\ n.abandoned = mem.abandoned
        /\ n.stoppedOnFail /\ Keeps(mem, n) /\ Done(n) = Done(mem)
    BY <1>2, OutcomeUpdate DEF Working, DriveStates, Keeps, Done
  <2>3. Told(n)
    BY <2>1, <2>2, FailedStays DEF Told
  <2> HIDE DEF n
  <2>4. Complete(n)
    BY <1>1, <1>2, <2>2, CompletePass DEF Working, Complete
  <2> QED BY <1>1, <1>2, <2>1, <2>2, <2>3, <2>4, StaysInSession DEF Working, Unwinding
<1> QED BY <1>3, <1>4

(* A pass is closed, or its device has vanished: the offset is saved, and  *)
(* the pass is over, waits, or is unwound.                                 *)
LEMMA PassLeft ==
  ASSUME IInv, SessionOK, ClosePass \/ Vanish
  PROVE  SessionOK'
<1> DEFINE m == [mem EXCEPT !.offset = Done(mem)]
<1>1. /\ pc \in {"closing", "io", "through"} /\ mem.phase \in {ERASE, VERIFY}
      /\ mem' = m /\ (pc # "closing" => cursor = Done(mem))
  BY DEF ClosePass, Vanish, Transfers, Persist, IInv, ControlOK
<1>2. Working
  BY <1>1, InMemory DEF Unwinding
<1>3. /\ m \in DriveStates /\ m.phase = mem.phase /\ m.offset = Done(mem)
      /\ m.eraseDone = mem.eraseDone /\ m.abandoned = mem.abandoned
      /\ m.stoppedOnFail = mem.stoppedOnFail /\ Keeps(mem, m)
      /\ Done(m) = Done(mem)
  BY <1>2, PositionUpdate DEF Working, DriveStates, Keeps, Done
<1> HIDE DEF m
<1>4. Complete(m)
  BY <1>1, <1>2, <1>3, CompletePass DEF Working, Complete
<1>5. CASE Unwind(m)
  BY <1>1, <1>3, <1>4, <1>5, CompleteUnwind
<1>6. CASE ClosePass /\ ~Unwind(m)
  <2>1. pc = "closing" /\ pc' = "covered" /\ UNCHANGED stoppedAt
    BY <1>6 DEF ClosePass, m
  <2>2. Done(m) = Size \/ Told(m)
    BY <1>3, <2>1, FailedStays DEF SessionOK, Told
  <2> QED BY <1>1, <1>2, <1>3, <1>4, <2>1, <2>2, StaysInSession
          DEF Working, Unwinding
<1>7. CASE Vanish /\ ~Unwind(m)
  <2>1. /\ pc \in {"io", "through"} /\ cursor < Size
        /\ pc' = "waiting" /\ UNCHANGED stoppedAt
    BY <1>7 DEF Vanish, Transfers, m
  <2> QED BY <1>1, <1>2, <1>3, <1>4, <2>1, StaysInSession DEF Working, Unwinding
<1> QED BY <1>5, <1>6, <1>7

(* The steps of a pass that leave memory alone.                            *)
LEMMA PassWaits ==
  ASSUME IInv, SessionOK, ~stop,
         FlushCache \/ DeviceReturns \/ GiveUpWaiting \/ Fault \/ InterruptedAtOpen
  PROVE  SessionOK'
<1>1. /\ pc \in {"flush", "waiting", "open", "io", "through", "test"}
      /\ mem' = mem
      /\ pc \in {"flush", "waiting"} => mem.phase \in {ERASE, VERIFY}
  BY DEF FlushCache, DeviceReturns, GiveUpWaiting, Fault, Transfers,
         InterruptedAtOpen, IInv, ControlOK
<1>2. Working
  BY <1>1, InMemory DEF Unwinding
<1>3. CASE FlushCache
  BY <1>1, <1>2, <1>3, StaysInSession
     DEF FlushCache, locals, SessionOK, Working, Unwinding
<1>4. CASE DeviceReturns
  BY <1>1, <1>2, <1>4, StaysInSession
     DEF DeviceReturns, locals, SessionOK, Working, Unwinding
<1>5. CASE GiveUpWaiting \/ Fault
  <2>1. Unwind(mem)
    BY <1>5 DEF GiveUpWaiting, Fault
  <2> QED BY <1>1, <1>2, <2>1, CompleteUnwind DEF Working
<1>6. CASE InterruptedAtOpen
  BY <1>6 DEF InterruptedAtOpen
<1> QED BY <1>3, <1>4, <1>5, <1>6

(* A pass that is over is concluded: what it covered, it covered whole, or *)
(* the drive has failed.                                                   *)
LEMMA PassConcluded ==
  ASSUME IInv, SessionOK, ConcludeErase \/ ConcludeVerify
  PROVE  SessionOK'
<1>1. pc = "covered" /\ UNCHANGED stoppedAt
  BY DEF ConcludeErase, ConcludeVerify, locals
<1>2. Working /\ (Done(mem) = Size \/ Told(mem))
  BY <1>1, InMemory DEF Unwinding, SessionOK
<1>3. CASE ConcludeErase
  <2> DEFINE m == [mem EXCEPT !.erased = EraseCoverage(mem)]
  <2>1. mem' = m /\ pc' = "erased" /\ mem.phase = ERASE
    BY <1>3 DEF ConcludeErase, Persist
  <2>2. /\ m \in DriveStates /\ m.phase = mem.phase /\ m.offset = mem.offset
        /\ m.eraseDone = mem.eraseDone /\ m.abandoned = mem.abandoned
        /\ Keeps(mem, m) /\ Done(m) = Done(mem)
    BY <1>2, CoverageType, OutcomeUpdate DEF Working, DriveStates, Keeps, Done
  <2> HIDE DEF m
  <2>3. Complete(m)
    BY <1>2, <2>1, <2>2, CompletePass DEF Working, Complete
  <2>4. m.eraseDone = Size \/ HasFailed(m)
    BY <1>2, <2>1, <2>2, FailedStays DEF Told, Done
  <2> QED BY <1>1, <1>2, <2>1, <2>2, <2>3, <2>4, StaysInSession
          DEF Working, Unwinding
<1>4. CASE ConcludeVerify
  <2> DEFINE m == [mem EXCEPT !.verified = VerifyCoverage(mem)]
  <2>1. mem' = m /\ pc' = "verified" /\ mem.phase = VERIFY
    BY <1>4 DEF ConcludeVerify, Persist
  <2>2. /\ m \in DriveStates /\ m.phase = mem.phase /\ m.offset = mem.offset
        /\ m.eraseDone = mem.eraseDone /\ m.verifyDone = mem.verifyDone
        /\ m.abandoned = mem.abandoned /\ m.stoppedOnFail = mem.stoppedOnFail
        /\ m.verified = VerifyCoverage(mem)
        /\ Keeps(mem, m) /\ Done(m) = Done(mem)
    <3>1. m \in DriveStates
      BY <1>2, CoverageType, OutcomeUpdate DEF Working
    <3> QED BY <1>2, <3>1 DEF Working, DriveStates, Keeps, Done
  <2> HIDE DEF m
  <2>3. Complete(m)
    BY <1>2, <2>1, <2>2, CompletePass DEF Working, Complete
  <2>4. VerifyBehind(m)
    <3>1. mem.verifyDone = Size \/ Told(mem)
      BY <1>2, <2>1, PhaseOrder DEF Done
    <3>2. Told(mem) => Told(m)
      BY <2>2, FailedStays DEF Told
    <3>3. mem.verifyDone = Size => VerifyCoverage(mem)
      BY <1>2 DEF VerifyCoverage, Working
    <3> QED BY <2>2, <3>1, <3>2, <3>3 DEF VerifyBehind
  <2> QED BY <1>1, <1>2, <2>1, <2>2, <2>3, <2>4, StaysInSession
          DEF Working, Unwinding
<1> QED BY <1>3, <1>4

(* The phases behind the passes, with nothing unfinished.                  *)
LEMMA TestPhase ==
  ASSUME IInv, SessionOK, ~stop,
         PassesBehind \/ EnterExtended \/ ExtendedTest
         \/ GuardAborts \/ GateHolds \/ GateOpens
  PROVE  SessionOK'
<1>1. pc \notin Unwinding
  BY DEF PassesBehind, EnterExtended, ExtendedTest, GuardAborts, GateHolds, GateOpens,
         InLoop, Unwinding
<1>2. Working
  BY <1>1, InMemory
<1>3. ASSUME NEW m \in DriveStates, NEW r \in ExtStatus,
             m.phase > VERIFY, Complete(m),
             mem' \in {m, [m EXCEPT !.extTest = r]},
             pc' \in {"after", "test"}, UNCHANGED stoppedAt
      PROVE  SessionOK'
  <2> DEFINE n == [m EXCEPT !.extTest = r]
  <2>1. /\ n.phase = m.phase /\ n.offset = m.offset /\ n.eraseDone = m.eraseDone
        /\ n.verifyDone = m.verifyDone /\ n.abandoned = m.abandoned
        /\ n.verified = m.verified /\ n.stoppedOnFail = m.stoppedOnFail
        /\ HasFailed(n) = HasFailed(m)
    BY DEF DriveStates, HasFailed
  <2> HIDE DEF n
  <2>2. Complete(n)
    BY <1>3, <2>1 DEF Complete, VerifyBehind, Told, Done
  <2>3. Complete(mem') /\ mem'.phase > VERIFY
    BY <1>3, <2>1, <2>2 DEF n
  <2>4. RestoredCheckpoint' = mem'
    BY <1>2, <1>3, RestoredNext DEF Working
  <2> QED BY <1>3, <2>3, <2>4 DEF SessionOK
<1>4. CASE PassesBehind
  <2>1. mem.phase > VERIFY
    BY <1>2, <1>4, PhaseOrder DEF PassesBehind, Working, DriveStates, Phases
  <2>2. "not_run" \in ExtStatus
    BY DEF ExtStatus
  <2> QED BY <1>2, <1>3, <1>4, <2>1, <2>2 DEF PassesBehind, locals, Working
<1>5. CASE EnterExtended
  <2> DEFINE m == EnterPhase(mem, EXTENDED_TEST, 0)
  <2>1. mem.phase >= VERIFY /\ VerifyBehind(mem)
    <3>1. CASE pc = "start" /\ mem.phase = EXTENDED_TEST
      BY <1>2, <3>1, PhaseOrder DEF Working, Complete
    <3>2. CASE pc = "verified"
      BY <3>2, PhaseOrder DEF SessionOK, IInv, ControlOK
    <3> QED BY <1>5, <3>1, <3>2 DEF EnterExtended
  <2>2. Complete(m)
    BY <1>2, <2>1, CompleteLater DEF Working
  <2>3. m \in DriveStates /\ m.phase > VERIFY
    <3>1. m \in DriveStates
      BY <1>2, PhaseUpdate, PhaseTypes DEF Working
    <3> QED BY <1>2, <3>1, PhaseOrder DEF Working, DriveStates, EnterPhase
  <2>4. /\ mem' \in {m, [m EXCEPT !.extTest = "unmeasured"]}
        /\ pc' \in {"after", "test"} /\ UNCHANGED stoppedAt
    BY <1>5 DEF EnterExtended, Persist, locals
  <2>5. "unmeasured" \in ExtStatus
    BY DEF ExtStatus
  <2> HIDE DEF m
  <2> QED BY <1>3, <2>2, <2>3, <2>4, <2>5
<1>6. CASE ExtendedTest
  <2>1. PICK r \in TestOutcomes : mem' = [mem EXCEPT !.extTest = r]
    BY <1>6 DEF ExtendedTest, Persist
  <2>2. r \in ExtStatus
    BY DEF TestOutcomes, ExtStatus
  <2>3. pc' = "after" /\ UNCHANGED stoppedAt /\ mem.phase > VERIFY
    BY <1>6 DEF ExtendedTest, SessionOK
  <2> QED BY <1>2, <1>3, <2>1, <2>2, <2>3 DEF Working
<1>7. CASE GuardAborts \/ GateHolds \/ GateOpens
  <2>1. /\ mem' = mem /\ UNCHANGED <<opts, cursor, stoppedAt>>
        /\ \/ UNCHANGED pc
           \/ /\ pc \in {"io", "paused", "through"}
              /\ pc' \in {"paused", "through"}
    BY <1>7 DEF GuardAborts, GateHolds, GateOpens, InLoop, locals
  <2>2. CASE UNCHANGED pc
    BY <1>1, <1>2, <2>1, <2>2, StaysInSession DEF SessionOK, Working
  <2>3. CASE pc \in {"io", "paused", "through"} /\ pc' \in {"paused", "through"}
    BY <1>1, <1>2, <2>1, <2>3, StaysInSession
       DEF SessionOK, Working, Unwinding
  <2> QED BY <2>1, <2>2, <2>3
<1> QED BY <1>4, <1>5, <1>6, <1>7

(* What Exit puts back is settled before the report is written.            *)
LEMMA ReportPhases ==
  ASSUME IInv, SessionOK, AfterSnapshot \/ BuildReport \/ EmitReport
  PROVE  SessionOK'
<1>1. /\ pc \in Unwinding /\ pc' \in Unwinding /\ UNCHANGED stoppedAt
      /\ mem \in DriveStates
  BY DEF AfterSnapshot, BuildReport, EmitReport, Unwinding, locals, IInv, TypeOK
<1>2. CASE EmitReport
  BY <1>1, <1>2 DEF EmitReport, SessionOK, RestoredCheckpoint, locals, Unwinding
<1>3. ASSUME NEW p \in {SMART_AFTER, REPORT}, mem' = EnterPhase(mem, p, 0)
      PROVE  SessionOK'
  <2>1. mem'.phase = p /\ p > VERIFY
    BY <1>1, <1>3, PhaseOrder DEF EnterPhase, DriveStates
  <2>2. CASE stoppedAt = Finished
    <3>1. mem.phase > VERIFY /\ Complete(mem)
      BY <1>1, <2>2 DEF SessionOK, RestoredCheckpoint
    <3>2. Complete(mem')
      BY <1>1, <1>3, <3>1, CompleteLater, PhaseOrder DEF Complete, DriveStates, Phases
    <3> QED BY <1>1, <2>1, <2>2, <3>2, RestoredNext DEF SessionOK, Unwinding
  <2>3. CASE stoppedAt # Finished
    <3>1. EnterPhase(mem', stoppedAt[1], stoppedAt[2])
            = EnterPhase(mem, stoppedAt[1], stoppedAt[2])
      BY <1>1, <1>3 DEF EnterPhase, DriveStates
    <3>2. RestoredCheckpoint' = RestoredCheckpoint
      BY <1>1, <2>3, <3>1 DEF RestoredCheckpoint
    <3> QED BY <1>1, <2>1, <3>2 DEF SessionOK, Unwinding
  <2> QED BY <2>2, <2>3
<1>4. CASE AfterSnapshot
  BY <1>3, <1>4 DEF AfterSnapshot, Persist
<1>5. CASE BuildReport
  BY <1>3, <1>5 DEF BuildReport, Persist
<1> QED BY <1>2, <1>4, <1>5

LEMMA PassesInit ==
  ASSUME Init PROVE PassesOK
<1>1. /\ ckpt.phase = SHORT_TEST /\ ~ckpt.abandoned /\ ~stop /\ pc = "idle"
  BY DEF Init, FreshState
<1> QED BY <1>1, PhaseOrder DEF PassesOK, Complete

LEMMA PassesStep ==
  ASSUME ~Signals, ~Kills, IInv, PassesOK, [Next]_vars
  PROVE  PassesOK'
<1>1. CASE gateFailed
  <2>1. gateFailed' = gateFailed
    BY DEF Next, Step, Environment, vars, Run, Resume, Launch, EnterErase, EnterVerify,
       PassesBehind, InterruptedAtOpen, NothingLeft, OpenPass, WriteChunk,
       RefuseChunk, ReadChunk, ReadErrorChunk, EndLoop, FlushCache, ClosePass,
       GiveUpWaiting, ConcludeErase, ConcludeVerify, EnterExtended, ExtendedTest,
       AfterSnapshot, BuildReport, EmitReport, Exit, Vanish, DeviceReturns, Fault,
       GuardAborts, GateHolds, GateOpens, EmitFails, Signal, Kill, PowerCut
  <2> QED BY <1>1, <2>1 DEF PassesOK
<1>2. CASE ~gateFailed /\ pc = "idle"
  <2>1. ~stop /\ (Complete(ckpt) \/ ckpt.phase = REPORT) /\ stoppedAt = Finished
    BY <1>2 DEF PassesOK, IInv, ControlOK, Unwinding
  <2>2. CASE Run \/ Resume
    <3>1. /\ ckpt.phase # REPORT /\ mem' = Load(ckpt) /\ pc' = "start"
          /\ UNCHANGED <<stop, stoppedAt>>
      BY <1>2, <2>2, PhaseOrder DEF Run, Resume, Launch
    <3>2. mem' = ckpt /\ ckpt \in DriveStates
      BY <3>1, LoadIsExact DEF IInv, TypeOK
    <3>3. SessionOK'
      BY <2>1, <3>1, <3>2, StaysInSession DEF Unwinding
    <3> QED BY <2>1, <3>1, <3>3 DEF PassesOK
  <2>3. CASE UNCHANGED vars
    BY <2>3 DEF vars, locals, PassesOK, SessionOK, Complete, RestoredCheckpoint
  <2> QED
    BY <1>2, <2>2, <2>3
       DEF Next, Step, Environment, EnterErase, EnterVerify, PassesBehind,
       InterruptedAtOpen, NothingLeft, OpenPass, WriteChunk, RefuseChunk, ReadChunk,
       ReadErrorChunk, InPass, Transfers, EndLoop, FlushCache, ClosePass, GiveUpWaiting,
       ConcludeErase, ConcludeVerify, EnterExtended, ExtendedTest, AfterSnapshot,
       BuildReport, EmitReport, Exit, Vanish, DeviceReturns, Fault, Transfers,
       GuardAborts, GateHolds, GateOpens, InLoop, EmitFails, Signal, Kill, PowerCut
<1>3. CASE ~gateFailed /\ pc # "idle"
  <2>0. SessionOK /\ ~stop
    BY <1>3 DEF PassesOK
  <2>1. ASSUME SessionOK', UNCHANGED stop, pc' # "idle"
        PROVE  PassesOK'
    BY <2>0, <2>1 DEF PassesOK
  <2>2. CASE \/ EnterErase \/ EnterVerify \/ NothingLeft \/ OpenPass
             \/ WriteChunk \/ RefuseChunk
    BY <2>0, <2>1, <2>2, EraseEntered, VerifyEntered, PassOpened, FillMoves
       DEF EnterErase, EnterVerify, NothingLeft, OpenPass, WriteChunk, RefuseChunk,
           InPass, Transfers
  <2>3. CASE ReadChunk \/ ReadErrorChunk \/ EndLoop \/ ConcludeErase \/ ConcludeVerify
    BY <2>0, <2>1, <2>3, VerifyMoves, PassEnds, PassConcluded
       DEF ReadChunk, ReadErrorChunk, InPass, Transfers, EndLoop,
           ConcludeErase, ConcludeVerify, locals
  <2>4. CASE ClosePass \/ Vanish
    BY <2>0, <2>1, <2>4, PassLeft DEF ClosePass, Vanish, Transfers, Unwind
  <2>5. CASE FlushCache \/ DeviceReturns \/ GiveUpWaiting \/ Fault \/ InterruptedAtOpen
    BY <2>0, <2>1, <2>5, PassWaits
       DEF FlushCache, DeviceReturns, GiveUpWaiting, Fault, Transfers,
           InterruptedAtOpen, Unwind, locals
  <2>6. CASE \/ PassesBehind \/ EnterExtended \/ ExtendedTest
             \/ GuardAborts \/ GateHolds \/ GateOpens
    BY <2>0, <2>1, <2>6, <1>3, TestPhase
       DEF PassesBehind, EnterExtended, ExtendedTest, GuardAborts, GateHolds,
           GateOpens, InLoop, Unwind, locals
  <2>7. CASE AfterSnapshot \/ BuildReport \/ EmitReport
    BY <2>0, <2>1, <2>7, ReportPhases
       DEF AfterSnapshot, BuildReport, EmitReport, locals
  <2>8. CASE Exit
    BY <2>0, <2>8 DEF Exit, ProcessGone, SessionOK, Complete, PassesOK
  <2>9. CASE EmitFails
    <3>1. EmitFaults /\ ckpt.phase = REPORT
      BY <2>9 DEF EmitFails, IInv, ControlOK
    <3> QED BY <2>9, <3>1 DEF EmitFails, ProcessGone, PassesOK
  <2>10. CASE UNCHANGED vars
    BY <2>0, <2>10 DEF vars, locals, PassesOK, SessionOK, Complete, RestoredCheckpoint
  <2> QED
    BY <1>3, <2>2, <2>3, <2>4, <2>5, <2>6, <2>7, <2>8, <2>9, <2>10
       DEF Next, Step, Environment, Run, Resume, Launch, Signal, Kill, PowerCut
<1> QED BY <1>1, <1>2, <1>3

(* What a stretch of sessions that nobody stopped or killed leaves.        *)
LEMMA PassesInvariant ==
  ASSUME ~Signals, ~Kills PROVE Spec => [](IInv /\ PassesOK)
<1>1. Init => PassesOK
  BY PassesInit
<1>2. IInv /\ PassesOK /\ [Next]_vars => PassesOK'
  BY PassesStep
<1> QED BY <1>1, <1>2, RunInvariant, PTL DEF Spec

(* A FAIL that does not rest on the whole surface says what cut it short,  *)
(* where no signal and no kill did: DriveRun_signal.cfg and _kill_report   *)
(* have the two.                                                           *)
THEOREM FailSaysWhy ==
  ASSUME ~Signals, ~Kills PROVE Spec => []TruncatedFailSaysWhy
<1>1. IInv /\ PassesOK => TruncatedFailSaysWhy
  <2> SUFFICES ASSUME IInv, PassesOK, pc = "restore", report = "FAIL", ~gateFailed
               PROVE  mem.verified \/ mem.abandoned \/ mem.stoppedOnFail
    BY DEF TruncatedFailSaysWhy
  <2>1. stoppedAt = Finished /\ mem.phase = REPORT /\ SessionOK
    BY DEF IInv, VerdictOK, ControlOK, PassesOK
  <2>2. VerifyBehind(mem)
    BY <2>1, PhaseOrder DEF SessionOK, RestoredCheckpoint, Complete
  <2> QED BY <2>2 DEF VerifyBehind, Told
<1> QED BY <1>1, PassesInvariant, PTL

(* If only the drive misbehaves, a pass it cut short without having failed *)
(* is what the next `resume` does.                                         *)
THEOREM CutPassResumes ==
  ASSUME ~Signals, ~Kills, ~EmitFaults PROVE Spec => []InterruptedPassResumes
<1>1. IInv /\ PassesOK => InterruptedPassResumes
  <2> SUFFICES ASSUME IInv, PassesOK, pc = "idle", ~gateFailed, ~HasFailed(ckpt)
               PROVE  /\ ckpt.eraseDone < Size => ckpt.phase <= ERASE
                      /\ ckpt.verifyDone < Size => ckpt.phase <= VERIFY
    BY DEF InterruptedPassResumes
  <2>1. ckpt \in DriveStates /\ Complete(ckpt)
    BY DEF IInv, TypeOK, PassesOK
  <2> QED BY <2>1, PhaseOrder, SizeAssumption
          DEF Complete, VerifyBehind, Told, DriveStates, Phases, Offsets
<1> QED BY <1>1, PassesInvariant, PTL
=============================================================================
