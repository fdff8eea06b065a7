-------------------------------- MODULE Wipe --------------------------------
(***************************************************************************)
(* What a run promises of one drive, whatever its passes, checkpoints and  *)
(* resumes look like: evidence is collected and never given up, a place    *)
(* that was looked at stays as it was seen, and the grade rests on that.   *)
(* DriveRun implements it (Promised).                                      *)
(***************************************************************************)
EXTENDS Naturals

CONSTANT Blocks

VARIABLES
  dirty,   (* the blocks that do not read back as zero                     *)
  found,   (* the blocks with a finding on record                          *)
  sure,    (* the blocks the record says were verified                     *)
  grade    (* of the report                                                *)

vars == <<dirty, found, sure, grade>>

Certified(g) == g \in {"PASS", "CAUTION"}

Init == dirty = Blocks /\ found = {} /\ sure = {} /\ grade = "none"

(* One step may write, lose what was written, go back to an older record   *)
(* and make a new one.  But what is sure is not touched, no finding is     *)
(* given up, and what becomes sure is clean or found.                      *)
Work ==
  /\ ~Certified(grade)
  /\ dirty' \subseteq Blocks /\ sure' \subseteq Blocks
  /\ found \subseteq found' /\ found' \subseteq Blocks
  /\ dirty' \cap sure = dirty \cap sure
  /\ (sure' \ sure) \cap dirty' \subseteq found'
  /\ UNCHANGED grade

(* A failed drive is not certified any more.                               *)
Grade ==
  /\ grade' \in {"PASS", "CAUTION", "FAIL", "INCOMPLETE"}
  /\ Certified(grade') => sure = Blocks /\ found = {} /\ grade # "FAIL"
  /\ UNCHANGED <<dirty, found, sure>>

Next == Work \/ Grade

Spec == Init /\ [][Next]_vars
=============================================================================
