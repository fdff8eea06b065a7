--------------------------------- MODULE Batch ---------------------------------
(***************************************************************************)
(* What a batch promises, without the parent's loop, its queue, its two    *)
(* looks at a child and the clocks: a drive is chosen once, while a job is *)
(* free and nobody has asked to stop; what is said of it at the end is     *)
(* what its own child said.  Supervisor implements it (BatchPromised).     *)
(***************************************************************************)
EXTENDS FiniteSets, Naturals

CONSTANTS Drives, Jobs

VARIABLES
  stage,      (* how far the batch is with a drive                         *)
  stopped,    (* the operator asked to stop                                *)
  certified,  (* the grade of the report the drive's child has written     *)
  said,       (* what the child answered                                   *)
  told,       (* what the summary says the child answered                  *)
  listed      (* the grade in the batch index                              *)

vars == <<stage, stopped, certified, said, told, listed>>

AtStage(s) == {d \in Drives : stage[d] = s}

Init ==
  /\ stage = [d \in Drives |-> "waiting"]
  /\ stopped = FALSE
  /\ certified = [d \in Drives |-> "none"]
  /\ said = [d \in Drives |-> "none"]
  /\ told = [d \in Drives |-> "none"]
  /\ listed = [d \in Drives |-> "none"]

Moves(d, from, to) ==
  /\ stage[d] = from
  /\ stage' = [stage EXCEPT ![d] = to]

Choose(d) ==
  /\ Moves(d, "waiting", "chosen")
  /\ ~stopped
  /\ AtStage("chosen") = {}
  /\ Cardinality(AtStage("working")) < Jobs
  /\ UNCHANGED <<stopped, certified, said, told, listed>>

(* One drive, chosen before the stop, may still be started after it.       *)
Start(d) ==
  /\ Moves(d, "chosen", "working")
  /\ UNCHANGED <<stopped, certified, said, told, listed>>

Certify(d) ==
  /\ stage[d] = "working" /\ said[d] = "none" /\ certified[d] = "none"
  /\ \E grade \in {"good", "bad"} : certified' = [certified EXCEPT ![d] = grade]
  /\ UNCHANGED <<stage, stopped, said, told, listed>>

(* The exit code goes by the certificate; an exception may come after it.  *)
Says(d) == {"failed"} \cup (IF certified[d] = "good" THEN {"ok"} ELSE {})

Answer(d) ==
  /\ stage[d] = "working" /\ said[d] = "none"
  /\ \E answer \in Says(d) : said' = [said EXCEPT ![d] = answer]
  /\ UNCHANGED <<stage, stopped, certified, told, listed>>

(* The child exits, crashes or is killed.                                  *)
End(d) ==
  /\ Moves(d, "working", "gone")
  /\ UNCHANGED <<stopped, certified, said, told, listed>>

(* A stop may reach children too young to bear it.                         *)
Stop ==
  /\ stopped' = TRUE
  /\ \E lost \in SUBSET {d \in AtStage("working") :
                           said[d] = "none" /\ certified[d] = "none"} :
       stage' = [d \in Drives |-> IF d \in lost THEN "gone" ELSE stage[d]]
  /\ UNCHANGED <<certified, said, told, listed>>

(* A drive without a report of its own is "bad", or has that of an earlier *)
(* run.                                                                    *)
Grades(d) ==
  IF stage[d] = "waiting" THEN {"none"}
  ELSE IF certified[d] = "none" THEN {"bad", "stale"} ELSE {certified[d]}

Answered(d) ==
  IF stage[d] = "waiting" THEN "none"
  ELSE IF said[d] = "none" THEN "died" ELSE said[d]

(* Nobody is at work any more, and nobody waits unless there was a stop.   *)
Summarize ==
  /\ AtStage("chosen") = {} /\ AtStage("working") = {}
  /\ stopped \/ AtStage("waiting") = {}
  /\ listed = [d \in Drives |-> "none"]
  /\ told' = [d \in Drives |-> Answered(d)]
  /\ DOMAIN listed' = Drives /\ \A d \in Drives : listed'[d] \in Grades(d)
  /\ UNCHANGED <<stage, stopped, certified, said>>

Next ==
  \/ \E d \in Drives : Choose(d) \/ Start(d) \/ Certify(d) \/ Answer(d) \/ End(d)
  \/ Stop
  \/ Summarize

Spec == Init /\ [][Next]_vars
=============================================================================
