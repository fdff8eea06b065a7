------------------------------- MODULE DriveLock -------------------------------
(***************************************************************************)
(* The lock of each drive, and what a process that works under it may do:  *)
(* take a lock that is free, put a drive to work that it holds, finish     *)
(* with drives, give everything up.  A process is what shares one open     *)
(* file description: a parent and the children it forked.                  *)
(*                                                                         *)
(* Instances has these steps among its own and implements LockSpec; a      *)
(* batch of Supervisor is one process of it (Supervisor_proofs).           *)
(***************************************************************************)
CONSTANTS
  Procs,    (* the processes                                               *)
  Shared    (* the drives under the output root                            *)

VARIABLES
  lock,     (* who holds the flock: {} or one process                      *)
  held,     (* drives a process has locked                                 *)
  busy      (* drives it works on                                          *)

locks == <<lock, held, busy>>

Nobody == {}

(* DriveLock.acquire, for acquire_locks.  Another instance holds it: the   *)
(* drive is dropped.                                                       *)
Refused(p, d) ==
  /\ lock[d] # Nobody
  /\ UNCHANGED locks

(* A bug: the answer of flock is not looked at.                            *)
Bug_Locked(p, d) ==
  /\ lock' = [lock EXCEPT ![d] = {p}]
  /\ held' = [held EXCEPT ![p] = @ \cup {d}]
  /\ busy' = [busy EXCEPT ![p] = @ \cup {d}]

Locked(p, d) ==
  /\ lock[d] = Nobody
  /\ lock' = [lock EXCEPT ![d] = {p}]
  /\ held' = [held EXCEPT ![p] = @ \cup {d}]
  /\ busy' = [busy EXCEPT ![p] = @ \cup {d}]

(* A child is forked for a drive that is locked.                           *)
Begun(p, d) ==
  /\ d \in held[p]
  /\ busy' = [busy EXCEPT ![p] = @ \cup {d}]
  /\ UNCHANGED <<lock, held>>

Finished(p) ==
  /\ \E rest \in SUBSET busy[p] : busy' = [busy EXCEPT ![p] = rest]
  /\ UNCHANGED <<lock, held>>

(* The finally of run_locked, or the kernel for a process that is gone.    *)
Unlocked(p) == lock' = [d \in Shared |-> IF d \in held[p] THEN Nobody ELSE lock[d]]

GivenUp(p) ==
  /\ Unlocked(p)
  /\ held' = [held EXCEPT ![p] = {}]
  /\ busy' = [busy EXCEPT ![p] = {}]

-----------------------------------------------------------------------------
LockInit ==
  /\ lock = [d \in Shared |-> Nobody]
  /\ held = [p \in Procs |-> {}]
  /\ busy = [p \in Procs |-> {}]

LockNext ==
  \E p \in Procs :
    \/ \E d \in Shared : Locked(p, d) \/ Begun(p, d)
    \/ Finished(p)
    \/ GivenUp(p)

LockSpec == LockInit /\ [][LockNext]_locks

-----------------------------------------------------------------------------
(* Two processes never write to the same drive: the one lock both must     *)
(* take is what keeps "two operators" from racing (DriveLock).             *)
OneWriterPerDrive ==
  \A p, q \in Procs : p # q => busy[p] \cap busy[q] = {}
=============================================================================
