---------------------------- MODULE MCStoredRuns ----------------------------
(* StoredRuns for TLC: drives of a kind, bays and instances are alike.     *)
EXTENDS StoredRuns, TLC

Alike ==
  Permutations(Drives \ Silent) \cup Permutations(Silent)
    \cup Permutations(Bays) \cup Permutations(Procs)
=============================================================================
