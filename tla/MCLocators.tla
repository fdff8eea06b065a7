----------------------------- MODULE MCLocators -----------------------------
(* Locators for TLC: a port is as good as another, and so is a name.       *)
EXTENDS Locators, TLC

Alike == Permutations(Names) \cup Permutations(Ports)
=============================================================================
