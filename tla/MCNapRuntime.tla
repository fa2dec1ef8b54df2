---------------------------- MODULE MCNapRuntime ----------------------------
(* A small instance of NapRuntime.                                         *)
EXTENDS NapRuntime, TLC

Symmetry ==
  Permutations(Runtimes) \cup Permutations(Addresses) \cup Permutations(Scripts \ Bad)
=============================================================================
