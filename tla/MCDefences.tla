----------------------------- MODULE MCDefences -----------------------------
(* Small instances of Defences; the .cfg files choose among these values.  *)
EXTENDS Defences, TLC
Symmetry == Permutations(Runs) \cup Permutations(Workers)
=============================================================================
