----------------------------- MODULE MCOpening -----------------------------
(* A small instance of Opening: instances and opening tasks are alike.     *)
EXTENDS Opening, TLC

OpeningSymmetry == Permutations(Instances) \cup Permutations(Openers)
=============================================================================
