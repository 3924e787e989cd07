----------------------------- MODULE MCRotation -----------------------------
(* Instances of Rotation for TLC. *)
EXTENDS Rotation, TLC

(* Keys only ever meet as values to be told apart. *)
KeySymmetry == Permutations(Keys)
=============================================================================
