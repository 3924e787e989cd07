--------------------------- MODULE MCPersistence ----------------------------
(* Instances of Persistence for TLC. *)
EXTENDS Persistence, TLC

(* Keys only ever meet as values to be told apart. *)
KeySymmetry == Permutations(Keys)
=============================================================================
