--------------------------- MODULE MCTransaction ----------------------------
(* Instances of Transaction for TLC: two keys that may hold 0, 1 or 2, and *)
(* a validator that wants their sum to stay even.                          *)
EXTENDS Transaction, TLC

CONSTANTS a, b

MCKeys  == {a, b}
MCVals  == 0 .. 2
MCStart == [k \in MCKeys |-> 0]
MCBlank == MCStart
MCValid == {s \in [MCKeys -> MCVals] : (s[a] + s[b]) % 2 = 0}

TaskSymmetry == Permutations(Tasks)
=============================================================================
