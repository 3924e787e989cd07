----------------------------- MODULE MCLogFile ------------------------------
(* Instances of LogFile for TLC: two threads that append to one file. *)
EXTENDS LogFile, TLC

CONSTANTS t, u

ThreadSymmetry == Permutations(Threads)
=============================================================================
