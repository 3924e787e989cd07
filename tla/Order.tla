------------------------------- MODULE Order --------------------------------
(***************************************************************************)
(* Python's sorted() on a set of numbers.                                  *)
(***************************************************************************)
EXTENDS Integers, FiniteSets

InOrder(S) == CHOOSE o \in [1 .. Cardinality(S) -> S] :
                \A i, j \in 1 .. Cardinality(S) : i < j => o[i] < o[j]
=============================================================================
