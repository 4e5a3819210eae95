------------------------------ MODULE SetOrder ------------------------------
(* Loops over tables run from the lowest index or address to the highest:  *)
(* the elements of a finite set of numbers in the order a loop meets them. *)
EXTENDS Naturals, Sequences, FiniteSets

Ascending(S) ==
    CHOOSE s \in [1..Cardinality(S) -> S] :
        \A i, j \in 1..Cardinality(S) : i < j => s[i] < s[j]
=============================================================================
