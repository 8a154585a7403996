------------------------------- MODULE Order -------------------------------
(* Sorting, as Python's sorted and a dict's order of insertion do it.       *)
EXTENDS Integers, FiniteSets

\* The elements of S in the order R, a set of pairs.
InOrder(S, R) ==
    [p \in 1 .. Cardinality(S) |->
        CHOOSE x \in S : Cardinality({y \in S : <<y, x>> \in R}) = p]

Upward == {r \in Nat \X Nat : r[1] <= r[2]}
=============================================================================
