------------------------------ MODULE Ranking ------------------------------
(***************************************************************************)
(* Sorting by what an order is: the elements of a finite set, by how many   *)
(* precede each.  Sorted orders are stable in Python, and are made total    *)
(* by the places the elements had.                                         *)
(***************************************************************************)
EXTENDS Integers, FiniteSets

IsStrictOrder(S, R) ==
    /\ \A x \in S : <<x, x>> \notin R
    /\ \A x, y \in S : x = y \/ <<x, y>> \in R \/ <<y, x>> \in R
    /\ \A x, y, z \in S : <<x, y>> \in R /\ <<y, z>> \in R => <<x, z>> \in R

\* What precedes x in S by the strict total order R, a set of pairs.
Preceding(S, R, x) == {y \in S : <<y, x>> \in R}

InOrder(S, R) ==
    [k \in 1..Cardinality(S) |-> CHOOSE x \in S : Cardinality(Preceding(S, R, x)) = k - 1]
=============================================================================
