---------------------------- MODULE MCSettlement ----------------------------
(* Constants for the runs of Settlement. *)
EXTENDS Settlement, TLC

CONSTANTS a1, a2, p1, p2, p3, h1, h2, x1, x2, USD

\* A duty of the middle tier and a zero-rated one.
MCDuty == [a \in Assessments |-> IF a = a1 THEN 2 ELSE 0]

Symmetry == Permutations(Principals) \cup Permutations(Handlers) \cup Permutations(References)
=============================================================================
