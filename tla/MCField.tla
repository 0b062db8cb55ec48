------------------------------ MODULE MCField ------------------------------
(* Constants for the run of Field. *)
EXTENDS Field, TLC

CONSTANTS r1, r2, r3, s1, s2, d1, d2, n1

Symmetry == Permutations(Requests) \cup Permutations(Stamps) \cup Permutations(Devices)
=============================================================================
