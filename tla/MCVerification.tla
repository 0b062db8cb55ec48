--------------------------- MODULE MCVerification ---------------------------
(* Constants for the runs of Verification. *)
EXTENDS Verification, TLC

CONSTANTS r1, r2, r3, s1, s2, d1, d2

Symmetry == Permutations(Requests) \cup Permutations(Stamps) \cup Permutations(Devices)
=============================================================================
