------------------------------ MODULE Numerals ------------------------------
(***************************************************************************)
(* Loops over a sequence, from left to right, that gather a number: what a  *)
(* row of digits denotes, and a running total, which is base 1.             *)
(***************************************************************************)
EXTENDS Naturals, Sequences

InBase(base, digits) ==
  LET value[i \in 0..Len(digits)] ==
        IF i = 0 THEN 0 ELSE base * value[i - 1] + digits[i]
  IN  value[Len(digits)]

Total(addends) == InBase(1, addends)

=============================================================================
