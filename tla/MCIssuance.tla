----------------------------- MODULE MCIssuance -----------------------------
(* Constants for the runs of Issuance. *)
EXTENDS Issuance, TLC

CONSTANTS w1, w2, b1, b2, c1, c2

MCWorkers == {w1, w2}

\* Two lots of the same product category and year share one counter.
MCCounterOf == [b \in Batches |-> c1]

\* Lots of different categories meet at the status list only.
MCCounterOfSplit == [b \in Batches |-> IF b = b1 THEN c1 ELSE c2]

MCQuantity == [b \in Batches |-> 2]

\* The second lot is smaller: it takes a single stamp.
MCQuantityUneven == [b \in Batches |-> IF b = b1 THEN 2 ELSE 1]

Symmetry == Permutations(Workers)
=============================================================================
