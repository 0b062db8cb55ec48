------------------------------ MODULE Sampling ------------------------------
(***************************************************************************)
(* domain/quality.py: the single-sampling plan of a lot.  The tabulated     *)
(* lots of the last code letter go on to 10^15; MaxLot bounds them here.    *)
(***************************************************************************)
EXTENDS Naturals, Sequences

CONSTANT MaxLot
ASSUME MaxLotAssumption == MaxLot \in Nat /\ MaxLot > 500001

Letters == <<"A", "B", "C", "D", "E", "F", "G", "H", "J", "K", "L", "M", "N", "P", "Q">>
LotUpTo == <<8, 15, 25, 50, 90, 150, 280, 500, 1200, 3200, 10000, 35000, 150000, 500000, MaxLot>>
SampleSizes == <<2, 3, 5, 8, 13, 20, 32, 50, 80, 125, 200, 315, 500, 800, 1250>>

\* Letters A to D carry the arrow at AQL 0.65.
Accepts == <<0, 0, 0, 0, 0, 0, 0, 1, 1, 2, 3, 5, 7, 10, 14>>
ArrowTarget == 5

\* Rows of the table are known by their number.
CodeLetterFor(lot) ==
  CHOOSE row \in DOMAIN Letters : lot <= LotUpTo[row] /\ (row > 1 => lot > LotUpTo[row - 1])
PlanLetter(row) == IF row < ArrowTarget THEN ArrowTarget ELSE row

Hundred_Strict(sample, lot) == sample > lot
Hundred(sample, lot) == sample >= lot

PlanForLot(lot) ==
  LET letter == CodeLetterFor(lot)
      plan == PlanLetter(letter)
      sample == SampleSizes[plan]
  IN
  IF lot = 1
    THEN [letter |-> "A", sample |-> 1, accept |-> 0, reject |-> 1, hundred |-> TRUE]
    ELSE [letter |-> Letters[letter],
          sample |-> IF Hundred(sample, lot) THEN lot ELSE sample,
          accept |-> Accepts[plan], reject |-> Accepts[plan] + 1,
          hundred |-> Hundred(sample, lot)]

\* Defined for 0..sample defectives only.
Passes(plan, defectives) == defectives <= plan.accept

=============================================================================
