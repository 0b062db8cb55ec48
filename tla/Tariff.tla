------------------------------- MODULE Tariff -------------------------------
(***************************************************************************)
(* domain/tariff.py, domain/money.py and the pricing of an assessment in    *)
(* services/assessments.py.  An HS code is a sequence of characters: 0 to 9 *)
(* are the digits, OtherDigit is a digit of another script, any larger      *)
(* number a dot, hyphen, space or letter.  A date is the number yyyymmdd,   *)
(* an amount an integer number of kobo.                                     *)
(***************************************************************************)
EXTENDS Naturals, Sequences, SequencesExt, Numerals

CONSTANTS LowThreshold, StandardThreshold     \* of the risk tiers, in kobo
ASSUME ThresholdAssumption == LowThreshold \in Nat /\ StandardThreshold \in Nat
                              /\ LowThreshold < StandardThreshold

OtherDigit == 10
NotStampBearing == "not-stamp-bearing"
OpenEnded == 99991231

Rate(prefix, category, specific, bp, from, to) ==
  [prefix |-> prefix, category |-> category, specific |-> specific, bp |-> bp, from |-> from, to |-> to]

TariffTable == {
  Rate(<<2, 4, 0, 2>>, "tobacco", 600, 0, 20230601, 20260630),
  Rate(<<2, 4, 0, 2>>, "tobacco", 800, 0, 20260701, OpenEnded),
  Rate(<<2, 2, 0, 3>>, "alcohol", 7200, 0, 20230601, 20260630),
  Rate(<<2, 2, 0, 3>>, "alcohol", 8000, 0, 20260701, OpenEnded),
  Rate(<<2, 2, 0, 8>>, "alcohol", 6000, 2000, 20230601, 20260630),
  Rate(<<2, 2, 0, 8>>, "alcohol", 7500, 3000, 20260701, OpenEnded),
  Rate(<<2, 2, 0, 2>>, "beverages", 1000, 0, 20220601, OpenEnded),
  Rate(<<3, 0>>, "pharmaceuticals", 0, 0, 20200101, OpenEnded)}

\* str.isdigit() keeps the digits of every script and drops all else.
IsDigit(ch) == ch \in 0..OtherDigit
Digits(hs) == SelectSeq(hs, IsDigit)

\* _HEADING_CATEGORY: the headings the category table names one by one.
Headings == {<<2, 2, 0, 2>>, <<2, 2, 0, 3>>, <<2, 2, 0, 8>>, <<2, 4, 0, 2>>}

\* The refinement by heading, then the chapter.
CategoryForHs(hs) ==
  LET digits == Digits(hs) IN
  CASE IsPrefix(<<2, 2, 0, 2>>, digits) -> "beverages"
    [] IsPrefix(<<2, 2>>, digits) /\ ~IsPrefix(<<2, 2, 0, 2>>, digits) -> "alcohol"
    [] IsPrefix(<<2, 4>>, digits) -> "tobacco"
    [] IsPrefix(<<3, 0>>, digits) -> "pharmaceuticals"
    [] OTHER -> "none"

InForce_Exclusive(r, on) == r.from < on /\ on <= r.to
InForce(r, on) == r.from <= on /\ on <= r.to

Candidates(hs, on) == {r \in TariffTable : IsPrefix(r.prefix, Digits(hs)) /\ InForce(r, on)}

\* Longest prefix wins.
RateFor(hs, on) ==
  CHOOSE r \in Candidates(hs, on) : \A o \in Candidates(hs, on) : Len(o.prefix) <= Len(r.prefix)

AdValorem(value, bp) == (value * bp + 5000) \div 10000

\* Only for a line some rate covers.
LineDuty(line, on) ==
  LET rate == RateFor(line.hs, on)
  IN  rate.specific * line.quantity + AdValorem(line.value, rate.bp)

-----------------------------------------------------------------------------
RiskTierFor(total) ==
  IF total >= StandardThreshold THEN [tier |-> "HIGH", approvals |-> 3]
  ELSE IF total >= LowThreshold THEN [tier |-> "STANDARD", approvals |-> 2]
  ELSE [tier |-> "LOW", approvals |-> 1]

\* create_assessment: lines that no rate covers are passed over.
Assessed(lines, on) ==
  LET bearing == {i \in DOMAIN lines : Candidates(lines[i].hs, on) # {}}
      total == Total([i \in DOMAIN lines |-> IF i \in bearing THEN LineDuty(lines[i], on) ELSE 0])
      tier == RiskTierFor(total)
  IN
  IF bearing = {} THEN [error |-> NotStampBearing, duty |-> 0, lines |-> 0, approvals |-> 0]
  ELSE [error |-> "none", duty |-> total, lines |-> Cardinality(bearing), approvals |-> tier.approvals]

=============================================================================
