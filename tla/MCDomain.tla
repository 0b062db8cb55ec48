------------------------------ MODULE MCDomain ------------------------------
(***************************************************************************)
(* Inputs of Domain: the ends and the boundaries of every table and range.  *)
(***************************************************************************)
EXTENDS Domain

MCYears == {1900, 2026, 9999}
MCSequences == {0, 9, 42, 1234567890, 2147483647}

\* Each row of the lot table with both its ends, and the arrow's sample of 13 +- 1.
MCMaxLot == 1000000000
MCLots == {1, 2, 12, 13, 14} \cup UNION {{LotUpTo[row], LotUpTo[row] + 1} : row \in 1..14} \cup {MaxLot}

Dot == 11
Hyphen == 12
Space == 13

\* Cigarettes, beer, spirits, soft drinks, medicines, as importers write them; wine, a tobacco
\* code with a digit of another script, and cars, which no rate covers.
MCHsCodes == {<<2, 4, 0, 2, Dot, 2, 0>>, <<2, 2, Space, 0, 3>>, <<2, 2, 0, 8, Hyphen, 3, 0>>,
              <<2, 2, 0, 2>>, <<3, 0, Dot, 0, 4>>, <<2, 2, 0, 4>>, <<2, 4, OtherDigit, 0, 2>>, <<8, 7>>}
MCDays == {20191231, 20200101, 20220601, 20230531, 20230601, 20260630, 20260701}
MCAmounts == {0, 1, 3, 5}

MCKids == {"k1", "k2", "k9"}
MCKeys == {"issuer", "other"}
MCDirectory == [kid \in {"k1", "k2"} |-> IF kid = "k1" THEN "issuer" ELSE "other"]
=============================================================================
