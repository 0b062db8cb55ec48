------------------------------ MODULE Serials ------------------------------
(***************************************************************************)
(* domain/serials.py: serial numbers with a Luhn mod-34 check character.    *)
(* A character is its index in the alphabet; I and O, which the pattern     *)
(* admits and the alphabet does not have, are 34 and 35.  The prefix NG-    *)
(* and the separators are fixed by the pattern and left out, so a serial is *)
(* 3 category letters, 4 digits of the year, 10 of the sequence, the check. *)
(* parse_serial's strip() and upper() are left out.                         *)
(***************************************************************************)
EXTENDS Naturals, Sequences, Numerals

N == 34
Characters == 0..35
CharDigits == 0..9
Prefix == <<22, 16>>

\* TBC, ALC, PHA, BEV
CategoryCodes == {<<27, 11, 12>>, <<10, 20, 12>>, <<23, 17, 10>>, <<11, 14, 29>>}

Replaced(s, i, c) == [s EXCEPT ![i] = c]

-----------------------------------------------------------------------------
Addend_Unfolded(c, factor) == factor * c
Addend(c, factor) == ((factor * c) \div N) + ((factor * c) % N)

\* From the right, every second character counts double, the last one first.
Factor(body, i) == IF (Len(body) - i) % 2 = 0 THEN 2 ELSE 1
LuhnTotal(body) ==
  Total([i \in 1..Len(body) |-> Addend(body[i], Factor(body, i))])
LuhnCheck(body) == (N - (LuhnTotal(body) % N)) % N

LuhnValid(body, check) ==
  /\ \A i \in 1..Len(body) : body[i] < N
  /\ check < N /\ check = LuhnCheck(body)

\* f"{n:0kd}"
Padded(n, k) == [i \in 1..k |-> (n \div 10^(k - i)) % 10]

BuildSerial(category, year, sequence) ==
  LET rest == category \o Padded(year, 4) \o Padded(sequence, 10)
  IN  Append(rest, LuhnCheck(Prefix \o rest))

MatchesPattern(s) ==
  /\ Len(s) = 18
  /\ \A i \in 1..3 : s[i] \notin CharDigits
  /\ \A i \in 4..17 : s[i] \in CharDigits

ValidSerial(s) == MatchesPattern(s) /\ LuhnValid(Prefix \o SubSeq(s, 1, 17), s[18])

\* int()
NumberOf(digits) == InBase(10, digits)

ParseSerial(s) ==
  [category |-> SubSeq(s, 1, 3), year |-> NumberOf(SubSeq(s, 4, 7)),
   sequence |-> NumberOf(SubSeq(s, 8, 17))]

-----------------------------------------------------------------------------
\* The usual slips of a hand that copies a serial: one character wrong, two neighbours
\* exchanged, a doubled character doubled wrong.
Slips(s) ==
  LET at == 1..Len(s)
      pairs == 1..(Len(s) - 1)
  IN
  {Replaced(s, i, c) : i \in at, c \in Characters}
    \cup {Replaced(Replaced(s, i, s[i + 1]), i + 1, s[i]) : i \in pairs}
    \cup {Replaced(Replaced(s, i, c), i + 1, c) : i \in {j \in pairs : s[j] = s[j + 1]}, c \in Characters}

=============================================================================
