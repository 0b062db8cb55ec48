----------------------------- MODULE StatusBits -----------------------------
(***************************************************************************)
(* crypto/statuslist.py: the bitstring behind a status list, bit i in byte  *)
(* i // 8 at position 7 - i % 8.  Bytes are numbers; compression and base64 *)
(* are inverted exactly by decode and left out.                             *)
(***************************************************************************)
EXTENDS Naturals, Sequences, Numerals

EmptyList(size) == [b \in 1..(size \div 8) |-> 0]

Indexes(bytes) == 0..(8 * Len(bytes) - 1)

Position_LowFirst(i) == i % 8
Position(i) == 7 - (i % 8)

GetBit(bytes, i) == (bytes[i \div 8 + 1] \div 2^Position(i)) % 2 = 1

\* |= 1 << position and &= ~(1 << position)
SetBit(bytes, i, value) ==
  IF GetBit(bytes, i) = value THEN bytes
  ELSE [bytes EXCEPT ![i \div 8 + 1] = IF value THEN @ + 2^Position(i) ELSE @ - 2^Position(i)]

-----------------------------------------------------------------------------
\* W3C Bitstring Status List: index 0 is the left-most bit of the bitstring.
Bitstring(flags, size) == InBase(2, [i \in 1..size |-> IF i - 1 \in flags THEN 1 ELSE 0])
ValueOf(bytes) == InBase(256, bytes)

=============================================================================
