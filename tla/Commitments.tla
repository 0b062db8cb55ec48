---------------------------- MODULE Commitments ----------------------------
(***************************************************************************)
(* What hashes commit to: the Merkle root of a batch (domain/merkle.py) and *)
(* the audit chain (services/audit.py).  A hash is the term of its input,   *)
(* so two hashes are equal exactly when their inputs are.                   *)
(***************************************************************************)
EXTENDS Naturals, Sequences, SequencesExt

LeafHash(leaf) == <<"leaf", leaf>>
NodeHash(left, right) == <<"node", left, right>>
EmptyRoot == <<"empty">>

Evened_Dropped(level) == IF Len(level) % 2 = 1 THEN Front(level) ELSE level
\* The last node of an odd level is duplicated.
Evened(level) == IF Len(level) % 2 = 1 THEN Append(level, Last(level)) ELSE level

NextLevel(level) ==
  LET even == Evened(level)
  IN  [i \in 1..(Len(even) \div 2) |-> NodeHash(even[2 * i - 1], even[2 * i])]

MerkleRoot(leaves) ==
  LET level[k \in 0..Len(leaves)] ==
        IF k = 0 THEN [i \in 1..Len(leaves) |-> LeafHash(leaves[i])]
        ELSE LET below == level[k - 1] IN IF Len(below) > 1 THEN NextLevel(below) ELSE below
  IN  IF leaves = <<>> THEN EmptyRoot ELSE level[Len(leaves)][1]

-----------------------------------------------------------------------------
Genesis == <<"genesis">>
ChainHash(prev, content) == <<"row", prev, content>>

LastHash(rows) == IF rows = <<>> THEN Genesis ELSE Last(rows).hash

AuditRow(id, prev, content) ==
  [id |-> id, prev |-> prev, hash |-> ChainHash(prev, content), content |-> content]
Record(rows, content) == Append(rows, AuditRow(Len(rows) + 1, LastHash(rows), content))
ChainOf(contents) ==
  LET rows[n \in 0..Len(contents)] ==
        IF n = 0 THEN <<>> ELSE Record(rows[n - 1], contents[n])
  IN  rows[Len(contents)]

BadRow_LinkOnly(rows, i) == rows[i].prev # LastHash(SubSeq(rows, 1, i - 1))
BadRow(rows, i) ==
  LET prev == LastHash(SubSeq(rows, 1, i - 1))
  IN  rows[i].prev # prev \/ rows[i].hash # ChainHash(prev, rows[i].content)

\* The id of the first bad row, 0 when the chain is sound.
FirstBadId(rows) ==
  LET bad == {i \in 1..Len(rows) : BadRow(rows, i)}
  IN  IF bad = {} THEN 0 ELSE rows[CHOOSE i \in bad : \A j \in bad : i <= j].id

-----------------------------------------------------------------------------
\* Ways in which the table may differ from what was recorded.
Edited(rows, i, content) == [rows EXCEPT ![i].content = content]
Rehashed(rows, i, content) == [rows EXCEPT ![i] = AuditRow(@.id, @.prev, content)]
Dropped(rows, i) == RemoveAt(rows, i)

=============================================================================
