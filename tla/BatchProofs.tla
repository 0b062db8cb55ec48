----------------------------- MODULE BatchProofs -----------------------------
(***************************************************************************)
(* Theorems about the lots of Issuance, for any number of handlers, lots    *)
(* and counters.                                                            *)
(*                                                                         *)
(* A chunk is minted in one atomic step out of the next free serials and    *)
(* indexes, whoever overlaps: Issuance implements SerialLedger.  Where no   *)
(* two requests on one lot overlap, the view of a handler is the row, the   *)
(* cursor counts the stamps, and a step does to its lot what BatchLifecycle *)
(* allows and nothing to any other lot (BatchInv).                          *)
(***************************************************************************)
EXTENDS IssuanceProofs, FiniteSetTheorems

-----------------------------------------------------------------------------
(* Counting *)

\* n numbers identify the elements of S one by one.
Numbered(S, n) ==
  \E f \in [S -> 0..(n - 1)] :
    /\ \A x, y \in S : f[x] = f[y] => x = y
    /\ \A i \in 0..(n - 1) : \E x \in S : f[x] = i

LEMMA CountedBy ==
  ASSUME NEW S, NEW n \in Nat, Numbered(S, n)
  PROVE  IsFiniteSet(S) /\ Cardinality(S) = n
<1>1. IsFiniteSet(0..(n - 1)) /\ Cardinality(0..(n - 1)) = n
  <2>1. 0 \in Int /\ n - 1 \in Int
    OBVIOUS
  <2>2. IsFiniteSet(0..(n - 1)) /\ Cardinality(0..(n - 1)) = IF 0 > n - 1 THEN 0 ELSE (n - 1) - 0 + 1
    BY <2>1, FS_Interval
  <2> QED BY <2>2
<1>2. PICK f \in [S -> 0..(n - 1)] :
        /\ \A x, y \in S : f[x] = f[y] => x = y
        /\ \A i \in 0..(n - 1) : \E x \in S : f[x] = i
  BY DEF Numbered
<1>3. f \in Injection(S, 0..(n - 1)) /\ f \in Surjection(S, 0..(n - 1))
  BY <1>2 DEF Injection, IsInjective, Surjection
<1> QED BY <1>1, <1>3, FS_Injection

\* The stamps are as many as the indexes in use.
LEMMA StampsCounted ==
  ASSUME SerialInv
  PROVE  IsFiniteSet(stamps) /\ Cardinality(stamps) = NextIndex /\ NextIndex \in Nat
<1>1. NextIndex \in Nat /\ Indexes = 0..(NextIndex - 1)
  BY NextIndexIsFree DEF SerialInv
<1> DEFINE f == [s \in stamps |-> s.index]
<1>2. f \in [stamps -> 0..(NextIndex - 1)] /\ \A i \in 0..(NextIndex - 1) : \E s \in stamps : f[s] = i
  BY <1>1 DEF Indexes
<1>3. \A s, t \in stamps : f[s] = f[t] => s = t
  BY DEF SerialInv, NoStampTwice
<1> HIDE DEF f
<1>4. NextIndex \in Nat BY <1>1
<1>5. IsFiniteSet(stamps) /\ Cardinality(stamps) = NextIndex
  <2>1. Numbered(stamps, NextIndex)
    BY Zenon, <1>2, <1>3 DEF Numbered
  <2> QED BY <1>4, <2>1, CountedBy
<1> QED BY <1>4, <1>5

\* A chunk holds as many stamps as it takes numbers, and none that exists.
LEMMA MintedCounted ==
  ASSUME SerialInv, NEW w \in Workers, At(w, "allocated", "issue")
  PROVE  LET s == session[w] IN
         /\ s \in Session /\ s.batch \in Batches /\ s.chunk \in ChunkSizes /\ Issuable(s.batch, s.view)
         /\ Size(s) \in Nat \ {0} /\ s.view.issued_count + Size(s) <= Quantity[s.batch] /\ Size(s) <= s.chunk
         /\ s.base = serial_counters[CounterOf[s.batch]] /\ s.base \in Nat
         /\ Indexes = 0..(s.index - 1) /\ s.index \in Nat /\ s.index + Size(s) <= ListBits
         /\ \A t \in Minted(s) : t.batch = s.batch /\ t.status = "ISSUED" /\ t \notin stamps
         /\ IsFiniteSet(Minted(s)) /\ Cardinality(Minted(s)) = Size(s)
<1> DEFINE s == session[w]
           n == Size(s)
<1>1. GoodSession(s) /\ ClaimOK(w) /\ s.phase = "allocated"
  BY DEF SerialInv, TypeInv, HandlersOK, ClaimInv, At
<1>2. s \in Session /\ s.batch \in Batches /\ s.chunk \in ChunkSizes /\ Issuable(s.batch, s.view)
  BY <1>1 DEF GoodSession, At
<1>3. n \in Nat \ {0} /\ s.view.issued_count + n <= Quantity[s.batch]
  BY <1>2, SizeBound
<1>4. n <= s.chunk
  <2>0. s.chunk \in Nat /\ Quantity[s.batch] \in Nat
    BY <1>2, ChunkAssumption, QuantityAssumption
  <2>1. s.chunk \in Nat /\ Quantity[s.batch] - s.view.issued_count \in Int
    BY <1>2, <2>0 DEF Session, BatchRow
  <2> QED BY <2>1 DEF Size
<1>5. /\ s.base = serial_counters[CounterOf[s.batch]] /\ s.base \in Nat
      /\ Indexes = 0..(s.index - 1) /\ s.index \in Nat /\ s.index + n <= ListBits
  BY <1>1, <1>2 DEF ClaimOK, Session
<1> DEFINE Fresh(i) == [batch |-> s.batch, sequence |-> s.base + i, index |-> s.index + i, status |-> "ISSUED"]
<1>6. Minted(s) = {Fresh(i) : i \in 0..(n - 1)}
  BY DEF Minted
<1>7. \A i \in 0..(n - 1) : Fresh(i).batch = s.batch /\ Fresh(i).status = "ISSUED" /\ Fresh(i).index = s.index + i
  OBVIOUS
<1> HIDE DEF Fresh, n, s
<1>8. \A t \in Minted(s) : t.batch = s.batch /\ t.status = "ISSUED" /\ t.index \in s.index..(s.index + n - 1)
  BY <1>3, <1>5, <1>6, <1>7
<1>9. \A t \in Minted(s) : t \notin stamps
  <2>1. \A t \in stamps : t.index \in 0..(s.index - 1)
    BY <1>5 DEF Indexes
  <2> QED BY <1>5, <1>8, <2>1
<1>10. IsFiniteSet(Minted(s)) /\ Cardinality(Minted(s)) = n
  <2> DEFINE f == [t \in Minted(s) |-> t.index - s.index]
  <2>1. f \in [Minted(s) -> 0..(n - 1)]
    BY <1>3, <1>5, <1>8
  <2>2. \A t, u \in Minted(s) : f[t] = f[u] => t = u
    BY <1>5, <1>6, <1>7
  <2>3. \A i \in 0..(n - 1) : \E t \in Minted(s) : f[t] = i
    <3> TAKE i \in 0..(n - 1)
    <3>1. Fresh(i) \in Minted(s) /\ f[Fresh(i)] = i
      BY <1>5, <1>6, <1>7
    <3> QED BY <3>1
  <2> HIDE DEF f
  <2>4. n \in Nat BY <1>3
  <2>5. Numbered(Minted(s), n)
    BY Zenon, <2>1, <2>2, <2>3 DEF Numbered
  <2> QED BY <2>4, <2>5, CountedBy
<1> QED BY <1>2, <1>3, <1>4, <1>5, <1>8, <1>9, <1>10 DEF n, s

-----------------------------------------------------------------------------
(* Chunks are atomic *)

\* The entry of the ledger that a stamp stands for.
Entry(s) == [counter |-> CounterOf[s.batch], sequence |-> s.sequence, index |-> s.index]
Entries == {Entry(s) : s \in stamps}

\* The route accepts a chunk_size of 1 to 10000 (schemas.py).
ChunksAreBounded == \E n \in ChunkSizes : \A m \in ChunkSizes : m <= n
LargestChunk == CHOOSE n \in ChunkSizes : \A m \in ChunkSizes : m <= n

LEMMA EntryFields ==
  ASSUME NEW s
  PROVE  Entry(s).counter = CounterOf[s.batch] /\ Entry(s).sequence = s.sequence /\ Entry(s).index = s.index
  BY DEF Entry

\* The ledger counts as Issuance does.
LEMMA LedgerCounts == ASSUME NEW S PROVE Ledger!Cardinality(S) = Cardinality(S)
  BY DEF Ledger!Cardinality, Cardinality

\* The next free serial and index of the ledger are the counter and NextIndex.
LEMMA EntriesCounted ==
  ASSUME SerialInv
  PROVE  /\ Cardinality(Entries) = NextIndex
         /\ \A c \in Counters : Cardinality({e \in Entries : e.counter = c}) = serial_counters[c]
<1>1. NextIndex \in Nat /\ Indexes = 0..(NextIndex - 1)
  BY NextIndexIsFree DEF SerialInv
<1>2. \A s, t \in stamps : Entry(s).index = Entry(t).index => s = t
  BY EntryFields DEF SerialInv, NoStampTwice
<1>3. Cardinality(Entries) = NextIndex
  <2> DEFINE f == [e \in Entries |-> e.index]
  <2>1. f \in [Entries -> 0..(NextIndex - 1)]
    <3>1. ASSUME NEW e \in Entries PROVE e.index \in 0..(NextIndex - 1)
      <4>1. PICK s \in stamps : e = Entry(s)
        BY DEF Entries
      <4>2. s.index \in Indexes
        BY DEF Indexes
      <4> QED BY <1>1, <4>1, <4>2, EntryFields
    <3> QED BY <3>1
  <2>2. \A x, y \in Entries : f[x] = f[y] => x = y
    BY <1>2 DEF Entries
  <2>3. \A i \in 0..(NextIndex - 1) : \E x \in Entries : f[x] = i
    <3> TAKE i \in 0..(NextIndex - 1)
    <3>1. PICK s \in stamps : s.index = i
      BY <1>1 DEF Indexes
    <3>2. Entry(s) \in Entries
      BY DEF Entries
    <3>3. f[Entry(s)] = i
      BY <3>1, <3>2, EntryFields
    <3> QED BY <3>2, <3>3
  <2> HIDE DEF f
  <2>4. Numbered(Entries, NextIndex)
    BY Zenon, <2>1, <2>2, <2>3 DEF Numbered
  <2> QED BY <1>1, <2>4, CountedBy
<1>4. ASSUME NEW c \in Counters
      PROVE  Cardinality({e \in Entries : e.counter = c}) = serial_counters[c]
  <2> DEFINE n == serial_counters[c]
             Own == {e \in Entries : e.counter = c}
             f == [e \in Own |-> e.sequence]
  <2>1. n \in Nat /\ SequencesOf(c) = 0..(n - 1)
    BY DEF SerialInv, TypeInv, TablesOK, CounterMatchesStamps
  <2>2. \A s \in stamps : CounterOf[s.batch] = c => s.sequence \in 0..(n - 1)
    BY <2>1 DEF SequencesOf
  <2>3. f \in [Own -> 0..(n - 1)]
    <3>1. ASSUME NEW e \in Own PROVE e.sequence \in 0..(n - 1)
      <4>1. PICK s \in stamps : e = Entry(s)
        BY DEF Entries
      <4> QED BY <2>2, <4>1, EntryFields
    <3> QED BY <3>1
  <2>4. \A x, y \in Own : f[x] = f[y] => x = y
    <3> SUFFICES ASSUME NEW x \in Own, NEW y \in Own, x.sequence = y.sequence PROVE x = y
      OBVIOUS
    <3>1. PICK s \in stamps : x = Entry(s)
      BY DEF Entries
    <3>2. PICK t \in stamps : y = Entry(t)
      BY DEF Entries
    <3>3. s = t
      BY <3>1, <3>2, EntryFields DEF SerialInv, NoStampTwice
    <3> QED BY <3>1, <3>2, <3>3
  <2>5. \A i \in 0..(n - 1) : \E x \in Own : f[x] = i
    <3> TAKE i \in 0..(n - 1)
    <3>1. PICK s \in stamps : CounterOf[s.batch] = c /\ s.sequence = i
      BY <2>1 DEF SequencesOf
    <3>2. Entry(s) \in Own
      BY <3>1, EntryFields DEF Entries
    <3>3. f[Entry(s)] = i
      BY <3>1, <3>2, EntryFields
    <3> QED BY <3>2, <3>3
  <2> HIDE DEF n, Own, f
  <2>6. Numbered(Own, n)
    BY Zenon, <2>3, <2>4, <2>5 DEF Numbered
  <2>7. Cardinality(Own) = n
    BY <2>1, <2>6, CountedBy
  <2> QED BY <2>7 DEF Own, n
<1> QED BY <1>3, <1>4

\* A commit appends one block to the ledger.
LEMMA ChunkIsOneBlock ==
  ASSUME SerialInv, ChunksAreBounded, NEW w \in Workers, CommitChunk(w)
  PROVE  \E c \in Counters, n \in 1..LargestChunk :
           /\ Cardinality(Entries) + n <= ListBits
           /\ Entries' = Entries \cup
                {[counter |-> c, sequence |-> Cardinality({e \in Entries : e.counter = c}) + i,
                  index |-> Cardinality(Entries) + i] : i \in 0..(n - 1)}
<1> DEFINE s == session[w]
           c == CounterOf[s.batch]
           n == Size(s)
<1>1. At(w, "allocated", "issue") /\ stamps' = stamps \cup Minted(s)
  BY DEF CommitChunk
<1>2. /\ s.batch \in Batches /\ s.chunk \in ChunkSizes /\ n \in Nat \ {0} /\ n <= s.chunk
      /\ s.base = serial_counters[c] /\ s.index \in Nat /\ Indexes = 0..(s.index - 1) /\ s.index + n <= ListBits
  BY <1>1, MintedCounted
<1>3. c \in Counters
  BY <1>2, CounterAssumption
<1>4. n \in 1..LargestChunk
  <2>1. LargestChunk \in ChunkSizes /\ s.chunk <= LargestChunk
    BY <1>2 DEF ChunksAreBounded, LargestChunk
  <2>2. LargestChunk \in Nat /\ s.chunk \in Nat
    BY <1>2, <2>1, ChunkAssumption
  <2> HIDE DEF n, s
  <2> QED BY <1>2, <2>1, <2>2
<1>5. Cardinality(Entries) = s.index /\ Cardinality({e \in Entries : e.counter = c}) = s.base
  <2>1. NextIndex \in Nat /\ Indexes = 0..(NextIndex - 1)
    BY NextIndexIsFree DEF SerialInv
  <2>2. s.index = NextIndex
    <3>1. \A i \in Nat : i < s.index <=> i < NextIndex
      BY <1>2, <2>1
    <3> QED BY <1>2, <2>1, <3>1
  <2> QED BY <1>2, <1>3, <2>2, EntriesCounted
<1>6. Entries' = Entries \cup {[counter |-> c, sequence |-> s.base + i, index |-> s.index + i] : i \in 0..(n - 1)}
  <2> DEFINE Fresh(i) == [batch |-> s.batch, sequence |-> s.base + i, index |-> s.index + i, status |-> "ISSUED"]
  <2>1. Minted(s) = {Fresh(i) : i \in 0..(n - 1)}
    BY DEF Minted
  <2>2. \A i \in 0..(n - 1) : Entry(Fresh(i)) = [counter |-> c, sequence |-> s.base + i, index |-> s.index + i]
    BY DEF Entry
  <2>3. Entries' = Entries \cup {Entry(t) : t \in Minted(s)}
    BY <1>1 DEF Entries, Entry
  <2>4. {Entry(t) : t \in Minted(s)} = {Entry(Fresh(i)) : i \in 0..(n - 1)}
    BY <2>1
  <2>5. {Entry(Fresh(i)) : i \in 0..(n - 1)}
          = {[counter |-> c, sequence |-> s.base + i, index |-> s.index + i] : i \in 0..(n - 1)}
    BY <2>2
  <2> HIDE DEF Fresh, n, c, s
  <2> QED BY <2>3, <2>4, <2>5
<1> HIDE DEF n, c, s
<1> QED BY <1>2, <1>3, <1>4, <1>5, <1>6

\* Every other step leaves the ledger alone.
LEMMA LedgerStep ==
  ASSUME SerialInv, ChunksAreBounded, [Next]_vars
  PROVE  (\E w \in Workers : CommitChunk(w)) \/ Entries' = Entries
<1>1. CASE UNCHANGED stamps
  BY <1>1 DEF Entries, Entry
<1>2. ASSUME NEW w \in Workers, Activate(w) PROVE Entries' = Entries
  <2> DEFINE b == session[w].batch
             Live(t) == IF t.batch = b THEN [t EXCEPT !.status = "ACTIVE"] ELSE t
  <2>1. stamps' = {Live(t) : t \in stamps}
    BY <1>2 DEF Activate
  <2>2. \A t \in stamps : Entry(Live(t)) = Entry(t)
    BY DEF Entry, SerialInv, TypeInv, TablesOK, Stamp
  <2> HIDE DEF Live
  <2>3. {Entry(t) : t \in stamps'} = {Entry(Live(t)) : t \in stamps}
    BY <2>1
  <2>4. {Entry(Live(t)) : t \in stamps} = {Entry(t) : t \in stamps}
    BY <2>2
  <2> QED BY <2>3, <2>4 DEF Entries, Entry
<1>3. CASE UNCHANGED vars
  BY <1>1, <1>3 DEF vars
<1>4. ASSUME NEW w \in Workers, Next, ~CommitChunk(w), ~Activate(w), Start(w) \/ Proceed(w) \/ Crash(w)
      PROVE  UNCHANGED stamps
  BY <1>4 DEF Start, Load, LoadForIssue, Proceed, ReturnExisting, FindNone, InsertBatch, LockBatch,
              NothingToIssue, ClaimSerialBlock, AllocateIndexes, ListExhausted, Finalize,
              RecordInspection, Refuse, Crash, Rollback, tables
<1> QED BY <1>1, <1>2, <1>3, <1>4 DEF Next

\* issue_chunk: however handlers overlap and crash, a chunk is one step that mints the next
\* free serials and list indexes, and no minted entry ever changes.  Issuance implements
\* SerialLedger.
THEOREM ChunksAreAtomic == ChunksAreBounded /\ Spec => MintsAreAtomic
<1>1. Init => Ledger!Init
  BY DEF Init, Ledger!Init
<1>2. SerialInv /\ ChunksAreBounded /\ [Next]_vars
        => [Ledger!Next]_{[counter |-> CounterOf[s.batch], sequence |-> s.sequence, index |-> s.index] : s \in stamps}
  <2> SUFFICES ASSUME SerialInv, ChunksAreBounded, [Next]_vars, Entries' # Entries
               PROVE  Ledger!Next
    BY DEF Entries, Entry
  <2>1. PICK w \in Workers : CommitChunk(w)
    BY LedgerStep
  <2>2. PICK c \in Counters, n \in 1..LargestChunk :
           /\ Cardinality(Entries) + n <= ListBits
           /\ Entries' = Entries \cup
                {[counter |-> c, sequence |-> Cardinality({e \in Entries : e.counter = c}) + i,
                  index |-> Cardinality(Entries) + i] : i \in 0..(n - 1)}
    BY <2>1, ChunkIsOneBlock
  <2>3. Ledger!Mint(c, n)
    <3>1. Ledger!Next_Free(c) = Cardinality({e \in Entries : e.counter = c})
      BY LedgerCounts DEF Ledger!Next_Free, Entries, Entry
    <3>2. Ledger!Cardinality(Entries) = Cardinality(Entries)
      BY LedgerCounts
    <3>3. Ledger!Mint(c, n) <=>
            /\ Ledger!Cardinality(Entries) + n <= ListBits
            /\ Entries' = Entries \cup
                 {[counter |-> c, sequence |-> Ledger!Next_Free(c) + i,
                   index |-> Ledger!Cardinality(Entries) + i] : i \in 0..(n - 1)}
      BY Zenon DEF Ledger!Mint, Entries, Entry
    <3> QED BY <2>2, <3>1, <3>2, <3>3
  <2> QED BY <2>3 DEF Ledger!Next, LargestChunk
<1>3. CASE ChunksAreBounded
  BY <1>1, <1>2, <1>3, SerialInvariance, PTL DEF Spec, MintsAreAtomic, Ledger!Spec
<1> QED BY <1>3

-----------------------------------------------------------------------------
(* Lots whose requests do not overlap *)

\* The callers are exclusive; and outbox rows are told from none (MaxEvents bounds the model).
NoOverlap == Exclusive /\ MaxEvents > 0

Unfinished == {"ABSENT", "PENDING", "ISSUING"}
Final == {"READY", "ACTIVE", "INSPECTION_FAILED"}

Active(b) == {s \in StampsOf(b) : s.status = "ACTIVE"}
Sequences(b) == {s.sequence : s \in StampsOf(b)}

\* A handler alone on its lot has the committed row for its view.
OneAtATime ==
  /\ \A v, w \in Workers : session[v].phase # "idle" /\ session[v].batch = session[w].batch => v = w
  /\ \A w \in Workers :
       /\ session[w].phase = "idle" <=> session[w].batch = NoBatch
       /\ session[w].phase # "idle" /\ session[w].op # "create" =>
            session[w].view = batches[session[w].batch]

\* The cursor, the root, the inspections, the live stamps and the events of a lot agree with
\* its status.
LotOK(b) ==
  LET row == batches[b] IN
  /\ row.issued_count = Cardinality(StampsOf(b))
  /\ row.status \in Unfinished => row.issued_count < Quantity[b]
  /\ row.status \notin Unfinished => row.issued_count = Quantity[b]
  /\ row.status \in Unfinished \cup {"ISSUED"} => inspections[b] = {}
  /\ row.status = "READY" => inspections[b] \subseteq {"PASS"}
  /\ row.status \in Final => row.merkle_root = Sequences(b)
  /\ row.status \notin {"ACTIVE", "INSPECTION_FAILED"} => Active(b) = {}
  /\ outbox[b].issued = IF row.status \in Final THEN 1 ELSE 0
  /\ outbox[b].activated = IF Active(b) # {} THEN 1 ELSE 0

BatchInv == SerialInv /\ OneAtATime /\ \A b \in Batches : LotOK(b)

\* What a step does to the lots.
Untouched(b) == UNCHANGED <<batches[b], inspections[b], outbox[b], StampsOf(b)>>
Apart(b) == \A c \in Batches \ {b} : Untouched(c)

Created(b) ==
  /\ batches[b].status = "ABSENT"
  /\ batches'[b] = [batches[b] EXCEPT !.status = "PENDING"]
  /\ UNCHANGED <<inspections[b], outbox[b], StampsOf(b)>>

Grown(b, n) ==
  /\ batches[b].status \in {"PENDING", "ISSUING"} /\ batches[b].issued_count + n <= Quantity[b]
  /\ batches'[b] = [batches[b] EXCEPT
       !.issued_count = batches[b].issued_count + n,
       !.status = IF batches[b].issued_count + n < Quantity[b] THEN "ISSUING" ELSE "ISSUED"]
  /\ Cardinality(StampsOf(b)') = Cardinality(StampsOf(b)) + n
  /\ Active(b)' = Active(b)
  /\ UNCHANGED <<inspections[b], outbox[b]>>

Sealed(b) ==
  /\ batches[b].status = "ISSUED"
  /\ batches'[b] = [batches[b] EXCEPT !.status = "READY", !.merkle_root = Sequences(b)]
  /\ outbox'[b] = [outbox[b] EXCEPT !.issued = Enqueued(outbox[b].issued)]
  /\ UNCHANGED <<inspections[b], StampsOf(b)>>

Judged(b, result) ==
  /\ batches[b].status \in {"READY", "ACTIVE"}
  /\ batches'[b] = Inspected(batches[b], result)
  /\ inspections'[b] = inspections[b] \cup {result}
  /\ UNCHANGED <<outbox[b], StampsOf(b)>>

Opened(b) ==
  /\ batches[b].status = "READY" /\ "PASS" \in inspections[b]
  /\ batches'[b] = [batches[b] EXCEPT !.status = "ACTIVE"]
  /\ Active(b)' = StampsOf(b)' /\ Sequences(b)' = Sequences(b)
  /\ Cardinality(StampsOf(b)') = Cardinality(StampsOf(b))
  /\ outbox'[b] = [outbox[b] EXCEPT !.activated = Enqueued(outbox[b].activated)]
  /\ UNCHANGED inspections[b]

Moved(b) ==
  \/ Created(b) \/ Sealed(b) \/ Opened(b)
  \/ \E n \in 1..Quantity[b] : Grown(b, n)
  \/ \E result \in {"PASS", "FAIL"} : Judged(b, result)

LotStep == (\A b \in Batches : Untouched(b)) \/ \E b \in Batches : Apart(b) /\ Moved(b)

-----------------------------------------------------------------------------
(* One handler at a time *)

\* A handler that is alone on a lot stays so, and its view is the row it has written.
LEMMA AloneStep ==
  ASSUME TypeInv, OneAtATime, NEW w \in Workers, NEW s, session' = [session EXCEPT ![w] = s],
         \/ s = Idle
         \/ /\ s.phase # "idle" /\ s.batch \in Batches
            /\ \A v \in Workers \ {w} : session[v].batch # s.batch
            /\ s.op # "create" => s.view = batches'[s.batch],
         \A v \in Workers \ {w} :
           session[v].batch \in Batches => batches'[session[v].batch] = batches[session[v].batch]
  PROVE  OneAtATime'
<1>1. session'[w] = s /\ \A v \in Workers \ {w} : session'[v] = session[v]
  BY DEF TypeInv, HandlersOK
<1>2. s.phase = "idle" <=> s.batch = NoBatch
  BY IdentityAssumption DEF Idle
<1>3. \A v \in Workers : session[v].phase # "idle" => session[v].batch \in Batches
  BY DEF TypeInv, HandlersOK, GoodSession
<1>4. ASSUME NEW v \in Workers
      PROVE  /\ session'[v].phase = "idle" <=> session'[v].batch = NoBatch
             /\ session'[v].phase # "idle" /\ session'[v].op # "create" =>
                  session'[v].view = batches'[session'[v].batch]
  <2>1. CASE v = w
    BY <1>1, <1>2, <2>1 DEF Idle
  <2>2. CASE v # w
    BY <1>1, <1>3, <2>2 DEF OneAtATime
  <2> QED BY <2>1, <2>2
<1>5. ASSUME NEW u \in Workers, NEW v \in Workers, session'[u].phase # "idle", session'[u].batch = session'[v].batch
      PROVE  u = v
  <2>1. CASE u # w /\ v # w
    BY <1>1, <1>5, <2>1 DEF OneAtATime
  <2>2. CASE u = w /\ v # w
    BY <1>1, <1>5, <2>2 DEF Idle
  <2>3. CASE u # w /\ v = w
    <3>1. session[u].batch \in Batches /\ session[u].batch = s.batch
      BY <1>1, <1>3, <1>5, <2>3
    <3> QED BY <2>3, <3>1, IdentityAssumption DEF Idle
  <2>4. CASE u = w /\ v = w
    BY <2>4
  <2> QED BY <2>1, <2>2, <2>3, <2>4
<1> QED BY <1>4, <1>5 DEF OneAtATime

\* The lot a handler acts on, and the row it knows.
LEMMA Acting ==
  ASSUME TypeInv, OneAtATime, NEW w \in Workers, session[w].phase # "idle"
  PROVE  /\ session[w].batch \in Batches /\ batches[session[w].batch] \in BatchRow
         /\ session[w].op # "create" => session[w].view = batches[session[w].batch]
         /\ \A v \in Workers \ {w} : session[v].batch # session[w].batch
  BY DEF TypeInv, TablesOK, HandlersOK, GoodSession, OneAtATime

\* What a handler alone on its lot flushes is what it means to write.
LEMMA FlushFresh ==
  ASSUME NEW row \in BatchRow, NEW new \in BatchRow
  PROVE  Flushed(row, row, new) = new
  BY DEF Flushed, BatchRow

\* A request that ends after a step on its lot alone.
LEMMA FinishAlone ==
  ASSUME TypeInv, OneAtATime, NEW w \in Workers, session[w].phase # "idle", Finish(w),
         \A c \in Batches \ {session[w].batch} : batches'[c] = batches[c]
  PROVE  OneAtATime'
<1>1. \A v \in Workers \ {w} :
        session[v].batch \in Batches => batches'[session[v].batch] = batches[session[v].batch]
  BY Acting
<1> QED BY <1>1, AloneStep DEF Finish

\* The statements that write no table.
LEMMA QuietMoves ==
  ASSUME SerialInv, OneAtATime, Exclusive, NEW w \in Workers,
         \/ Start(w) \/ FindNone(w) \/ LockBatch(w) \/ ClaimSerialBlock(w) \/ AllocateIndexes(w)
         \/ ReturnExisting(w) \/ ListExhausted(w) \/ Refuse(w) \/ Crash(w)
  PROVE  OneAtATime' /\ \A b \in Batches : Untouched(b)
<1>1. UNCHANGED tables
  BY DEF Start, Load, LoadForIssue, FindNone, LockBatch, ClaimSerialBlock, AllocateIndexes,
         ReturnExisting, ListExhausted, Refuse, Crash, Rollback
<1>2. \A b \in Batches : Untouched(b)
  BY <1>1 DEF tables, Untouched, StampsOf
<1>3. TypeInv /\ batches' = batches /\ GoodSession(session[w])
  BY <1>1 DEF tables, SerialInv, TypeInv, HandlersOK
<1>4. CASE Start(w)
  <2>1. PICK b \in Batches, op \in Ops, n \in ChunkSizes \cup {0}, toCompletion \in BOOLEAN :
          session' = [session EXCEPT ![w] = Loaded(b, op, n, toCompletion)] /\ MayStart(w, b)
    BY <1>4 DEF Start, Load, LoadForIssue, Ops
  <2> DEFINE s == Loaded(b, op, n, toCompletion)
  <2>2. s.phase # "idle" /\ s.batch = b /\ s.view = batches[b]
    BY DEF Loaded
  <2>3. \A v \in Workers : session[v].batch # b
    BY <2>1 DEF MayStart
  <2> HIDE DEF s
  <2> QED BY <1>2, <1>3, <2>1, <2>2, <2>3, AloneStep DEF s
<1>5. CASE FindNone(w) \/ LockBatch(w) \/ ClaimSerialBlock(w) \/ AllocateIndexes(w)
  <2>1. session[w].phase # "idle"
    BY <1>5 DEF FindNone, LockBatch, ClaimSerialBlock, AllocateIndexes, At
  <2>2. PICK phase \in Phases, base \in Nat, index \in Nat :
          /\ session' = [session EXCEPT ![w] = [session[w] EXCEPT !.phase = phase, !.base = base, !.index = index]]
          /\ phase # "idle"
    <3> DEFINE q == session[w]
    <3>1. q \in Session /\ q.base \in Nat /\ q.index \in Nat /\ session \in [Workers -> Session]
      BY <1>3 DEF GoodSession, Session, TypeInv, HandlersOK
    <3>2. ASSUME NEW p \in Phases
          PROVE  [q EXCEPT !.phase = p] = [q EXCEPT !.phase = p, !.base = q.base, !.index = q.index]
      BY <3>1 DEF Session
    <3>3. CASE FindNone(w) \/ LockBatch(w)
      <4>1. PICK p \in {"absent", "locked"} : session' = [session EXCEPT ![w] = [q EXCEPT !.phase = p]]
        BY <3>3 DEF FindNone, LockBatch
      <4>2. p \in Phases /\ p # "idle"
        BY DEF Phases
      <4>3. session' = [session EXCEPT ![w] = [q EXCEPT !.phase = p, !.base = q.base, !.index = q.index]]
        BY <3>2, <4>1, <4>2
      <4> QED BY <3>1, <4>2, <4>3
    <3>4. CASE ClaimSerialBlock(w)
      <4>1. q.batch \in Batches
        BY <1>3, <3>4 DEF ClaimSerialBlock, At, GoodSession
      <4>2. PICK n \in Nat : n = serial_counters[CounterOf[q.batch]]
        BY <1>3, <4>1, CounterAssumption DEF TypeInv, TablesOK
      <4>3. session' = [session EXCEPT ![w] = [q EXCEPT !.phase = "claimed", !.base = n]]
        BY <3>4, <4>2 DEF ClaimSerialBlock
      <4>4. [q EXCEPT !.phase = "claimed", !.base = n] = [q EXCEPT !.phase = "claimed", !.base = n, !.index = q.index]
        BY <3>1 DEF Session
      <4> QED BY <3>1, <4>3, <4>4 DEF Phases
    <3>5. CASE AllocateIndexes(w)
      <4>1. NextIndex \in Nat
        BY NextIndexIsFree DEF SerialInv
      <4>2. session' = [session EXCEPT ![w] = [q EXCEPT !.phase = "allocated", !.index = NextIndex]]
        BY <3>5 DEF AllocateIndexes
      <4>3. [q EXCEPT !.phase = "allocated", !.index = NextIndex]
              = [q EXCEPT !.phase = "allocated", !.base = q.base, !.index = NextIndex]
        BY <3>1 DEF Session
      <4> QED BY <3>1, <4>1, <4>2, <4>3 DEF Phases
    <3> QED BY <1>5, <3>3, <3>4, <3>5
  <2> DEFINE s == [session[w] EXCEPT !.phase = phase, !.base = base, !.index = index]
  <2>3. /\ session' = [session EXCEPT ![w] = s] /\ s.phase # "idle"
        /\ s.batch = session[w].batch /\ s.op = session[w].op /\ s.view = session[w].view
    BY <1>3, <2>2 DEF GoodSession, Session
  <2> HIDE DEF s
  <2> QED BY <1>2, <1>3, <2>1, <2>3, Acting, AloneStep
<1>6. CASE ReturnExisting(w) \/ ListExhausted(w) \/ Refuse(w) \/ Crash(w)
  <2>1. session[w].phase # "idle" /\ Finish(w)
    BY <1>6 DEF ReturnExisting, ListExhausted, Refuse, Crash, Rollback, At
  <2> QED BY <1>2, <1>3, <2>1, FinishAlone
<1> QED BY <1>4, <1>5, <1>6

\* A step that writes the row of its own lot leaves the others apart.
LEMMA OwnLot ==
  ASSUME NEW b \in Batches, NEW row, batches \in [Batches -> BatchRow],
         batches' = [batches EXCEPT ![b] = row],
         \A c \in Batches \ {b} : UNCHANGED <<inspections[c], outbox[c], StampsOf(c)>>
  PROVE  batches'[b] = row /\ Apart(b) /\ \A c \in Batches \ {b} : batches'[c] = batches[c]
  BY DEF Apart, Untouched

LEMMA InsertMoves ==
  ASSUME SerialInv, OneAtATime, NEW w \in Workers, InsertBatch(w)
  PROVE  OneAtATime' /\ LotStep
<1>1. TypeInv /\ batches \in [Batches -> BatchRow]
  BY DEF SerialInv, TypeInv, TablesOK
<1>2. session[w].phase # "idle" /\ Finish(w)
  BY DEF InsertBatch, At
<1>3. PICK b \in Batches : b = session[w].batch
  BY <1>1, <1>2, Acting
<1>4. UNCHANGED <<stamps, inspections, outbox>>
  BY DEF InsertBatch
<1>5. \A c \in Batches : UNCHANGED <<inspections[c], outbox[c], StampsOf(c)>>
  BY <1>4 DEF StampsOf
<1>6. CASE batches[b].status = "ABSENT"
  <2>1. batches' = [batches EXCEPT ![b] = [batches[b] EXCEPT !.status = "PENDING"]]
    BY <1>3, <1>6 DEF InsertBatch
  <2>2. batches'[b] = [batches[b] EXCEPT !.status = "PENDING"] /\ Apart(b)
        /\ \A c \in Batches \ {b} : batches'[c] = batches[c]
    BY <1>1, <1>3, <1>5, <2>1, OwnLot
  <2>3. Created(b)
    BY <1>3, <1>5, <1>6, <2>2 DEF Created
  <2> QED BY <1>1, <1>2, <1>3, <2>2, <2>3, FinishAlone DEF LotStep, Moved
<1>7. CASE batches[b].status # "ABSENT"
  <2>1. batches' = batches
    BY <1>3, <1>7 DEF InsertBatch
  <2> QED BY <1>1, <1>2, <1>5, <2>1, FinishAlone DEF LotStep, Untouched
<1> QED BY <1>6, <1>7

\* The view of a handler that has the row lock is the row.
LEMMA LockedIsFresh ==
  ASSUME SerialInv, OneAtATime, NEW w \in Workers, session[w].phase # "idle", session[w].op # "create"
  PROVE  LET b == session[w].batch IN
         /\ TypeInv /\ batches \in [Batches -> BatchRow]
         /\ b \in Batches /\ batches[b] \in BatchRow /\ session[w].view = batches[b]
         /\ \A new \in BatchRow : Flushed(batches[b], session[w].view, new) = new
<1>1. TypeInv /\ batches \in [Batches -> BatchRow]
  BY DEF SerialInv, TypeInv, TablesOK
<1> QED BY <1>1, Acting, FlushFresh

\* Nothing to issue on a lot that is not complete: it never happens without overlap.
LEMMA NothingMoves ==
  ASSUME SerialInv, OneAtATime, \A b \in Batches : LotOK(b), NEW w \in Workers, NothingToIssue(w)
  PROVE  OneAtATime' /\ LotStep
<1> DEFINE s == session[w]
           b == s.batch
<1>1. session[w].phase # "idle" /\ session[w].op # "create" /\ Finish(w) /\ UNCHANGED <<stamps, inspections, outbox>>
      /\ ~Issuable(b, s.view)
  BY DEF NothingToIssue, At
<1>2. /\ TypeInv /\ batches \in [Batches -> BatchRow]
      /\ b \in Batches /\ batches[b] \in BatchRow /\ s.view = batches[b]
      /\ \A new \in BatchRow : Flushed(batches[b], s.view, new) = new
  BY <1>1, LockedIsFresh
<1>3. s.view.status \notin {"PENDING", "ISSUING"}
  BY <1>1, <1>2 DEF Issuable, LotOK, Unfinished
<1>4. batches' = batches
  <2>1. [s.view EXCEPT !.status = IF @ \in {"PENDING", "ISSUING"} THEN "ISSUED" ELSE @] = s.view
    BY <1>2, <1>3 DEF BatchRow
  <2>2. batches' = [batches EXCEPT ![b] = Flushed(batches[b], s.view, s.view)]
    BY <2>1 DEF NothingToIssue
  <2> QED BY <1>2, <2>2
<1>5. \A c \in Batches : Untouched(c)
  BY <1>1, <1>4 DEF Untouched, StampsOf
<1> QED BY <1>1, <1>2, <1>4, <1>5, FinishAlone DEF LotStep

LEMMA FinalizeMoves ==
  ASSUME SerialInv, OneAtATime, NEW w \in Workers, Finalize(w)
  PROVE  OneAtATime' /\ LotStep
<1>1. session[w].phase # "idle" /\ session[w].op # "create" /\ Finish(w) /\ UNCHANGED <<stamps, inspections>>
  BY DEF Finalize, At
<1>2. PICK b \in Batches : b = session[w].batch
  BY <1>1, LockedIsFresh
<1>3. /\ TypeInv /\ batches \in [Batches -> BatchRow]
      /\ batches[b] \in BatchRow /\ session[w].view = batches[b]
      /\ \A new \in BatchRow : Flushed(batches[b], batches[b], new) = new
  BY <1>1, <1>2, LockedIsFresh
<1> DEFINE sealed == [batches[b] EXCEPT !.status = "READY", !.merkle_root = Sequences(b)]
<1>4. batches[b].status = "ISSUED" /\ batches' = [batches EXCEPT ![b] = Flushed(batches[b], batches[b], sealed)]
  BY <1>2, <1>3 DEF Finalize, Finalizable, Sequences
<1>5. sealed \in BatchRow
  <2>1. Sequences(b) \in SUBSET Nat
    BY <1>3 DEF TypeInv, TablesOK, Stamp, StampsOf, Sequences
  <2> QED BY <1>3, <2>1 DEF BatchRow, BatchStatuses
<1>6. batches' = [batches EXCEPT ![b] = sealed]
  BY <1>3, <1>4, <1>5
<1>7. /\ outbox'[b] = [outbox[b] EXCEPT !.issued = Enqueued(outbox[b].issued)]
      /\ \A c \in Batches \ {b} : outbox'[c] = outbox[c]
  BY <1>2, <1>3 DEF Finalize, TypeInv, TablesOK
<1>8. \A c \in Batches : UNCHANGED <<inspections[c], StampsOf(c)>>
  BY <1>1 DEF StampsOf
<1> HIDE DEF sealed
<1>9. batches'[b] = sealed /\ Apart(b) /\ \A c \in Batches \ {b} : batches'[c] = batches[c]
  BY <1>3, <1>6, <1>7, <1>8, OwnLot
<1>10. Sealed(b)
  BY <1>4, <1>7, <1>8, <1>9 DEF Sealed, sealed
<1> QED BY <1>1, <1>2, <1>3, <1>9, <1>10, FinishAlone DEF LotStep, Moved

LEMMA InspectionMoves ==
  ASSUME SerialInv, OneAtATime, NEW w \in Workers, NEW result \in {"PASS", "FAIL"}, RecordInspection(w, result)
  PROVE  OneAtATime' /\ LotStep
<1>1. session[w].phase # "idle" /\ session[w].op # "create" /\ Finish(w) /\ UNCHANGED <<stamps, outbox>>
  BY DEF RecordInspection, At
<1>2. PICK b \in Batches : b = session[w].batch
  BY <1>1, LockedIsFresh
<1>3. /\ TypeInv /\ batches \in [Batches -> BatchRow]
      /\ batches[b] \in BatchRow /\ session[w].view = batches[b]
      /\ \A new \in BatchRow : Flushed(batches[b], batches[b], new) = new
  BY <1>1, <1>2, LockedIsFresh
<1> DEFINE new == Inspected(batches[b], result)
<1>4. /\ batches[b].status \in {"READY", "ACTIVE"}
      /\ batches' = [batches EXCEPT ![b] = Flushed(batches[b], batches[b], new)]
  BY <1>2, <1>3 DEF RecordInspection, Inspectable
<1>5. new \in BatchRow
  BY <1>3 DEF Inspected, BatchRow, BatchStatuses
<1>6. batches' = [batches EXCEPT ![b] = new]
  BY <1>3, <1>4, <1>5
<1>7. inspections'[b] = inspections[b] \cup {result} /\ \A c \in Batches \ {b} : inspections'[c] = inspections[c]
  BY <1>2, <1>3 DEF RecordInspection, TypeInv, TablesOK
<1>8. \A c \in Batches : UNCHANGED <<outbox[c], StampsOf(c)>>
  BY <1>1 DEF StampsOf
<1> HIDE DEF new
<1>9. batches'[b] = new /\ Apart(b) /\ \A c \in Batches \ {b} : batches'[c] = batches[c]
  BY <1>3, <1>6, <1>7, <1>8, OwnLot
<1>10. Judged(b, result)
  BY <1>4, <1>7, <1>8, <1>9 DEF Judged, new
<1> QED BY <1>1, <1>2, <1>3, <1>9, <1>10, FinishAlone DEF LotStep, Moved

LEMMA ActivateMoves ==
  ASSUME SerialInv, OneAtATime, NEW w \in Workers, Activate(w)
  PROVE  OneAtATime' /\ LotStep
<1>1. session[w].phase # "idle" /\ session[w].op # "create" /\ Finish(w) /\ UNCHANGED inspections
  BY DEF Activate, At
<1>2. PICK b \in Batches : b = session[w].batch
  BY <1>1, LockedIsFresh
<1>3. /\ TypeInv /\ batches \in [Batches -> BatchRow]
      /\ batches[b] \in BatchRow /\ session[w].view = batches[b]
      /\ \A new \in BatchRow : Flushed(batches[b], batches[b], new) = new
  BY <1>1, <1>2, LockedIsFresh
<1> DEFINE new == [batches[b] EXCEPT !.status = "ACTIVE"]
           Live(t) == IF t.batch = b THEN [t EXCEPT !.status = "ACTIVE"] ELSE t
<1>4. /\ batches[b].status = "READY" /\ "PASS" \in inspections[b]
      /\ batches' = [batches EXCEPT ![b] = Flushed(batches[b], batches[b], new)]
      /\ stamps' = {Live(t) : t \in stamps}
  BY <1>2, <1>3 DEF Activate, Activatable
<1>5. new \in BatchRow
  BY <1>3 DEF BatchRow, BatchStatuses
<1>6. batches' = [batches EXCEPT ![b] = new]
  BY <1>3, <1>4, <1>5
<1>7. /\ outbox'[b] = [outbox[b] EXCEPT !.activated = Enqueued(outbox[b].activated)]
      /\ \A c \in Batches \ {b} : outbox'[c] = outbox[c]
  BY <1>2, <1>3 DEF Activate, TypeInv, TablesOK
<1>8. \A t \in stamps :
        /\ Live(t).batch = t.batch /\ Live(t).sequence = t.sequence /\ Live(t).index = t.index
        /\ t.batch # b => Live(t) = t
        /\ t.batch = b => Live(t).status = "ACTIVE"
  BY <1>3 DEF TypeInv, TablesOK, Stamp
<1> HIDE DEF new, Live
<1>9. StampsOf(b)' = {Live(t) : t \in StampsOf(b)} /\ \A c \in Batches \ {b} : StampsOf(c)' = StampsOf(c)
  <2>1. StampsOf(b)' = {Live(t) : t \in StampsOf(b)}
    BY <1>4, <1>8 DEF StampsOf
  <2>2. ASSUME NEW c \in Batches \ {b} PROVE StampsOf(c)' = StampsOf(c)
    <3>1. \A t : t \in StampsOf(c)' => t \in StampsOf(c)
      BY <1>4, <1>8 DEF StampsOf
    <3>2. \A t : t \in StampsOf(c) => t \in StampsOf(c)'
      BY <1>4, <1>8 DEF StampsOf
    <3> QED BY <3>1, <3>2
  <2> QED BY <2>1, <2>2
<1>10. \A t \in StampsOf(b) : t \in stamps /\ t.batch = b
  BY DEF StampsOf
<1>11. Active(b)' = StampsOf(b)' /\ Sequences(b)' = Sequences(b)
  <2>1. \A t \in StampsOf(b)' : t.status = "ACTIVE"
    BY <1>8, <1>9, <1>10
  <2>2. Sequences(b)' = {Live(t).sequence : t \in StampsOf(b)}
    BY <1>9 DEF Sequences
  <2>3. {Live(t).sequence : t \in StampsOf(b)} = Sequences(b)
    BY <1>8, <1>10 DEF Sequences
  <2> QED BY <2>1, <2>2, <2>3 DEF Active
<1>12. Cardinality(StampsOf(b)') = Cardinality(StampsOf(b))
  <2> DEFINE f == [t \in StampsOf(b) |-> Live(t)]
  <2>1. f \in [StampsOf(b) -> StampsOf(b)'] /\ \A u \in StampsOf(b)' : \E t \in StampsOf(b) : f[t] = u
    BY <1>9
  <2>2. \A t, u \in StampsOf(b) : f[t] = f[u] => t = u
    BY <1>8, <1>10 DEF SerialInv, NoStampTwice
  <2> HIDE DEF f
  <2>3. f \in Bijection(StampsOf(b), StampsOf(b)')
    BY <2>1, <2>2 DEF Bijection, Injection, IsInjective, Surjection
  <2>4. IsFiniteSet(StampsOf(b))
    BY StampsCounted, FS_Subset DEF StampsOf
  <2>5. ExistsBijection(StampsOf(b), StampsOf(b)')
    BY <2>3 DEF ExistsBijection
  <2> QED BY <2>4, <2>5, FS_Bijection
<1>13. batches'[b] = new /\ Apart(b) /\ \A c \in Batches \ {b} : batches'[c] = batches[c]
  BY <1>1, <1>3, <1>6, <1>7, <1>9, OwnLot
<1>14. Opened(b)
  BY <1>1, <1>4, <1>7, <1>11, <1>12, <1>13 DEF Opened, new
<1> QED BY <1>1, <1>2, <1>3, <1>13, <1>14, FinishAlone DEF LotStep, Moved

\* A chunk; a request that runs to completion keeps the row it has written for its view.
LEMMA ChunkMoves ==
  ASSUME SerialInv, OneAtATime, NEW w \in Workers, CommitChunk(w)
  PROVE  OneAtATime' /\ LotStep
<1>1. At(w, "allocated", "issue") /\ session[w].phase # "idle" /\ session[w].op # "create"
      /\ UNCHANGED <<inspections, outbox>>
  BY DEF CommitChunk, At
<1>2. PICK b \in Batches : b = session[w].batch
  BY <1>1, LockedIsFresh
<1>3. /\ TypeInv /\ batches \in [Batches -> BatchRow]
      /\ batches[b] \in BatchRow /\ session[w].view = batches[b]
      /\ \A new \in BatchRow : Flushed(batches[b], batches[b], new) = new
  BY <1>1, <1>2, LockedIsFresh
<1>4. PICK n \in Nat \ {0} : n = Size(session[w])
  BY <1>1, MintedCounted
<1> DEFINE s == session[w]
           m == batches[b].issued_count + n
           new == [batches[b] EXCEPT !.issued_count = m, !.status = IF m < Quantity[b] THEN "ISSUING" ELSE "ISSUED"]
<1>5. /\ s \in Session /\ Issuable(b, batches[b]) /\ m <= Quantity[b] /\ Quantity[b] \in Nat
      /\ \A t \in Minted(s) : t.batch = b /\ t.status = "ISSUED" /\ t \notin stamps
      /\ IsFiniteSet(Minted(s)) /\ Cardinality(Minted(s)) = n
  BY <1>1, <1>2, <1>3, <1>4, MintedCounted, QuantityAssumption
<1>6. Advanced(s) = new
  BY <1>2, <1>3, <1>4 DEF Advanced
<1>7. new \in BatchRow
  <2>1. m \in Nat
    BY <1>3 DEF BatchRow
  <2> HIDE DEF m
  <2> QED BY <1>3, <2>1 DEF BatchRow, BatchStatuses
<1>8. batches' = [batches EXCEPT ![b] = new]
  <2>1. batches' = [batches EXCEPT ![b] = Flushed(batches[b], batches[b], new)]
    BY <1>2, <1>3, <1>6 DEF CommitChunk
  <2> QED BY <1>3, <1>7, <2>1
<1>9. stamps' = stamps \cup Minted(s)
  BY DEF CommitChunk
<1>10. StampsOf(b)' = StampsOf(b) \cup Minted(s) /\ \A c \in Batches \ {b} : StampsOf(c)' = StampsOf(c)
  BY <1>5, <1>9 DEF StampsOf
<1>11. Cardinality(StampsOf(b)') = Cardinality(StampsOf(b)) + n
  <2>1. IsFiniteSet(StampsOf(b))
    BY StampsCounted, FS_Subset DEF StampsOf
  <2>2. StampsOf(b) \cap Minted(s) = {}
    BY <1>5 DEF StampsOf
  <2>3. Cardinality(StampsOf(b)) \in Nat /\ Cardinality({}) = 0
    BY <2>1, FS_CardinalityType, FS_EmptySet
  <2>4. Cardinality(StampsOf(b) \cup Minted(s)) = Cardinality(StampsOf(b)) + n - Cardinality({})
    BY <1>5, <2>1, <2>2, FS_Union
  <2> QED BY <1>10, <2>3, <2>4
<1>12. Active(b)' = Active(b)
  <2>1. \A t \in Minted(s) : t.status # "ACTIVE"
    BY <1>5
  <2> QED BY <1>10, <2>1 DEF Active
<1>13. batches'[b] = new /\ Apart(b) /\ \A c \in Batches \ {b} : batches'[c] = batches[c]
  <2> HIDE DEF new
  <2> QED BY <1>1, <1>3, <1>8, <1>10, OwnLot
<1>14. Grown(b, n) /\ n \in 1..Quantity[b]
  <2>1. n \in 1..Quantity[b]
    BY <1>3, <1>5 DEF BatchRow
  <2> QED BY <1>1, <1>5, <1>11, <1>12, <1>13, <2>1 DEF Grown, Issuable
<1>15. OneAtATime'
  <2> DEFINE next == IF s.loop THEN [s EXCEPT !.phase = "loaded", !.view = new, !.base = 0, !.index = 0] ELSE Idle
  <2>1. session' = [session EXCEPT ![w] = next]
    BY <1>6 DEF CommitChunk
  <2>2. next = Idle \/ (next.phase # "idle" /\ next.batch = b /\ next.view = batches'[b])
    <3> HIDE DEF new
    <3> QED BY <1>2, <1>5, <1>13 DEF Session
  <2>3. \A v \in Workers \ {w} :
          session[v].batch # b /\ (session[v].batch \in Batches => batches'[session[v].batch] = batches[session[v].batch])
    BY <1>1, <1>2, <1>3, <1>13, Acting
  <2> HIDE DEF next
  <2> QED BY <1>3, <2>1, <2>2, <2>3, AloneStep
<1> QED BY <1>13, <1>14, <1>15 DEF LotStep, Moved

\* Without overlap, a step moves one lot or none.
LEMMA BatchMoves ==
  ASSUME BatchInv, Exclusive, [Next]_vars
  PROVE  OneAtATime' /\ LotStep
<1>1. SerialInv /\ OneAtATime /\ \A b \in Batches : LotOK(b)
  BY DEF BatchInv
<1>2. CASE UNCHANGED vars
  BY <1>1, <1>2 DEF vars, OneAtATime, LotStep, Untouched, StampsOf
<1>3. ASSUME NEW w \in Workers, Start(w) \/ Proceed(w) \/ Crash(w)
      PROVE  OneAtATime' /\ LotStep
  <2>1. CASE \/ Start(w) \/ FindNone(w) \/ LockBatch(w) \/ ClaimSerialBlock(w) \/ AllocateIndexes(w)
             \/ ReturnExisting(w) \/ ListExhausted(w) \/ Refuse(w) \/ Crash(w)
    BY <1>1, <2>1, QuietMoves DEF LotStep
  <2>2. CASE InsertBatch(w) \/ NothingToIssue(w)
    BY <1>1, <2>2, InsertMoves, NothingMoves
  <2>3. CASE CommitChunk(w) \/ Finalize(w) \/ Activate(w)
    BY <1>1, <2>3, ChunkMoves, FinalizeMoves, ActivateMoves
  <2>4. CASE \E result \in {"PASS", "FAIL"} : RecordInspection(w, result)
    BY <1>1, <2>4, InspectionMoves
  <2> QED BY <1>3, <2>1, <2>2, <2>3, <2>4 DEF Proceed
<1> QED BY <1>2, <1>3 DEF Next

-----------------------------------------------------------------------------
(* The invariant is kept *)

LEMMA LotTypes ==
  ASSUME TypeInv, NEW b \in Batches
  PROVE  /\ batches[b] \in BatchRow /\ batches[b].issued_count \in Nat /\ batches[b].status \in BatchStatuses
         /\ inspections[b] \subseteq {"PASS", "FAIL"} /\ Quantity[b] \in Nat /\ Quantity[b] > 0
         /\ outbox[b] \in [issued: 0..MaxEvents, activated: 0..MaxEvents]
  BY QuantityAssumption DEF TypeInv, TablesOK, BatchRow

\* An event is enqueued once.
LEMMA OneRow ==
  ASSUME MaxEvents > 0
  PROVE  Enqueued(0) = 1
  BY BoundAssumption DEF Enqueued

LEMMA MoveKeepsLot ==
  ASSUME SerialInv, MaxEvents > 0, NEW b \in Batches, LotOK(b), Moved(b)
  PROVE  LotOK(b)'
<1> DEFINE row == batches[b]
<1>1. /\ row \in BatchRow /\ row.issued_count \in Nat /\ row.status \in BatchStatuses
      /\ Quantity[b] \in Nat /\ Quantity[b] > 0
      /\ outbox[b] \in [issued: 0..MaxEvents, activated: 0..MaxEvents]
  BY LotTypes DEF SerialInv
<1>2. CASE Created(b)
  <2>1. /\ batches'[b].status = "PENDING" /\ batches'[b].issued_count = row.issued_count
        /\ row.status = "ABSENT"
    BY <1>1, <1>2 DEF Created, BatchRow
  <2>2. Active(b)' = Active(b)
    BY <1>2 DEF Created, Active
  <2> QED BY <1>2, <2>1, <2>2 DEF Created, LotOK, Unfinished, Final
<1>3. ASSUME NEW n \in 1..Quantity[b], Grown(b, n) PROVE LotOK(b)'
  <2> DEFINE m == row.issued_count + n
  <2>1. m \in Nat /\ m <= Quantity[b] /\ row.status \in {"PENDING", "ISSUING"}
    BY <1>1, <1>3 DEF Grown
  <2>2. batches'[b] = [row EXCEPT !.issued_count = m, !.status = IF m < Quantity[b] THEN "ISSUING" ELSE "ISSUED"]
    BY <1>3 DEF Grown
  <2>3. m = Cardinality(StampsOf(b)')
    BY <1>3 DEF Grown, LotOK
  <2> HIDE DEF m
  <2>4. batches'[b].issued_count = m /\ batches'[b].status = IF m < Quantity[b] THEN "ISSUING" ELSE "ISSUED"
    BY <1>1, <2>2 DEF BatchRow
  <2>5. m < Quantity[b] \/ m = Quantity[b]
    BY <1>1, <2>1
  <2>6. Active(b)' = Active(b) /\ UNCHANGED <<inspections[b], outbox[b]>>
    BY <1>3 DEF Grown
  <2> QED BY <2>1, <2>3, <2>4, <2>5, <2>6 DEF LotOK, Unfinished, Final
<1>4. CASE Sealed(b)
  <2>1. /\ batches'[b].status = "READY" /\ batches'[b].merkle_root = Sequences(b)
        /\ batches'[b].issued_count = row.issued_count
    BY <1>1, <1>4 DEF Sealed, BatchRow
  <2>2. Active(b)' = Active(b) /\ Sequences(b)' = Sequences(b)
    BY <1>4 DEF Sealed, Active, Sequences
  <2>3. outbox'[b].issued = Enqueued(outbox[b].issued) /\ outbox'[b].activated = outbox[b].activated
    BY <1>1, <1>4 DEF Sealed
  <2>4. row.status = "ISSUED" /\ UNCHANGED <<inspections[b], StampsOf(b)>>
    BY <1>4 DEF Sealed
  <2> QED BY <2>1, <2>2, <2>3, <2>4, OneRow DEF LotOK, Unfinished, Final
<1>5. ASSUME NEW result \in {"PASS", "FAIL"}, Judged(b, result) PROVE LotOK(b)'
  <2>1. /\ row.status \in {"READY", "ACTIVE"} /\ UNCHANGED <<outbox[b], StampsOf(b)>>
        /\ inspections'[b] = inspections[b] \cup {result}
    BY <1>5 DEF Judged
  <2>2. Active(b)' = Active(b) /\ Sequences(b)' = Sequences(b)
    BY <2>1 DEF Active, Sequences
  <2>3. /\ batches'[b].issued_count = row.issued_count /\ batches'[b].merkle_root = row.merkle_root
        /\ batches'[b].status = IF result = "FAIL" THEN "INSPECTION_FAILED" ELSE row.status
    BY <1>1, <1>5 DEF Judged, Inspected, BatchRow
  <2> QED BY <2>1, <2>2, <2>3 DEF LotOK, Unfinished, Final
<1>6. CASE Opened(b)
  <2>1. /\ batches'[b].status = "ACTIVE" /\ batches'[b].merkle_root = row.merkle_root
        /\ batches'[b].issued_count = row.issued_count
    BY <1>1, <1>6 DEF Opened, BatchRow
  <2>2. outbox'[b].activated = Enqueued(outbox[b].activated) /\ outbox'[b].issued = outbox[b].issued
    BY <1>1, <1>6 DEF Opened
  <2>3. Active(b)' # {}
    <3>1. Cardinality(StampsOf(b)') = Quantity[b]
      BY <1>6 DEF Opened, LotOK, Unfinished
    <3>2. StampsOf(b)' # {}
      BY <1>1, <3>1, FS_EmptySet
    <3> QED BY <1>6, <3>2 DEF Opened
  <2>4. row.status = "READY" /\ Active(b) = {} /\ Sequences(b)' = Sequences(b)
        /\ Cardinality(StampsOf(b)') = Cardinality(StampsOf(b))
    BY <1>6 DEF Opened, LotOK
  <2> QED BY <2>1, <2>2, <2>3, <2>4, OneRow DEF LotOK, Unfinished, Final
<1> QED BY <1>2, <1>3, <1>4, <1>5, <1>6 DEF Moved

LEMMA UntouchedLot ==
  ASSUME NEW b \in Batches, LotOK(b), Untouched(b)
  PROVE  LotOK(b)'
<1>1. Active(b)' = Active(b) /\ Sequences(b)' = Sequences(b)
  BY DEF Untouched, Active, Sequences
<1> QED BY <1>1 DEF Untouched, LotOK

LEMMA BatchStart ==
  ASSUME Init
  PROVE  BatchInv
<1>1. \A b \in Batches : StampsOf(b) = {} /\ Active(b) = {}
  BY DEF Init, StampsOf, Active
<1>2. OneAtATime
  BY DEF Init, OneAtATime, Idle
<1>3. \A b \in Batches : LotOK(b)
  <2>1. \A b \in Batches : Quantity[b] \in Nat /\ Quantity[b] > 0
    BY QuantityAssumption
  <2>2. \A b \in Batches : batches[b] = EmptyRow /\ inspections[b] = {} /\ outbox[b].issued = 0 /\ outbox[b].activated = 0
    BY DEF Init
  <2>3. EmptyRow.status = "ABSENT" /\ EmptyRow.issued_count = 0
    BY DEF EmptyRow
  <2> QED BY <1>1, <2>1, <2>2, <2>3, FS_EmptySet DEF LotOK, Unfinished, Final
<1> QED BY <1>2, <1>3, SerialInit DEF BatchInv

LEMMA BatchStep ==
  ASSUME BatchInv, NoOverlap, [Next]_vars
  PROVE  BatchInv'
<1>1. SerialInv' /\ OneAtATime' /\ LotStep
  BY SerialStep, BatchMoves DEF BatchInv, NoOverlap
<1>2. CASE \A b \in Batches : Untouched(b)
  BY <1>1, <1>2, UntouchedLot DEF BatchInv
<1>3. ASSUME NEW b \in Batches, Apart(b), Moved(b) PROVE BatchInv'
  <2>1. \A c \in Batches \ {b} : LotOK(c)'
    BY <1>3, UntouchedLot DEF Apart, BatchInv
  <2>2. LotOK(b)'
    BY <1>3, MoveKeepsLot DEF BatchInv, NoOverlap
  <2> QED BY <1>1, <2>1, <2>2 DEF BatchInv
<1> QED BY <1>1, <1>2, <1>3 DEF LotStep

-----------------------------------------------------------------------------
(* The life of a lot *)

\* The lot as BatchLifecycle sees it.
LotStatus == [b \in Batches |-> batches[b].status]
LotMinted == [b \in Batches |-> Cardinality(StampsOf(b))]
LotLive == [b \in Batches |-> Cardinality(Active(b))]

\* A change of one lot, seen in each of its columns.
LEMMA OneLotChanges ==
  ASSUME TypeInv, NEW b \in Batches, Apart(b)
  PROVE  /\ LotStatus' = [LotStatus EXCEPT ![b] = batches'[b].status]
         /\ LotMinted' = [LotMinted EXCEPT ![b] = Cardinality(StampsOf(b)')]
         /\ LotLive' = [LotLive EXCEPT ![b] = Cardinality(Active(b)')]
<1>1. \A c \in Batches \ {b} :
        batches'[c].status = batches[c].status /\ StampsOf(c)' = StampsOf(c) /\ Active(c)' = Active(c)
  BY DEF Apart, Untouched, Active
<1>2. LotStatus' = [LotStatus EXCEPT ![b] = batches'[b].status]
  BY <1>1 DEF LotStatus
<1>3. LotMinted' = [LotMinted EXCEPT ![b] = Cardinality(StampsOf(b)')]
  BY <1>1 DEF LotMinted
<1>4. LotLive' = [LotLive EXCEPT ![b] = Cardinality(Active(b)')]
  BY <1>1 DEF LotLive
<1> QED BY <1>2, <1>3, <1>4

\* What a move of a lot is in the abstract lifecycle.
LEMMA MoveIsLifecycle ==
  ASSUME SerialInv, NEW b \in Batches, LotOK(b), Apart(b), Moved(b), inspections' \in [Batches -> SUBSET {"PASS", "FAIL"}]
  PROVE  Lifecycle!Next
<1>1. /\ TypeInv /\ batches[b] \in BatchRow /\ batches[b].issued_count \in Nat
      /\ Quantity[b] \in Nat /\ Quantity[b] > 0 /\ inspections[b] \subseteq {"PASS", "FAIL"}
      /\ inspections \in [Batches -> SUBSET {"PASS", "FAIL"}]
  BY LotTypes DEF SerialInv, TypeInv, TablesOK
<1>2. /\ LotStatus[b] = batches[b].status /\ LotMinted[b] = Cardinality(StampsOf(b))
      /\ LotStatus \in [Batches -> BatchStatuses]
      /\ DOMAIN LotMinted = Batches /\ DOMAIN LotLive = Batches
  BY LotTypes, <1>1 DEF LotStatus, LotMinted, LotLive
<1>3. /\ LotStatus' = [LotStatus EXCEPT ![b] = batches'[b].status]
      /\ LotMinted' = [LotMinted EXCEPT ![b] = Cardinality(StampsOf(b)')]
      /\ LotLive' = [LotLive EXCEPT ![b] = Cardinality(Active(b)')]
  BY <1>1, OneLotChanges
<1>4. inspections' = [inspections EXCEPT ![b] = inspections'[b]]
  BY <1>1 DEF Apart, Untouched
<1>5. ASSUME UNCHANGED StampsOf(b) PROVE LotMinted' = LotMinted /\ LotLive' = LotLive
  <2>1. Active(b)' = Active(b)
    BY <1>5 DEF Active
  <2> QED BY <1>3, <1>5, <2>1 DEF LotMinted, LotLive
<1>6. ASSUME UNCHANGED inspections[b] PROVE inspections' = inspections
  BY <1>1, <1>4, <1>6
<1>7. CASE Created(b)
  <2>1. batches'[b].status = "PENDING" /\ batches[b].status = "ABSENT"
    BY <1>1, <1>7 DEF Created, BatchRow
  <2>2. LotMinted' = LotMinted /\ LotLive' = LotLive /\ inspections' = inspections
    BY <1>5, <1>6, <1>7 DEF Created
  <2>3. Lifecycle!Create(b)
    BY <1>2, <1>3, <2>1, <2>2 DEF Lifecycle!Create, LotStatus, LotMinted, LotLive, Active
  <2> QED BY <2>3 DEF Lifecycle!Next
<1>8. ASSUME NEW n \in 1..Quantity[b], Grown(b, n) PROVE Lifecycle!Next
  <2>1. /\ batches[b].status \in {"PENDING", "ISSUING"} /\ LotMinted[b] = batches[b].issued_count
        /\ LotMinted[b] + n <= Quantity[b] /\ Cardinality(StampsOf(b)') = LotMinted[b] + n
    BY <1>2, <1>8 DEF Grown, LotOK
  <2>2. batches'[b].status = IF LotMinted[b] + n < Quantity[b] THEN "ISSUING" ELSE "ISSUED"
    <3> DEFINE m == batches[b].issued_count + n
    <3>1. batches'[b] = [batches[b] EXCEPT !.issued_count = m, !.status = IF m < Quantity[b] THEN "ISSUING" ELSE "ISSUED"]
      BY <1>8 DEF Grown
    <3> HIDE DEF m
    <3>2. batches'[b].status = IF m < Quantity[b] THEN "ISSUING" ELSE "ISSUED"
      BY <1>1, <3>1 DEF BatchRow
    <3> QED BY <2>1, <3>2 DEF m
  <2>3. LotMinted' = [LotMinted EXCEPT ![b] = LotMinted[b] + n]
    BY <1>3, <2>1
  <2>4. LotMinted'[b] = LotMinted[b] + n
    BY <1>2, <2>3
  <2>5. batches'[b].status = IF LotMinted'[b] = Quantity[b] THEN "ISSUED" ELSE "ISSUING"
    BY <1>1, <2>1, <2>2, <2>4
  <2>6. LotStatus' = [LotStatus EXCEPT ![b] = IF LotMinted'[b] = Quantity[b] THEN "ISSUED" ELSE "ISSUING"]
    BY <1>3, <2>5
  <2>7. LotLive' = LotLive /\ inspections' = inspections
    BY <1>3, <1>6, <1>8 DEF Grown, LotLive
  <2>8. Lifecycle!Mint(b, n)
    BY <1>2, <2>1, <2>3, <2>6, <2>7 DEF Lifecycle!Mint, LotStatus, LotMinted, LotLive, Active
  <2> QED BY <2>8 DEF Lifecycle!Next
<1>9. CASE Sealed(b)
  <2>1. batches'[b].status = "READY" /\ batches[b].status = "ISSUED"
    BY <1>1, <1>9 DEF Sealed, BatchRow
  <2>2. LotMinted' = LotMinted /\ LotLive' = LotLive /\ inspections' = inspections
    BY <1>5, <1>6, <1>9 DEF Sealed
  <2>3. Lifecycle!Seal(b)
    BY <1>2, <1>3, <2>1, <2>2 DEF Lifecycle!Seal, LotStatus, LotMinted, LotLive, Active
  <2> QED BY <2>3 DEF Lifecycle!Next
<1>10. ASSUME NEW result \in {"PASS", "FAIL"}, Judged(b, result) PROVE Lifecycle!Next
  <2>1. /\ batches[b].status \in {"READY", "ACTIVE"} /\ inspections'[b] = inspections[b] \cup {result}
        /\ batches'[b].status = IF result = "FAIL" THEN "INSPECTION_FAILED" ELSE batches[b].status
    BY <1>1, <1>10 DEF Judged, Inspected, BatchRow
  <2>2. LotMinted' = LotMinted /\ LotLive' = LotLive
    BY <1>5, <1>10 DEF Judged
  <2>3. inspections' = [inspections EXCEPT ![b] = inspections[b] \cup {result}]
    BY <1>4, <2>1
  <2>4. CASE result = "PASS"
    <3>1. LotStatus' = LotStatus
      BY <1>2, <1>3, <2>1, <2>4
    <3>2. Lifecycle!Pass(b)
      BY <1>2, <2>1, <2>2, <2>3, <2>4, <3>1 DEF Lifecycle!Pass, LotStatus, LotMinted, LotLive, Active
    <3> QED BY <3>2 DEF Lifecycle!Next
  <2>5. CASE result = "FAIL"
    <3>1. Lifecycle!Fail(b)
      BY <1>2, <1>3, <2>1, <2>2, <2>3, <2>5 DEF Lifecycle!Fail, LotStatus, LotMinted, LotLive, Active
    <3> QED BY <3>1 DEF Lifecycle!Next
  <2> QED BY <2>4, <2>5
<1>11. CASE Opened(b)
  <2>1. /\ batches[b].status = "READY" /\ batches'[b].status = "ACTIVE" /\ inspections[b] = {"PASS"}
    BY <1>1, <1>11 DEF Opened, BatchRow, LotOK
  <2>2. LotMinted' = LotMinted
    BY <1>3, <1>11 DEF Opened, LotMinted
  <2>3. LotLive' = [LotLive EXCEPT ![b] = LotMinted[b]]
    BY <1>2, <1>3, <1>11 DEF Opened
  <2>4. inspections' = inspections
    BY <1>6, <1>11 DEF Opened
  <2>5. Lifecycle!GoLive(b)
    BY <1>2, <1>3, <2>1, <2>2, <2>3, <2>4 DEF Lifecycle!GoLive, LotStatus, LotMinted, LotLive, Active
  <2> QED BY <2>5 DEF Lifecycle!Next
<1> QED BY <1>7, <1>8, <1>9, <1>10, <1>11 DEF Moved

LEMMA LifecycleStep ==
  ASSUME BatchInv, NoOverlap, [Next]_vars
  PROVE  [Lifecycle!Next]_<<[b \in Batches |-> batches[b].status],
                            [b \in Batches |-> Cardinality(StampsOf(b))],
                            inspections,
                            [b \in Batches |-> Cardinality({s \in StampsOf(b) : s.status = "ACTIVE"})]>>
<1>1. LotStep
  BY BatchMoves DEF NoOverlap
<1>2. inspections' \in [Batches -> SUBSET {"PASS", "FAIL"}] /\ inspections \in [Batches -> SUBSET {"PASS", "FAIL"}]
  BY BatchStep DEF BatchInv, SerialInv, TypeInv, TablesOK
<1>3. CASE \A b \in Batches : Untouched(b)
  <2>1. \A b \in Batches : batches'[b] = batches[b] /\ StampsOf(b)' = StampsOf(b) /\ inspections'[b] = inspections[b]
    BY <1>3 DEF Untouched
  <2>2. inspections' = inspections
    BY <1>2, <2>1
  <2> QED BY Zenon, <2>1, <2>2
<1>4. ASSUME NEW b \in Batches, Apart(b), Moved(b) PROVE Lifecycle!Next
  BY <1>2, <1>4, MoveIsLifecycle DEF BatchInv
<1> QED BY <1>1, <1>3, <1>4 DEF LotStep

LEMMA LifecycleStart == Init => Lifecycle!Init
<1> SUFFICES ASSUME Init PROVE Lifecycle!Init
  OBVIOUS
<1>1. \A b \in Batches : batches[b].status = "ABSENT" /\ StampsOf(b) = {} /\ {s \in StampsOf(b) : s.status = "ACTIVE"} = {}
  BY DEF Init, EmptyRow, StampsOf
<1>2. inspections = [b \in Batches |-> {}]
  BY DEF Init
<1> QED BY <1>1, <1>2, FS_EmptySet DEF Lifecycle!Init

-----------------------------------------------------------------------------
(* Theorems *)

\* issuance.py without overlapping requests on a lot: in every reachable state a handler's
\* view is the row, and every lot agrees with its status as LotOK says.
THEOREM BatchInvariance == NoOverlap /\ Spec => []BatchInv
<1>1. Init => BatchInv
  BY BatchStart
<1>2. BatchInv /\ NoOverlap /\ [Next]_vars => BatchInv'
  BY BatchStep
<1>3. CASE NoOverlap
  BY <1>1, <1>2, <1>3, PTL DEF Spec
<1> QED BY <1>3

\* issued_count is the durable cursor: without overlap it counts the stamps of its lot, so no
\* crash between chunks loses or repeats one (issue_chunk).
THEOREM CursorIsDurable == NoOverlap /\ Spec => []CursorCountsStamps
<1>1. BatchInv => CursorCountsStamps
  BY DEF BatchInv, LotOK, CursorCountsStamps
<1> QED BY <1>1, BatchInvariance, PTL

\* "Never exceeds the paid quantity" (issuance.py): true as long as no two requests on one lot
\* overlap, which is where the run over_issue breaks it.
THEOREM PaidQuantityHolds == NoOverlap /\ Spec => []NeverExceedsPaidQuantity
<1>1. BatchInv => NeverExceedsPaidQuantity
  <2> SUFFICES ASSUME BatchInv, NEW b \in Batches
               PROVE  Cardinality(StampsOf(b)) <= Quantity[b]
    BY DEF NeverExceedsPaidQuantity
  <2>1. batches[b].issued_count = Cardinality(StampsOf(b))
    BY DEF BatchInv, LotOK
  <2>2. batches[b].issued_count <= Quantity[b]
    BY DEF BatchInv, SerialInv, TypeInv, TablesOK
  <2> QED BY <2>1, <2>2
<1> QED BY <1>1, BatchInvariance, PTL

\* finalize_batch: the sealed root commits to exactly the paid number of stamps of the lot,
\* whatever happens to the lot afterwards.
THEOREM RootIsComplete == NoOverlap /\ Spec => []RootCoversStamps
<1>1. BatchInv => RootCoversStamps
  BY DEF BatchInv, LotOK, RootCoversStamps, Unfinished, Final, Sequences
<1> QED BY <1>1, BatchInvariance, PTL

\* finalize_batch and activate_batch enqueue one event for a lot each, repeated and crashed
\* requests included.
THEOREM EventsOnce == NoOverlap /\ Spec => []OneEventPerTransition
<1>1. BatchInv => OneEventPerTransition
  BY DEF BatchInv, LotOK, OneEventPerTransition, Final, Active
<1> QED BY <1>1, BatchInvariance, PTL

\* Without overlapping requests, a lot moves through the abstract lifecycle: Issuance
\* implements BatchLifecycle (issuance.py).
THEOREM LotsFollowLifecycle == NoOverlap /\ Spec => FollowsLifecycle
<1>1. BatchInv /\ NoOverlap /\ [Next]_vars
        => [Lifecycle!Next]_<<[b \in Batches |-> batches[b].status],
                              [b \in Batches |-> Cardinality(StampsOf(b))],
                              inspections,
                              [b \in Batches |-> Cardinality({s \in StampsOf(b) : s.status = "ACTIVE"})]>>
  BY LifecycleStep
<1>2. CASE NoOverlap
  BY <1>1, <1>2, LifecycleStart, BatchInvariance, PTL DEF Spec, FollowsLifecycle, Lifecycle!Spec
<1> QED BY <1>2
=============================================================================
