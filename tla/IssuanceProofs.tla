--------------------------- MODULE IssuanceProofs ---------------------------
(***************************************************************************)
(* Theorems about Issuance, for any number of handlers, batches and         *)
(* counters, overlapping requests included.                                 *)
(*                                                                         *)
(* TypeInv strengthens TypeOK with what a handler in mid-request has read;  *)
(* ClaimInv adds what it holds and what its locks keep still meanwhile.     *)
(***************************************************************************)
EXTENDS Issuance, TLAPS

-----------------------------------------------------------------------------
(* The unit of work *)

\* A flush leaves a well-formed row, within any bound its sources respect.
LEMMA FlushedRow ==
  ASSUME NEW row \in BatchRow, NEW view \in BatchRow, NEW new \in BatchRow
  PROVE  /\ Flushed(row, view, new) \in BatchRow
         /\ \A q \in Nat : row.issued_count <= q /\ new.issued_count <= q
                             => Flushed(row, view, new).issued_count <= q
  BY DEF Flushed, BatchRow

\* What a chunk takes is at least one stamp and at most what remains.
LEMMA SizeBound ==
  ASSUME NEW s \in Session, s.batch \in Batches, s.chunk \in ChunkSizes,
         Issuable(s.batch, s.view)
  PROVE  /\ Size(s) \in Nat \ {0}
         /\ s.view.issued_count + Size(s) <= Quantity[s.batch]
  <1>1. s.chunk \in Nat \ {0}
    BY ChunkAssumption
  <1>2. Quantity[s.batch] \in Nat
    BY QuantityAssumption
  <1>3. s.view.issued_count \in Nat /\ s.view.issued_count < Quantity[s.batch]
    BY DEF Session, BatchRow, Issuable
  <1> QED
    BY <1>1, <1>2, <1>3 DEF Size

LEMMA AdvancedRow ==
  ASSUME NEW s \in Session, s.batch \in Batches, s.chunk \in ChunkSizes,
         Issuable(s.batch, s.view)
  PROVE  /\ Advanced(s) \in BatchRow
         /\ Advanced(s).issued_count <= Quantity[s.batch]
  <1>1. Size(s) \in Nat /\ s.view.issued_count + Size(s) <= Quantity[s.batch]
    BY SizeBound
  <1>2. s.view \in BatchRow
    BY DEF Session
  <1> DEFINE n == s.view.issued_count + Size(s)
  <1> DEFINE st == IF n < Quantity[s.batch] THEN "ISSUING" ELSE "ISSUED"
  <1>3. n \in Nat /\ n <= Quantity[s.batch] /\ st \in BatchStatuses
    BY <1>1, <1>2 DEF BatchRow, BatchStatuses
  <1>4. Advanced(s) = [s.view EXCEPT !.issued_count = n, !.status = st]
    BY DEF Advanced
  <1> HIDE DEF n, st
  <1> QED
    BY <1>2, <1>3, <1>4 DEF BatchRow

LEMMA MintedType ==
  ASSUME NEW s \in Session, s.batch \in Batches, s.chunk \in ChunkSizes,
         Issuable(s.batch, s.view)
  PROVE  Minted(s) \subseteq Stamp
  <1>1. Size(s) \in Nat
    BY SizeBound
  <1>2. s.base \in Nat /\ s.index \in Nat
    BY DEF Session
  <1> QED
    BY <1>1, <1>2 DEF Minted, Stamp

LEMMA IdleSession == Idle \in Session /\ EmptyRow \in BatchRow
  BY DEF Idle, Session, EmptyRow, BatchRow, BatchStatuses, Phases, Ops

LEMMA ReleasedType ==
  ASSUME NEW w, lock \in [LockKeys -> Workers \cup {NoWorker}]
  PROVE  Released(w) \in [LockKeys -> Workers \cup {NoWorker}]
  BY DEF Released

-----------------------------------------------------------------------------
(* Type correctness *)

\* What TypeOK says of the tables, and what a step must keep of the handlers.
TablesOK ==
  /\ batches \in [Batches -> BatchRow]
  /\ stamps \subseteq Stamp
  /\ serial_counters \in [Counters -> Nat]
  /\ inspections \in [Batches -> SUBSET {"PASS", "FAIL"}]
  /\ outbox \in [Batches -> [issued: 0..MaxEvents, activated: 0..MaxEvents]]
  /\ \A b \in Batches : batches[b].issued_count <= Quantity[b]

\* A handler that is not idle serves one batch and read a cursor within the
\* paid quantity; once it claims serials it has something left to issue.
GoodSession(s) ==
  /\ s \in Session
  /\ s.phase # "idle" =>
       /\ s.batch \in Batches
       /\ s.view.issued_count <= Quantity[s.batch]
       /\ s.op = "issue" => s.chunk \in ChunkSizes
  /\ s.phase \in {"claimed", "allocated"} =>
       /\ s.op = "issue"
       /\ Issuable(s.batch, s.view)

HandlersOK ==
  /\ session \in [Workers -> Session]
  /\ \A w \in Workers : GoodSession(session[w])
  /\ lock \in [LockKeys -> Workers \cup {NoWorker}]

TypeInv == TablesOK /\ HandlersOK

LEMMA TypeInvTypes == TypeInv => TypeOK
  BY DEF TypeInv, TablesOK, HandlersOK, TypeOK

\* A handler's step replaces its own session by a good one and leaves the
\* locks well formed.
LEMMA HandlerStep ==
  ASSUME HandlersOK, NEW w \in Workers, NEW s, GoodSession(s),
         session' = [session EXCEPT ![w] = s],
         lock' \in [LockKeys -> Workers \cup {NoWorker}]
  PROVE  HandlersOK'
  <1>1. session' \in [Workers -> Session]
    BY DEF HandlersOK, GoodSession
  <1>2. ASSUME NEW v \in Workers PROVE GoodSession(session'[v])
    <2>1. session'[v] = IF v = w THEN s ELSE session[v]
      BY DEF HandlersOK
    <2> QED BY <2>1 DEF HandlersOK
  <1> QED
    BY <1>1, <1>2 DEF HandlersOK, GoodSession, Issuable

LEMMA FinishType ==
  ASSUME HandlersOK, NEW w \in Workers, Finish(w)
  PROVE  HandlersOK'
  <1>1. GoodSession(Idle)
    BY IdleSession DEF GoodSession, Idle
  <1>2. lock' \in [LockKeys -> Workers \cup {NoWorker}]
    BY ReleasedType DEF HandlersOK, Finish
  <1> QED
    BY <1>1, <1>2, HandlerStep DEF Finish

LEMMA TypeInit == Init => TypeInv
  <1> SUFFICES ASSUME Init PROVE TablesOK /\ HandlersOK
    BY DEF TypeInv
  <1>1. TablesOK
    BY IdleSession, QuantityAssumption, BoundAssumption DEF Init, TablesOK, EmptyRow
  <1>2. HandlersOK
    BY IdleSession DEF Init, HandlersOK, GoodSession, Idle
  <1> QED BY <1>1, <1>2

LEMMA UntouchedTables ==
  ASSUME TablesOK, UNCHANGED tables
  PROVE  TablesOK'
  BY DEF TablesOK, tables

\* The batch row after a flush of a well-formed change to the view.
LEMMA FlushStep ==
  ASSUME TablesOK, NEW b \in Batches, NEW view \in BatchRow, NEW new \in BatchRow,
         new.issued_count <= Quantity[b],
         batches' = [batches EXCEPT ![b] = Flushed(@, view, new)]
  PROVE  /\ batches' \in [Batches -> BatchRow]
         /\ \A c \in Batches : batches'[c].issued_count <= Quantity[c]
  <1>1. batches[b] \in BatchRow /\ batches[b].issued_count <= Quantity[b] /\ Quantity[b] \in Nat
    BY QuantityAssumption DEF TablesOK
  <1>2. /\ Flushed(batches[b], view, new) \in BatchRow
        /\ Flushed(batches[b], view, new).issued_count <= Quantity[b]
    BY <1>1, FlushedRow
  <1> QED
    BY <1>2 DEF TablesOK


\* The indexes in use are the first ones of the list, so the next one is free.
Dense == \E n \in 0..ListBits : Indexes = 0..(n - 1)

LEMMA NextIndexIsFree ==
  ASSUME Dense
  PROVE  NextIndex \in Nat /\ Indexes = 0..(NextIndex - 1)
  <1>1. PICK n \in 0..ListBits : Indexes = 0..(n - 1)
    BY DEF Dense
  <1>2. CASE n = 0
    <2>1. Indexes = {}
      BY <1>1, <1>2
    <2>2. stamps = {}
      BY <2>1 DEF Indexes
    <2> QED BY <2>1, <2>2 DEF NextIndex
  <1>3. CASE n # 0
    <2>1. stamps # {} /\ n - 1 \in Indexes
      BY <1>1, <1>3 DEF Indexes
    <2>2. \A i \in Indexes : (\A j \in Indexes : j <= i) <=> i = n - 1
      BY <1>1, <1>3, <2>1
    <2> DEFINE top == CHOOSE i \in Indexes : \A j \in Indexes : j <= i
    <2>3. top = n - 1
      BY <2>1, <2>2
    <2>4. NextIndex = top + 1
      BY <2>1 DEF NextIndex
    <2> HIDE DEF top
    <2>5. NextIndex = n
      BY <2>3, <2>4, <1>3
    <2> QED BY <1>1, <2>5
  <1> QED BY <1>2, <1>3

\* The statements that write no table and go on with the same session.
LEMMA TypeReading ==
  ASSUME TypeInv, Dense, NEW w \in Workers,
         \/ FindNone(w) \/ LockBatch(w) \/ ClaimSerialBlock(w) \/ AllocateIndexes(w)
  PROVE  TypeInv'
  <1> DEFINE s == session[w]
  <1>1. GoodSession(s)
    BY DEF TypeInv, HandlersOK
  <1>2. CASE FindNone(w)
    <2>1. GoodSession([s EXCEPT !.phase = "absent"])
      BY <1>1, <1>2 DEF FindNone, At, GoodSession, Session, Phases
    <2> QED
      BY <2>1, <1>2, HandlerStep, UntouchedTables DEF FindNone, TypeInv, HandlersOK
  <1>3. CASE LockBatch(w)
    <2>1. GoodSession([s EXCEPT !.phase = "locked"])
      BY <1>1, <1>3 DEF LockBatch, GoodSession, Session, Phases
    <2> QED
      BY <2>1, <1>3, HandlerStep, UntouchedTables DEF LockBatch, TypeInv, HandlersOK
  <1>4. CASE ClaimSerialBlock(w)
    <2>1. s.batch \in Batches
      BY <1>1, <1>4 DEF ClaimSerialBlock, At, GoodSession
    <2>2. serial_counters[CounterOf[s.batch]] \in Nat
      BY <2>1, CounterAssumption DEF TypeInv, TablesOK
    <2>3. GoodSession([s EXCEPT !.phase = "claimed", !.base = serial_counters[CounterOf[s.batch]]])
      BY <1>1, <1>4, <2>2 DEF ClaimSerialBlock, At, GoodSession, Session, Phases, Issuable
    <2> QED
      BY <2>3, <1>4, HandlerStep, UntouchedTables DEF ClaimSerialBlock, TypeInv, HandlersOK
  <1>5. CASE AllocateIndexes(w)
    <2>1. NextIndex \in Nat
      BY NextIndexIsFree
    <2>2. GoodSession([s EXCEPT !.phase = "allocated", !.index = NextIndex])
      BY <1>1, <1>5, <2>1 DEF AllocateIndexes, At, GoodSession, Session, Phases, Issuable
    <2> QED
      BY <2>2, <1>5, HandlerStep, UntouchedTables, ZenonT(40) DEF AllocateIndexes, TypeInv, HandlersOK
  <1> QED BY <1>2, <1>3, <1>4, <1>5

\* A request starts: the route loads the row.
LEMMA TypeStart ==
  ASSUME TypeInv, NEW w \in Workers, Start(w)
  PROVE  TypeInv'
  <1>0. PICK b \in Batches : \/ \E op \in Ops : Load(w, op, b)
                             \/ \E n \in ChunkSizes, toCompletion \in BOOLEAN :
                                  LoadForIssue(w, b, n, toCompletion)
    BY DEF Start
  <1>1. batches[b] \in BatchRow /\ batches[b].issued_count <= Quantity[b]
    BY DEF TypeInv, TablesOK
  <1>2. ASSUME NEW op \in Ops, Load(w, op, b)
        PROVE  TypeInv'
    <2>1. GoodSession(Loaded(b, op, 0, FALSE))
      BY <1>1, <1>2 DEF Load, Loaded, GoodSession, Session, Phases
    <2> QED
      BY <2>1, <1>2, HandlerStep, UntouchedTables DEF Load, TypeInv, HandlersOK
  <1>3. ASSUME NEW n \in ChunkSizes, NEW toCompletion \in BOOLEAN,
               LoadForIssue(w, b, n, toCompletion)
        PROVE  TypeInv'
    <2>1. GoodSession(Loaded(b, "issue", n, toCompletion))
      BY <1>1 DEF Loaded, GoodSession, Session, Phases, Ops
    <2> QED
      BY <2>1, <1>3, HandlerStep, UntouchedTables DEF LoadForIssue, TypeInv, HandlersOK
  <1> QED BY <1>0, <1>2, <1>3

\* The steps that end a request without a chunk.
LEMMA TypeEnding ==
  ASSUME TypeInv, NEW w \in Workers,
         \/ ReturnExisting(w) \/ ListExhausted(w) \/ Refuse(w) \/ Crash(w)
  PROVE  TypeInv'
  <1>1. Finish(w) /\ UNCHANGED tables
    BY DEF ReturnExisting, ListExhausted, Refuse, Crash, Rollback
  <1> QED
    BY <1>1, FinishType, UntouchedTables DEF TypeInv

LEMMA TypeInsert ==
  ASSUME TypeInv, NEW w \in Workers, InsertBatch(w)
  PROVE  TypeInv'
  <1> DEFINE b == session[w].batch
  <1>1. HandlersOK'
    BY FinishType DEF InsertBatch, TypeInv
  <1>2. b \in Batches
    BY DEF TypeInv, HandlersOK, GoodSession, InsertBatch, At
  <1>3. batches' \in [Batches -> BatchRow]
    BY <1>2 DEF TypeInv, TablesOK, InsertBatch, BatchRow, BatchStatuses
  <1>4. \A c \in Batches : batches'[c].issued_count <= Quantity[c]
    BY <1>2 DEF TypeInv, TablesOK, InsertBatch, BatchRow
  <1> QED
    BY <1>1, <1>3, <1>4 DEF TypeInv, TablesOK, InsertBatch

\* A locked handler flushes a change to its view and ends.
LEMMA LockedView ==
  ASSUME TypeInv, NEW w \in Workers, session[w].phase = "locked"
  PROVE  /\ session[w].batch \in Batches
         /\ session[w].view \in BatchRow
         /\ session[w].view.issued_count <= Quantity[session[w].batch]
  BY DEF TypeInv, HandlersOK, GoodSession, Session

LEMMA TypeNothing ==
  ASSUME TypeInv, NEW w \in Workers, NothingToIssue(w)
  PROVE  TypeInv'
  <1> DEFINE s == session[w]
             st == IF s.view.status \in {"PENDING", "ISSUING"} THEN "ISSUED" ELSE s.view.status
             done == [s.view EXCEPT !.status = st]
  <1>1. HandlersOK'
    BY FinishType DEF NothingToIssue, TypeInv
  <1>2. s.batch \in Batches /\ s.view \in BatchRow /\ s.view.issued_count <= Quantity[s.batch]
    BY LockedView DEF NothingToIssue, At
  <1>3. done \in BatchRow /\ done.issued_count <= Quantity[s.batch]
    BY <1>2 DEF BatchRow, BatchStatuses
  <1>4. batches' = [batches EXCEPT ![s.batch] = Flushed(@, s.view, done)]
    BY DEF NothingToIssue
  <1> HIDE DEF done, s
  <1> QED
    BY <1>1, <1>2, <1>3, <1>4, FlushStep DEF TypeInv, TablesOK, NothingToIssue

\* The bounded count of outbox rows stays within its bound.
LEMMA EnqueuedType ==
  ASSUME NEW n \in 0..MaxEvents
  PROVE  Enqueued(n) \in 0..MaxEvents
  BY BoundAssumption DEF Enqueued

LEMMA TypeFinalize ==
  ASSUME TypeInv, NEW w \in Workers, Finalize(w)
  PROVE  TypeInv'
  <1> DEFINE s == session[w]
             root == {t.sequence : t \in StampsOf(s.batch)}
             sealed == [s.view EXCEPT !.status = "READY", !.merkle_root = root]
  <1>1. HandlersOK'
    BY FinishType DEF Finalize, TypeInv
  <1>2. s.batch \in Batches /\ s.view \in BatchRow /\ s.view.issued_count <= Quantity[s.batch]
    BY LockedView DEF Finalize, At
  <1>3. root \in SUBSET Nat
    BY DEF TypeInv, TablesOK, Stamp, StampsOf
  <1>4. batches' = [batches EXCEPT ![s.batch] = Flushed(@, s.view, sealed)]
    BY DEF Finalize
  <1>5. sealed \in BatchRow /\ sealed.issued_count <= Quantity[s.batch]
    <2> HIDE DEF root, s
    <2> QED BY <1>2, <1>3 DEF BatchRow, BatchStatuses
  <1>6. outbox' \in [Batches -> [issued: 0..MaxEvents, activated: 0..MaxEvents]]
    BY <1>2, EnqueuedType DEF Finalize, TypeInv, TablesOK
  <1> HIDE DEF sealed, s
  <1> QED
    BY <1>1, <1>2, <1>4, <1>5, <1>6, FlushStep DEF TypeInv, TablesOK, Finalize

LEMMA TypeInspection ==
  ASSUME TypeInv, NEW w \in Workers, NEW result \in {"PASS", "FAIL"}, RecordInspection(w, result)
  PROVE  TypeInv'
  <1> DEFINE s == session[w]
             new == Inspected(s.view, result)
  <1>1. HandlersOK'
    BY FinishType DEF RecordInspection, TypeInv
  <1>2. s.batch \in Batches /\ s.view \in BatchRow /\ s.view.issued_count <= Quantity[s.batch]
    BY LockedView DEF RecordInspection, At
  <1>3. batches' = [batches EXCEPT ![s.batch] = Flushed(@, s.view, new)]
    BY DEF RecordInspection
  <1>4. new \in BatchRow /\ new.issued_count <= Quantity[s.batch]
    BY <1>2 DEF Inspected, BatchRow, BatchStatuses
  <1>5. inspections' \in [Batches -> SUBSET {"PASS", "FAIL"}]
    BY <1>2 DEF RecordInspection, TypeInv, TablesOK
  <1> HIDE DEF new, s
  <1> QED
    BY <1>1, <1>2, <1>3, <1>4, <1>5, FlushStep DEF TypeInv, TablesOK, RecordInspection

LEMMA TypeActivate ==
  ASSUME TypeInv, NEW w \in Workers, Activate(w)
  PROVE  TypeInv'
  <1> DEFINE s == session[w]
             new == [s.view EXCEPT !.status = "ACTIVE"]
  <1>1. HandlersOK'
    BY FinishType DEF Activate, TypeInv
  <1>2. s.batch \in Batches /\ s.view \in BatchRow /\ s.view.issued_count <= Quantity[s.batch]
    BY LockedView DEF Activate, At
  <1>3. batches' = [batches EXCEPT ![s.batch] = Flushed(@, s.view, new)]
    BY DEF Activate
  <1>4. new \in BatchRow /\ new.issued_count <= Quantity[s.batch]
    BY <1>2 DEF BatchRow, BatchStatuses
  <1>5. outbox' \in [Batches -> [issued: 0..MaxEvents, activated: 0..MaxEvents]]
    BY <1>2, EnqueuedType DEF Activate, TypeInv, TablesOK
  <1>6. stamps' \subseteq Stamp
    BY SMTT(30) DEF Activate, TypeInv, TablesOK, Stamp
  <1> HIDE DEF new, s
  <1> QED
    BY <1>1, <1>2, <1>3, <1>4, <1>5, <1>6, FlushStep DEF TypeInv, TablesOK, Activate

LEMMA TypeCommit ==
  ASSUME TypeInv, NEW w \in Workers, CommitChunk(w)
  PROVE  TypeInv'
  <1> DEFINE s == session[w]
             next == IF s.loop
                       THEN [s EXCEPT !.phase = "loaded", !.view = Advanced(s), !.base = 0, !.index = 0]
                       ELSE Idle
  <1>1. GoodSession(s) /\ s.phase = "allocated" /\ s.op = "issue"
    BY DEF TypeInv, HandlersOK, CommitChunk, At
  <1>2. s \in Session /\ s.batch \in Batches /\ s.chunk \in ChunkSizes /\ Issuable(s.batch, s.view)
    BY <1>1 DEF GoodSession
  <1>3. Advanced(s) \in BatchRow /\ Advanced(s).issued_count <= Quantity[s.batch]
    BY <1>2, AdvancedRow
  <1>4. batches' = [batches EXCEPT ![s.batch] = Flushed(@, s.view, Advanced(s))]
    BY DEF CommitChunk
  <1>5. GoodSession(next)
    <2>1. GoodSession([s EXCEPT !.phase = "loaded", !.view = Advanced(s), !.base = 0, !.index = 0])
      BY <1>2, <1>3 DEF GoodSession, Session, Phases
    <2>2. GoodSession(Idle)
      BY IdleSession DEF GoodSession, Idle
    <2> QED BY <2>1, <2>2
  <1>6. HandlersOK'
    <2>1. session' = [session EXCEPT ![w] = next]
      BY DEF CommitChunk
    <2>2. lock' \in [LockKeys -> Workers \cup {NoWorker}]
      BY ReleasedType DEF CommitChunk, TypeInv, HandlersOK
    <2> HIDE DEF next
    <2> QED BY <2>1, <2>2, <1>5, HandlerStep DEF TypeInv
  <1>7. stamps' \subseteq Stamp
    BY <1>2, MintedType DEF CommitChunk, TypeInv, TablesOK
  <1>8. serial_counters' \in [Counters -> Nat]
    <2>1. s.base + Size(s) \in Nat
      BY <1>2, SizeBound DEF Session
    <2> QED BY <2>1 DEF CommitChunk, TypeInv, TablesOK
  <1>9. s.view \in BatchRow
    BY <1>2 DEF Session
  <1> HIDE DEF s
  <1> QED
    BY <1>2, <1>3, <1>4, <1>6, <1>7, <1>8, <1>9, FlushStep
       DEF TypeInv, TablesOK, CommitChunk

-----------------------------------------------------------------------------
(* Serials and indexes *)

\* Between its statements, a handler that claimed serials owns the counter row,
\* so the value it read is still the committed one; once it has an index it
\* owns the advisory lock too, so the indexes in use are still those below it.
ClaimOK(w) ==
  /\ session[w].phase \in {"claimed", "allocated"} =>
       /\ lock[CounterLock(session[w].batch)] = w
       /\ session[w].base = serial_counters[CounterOf[session[w].batch]]
  /\ session[w].phase = "allocated" =>
       /\ lock[ListLock] = w
       /\ Indexes = 0..(session[w].index - 1)
       /\ session[w].index + Size(session[w]) <= ListBits

ClaimInv == \A w \in Workers : ClaimOK(w)

SerialInv == TypeInv /\ Dense /\ ClaimInv /\ CounterMatchesStamps /\ NoStampTwice

LEMMA Keys ==
  /\ ListLock \in LockKeys
  /\ \A b \in Batches : BatchLock(b) \in LockKeys /\ CounterLock(b) \in LockKeys
  /\ \A b, c \in Batches : BatchLock(b) # CounterLock(c)
  /\ \A b \in Batches : BatchLock(b) # ListLock /\ CounterLock(b) # ListLock
  /\ \A b, c \in Batches : CounterLock(b) = CounterLock(c) <=> CounterOf[b] = CounterOf[c]
  BY CounterAssumption DEF LockKeys, BatchLock, CounterLock, ListLock

\* Handlers other than w keep their claims through a step of w that takes no
\* key from them and changes neither indexes nor counters.
LEMMA OthersKeepClaims ==
  ASSUME SerialInv, NEW w \in Workers,
         \A v \in Workers \ {w} : session'[v] = session[v],
         \A v \in Workers \ {w}, k \in LockKeys : lock[k] = v => lock'[k] = v,
         Indexes' = Indexes, serial_counters' = serial_counters
  PROVE  \A v \in Workers \ {w} : ClaimOK(v)'
  <1> TAKE v \in Workers \ {w}
  <1>1. ClaimOK(v) /\ GoodSession(session[v])
    BY DEF SerialInv, ClaimInv, TypeInv, HandlersOK
  <1>2. session'[v] = session[v]
    OBVIOUS
  <1>3. session[v].phase \in {"claimed", "allocated"} => CounterLock(session[v].batch) \in LockKeys
    BY <1>1, Keys DEF GoodSession
  <1> QED
    BY <1>1, <1>2, <1>3, Keys DEF ClaimOK, CounterLock, ListLock

\* What is released is the handler's own, what is taken was nobody else's.
LEMMA ReleaseOwn ==
  ASSUME TypeInv, NEW w \in Workers, lock' = Released(w)
  PROVE  \A v \in Workers \ {w}, k \in LockKeys : lock[k] = v => lock'[k] = v
  BY DEF Released

LEMMA TakeFree ==
  ASSUME TypeInv, NEW w \in Workers, NEW q \in LockKeys, Free(w, q),
         lock' = [lock EXCEPT ![q] = w]
  PROVE  \A v \in Workers \ {w}, k \in LockKeys : lock[k] = v => lock'[k] = v
  BY IdentityAssumption DEF Free, TypeInv, HandlersOK

\* A request that ends holds no claim.
LEMMA FinishClaims ==
  ASSUME SerialInv, NEW w \in Workers, Finish(w),
         Indexes' = Indexes, serial_counters' = serial_counters
  PROVE  ClaimInv'
  <1>1. session' = [session EXCEPT ![w] = Idle] /\ session \in [Workers -> Session]
    BY DEF Finish, SerialInv, TypeInv, HandlersOK
  <1>2. \A v \in Workers \ {w} : ClaimOK(v)'
    <2>1. \A v \in Workers \ {w} : session'[v] = session[v]
      BY <1>1
    <2>2. \A v \in Workers \ {w}, k \in LockKeys : lock[k] = v => lock'[k] = v
      BY ReleaseOwn DEF Finish, SerialInv
    <2> QED BY <2>1, <2>2, OthersKeepClaims
  <1>3. ClaimOK(w)'
    BY <1>1 DEF ClaimOK, Idle
  <1> QED BY <1>2, <1>3 DEF ClaimInv

\* The three facts about stamps depend on nothing else.
LEMMA SameStamps ==
  ASSUME SerialInv, stamps' = stamps, serial_counters' = serial_counters
  PROVE  Dense' /\ CounterMatchesStamps' /\ NoStampTwice' /\ Indexes' = Indexes
  BY DEF SerialInv, Dense, CounterMatchesStamps, NoStampTwice, Indexes, SequencesOf

LEMMA SerialStart ==
  ASSUME SerialInv, NEW w \in Workers, Start(w)
  PROVE  SerialInv'
  <1>1. TypeInv'
    BY TypeStart DEF SerialInv
  <1>2. PICK b \in Batches, op \in Ops, n \in ChunkSizes \cup {0}, toCompletion \in BOOLEAN :
          session' = [session EXCEPT ![w] = Loaded(b, op, n, toCompletion)]
    BY DEF Start, Load, LoadForIssue, Ops
  <1>3. UNCHANGED <<tables, lock>>
    BY DEF Start, Load, LoadForIssue
  <1>4. Dense' /\ CounterMatchesStamps' /\ NoStampTwice' /\ Indexes' = Indexes
    BY <1>3, SameStamps DEF tables
  <1>5. ClaimInv'
    <2>1. session \in [Workers -> Session]
      BY DEF SerialInv, TypeInv, HandlersOK
    <2>2. \A v \in Workers \ {w} : session'[v] = session[v]
      BY <1>2, <2>1
    <2>3. \A v \in Workers \ {w} : ClaimOK(v)'
      BY <1>3, <1>4, <2>2, OthersKeepClaims DEF tables
    <2>4. ClaimOK(w)'
      BY <1>2, <2>1 DEF ClaimOK, Loaded
    <2> QED BY <2>3, <2>4 DEF ClaimInv
  <1> QED BY <1>1, <1>4, <1>5 DEF SerialInv

\* The statements up to the advisory lock: each takes one key or none.
LEMMA SerialReading ==
  ASSUME SerialInv, NEW w \in Workers,
         \/ FindNone(w) \/ LockBatch(w) \/ ClaimSerialBlock(w) \/ AllocateIndexes(w)
  PROVE  SerialInv'
  <1> DEFINE s == session[w]
  <1>1. TypeInv'
    BY TypeReading DEF SerialInv
  <1>2. GoodSession(s) /\ session \in [Workers -> Session]
    BY DEF SerialInv, TypeInv, HandlersOK
  <1>3. UNCHANGED tables
    BY DEF FindNone, LockBatch, ClaimSerialBlock, AllocateIndexes
  <1>4. Dense' /\ CounterMatchesStamps' /\ NoStampTwice' /\ Indexes' = Indexes
    BY <1>3, SameStamps DEF tables
  <1>5. s.batch \in Batches
    BY <1>2 DEF FindNone, LockBatch, ClaimSerialBlock, AllocateIndexes, At, GoodSession
  <1>6. \A v \in Workers \ {w}, k \in LockKeys : lock[k] = v => lock'[k] = v
    <2>1. CASE FindNone(w)
      BY <2>1 DEF FindNone
    <2>2. CASE LockBatch(w)
      BY <2>2, <1>5, Keys, TakeFree DEF LockBatch, SerialInv
    <2>3. CASE ClaimSerialBlock(w)
      BY <2>3, <1>5, Keys, TakeFree DEF ClaimSerialBlock, SerialInv
    <2>4. CASE AllocateIndexes(w)
      BY <2>4, Keys, TakeFree DEF AllocateIndexes, SerialInv
    <2> QED BY <2>1, <2>2, <2>3, <2>4
  <1>7. \A v \in Workers \ {w} : session'[v] = session[v]
    BY <1>2 DEF FindNone, LockBatch, ClaimSerialBlock, AllocateIndexes
  <1>8. \A v \in Workers \ {w} : ClaimOK(v)'
    BY <1>3, <1>4, <1>6, <1>7, OthersKeepClaims DEF tables
  <1>9. ClaimOK(w)'
    <2>1. CASE FindNone(w)
      BY <2>1, <1>2 DEF FindNone, ClaimOK
    <2>2. CASE LockBatch(w)
      BY <2>2, <1>2 DEF LockBatch, ClaimOK
    <2>3. CASE ClaimSerialBlock(w)
      <3>1. session'[w] = [s EXCEPT !.phase = "claimed", !.base = serial_counters[CounterOf[s.batch]]]
        BY <2>3, <1>2 DEF ClaimSerialBlock
      <3>2. session'[w].phase = "claimed" /\ session'[w].batch = s.batch
            /\ session'[w].base = serial_counters[CounterOf[s.batch]]
        BY <3>1, <1>2 DEF GoodSession, Session
      <3>3. lock'[CounterLock(s.batch)] = w
        BY <2>3, <1>5, Keys DEF ClaimSerialBlock, SerialInv, TypeInv, HandlersOK
      <3> QED BY <3>2, <3>3, <1>3 DEF ClaimOK, tables, CounterLock
    <2>4. CASE AllocateIndexes(w)
      <3>1. session'[w] = [s EXCEPT !.phase = "allocated", !.index = NextIndex]
        BY <2>4, <1>2 DEF AllocateIndexes
      <3>2. session'[w].phase = "allocated" /\ session'[w].batch = s.batch
            /\ session'[w].base = s.base /\ session'[w].index = NextIndex
            /\ Size(session'[w]) = Size(s)
        BY <3>1, <1>2 DEF GoodSession, Session, Size
      <3>3. lock' = [lock EXCEPT ![ListLock] = w] /\ lock \in [LockKeys -> Workers \cup {NoWorker}]
        BY <2>4 DEF AllocateIndexes, SerialInv, TypeInv, HandlersOK
      <3>4. lock'[ListLock] = w
        BY <3>3, Keys
      <3>5. lock[CounterLock(s.batch)] = w /\ s.base = serial_counters[CounterOf[s.batch]]
        BY <2>4 DEF AllocateIndexes, At, SerialInv, ClaimInv, ClaimOK
      <3>6. lock'[CounterLock(s.batch)] = w
        BY <3>3, <3>5, <1>5, Keys
      <3>7. Indexes' = 0..(NextIndex - 1) /\ NextIndex + Size(s) <= ListBits
        BY <1>4, <2>4, NextIndexIsFree DEF SerialInv, AllocateIndexes
      <3> QED BY <3>2, <3>4, <3>5, <3>6, <3>7, <1>3 DEF ClaimOK, tables, CounterLock
    <2> QED BY <2>1, <2>2, <2>3, <2>4
  <1> QED BY <1>1, <1>4, <1>8, <1>9 DEF SerialInv, ClaimInv

\* The requests that end without touching stamps or counters.
LEMMA SerialEnding ==
  ASSUME SerialInv, NEW w \in Workers, TypeInv', Finish(w),
         stamps' = stamps, serial_counters' = serial_counters
  PROVE  SerialInv'
  BY SameStamps, FinishClaims DEF SerialInv

\* Activation changes the status of stamps, not their serial or index.
LEMMA SerialActivate ==
  ASSUME SerialInv, NEW w \in Workers, Activate(w)
  PROVE  SerialInv'
  <1> DEFINE b == session[w].batch
             Live(t) == IF t.batch = b THEN [t EXCEPT !.status = "ACTIVE"] ELSE t
  <1>1. TypeInv'
    BY TypeActivate DEF SerialInv
  <1>2. stamps' = {Live(t) : t \in stamps} /\ serial_counters' = serial_counters /\ Finish(w)
    BY DEF Activate
  <1>3. \A t \in stamps : /\ Live(t).batch = t.batch
                          /\ Live(t).sequence = t.sequence
                          /\ Live(t).index = t.index
    BY DEF SerialInv, TypeInv, TablesOK, Stamp
  <1>4. Indexes' = Indexes
    <2> HIDE DEF Live
    <2> QED BY <1>2, <1>3 DEF Indexes
  <1>5. \A c \in Counters : SequencesOf(c)' = SequencesOf(c)
    <2> HIDE DEF Live
    <2> QED BY <1>2, <1>3 DEF SequencesOf
  <1>6. NoStampTwice'
    <2> HIDE DEF Live
    <2> QED BY <1>2, <1>3 DEF SerialInv, NoStampTwice
  <1>7. Dense' /\ CounterMatchesStamps'
    BY <1>2, <1>4, <1>5 DEF SerialInv, Dense, CounterMatchesStamps
  <1>8. ClaimInv'
    BY <1>2, <1>4, FinishClaims
  <1> QED BY <1>1, <1>6, <1>7, <1>8 DEF SerialInv

\* A block that starts where the used numbers end.
LEMMA NextBlock ==
  ASSUME NEW a \in Nat, NEW k \in Nat \ {0}
  PROVE  (0..(a - 1)) \cup {a + i : i \in 0..(k - 1)} = 0..(a + k - 1)
  <1>1. \A j \in 0..(a + k - 1) : j \notin 0..(a - 1) => j - a \in 0..(k - 1) /\ j = a + (j - a)
    OBVIOUS
  <1>2. \A i \in 0..(k - 1) : a + i \in 0..(a + k - 1)
    OBVIOUS
  <1>3. 0..(a - 1) \subseteq 0..(a + k - 1)
    OBVIOUS
  <1> QED BY <1>1, <1>2, <1>3

\* A chunk takes the block [base, base + size) and the indexes after the last.
LEMMA SerialCommit ==
  ASSUME SerialInv, NEW w \in Workers, CommitChunk(w)
  PROVE  SerialInv'
  <1> DEFINE s == session[w]
             c == CounterOf[s.batch]
             n == Size(s)
  <1>1. TypeInv'
    BY TypeCommit DEF SerialInv
  <1>2. GoodSession(s) /\ ClaimOK(w) /\ s.phase = "allocated"
    BY DEF SerialInv, TypeInv, HandlersOK, ClaimInv, CommitChunk, At
  <1>3. /\ s \in Session /\ s.batch \in Batches /\ c \in Counters /\ n \in Nat \ {0}
        /\ s.base \in Nat /\ s.index \in Nat
    BY <1>2, SizeBound, CounterAssumption DEF GoodSession, Session
  <1>4. /\ lock[CounterLock(s.batch)] = w /\ lock[ListLock] = w
        /\ s.base = serial_counters[c]
        /\ Indexes = 0..(s.index - 1) /\ s.index + n <= ListBits
    BY <1>2 DEF ClaimOK
  <1>5. /\ stamps' = stamps \cup Minted(s)
        /\ serial_counters' = [serial_counters EXCEPT ![c] = s.base + n]
        /\ lock' = Released(w)
    BY DEF CommitChunk
  <1> DEFINE New(i) == [batch |-> s.batch, sequence |-> s.base + i,
                        index |-> s.index + i, status |-> "ISSUED"]
  <1>6. Minted(s) = {New(i) : i \in 0..(n - 1)}
    BY DEF Minted
  <1>7. \A i \in 0..(n - 1) : /\ New(i).batch = s.batch
                              /\ New(i).sequence = s.base + i
                              /\ New(i).index = s.index + i
    OBVIOUS
  <1>8. session \in [Workers -> Session] /\ lock \in [LockKeys -> Workers \cup {NoWorker}]
    BY DEF SerialInv, TypeInv, HandlersOK
  <1>9. \A v \in Workers \ {w} : session'[v] = session[v]
    BY <1>8 DEF CommitChunk
  <1>10. session'[w].phase \in {"loaded", "idle"}
    BY <1>3, <1>8 DEF CommitChunk, Idle, Session
  <1> HIDE DEF n, s, New
  <1>11. Indexes' = 0..(s.index + n - 1)
    <2>1. Indexes' = Indexes \cup {t.index : t \in Minted(s)}
      BY <1>5 DEF Indexes
    <2>2. {t.index : t \in Minted(s)} = {s.index + i : i \in 0..(n - 1)}
      BY <1>6, <1>7
    <2> QED BY <2>1, <2>2, <1>3, <1>4, NextBlock
  <1>12. Dense'
    <2> DEFINE m == s.index + n
    <2>1. m \in 0..ListBits /\ Indexes' = 0..(m - 1)
      BY <1>3, <1>4, <1>11, BoundAssumption
    <2> HIDE DEF m
    <2> QED BY <2>1 DEF Dense
  <1>13. \A d \in Counters : SequencesOf(d) = 0..(serial_counters[d] - 1)
    BY DEF SerialInv, CounterMatchesStamps
  <1>14. CounterMatchesStamps'
    <2> SUFFICES ASSUME NEW d \in Counters
                 PROVE  SequencesOf(d)' = 0..(serial_counters'[d] - 1)
      BY DEF CounterMatchesStamps
    <2>1. SequencesOf(d)' = SequencesOf(d) \cup {t.sequence : t \in {u \in Minted(s) : CounterOf[u.batch] = d}}
      BY <1>5 DEF SequencesOf
    <2>2. CASE d # c
      <3>1. {u \in Minted(s) : CounterOf[u.batch] = d} = {}
        BY <2>2, <1>6, <1>7
      <3>2. serial_counters'[d] = serial_counters[d]
        BY <2>2, <1>3, <1>5 DEF SerialInv, TypeInv, TablesOK
      <3> QED BY <2>1, <3>1, <3>2, <1>13
    <2>3. CASE d = c
      <3>1. {u \in Minted(s) : CounterOf[u.batch] = d} = Minted(s)
        BY <2>3, <1>6, <1>7
      <3>2. {t.sequence : t \in Minted(s)} = {s.base + i : i \in 0..(n - 1)}
        BY <1>6, <1>7
      <3>3. serial_counters'[d] = s.base + n
        BY <2>3, <1>3, <1>5 DEF SerialInv, TypeInv, TablesOK
      <3>4. SequencesOf(d) = 0..(s.base - 1)
        BY <2>3, <1>4, <1>13
      <3>5. SequencesOf(d)' = 0..(s.base + n - 1)
        BY <2>1, <3>1, <3>2, <3>4, <1>3, NextBlock
      <3> QED BY <3>3, <3>5, <1>3
    <2> QED BY <2>2, <2>3
  <1>15. NoStampTwice'
    <2>1. \A t \in stamps : t.index \in 0..(s.index - 1)
      BY <1>4 DEF Indexes
    <2>2. \A t \in stamps : CounterOf[t.batch] = c => t.sequence \in 0..(s.base - 1)
      BY <1>3, <1>4, <1>13 DEF SequencesOf
    <2>3. \A i, j \in 0..(n - 1) : New(i).index = New(j).index \/ New(i).sequence = New(j).sequence
                                      => New(i) = New(j)
      BY <1>3, <1>7
    <2>4. \A t \in stamps, i \in 0..(n - 1) :
            /\ t.index # New(i).index
            /\ CounterOf[t.batch] = CounterOf[New(i).batch] => t.sequence # New(i).sequence
      BY <2>1, <2>2, <1>3, <1>7
    <2>5. \A t \in stamps' : t \in stamps \/ \E i \in 0..(n - 1) : t = New(i)
      BY <1>5, <1>6
    <2>6. NoStampTwice
      BY DEF SerialInv
    <2> HIDE DEF c
    <2> QED BY <2>3, <2>4, <2>5, <2>6 DEF NoStampTwice
  <1>16. \A v \in Workers \ {w} : ClaimOK(v)'
    <2> TAKE v \in Workers \ {w}
    <2>1. ClaimOK(v) /\ GoodSession(session[v])
      BY DEF SerialInv, ClaimInv, TypeInv, HandlersOK
    <2>2. session[v].phase # "allocated"
      BY <2>1, <1>4 DEF ClaimOK
    <2>3. ASSUME session[v].phase = "claimed"
          PROVE  /\ lock'[CounterLock(session[v].batch)] = v
                 /\ session[v].base = serial_counters'[CounterOf[session[v].batch]]
      <3>1. session[v].batch \in Batches /\ lock[CounterLock(session[v].batch)] = v
        BY <2>1, <2>3 DEF ClaimOK, GoodSession
      <3>2. CounterOf[session[v].batch] # c /\ CounterOf[session[v].batch] \in Counters
        BY <3>1, <1>3, <1>4, Keys, CounterAssumption
      <3>3. serial_counters'[CounterOf[session[v].batch]] = serial_counters[CounterOf[session[v].batch]]
        BY <3>2, <1>3, <1>5 DEF SerialInv, TypeInv, TablesOK
      <3>4. lock'[CounterLock(session[v].batch)] = v
        BY <3>1, <1>5, Keys DEF Released
      <3> QED BY <2>1, <2>3, <3>3, <3>4 DEF ClaimOK
    <2> QED BY <1>9, <2>2, <2>3 DEF ClaimOK, CounterLock
  <1>17. ClaimOK(w)'
    BY <1>10 DEF ClaimOK
  <1> QED BY <1>1, <1>12, <1>14, <1>15, <1>16, <1>17 DEF SerialInv, ClaimInv

LEMMA SerialInit == Init => SerialInv
  <1> SUFFICES ASSUME Init PROVE SerialInv
    OBVIOUS
  <1>1. TypeInv
    BY TypeInit
  <1>2. Indexes = 0..(0 - 1) /\ 0 \in 0..ListBits
    BY BoundAssumption DEF Init, Indexes
  <1>3. Dense
    BY <1>2 DEF Dense
  <1>4. ClaimInv
    BY DEF Init, ClaimInv, ClaimOK, Idle
  <1>5. CounterMatchesStamps
    BY DEF Init, CounterMatchesStamps, SequencesOf
  <1>6. NoStampTwice
    BY DEF Init, NoStampTwice
  <1> QED BY <1>1, <1>3, <1>4, <1>5, <1>6 DEF SerialInv

LEMMA SerialStep == SerialInv /\ [Next]_vars => SerialInv'
  <1> SUFFICES ASSUME SerialInv, [Next]_vars PROVE SerialInv'
    OBVIOUS
  <1>1. CASE UNCHANGED vars
    BY <1>1 DEF vars, SerialInv, TypeInv, TablesOK, HandlersOK, GoodSession, Dense, Indexes,
                ClaimInv, ClaimOK, CounterMatchesStamps, SequencesOf, NoStampTwice
  <1>2. ASSUME NEW w \in Workers, Start(w) PROVE SerialInv'
    BY <1>2, SerialStart
  <1>3. ASSUME NEW w \in Workers,
               FindNone(w) \/ LockBatch(w) \/ ClaimSerialBlock(w) \/ AllocateIndexes(w)
        PROVE SerialInv'
    BY <1>3, SerialReading
  <1>4. ASSUME NEW w \in Workers, ReturnExisting(w) \/ ListExhausted(w) \/ Refuse(w) \/ Crash(w)
        PROVE SerialInv'
    <2>1. Finish(w) /\ UNCHANGED tables
      BY <1>4 DEF ReturnExisting, ListExhausted, Refuse, Crash, Rollback
    <2>2. TypeInv'
      BY <1>4, TypeEnding DEF SerialInv
    <2> QED BY <2>1, <2>2, SerialEnding DEF tables
  <1>5. ASSUME NEW w \in Workers, InsertBatch(w) PROVE SerialInv'
    BY <1>5, TypeInsert, SerialEnding DEF SerialInv, InsertBatch
  <1>6. ASSUME NEW w \in Workers, NothingToIssue(w) PROVE SerialInv'
    BY <1>6, TypeNothing, SerialEnding DEF SerialInv, NothingToIssue
  <1>7. ASSUME NEW w \in Workers, Finalize(w) PROVE SerialInv'
    BY <1>7, TypeFinalize, SerialEnding DEF SerialInv, Finalize
  <1>8. ASSUME NEW w \in Workers, NEW result \in {"PASS", "FAIL"}, RecordInspection(w, result)
        PROVE SerialInv'
    BY <1>8, TypeInspection, SerialEnding DEF SerialInv, RecordInspection
  <1>9. ASSUME NEW w \in Workers, Activate(w) PROVE SerialInv'
    BY <1>9, SerialActivate
  <1>10. ASSUME NEW w \in Workers, CommitChunk(w) PROVE SerialInv'
    BY <1>10, SerialCommit
  <1> QED
    BY <1>1, <1>2, <1>3, <1>4, <1>5, <1>6, <1>7, <1>8, <1>9, <1>10 DEF Next, Proceed

-----------------------------------------------------------------------------
(* The theorems *)

\* SerialInv is an invariant of the specification.
THEOREM SerialInvariance == Spec => []SerialInv
  BY SerialInit, SerialStep, PTL DEF Spec

\* The tables, sessions and locks keep their types, and no flush of a stale row
\* breaks the CHECK constraint on issued_count.
THEOREM TypeCorrect == Spec => []TypeOK
  <1>1. SerialInv => TypeOK
    BY TypeInvTypes DEF SerialInv
  <1> QED BY <1>1, SerialInvariance, PTL

\* However many handlers overlap and crash, no serial and no status-list index
\* is ever given to two stamps.
THEOREM SerialsNeverOverlap == Spec => []NoStampTwice
  <1>1. SerialInv => NoStampTwice
    BY DEF SerialInv
  <1> QED BY <1>1, SerialInvariance, PTL

\* The committed counter always counts exactly the serials minted from it.
THEOREM CounterConsistent == Spec => []CounterMatchesStamps
  <1>1. SerialInv => CounterMatchesStamps
    BY DEF SerialInv
  <1> QED BY <1>1, SerialInvariance, PTL

\* Inspections are only added, and the activation reads them afresh: no stale
\* view can activate a lot that never passed one.
LEMMA PassStep ==
  ASSUME TypeInv, ActiveOnlyAfterPass, [Next]_vars
  PROVE  ActiveOnlyAfterPass'
  <1> DEFINE Same == stamps' = stamps /\ inspections' = inspections
  <1>1. ASSUME Same PROVE ActiveOnlyAfterPass'
    BY <1>1 DEF ActiveOnlyAfterPass
  <1>2. CASE UNCHANGED vars
    BY <1>1, <1>2 DEF vars
  <1>3. ASSUME NEW w \in Workers,
               \/ Start(w) \/ ReturnExisting(w) \/ FindNone(w) \/ InsertBatch(w) \/ LockBatch(w)
               \/ NothingToIssue(w) \/ ClaimSerialBlock(w) \/ AllocateIndexes(w)
               \/ ListExhausted(w) \/ Finalize(w) \/ Refuse(w) \/ Crash(w)
        PROVE  ActiveOnlyAfterPass'
    <2>1. Same
      BY <1>3 DEF Start, Load, LoadForIssue, ReturnExisting, FindNone, InsertBatch, LockBatch,
                  NothingToIssue, ClaimSerialBlock, AllocateIndexes, ListExhausted, Finalize,
                  Refuse, Crash, Rollback, tables
    <2> QED BY <2>1, <1>1
  <1>4. ASSUME NEW w \in Workers, CommitChunk(w) PROVE ActiveOnlyAfterPass'
    <2>1. \A s \in Minted(session[w]) : s.status # "ACTIVE"
      BY DEF Minted
    <2>2. stamps' = stamps \cup Minted(session[w]) /\ inspections' = inspections
      BY <1>4 DEF CommitChunk
    <2> QED BY <2>1, <2>2 DEF ActiveOnlyAfterPass
  <1>5. ASSUME NEW w \in Workers, NEW result \in {"PASS", "FAIL"}, RecordInspection(w, result)
        PROVE  ActiveOnlyAfterPass'
    <2>1. stamps' = stamps /\ \A b \in Batches : inspections[b] \subseteq inspections'[b]
      BY <1>5 DEF RecordInspection, TypeInv, TablesOK
    <2>2. \A s \in stamps : s.batch \in Batches
      BY DEF TypeInv, TablesOK, Stamp
    <2> QED BY <2>1, <2>2 DEF ActiveOnlyAfterPass
  <1>6. ASSUME NEW w \in Workers, Activate(w) PROVE ActiveOnlyAfterPass'
    <2> DEFINE b == session[w].batch
               Live(t) == IF t.batch = b THEN [t EXCEPT !.status = "ACTIVE"] ELSE t
    <2>1. stamps' = {Live(t) : t \in stamps} /\ inspections' = inspections
          /\ "PASS" \in inspections[b]
      BY <1>6 DEF Activate, Activatable
    <2>2. \A t \in stamps : Live(t).batch = t.batch /\ (t.batch # b => Live(t) = t)
      BY DEF TypeInv, TablesOK, Stamp
    <2> HIDE DEF Live
    <2> QED BY <2>1, <2>2 DEF ActiveOnlyAfterPass
  <1> QED
    BY <1>2, <1>3, <1>4, <1>5, <1>6 DEF Next, Proceed

\* No stamp is live in a lot without a recorded passing inspection.
THEOREM NeverLiveUninspected == Spec => []ActiveOnlyAfterPass
  <1>1. Init => ActiveOnlyAfterPass
    BY DEF Init, ActiveOnlyAfterPass
  <1>2. SerialInv /\ ActiveOnlyAfterPass /\ [Next]_vars => ActiveOnlyAfterPass'
    BY PassStep DEF SerialInv
  <1> QED BY <1>1, <1>2, SerialInvariance, PTL DEF Spec

=============================================================================
