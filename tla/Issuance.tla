------------------------------ MODULE Issuance ------------------------------
(***************************************************************************)
(* Stamp issuance: services/issuance.py driven by api/routes_stamps.py.     *)
(*                                                                         *)
(* A Worker is one HTTP request handler with its own database session.  A   *)
(* handler first loads the batch without a lock (the route), then the       *)
(* service locks the same row with SELECT ... FOR UPDATE, works, and        *)
(* commits.  Three facts about the session decide what the service sees:    *)
(*   - PostgreSQL runs at READ COMMITTED: a statement reads what other      *)
(*     transactions have committed before it, and row locks, the advisory   *)
(*     lock and an uncommitted unique key make it wait;                     *)
(*   - the SQLAlchemy identity map keeps the attributes of a row that is    *)
(*     already loaded: the locking SELECT returns the SAME object, with the *)
(*     values of the first, unlocked load ("view");                        *)
(*   - a flush writes only the columns whose value differs from that load.  *)
(* The sessions never expire their objects (expire_on_commit=False), so a   *)
(* request that runs several chunks keeps its view across its commits.      *)
(*                                                                         *)
(* Uncommitted writes are visible to no one else and a rollback discards    *)
(* them, so a transaction's last statements and its COMMIT are one step.    *)
(* What is held from one statement to the next (locks, values already read) *)
(* is in "lock" and "session".  Stamp states after ACTIVE belong to the     *)
(* module Verification; audit records are left out here.                    *)
(***************************************************************************)
EXTENDS Naturals, FiniteSets

CONSTANTS
  Workers,       \* concurrent request handlers
  Batches,       \* one per assessment (stamp_batches.assessment_id is unique)
  NoBatch,       \* the batch of an idle handler
  NoWorker,      \* the owner of a free lock
  Counters,      \* rows of serial_counters: the pairs (category_code, year)
  CounterOf,     \* the pair each batch draws its serials from
  Quantity,      \* stamps_required of the assessment, copied into the batch
  ChunkSizes,    \* values of the request field chunk_size
  ListBits,      \* DEFAULT_LIST_SIZE_BITS, the capacity of a status list
  MaxEvents,     \* bound: outbox rows of one type and batch are counted up to it
  Exclusive      \* TRUE: callers never run two requests on one batch at a time

ASSUME IdentityAssumption == NoBatch \notin Batches /\ NoWorker \notin Workers
ASSUME CounterAssumption == CounterOf \in [Batches -> Counters]
ASSUME QuantityAssumption == Quantity \in [Batches -> Nat \ {0}]
ASSUME ChunkAssumption == ChunkSizes \subseteq Nat \ {0}
ASSUME BoundAssumption == ListBits \in Nat /\ MaxEvents \in Nat /\ Exclusive \in BOOLEAN

VARIABLES
  batches,          \* stamp_batches
  stamps,           \* stamps
  serial_counters,  \* serial_counters.next_sequence
  inspections,      \* results recorded for each batch
  outbox,           \* rows enqueued per batch and event type
  session,          \* what each handler has read and where it is
  lock              \* owner of each row lock and of the advisory lock

tables == <<batches, stamps, serial_counters, inspections, outbox>>
vars == <<batches, stamps, serial_counters, inspections, outbox, session, lock>>

-----------------------------------------------------------------------------
(* Rows and sessions *)

\* "ABSENT": no row yet.  COMPLETED and VOID are declared by the schema and
\* assigned by no code.  create_batch moves the assessment from PAID to ISSUING
\* in the transaction that inserts the batch: it is PAID exactly while ABSENT.
BatchStatuses ==
  {"ABSENT", "PENDING", "ISSUING", "ISSUED", "READY", "ACTIVE", "INSPECTION_FAILED"}

\* merkle_root is modelled by the set of sequences it commits to; {} is ''.
BatchRow == [status: BatchStatuses, issued_count: Nat, merkle_root: SUBSET Nat]

\* The serial is a function of (counter, sequence); the counter is the batch's.
Stamp == [batch: Batches, sequence: Nat, index: Nat, status: {"ISSUED", "ACTIVE"}]

Ops == {"create", "issue", "finalize", "inspect", "activate"}
Phases == {"idle", "loaded", "absent", "locked", "claimed", "allocated"}

LockKeys == ({"batch"} \X Batches) \cup ({"counter"} \X Counters) \cup {<<"advisory", "list">>}
BatchLock(b) == <<"batch", b>>
CounterLock(b) == <<"counter", CounterOf[b]>>
ListLock == <<"advisory", "list">>

EmptyRow == [status |-> "ABSENT", issued_count |-> 0, merkle_root |-> {}]

Idle == [phase |-> "idle", op |-> "create", batch |-> NoBatch, view |-> EmptyRow,
         chunk |-> 0, loop |-> FALSE, base |-> 0, index |-> 0]

StampsOf(b) == {s \in stamps : s.batch = b}
SequencesOf(c) == {s.sequence : s \in {t \in stamps : CounterOf[t.batch] = c}}
Indexes == {s.index : s \in stamps}

At(w, phase, op) == session[w].phase = phase /\ session[w].op = op

Init ==
  /\ batches = [b \in Batches |-> EmptyRow]
  /\ stamps = {}
  /\ serial_counters = [c \in Counters |-> 0]
  /\ inspections = [b \in Batches |-> {}]
  /\ outbox = [b \in Batches |-> [issued |-> 0, activated |-> 0]]
  /\ session = [w \in Workers |-> Idle]
  /\ lock = [k \in LockKeys |-> NoWorker]

-----------------------------------------------------------------------------
(* Locks and the unit of work *)

\* A wait ends when nobody else holds the key.
Free(w, k) == lock[k] \in {NoWorker, w}

\* Locks are released by COMMIT and by ROLLBACK only.
Released_KeepsListLock(w) ==
  [k \in LockKeys |-> IF lock[k] = w /\ k # ListLock THEN NoWorker ELSE lock[k]]
Released(w) == [k \in LockKeys |-> IF lock[k] = w THEN NoWorker ELSE lock[k]]

\* The column a flush leaves in the row: untouched unless the attribute changed.
Flushed(row, view, new) ==
  [status       |-> IF new.status = view.status THEN row.status ELSE new.status,
   issued_count |-> IF new.issued_count = view.issued_count
                      THEN row.issued_count ELSE new.issued_count,
   merkle_root  |-> IF new.merkle_root = view.merkle_root
                      THEN row.merkle_root ELSE new.merkle_root]

\* The response is sent, or an exception closes the session: either way the
\* transaction is over and the handler is free for another request.
Finish(w) ==
  /\ session' = [session EXCEPT ![w] = Idle]
  /\ lock' = Released(w)

Rollback(w) == Finish(w) /\ UNCHANGED tables

\* The number of outbox rows, not told apart from MaxEvents on.
Enqueued(n) == IF n < MaxEvents THEN n + 1 ELSE n

-----------------------------------------------------------------------------
(* The route: an unlocked SELECT, 404 when there is no row *)

MayStart(w, b) ==
  /\ session[w].phase = "idle"
  /\ Exclusive => \A v \in Workers : session[v].batch # b

Loaded(b, op, n, toCompletion) ==
  [phase |-> "loaded", op |-> op, batch |-> b, view |-> batches[b],
   chunk |-> n, loop |-> toCompletion, base |-> 0, index |-> 0]

Load(w, op, b) ==
  /\ op # "issue"
  /\ MayStart(w, b)
  /\ (op = "create") <=> (batches[b].status = "ABSENT")
  /\ session' = [session EXCEPT ![w] = Loaded(b, op, 0, FALSE)]
  /\ UNCHANGED <<tables, lock>>

LoadForIssue(w, b, n, toCompletion) ==
  /\ MayStart(w, b)
  /\ batches[b].status # "ABSENT"
  /\ session' = [session EXCEPT ![w] = Loaded(b, "issue", n, toCompletion)]
  /\ UNCHANGED <<tables, lock>>

(* create_batch: look for an existing row, then insert *)

ReturnExisting(w) ==
  LET b == session[w].batch IN
  /\ At(w, "loaded", "create")
  /\ batches[b].status # "ABSENT"
  /\ Finish(w)
  /\ UNCHANGED tables

FindNone(w) ==
  /\ At(w, "loaded", "create")
  /\ batches[session[w].batch].status = "ABSENT"
  /\ session' = [session EXCEPT ![w].phase = "absent"]
  /\ UNCHANGED <<tables, lock>>

\* The unique key on assessment_id turns the loser of a race into an error.  The
\* refusals of an assessment without lines or stamps are left out: Quantity is
\* positive, and a refused call changes nothing.
InsertBatch(w) ==
  LET b == session[w].batch IN
  /\ At(w, "absent", "create")
  /\ IF batches[b].status = "ABSENT"
       THEN batches' = [batches EXCEPT ![b].status = "PENDING"]
       ELSE UNCHANGED batches
  /\ Finish(w)
  /\ UNCHANGED <<stamps, serial_counters, inspections, outbox>>

(* SELECT ... FOR UPDATE, common to every operation on an existing batch.    *)
(* The view is NOT refreshed: the object is already in the identity map.     *)
LockBatch(w) ==
  LET k == BatchLock(session[w].batch) IN
  /\ session[w].phase = "loaded" /\ session[w].op # "create"
  /\ Free(w, k)
  /\ lock' = [lock EXCEPT ![k] = w]
  /\ session' = [session EXCEPT ![w].phase = "locked"]
  /\ UNCHANGED tables

(* issue_chunk *)

Issuable(b, row) == row.status \in {"PENDING", "ISSUING"} /\ row.issued_count < Quantity[b]

\* min(chunk_size, remaining)
Size_Unclipped(s) == s.chunk
Size(s) ==
  LET remaining == Quantity[s.batch] - s.view.issued_count
  IN  IF s.chunk <= remaining THEN s.chunk ELSE remaining

\* Nothing to issue: returns 0 and ends the request.  A batch that is still
\* PENDING or ISSUING with nothing remaining would be marked ISSUED here.
NothingToIssue(w) ==
  LET s == session[w]
      done == [s.view EXCEPT !.status = IF @ \in {"PENDING", "ISSUING"} THEN "ISSUED" ELSE @]
  IN
  /\ At(w, "locked", "issue")
  /\ ~Issuable(s.batch, s.view)
  /\ batches' = [batches EXCEPT ![s.batch] = Flushed(@, s.view, done)]
  /\ Finish(w)
  /\ UNCHANGED <<stamps, serial_counters, inspections, outbox>>

\* INSERT ... ON CONFLICT DO UPDATE ... RETURNING: the counter row is locked
\* and its last committed value read in one statement.
ClaimSerialBlock_ReadFirst(w) ==
  /\ At(w, "locked", "issue")
  /\ Issuable(session[w].batch, session[w].view)
  /\ session' = [session EXCEPT ![w].phase = "claimed",
                                ![w].base = serial_counters[CounterOf[session[w].batch]]]
  /\ UNCHANGED <<tables, lock>>
ClaimSerialBlock_OwnTransaction(w) ==
  LET s == session[w]
      k == CounterLock(s.batch)
  IN
  /\ At(w, "locked", "issue")
  /\ Issuable(s.batch, s.view)
  /\ Free(w, k)
  /\ serial_counters' = [serial_counters EXCEPT ![CounterOf[s.batch]] = @ + Size(s)]
  /\ session' = [session EXCEPT ![w].phase = "claimed",
                                ![w].base = serial_counters[CounterOf[s.batch]]]
  /\ UNCHANGED <<batches, stamps, inspections, outbox, lock>>
ClaimSerialBlock(w) ==
  LET s == session[w]
      k == CounterLock(s.batch)
  IN
  /\ At(w, "locked", "issue")
  /\ Issuable(s.batch, s.view)
  /\ Free(w, k)
  /\ lock' = [lock EXCEPT ![k] = w]
  /\ session' = [session EXCEPT ![w].phase = "claimed",
                                ![w].base = serial_counters[CounterOf[s.batch]]]
  /\ UNCHANGED tables

\* allocate_index: max(status_list_index) + 1 under the advisory lock, once per
\* stamp of the chunk.  No room for one of them fails the whole chunk.
NextIndex == IF stamps = {} THEN 0 ELSE (CHOOSE i \in Indexes : \A j \in Indexes : j <= i) + 1

AllocateIndexes_Unlocked(w) ==
  /\ At(w, "claimed", "issue")
  /\ NextIndex + Size(session[w]) <= ListBits
  /\ session' = [session EXCEPT ![w].phase = "allocated", ![w].index = NextIndex]
  /\ UNCHANGED <<tables, lock>>
AllocateIndexes(w) ==
  /\ At(w, "claimed", "issue")
  /\ Free(w, ListLock)
  /\ NextIndex + Size(session[w]) <= ListBits
  /\ lock' = [lock EXCEPT ![ListLock] = w]
  /\ session' = [session EXCEPT ![w].phase = "allocated", ![w].index = NextIndex]
  /\ UNCHANGED tables

ListExhausted(w) ==
  /\ At(w, "claimed", "issue")
  /\ Free(w, ListLock)
  /\ NextIndex + Size(session[w]) > ListBits
  /\ Rollback(w)

\* The stamps, the cursor and the counter commit together.  A request that runs
\* to completion goes on with the same session, and so with the view it wrote.
Minted(s) ==
  {[batch |-> s.batch, sequence |-> s.base + i, index |-> s.index + i, status |-> "ISSUED"] :
     i \in 0..(Size(s) - 1)}

Advanced_ByRequest(s) ==
  LET n == s.view.issued_count + Size(s) IN
  [s.view EXCEPT !.issued_count = IF s.chunk <= Quantity[s.batch] THEN s.chunk ELSE n,
                 !.status = IF n < Quantity[s.batch] THEN "ISSUING" ELSE "ISSUED"]
Advanced(s) ==
  LET n == s.view.issued_count + Size(s) IN
  [s.view EXCEPT !.issued_count = n,
                 !.status = IF n < Quantity[s.batch] THEN "ISSUING" ELSE "ISSUED"]

CommitChunk(w) ==
  LET s == session[w] IN
  /\ At(w, "allocated", "issue")
  /\ stamps' = stamps \cup Minted(s)
  /\ serial_counters' = [serial_counters EXCEPT ![CounterOf[s.batch]] = s.base + Size(s)]
  /\ batches' = [batches EXCEPT ![s.batch] = Flushed(@, s.view, Advanced(s))]
  /\ lock' = Released(w)
  /\ session' = [session EXCEPT ![w] =
       IF s.loop THEN [s EXCEPT !.phase = "loaded", !.view = Advanced(s), !.base = 0, !.index = 0]
                 ELSE Idle]
  /\ UNCHANGED <<inspections, outbox>>

(* finalize_batch *)

Finalizable_WhileIssuing(row) == row.status \in {"ISSUING", "ISSUED"}
Finalizable_Again(row) == row.status \in {"ISSUED", "READY"}
Finalizable(row) == row.status = "ISSUED"

Finalize(w) ==
  LET s == session[w]
      sealed == [s.view EXCEPT !.status = "READY",
                               !.merkle_root = {t.sequence : t \in StampsOf(s.batch)}]
  IN
  /\ At(w, "locked", "finalize")
  /\ Finalizable(s.view)
  /\ batches' = [batches EXCEPT ![s.batch] = Flushed(@, s.view, sealed)]
  /\ outbox' = [outbox EXCEPT ![s.batch].issued = Enqueued(@)]
  /\ Finish(w)
  /\ UNCHANGED <<stamps, serial_counters, inspections>>

(* record_inspection: the sampling plan decides PASS or FAIL from the number  *)
(* of defectives reported; both are possible for every lot size               *)

Inspectable(row) == row.status \in {"READY", "ACTIVE"}

Inspected_NoFailure(row, result) == row
Inspected(row, result) == IF result = "FAIL" THEN [row EXCEPT !.status = "INSPECTION_FAILED"] ELSE row

RecordInspection(w, result) ==
  LET s == session[w] IN
  /\ At(w, "locked", "inspect")
  /\ Inspectable(s.view)
  /\ inspections' = [inspections EXCEPT ![s.batch] = @ \cup {result}]
  /\ batches' = [batches EXCEPT ![s.batch] = Flushed(@, s.view, Inspected(s.view, result))]
  /\ Finish(w)
  /\ UNCHANGED <<stamps, serial_counters, outbox>>

(* activate_batch: the inspections are read afresh, the batch is not         *)

Activatable_Uninspected(b, row) == row.status = "READY"
Activatable(b, row) == row.status = "READY" /\ "PASS" \in inspections[b]

\* UPDATE stamps SET status = 'ACTIVE' WHERE batch_id = :bid AND status = 'ISSUED'
Activate(w) ==
  LET s == session[w] IN
  /\ At(w, "locked", "activate")
  /\ Activatable(s.batch, s.view)
  /\ stamps' = {IF t.batch = s.batch THEN [t EXCEPT !.status = "ACTIVE"] ELSE t : t \in stamps}
  /\ batches' = [batches EXCEPT ![s.batch] = Flushed(@, s.view, [s.view EXCEPT !.status = "ACTIVE"])]
  /\ outbox' = [outbox EXCEPT ![s.batch].activated = Enqueued(@)]
  /\ Finish(w)
  /\ UNCHANGED <<serial_counters, inspections>>

\* IssuanceError: the handler answers 422 and the transaction is rolled back.
Refuse(w) ==
  LET s == session[w] IN
  /\ s.phase = "locked"
  /\ \/ s.op = "finalize" /\ ~Finalizable(s.view)
     \/ s.op = "inspect"   \* wrong status, or more defectives than the sample holds
     \/ s.op = "activate" /\ ~Activatable(s.batch, s.view)
  /\ Rollback(w)

\* A lost connection, a failed statement, a killed process: PostgreSQL rolls
\* back.  What a request committed in earlier chunks stays.
Crash(w) ==
  /\ session[w].phase # "idle"
  /\ Rollback(w)

-----------------------------------------------------------------------------
Start(w) ==
  \E b \in Batches :
    \/ \E op \in Ops : Load(w, op, b)
    \/ \E n \in ChunkSizes, toCompletion \in BOOLEAN : LoadForIssue(w, b, n, toCompletion)

Proceed(w) ==
  \/ ReturnExisting(w) \/ FindNone(w) \/ InsertBatch(w)
  \/ LockBatch(w)
  \/ NothingToIssue(w) \/ ClaimSerialBlock(w) \/ AllocateIndexes(w) \/ ListExhausted(w)
  \/ CommitChunk(w)
  \/ Finalize(w)
  \/ \E result \in {"PASS", "FAIL"} : RecordInspection(w, result)
  \/ Activate(w)
  \/ Refuse(w)

Next == \E w \in Workers : Start(w) \/ Proceed(w) \/ Crash(w)

Spec == Init /\ [][Next]_vars

\* PostgreSQL grants a lock in the order of the requests for it, so a handler
\* that waits is not overtaken for ever (strong fairness); nothing forces a
\* client to call or a process to crash.
Fairness == \A w \in Workers : SF_vars(Proceed(w))
FairSpec == Spec /\ Fairness

-----------------------------------------------------------------------------
(* Properties *)

Session ==
  [phase: Phases, op: Ops, batch: Batches \cup {NoBatch}, view: BatchRow,
   chunk: ChunkSizes \cup {0}, loop: BOOLEAN, base: Nat, index: Nat]

\* Every table, session and lock keeps its shape; the cursor stays within the
\* CHECK constraint ck_batch_issued (issued_count <= quantity).
TypeOK ==
  /\ batches \in [Batches -> BatchRow]
  /\ stamps \subseteq Stamp
  /\ serial_counters \in [Counters -> Nat]
  /\ inspections \in [Batches -> SUBSET {"PASS", "FAIL"}]
  /\ outbox \in [Batches -> [issued: 0..MaxEvents, activated: 0..MaxEvents]]
  /\ session \in [Workers -> Session]
  /\ lock \in [LockKeys -> Workers \cup {NoWorker}]
  /\ \A b \in Batches : batches[b].issued_count <= Quantity[b]

\* Concurrent issuers never receive overlapping blocks: two stamps never share
\* a serial (counter and sequence) nor a status-list index, so the unique
\* constraints of the stamps table never fire (_claim_serial_block,
\* allocate_index).
NoStampTwice ==
  \A s, t \in stamps :
    \/ (CounterOf[s.batch] = CounterOf[t.batch] /\ s.sequence = t.sequence)
    \/ s.index = t.index
    => s = t

\* A crash mid-chunk leaves the counter consistent with the stamps inserted:
\* the serials of a counter are exactly those below it, with no gap.
CounterMatchesStamps ==
  \A c \in Counters : SequencesOf(c) = 0..(serial_counters[c] - 1)

\* No stamp goes live in a lot without a recorded passing inspection, however
\* the requests on the batch overlap (activate_batch).  A later inspection that
\* fails the lot is another matter: an activation that waited for it, with READY
\* in its view, still puts the lot live, whatever record_inspection promises.
ActiveOnlyAfterPass ==
  \A s \in stamps : s.status = "ACTIVE" => "PASS" \in inspections[s.batch]

\* However requests interleave and crash, a chunk is minted in one atomic step
\* out of the next free serials and list indexes (issue_chunk).
Ledger == INSTANCE SerialLedger WITH
  MaxBlock <- CHOOSE n \in ChunkSizes : \A m \in ChunkSizes : m <= n,
  Capacity <- ListBits,
  ledger <- {[counter |-> CounterOf[s.batch], sequence |-> s.sequence, index |-> s.index] :
               s \in stamps}
MintsAreAtomic == Ledger!Spec

\* A batch never exceeds the paid quantity (module docstring of issuance.py).
NeverExceedsPaidQuantity ==
  \A b \in Batches : Cardinality(StampsOf(b)) <= Quantity[b]

\* issued_count is the durable cursor: it counts the stamps of the batch.
CursorCountsStamps ==
  \A b \in Batches : batches[b].issued_count = Cardinality(StampsOf(b))

\* Once finalized, a batch is complete and its Merkle root commits to exactly
\* its stamps, whatever happens to the batch afterwards (finalize_batch).
RootCoversStamps ==
  \A b \in Batches :
    batches[b].status \in {"READY", "ACTIVE", "INSPECTION_FAILED"} =>
      /\ Cardinality(StampsOf(b)) = Quantity[b]
      /\ batches[b].merkle_root = {s.sequence : s \in StampsOf(b)}

\* The outbox holds one stamps.issued.v1 for a sealed batch and one
\* stamps.activated.v1 for a lot that went live, and none for any other.
OneEventPerTransition ==
  \A b \in Batches :
    /\ outbox[b].issued =
         IF batches[b].status \in {"READY", "ACTIVE", "INSPECTION_FAILED"} THEN 1 ELSE 0
    /\ outbox[b].activated =
         IF \E s \in StampsOf(b) : s.status = "ACTIVE" THEN 1 ELSE 0

\* Without overlapping requests the batch goes through the abstract lifecycle.
Lifecycle == INSTANCE BatchLifecycle WITH
  status <- [b \in Batches |-> batches[b].status],
  minted <- [b \in Batches |-> Cardinality(StampsOf(b))],
  inspected <- inspections,
  live   <- [b \in Batches |-> Cardinality({s \in StampsOf(b) : s.status = "ACTIVE"})]
FollowsLifecycle == Lifecycle!Spec

\* Every request ends: no set of handlers waits for each other's batch, counter
\* and advisory locks, and a run to completion stops (issue_batch).
RequestsFinish ==
  \A w \in Workers : session[w].phase # "idle" ~> session[w].phase = "idle"

=============================================================================
