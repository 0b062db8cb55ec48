# A TLA+ model of blueeconomy-tax-stamps

The service issues excise tax stamps (signed credentials with a serial and an
index in published status lists) for paid customs assessments, and verifies them
in the field. It is a FastAPI process over PostgreSQL, with a Kafka consumer and
an outbox publisher beside it. Several API processes and many requests run at
once; everything that must survive is in PostgreSQL. Paths below are relative
to `src/src/taxstamps/` unless they say otherwise.

## 1. Inventory

| Part | State | Operations | What makes it hard | What makes it correct |
|---|---|---|---|---|
| Stamp issuance (`services/issuance.py`, `api/routes_stamps.py`) | `stamp_batches`, `stamps`, `serial_counters`, `inspections` | create, issue (chunk or run to completion), finalize, inspect, activate | overlapping requests on one batch, an unlocked read before the lock, a session that keeps what it read, crashes between chunks | unique gapless serials, the paid quantity, one lifecycle per lot, nothing live without a passed inspection |
| Verification and voiding (`services/verification.py`, `api/routes_verify.py`, void route) | `stamps` (status, first scan), `verifications` | scan, public scan, void | device races, void against scan, rolled-back verdicts | first scan wins, evidence never changes, VOID is final, every attempt recorded |
| Status lists (`services/statuslists.py`) | `status_list_snapshots` (purpose, version) | allocate index, set flag, read newest | publishers read, compute and insert without a lock on the list | no false flag, no lost flag |
| Assessments (`services/assessments.py`, `api/routes_flow.py`) | `assessments`, `assessment_lines`, `approvals` | create, decide | concurrent approvers, repeated calls | no self-approval, the tier's number of distinct approvers |
| Payments and journal (`services/payments.py`, `services/journal.py`) | `payment_intents`, `payment_receipts`, `journals`, `ledger_entries` | create intent, record receipt | replayed and concurrent receipts, partial settlement | exact match, applied once, balanced journal |
| Outbox (`services/outbox.py`, `events/outbox_publisher.py`) | `outbox_messages` | enqueue, publish a batch | crash between acknowledgement and commit, several publishers | nothing lost, at least once |
| Declarations consumer (`events/consumer.py`) | `declarations`, `processed_events`, the Kafka offset | apply, commit the offset | redelivery, poison messages | applied once, the partition advances |
| Audit chain (`services/audit.py`) | `audit_events` | append, verify | concurrent appends, crashes | the chain never forks |
| Idempotency records (`api/deps.py`) | `idempotency_records` | look up, store | concurrent replays | one effect per key |
| Redis guard (`services/redis_guard.py`, `api/routes_verify.py`) | Redis: nonce keys, counters | claim a nonce, count a call | commands and tables share no transaction, answers get lost, keys expire | a nonce is used once in its life, the count of a window is exact, no answer means no scan |
| Serial numbers (`domain/serials.py`) | none | build, parse, check | arithmetic modulo 34 | no usual copying slip is a valid serial |
| Sampling (`domain/quality.py`), tariff (`domain/tariff.py`, `domain/money.py`) | none | plan for a lot, rate of a day, duty of a line | boundaries of tables, dates and rounding | every lot can pass and fail, one rate a day, the nearest kobo |
| Commitments (`domain/merkle.py`, `services/audit.py`) and list bytes (`crypto/statuslist.py`) | bytes | root, chain, bits | odd levels, byte boundaries, bit order | a root or chain fits one content only, a bit is its stamp's |
| Signed documents (`crypto/eddsa.py`, `crypto/vc.py`, `events/envelope.py`) | none | sign, verify, gate a credential | the signed content travels beside the checked one | accepted is what was signed, whole |
| Policy (`api/pbac.py`, `policies/`) | none | allow | rules add up, wildcards | duties stay segregated |
| Admission (`api/auth.py`, `api/schemas.py`), canonicalization (`crypto/jcs.py`) | none | authenticate, validate | none that is a protocol | a refused call changes nothing |

The parts interact through the database only. A request holds one session and
one transaction at a time (several, one after the other, for a run to
completion); a domain change, its outbox rows and its audit record commit
together. Issuance waits for a PAID assessment, verification for an activated
lot, the publisher drains what the services enqueue.

## 2. Modules

| Module | What it is |
|---|---|
| `Issuance` | the whole of stamp issuance: one action per statement group that other transactions can observe |
| `SerialLedger` | abstract: a block of serials and indexes is minted in one atomic step |
| `BatchLifecycle` | abstract: the life of a lot when its requests do not overlap |
| `MCIssuance` | the constants of its runs |
| `IssuanceProofs` | the theorems about serials, indexes and views in `Issuance` |
| `BatchProofs` | the theorems about its lots: `SerialLedger`, `BatchLifecycle` and what a cursor, a root and the events say |
| `Verification` | scans, voids and the publication of status lists |
| `Field` | the Redis guard in front of the scans: EXTENDS `Verification` and refuses or admits its calls |
| `StampLifecycle` | abstract: the life of one stamp |
| `MCField`, `MCVerification` | the constants of their runs |
| `VerificationProofs`, `FieldProofs` | the theorems about `Verification` and, on top of them, about `Field` |
| `Settlement` | decisions on an assessment, its payment intent, receipts and the settlement journal |
| `Obligation` | abstract: the life of one duty obligation |
| `MCSettlement` | the constants of its runs |
| `SettlementProofs` | the theorems about `Settlement` |
| `Intake` | the declarations consumer, the two intake routes, idempotency records and the audit chain |
| `IntakeProofs` | the theorems about `Intake` |
| `Outbox` | the publishers that drain `outbox_messages` to the broker |
| `Messaging` | `Intake` and `Outbox` together; the outbox table is all they share |
| `MCMessaging` | the constants of its runs |
| `MessagingProofs` | the theorems about the publishers and the composition |
| `Numerals` | two loops over a sequence that gather a number: the value of a row of digits, and a running total |
| `Serials`, `StatusBits`, `Commitments`, `Sampling`, `Tariff`, `Signatures`, `Access` | the algorithms of the last rows of the inventory, one module each, as operators |
| `Domain` | their cases, as states, and what each algorithm is for, as an invariant |
| `MCDomain` | the inputs of its run |
| `DomainProofs` | the theorems about `Domain` and its algorithms |

### How state and steps correspond to the code

*Transactions.* Uncommitted writes are invisible to other transactions and vanish
with a rollback. So the statements of a transaction that nobody can observe are
one step with its COMMIT, and only what other transactions can notice is kept
apart: reads, lock waits and waits for a unique key. A handler's place and what it
has read are in `session` (issuance) or `req` (verification). `Crash` is a lost
connection, a killed process or any unexpected exception: the transaction is
rolled back, what it committed before stays.

*The identity map.* In issuance the route loads the batch without a lock
(`routes_stamps.py:69`) and the service then locks the same row with
`SELECT ... FOR UPDATE` (`issuance.py:131`). SQLAlchemy returns the object that is
already loaded and leaves its attributes alone (there is no `populate_existing`),
and the sessions never expire objects (`db.py:24`). The model keeps that object as
`session[w].view`: guards and computations use the view, and `Flushed` writes the
columns whose value differs from it, as the unit of work does. In verification the
first load of the stamp is the locking one, so there is no view. The same holds for a
decision in `Settlement`; a receipt is like issuance: the route loads the intent
(`routes_flow.py:262`), `record_receipt` locks it later (`payments.py:92`) and works
on the values of the first load, the `view` of `LoadIntent`.

*Locks.* `lock` maps batch rows, counter rows and the status-list advisory lock to
their owner; `Free` is the wait, `Released` happens on COMMIT and ROLLBACK only. The
counter row is locked by `INSERT ... ON CONFLICT DO UPDATE ... RETURNING`. In
`Verification` a stamp's row is held exactly while a request publishes a flag
(`Unlocked`), and two snapshots with the same key meet at the primary key
(`KeyPending`, `Insertable`).

*Reads, then one lock.* An intake transaction runs its SELECTs one by one (`Fetch`,
`Lookup`, `SelectDeclaration`, `SelectAssessment`), then `audit.record` takes the
advisory lock and reads the last hash (`LockAudit`), and what is left of the
transaction is one step (`Write`, or `WriteFails` when a unique key is taken). That step
is sound because every writer of these tables writes under the audit lock: the unit of
work keeps its INSERTs until the flush inside `audit.record`, and raw SQL does not
trigger a flush. The one row written before is an assessment (the explicit flush at
`assessments.py:122`): `FlushAssessment` leaves it pending, and another submission with
its key waits (`KeyFree`). A hash is the number of its record, so that a fork is visible
as a wrong `prev`.

*Kafka.* The topic has one partition and a log that producers extend. The group assigns
the partition to one consumer, which reads from the committed offset; `Rebalance` moves
it while the old owner may still be working, and the commit of a consumer that lost the
partition changes nothing. The consumer's loop catches rejected envelopes and goes on
to the offset; an IntegrityError ends the process, which is restarted (`WriteFails`,
`Join`). A group without a committed offset starts at the end of the log (`StartingAt`,
the client's default). Publishers lock a batch with SKIP LOCKED, send row by row and
commit at the end; `Restart` is a crash or a failed send anywhere in between.

*Redis.* A command is one atomic step. A call counts against its limit (`Count`), a
device's call then claims its nonce (`Claim`), an admitted call enters the database part
(`Enter`, which is `StartScan` of `Verification`). Only the guard reads the clock, so the
clock moves with its commands, to any later minute; a key whose life is over may be gone
or not yet. A lost answer is a command that was executed or not, and a call that is
refused with 503 either way. Nothing undoes a claim when the scan behind it fails.

*Algorithms.* `Domain` starts in a case: a serial, a list, a lot, a consignment, an
envelope with a signature, a credential with lists, a set of roles, a series of leaves or
audit records. The list is written bit by bit; the others do not move. The invariants
compare the translated algorithm with what it is for. Hashes and signatures are ideal: a
hash is the term of its input, a signature the record of its key and message. Constants
whose values go beyond TLC's integers are constants of the module (the end of the last
row of the lot table, the tier thresholds).

*Data.* A serial is a counter and a sequence, a Merkle root the set of sequences
below it, a status list the set of stamps whose bit is set, a credential credible
or not (which is what `OnlyTheSignedIsAccepted` says of the gate). An inspection passes or fails nondeterministically: every sampling plan
allows both. A batch exists from the moment its assessment leaves PAID, so status
`ABSENT` also stands for the paid assessment. In `Settlement` an assessment is
submitted with its total duty, thresholds and amounts are small numbers, and the
journal of a receipt is the set of its two legs. Statuses the schema declares and no
code assigns (COMPLETED and VOID batches, EXPIRED stamps, ISSUED and CANCELLED
assessments, FAILED intents) are not in the models.

## 3. Runs

| Run | Question | Instance |
|---|---|---|
| `issuance_concurrent` | What holds whatever overlaps? `TypeOK`, `NoStampTwice`, `CounterMatchesStamps`, `ActiveOnlyAfterPass`; does every request end (`RequestsFinish`)? | 2 handlers, 2 lots (of 2 and 1 stamps) on one counter, chunks of 1 and 2, a status list of 2 indexes |
| `issuance_exclusive` | What holds when no two requests on one lot overlap (`Exclusive = TRUE`)? `CursorCountsStamps`, `RootCoversStamps`, `OneEventPerTransition`; `MintsAreAtomic`: issuance implements `SerialLedger`; `FollowsLifecycle`: it implements `BatchLifecycle` | the same, each lot on a counter of its own, so that issuers meet at the advisory lock only, and a list of 3 indexes |
| `over_issue` (violation) | Is the paid quantity ever exceeded? | 1 lot of 2 stamps |
| `verification` | Scans behind the guard, and voids: `FieldTypeOK`, `FirstScanWins`, `FlagsAreTrue`, `EveryFlagHasItsVersion`, `EventsMatchStamps` (the velocity verdict included), `NeverStuck`, `NonceIsSingleUse`, `RateIsExact`, and `FollowsLifecycle`: verification implements `StampLifecycle` | 3 calls, 2 stamps, 2 devices and the public, 1 nonce, a limit of 2, nonces that live one minute, 2 minutes, 1 lost answer, a velocity threshold of 2 devices |
| `voided_not_flagged` (violation) | Is every voided stamp flagged in the newest list? | 2 requests |
| `settlement` | `TypeOK` (with the CHECK on the intent's amount), `MakerIsNotChecker`, `StatusFollowsDecisions`, `PaidByExactReceipt`, `BooksMatchReceipts`, `AppliedOnce`, and `FollowsLifecycle`: settlement implements `Obligation` | 2 payment handlers, 3 officers, 2 assessments (middle tier, zero-rated), 2 references, 2 amounts, 2 currencies; the remittances of an intent reported one after the other |
| `double_applied` (violation) | Is a second remittance ever applied? | 2 handlers, 1 assessment, 2 references, any overlap |
| `messaging` | `TypeOK`, `ChainNeverForks`, `OffsetBehindDatabase`, `OneEffectPerKey` (one declaration of a reference, one assessment of a key, one message and record of each), `CopiesNeedRestarts` | 2 consumers, a forged and an accepted event, 4 calls (a declaration of the same reference, a submission, its retry, one without a key), 2 publishers with batches of 2, 1 crash or rebalance, 1 crash of a publisher |
| `messaging_drain` | Is what was enqueued published, and but once without a crash (`EverySubmissionPublished`), does every call end (`CallsFinish`)? | 1 consumer, 1 event, 3 submissions, 2 publishers, 1 crash of a publisher |
| `poison_stalls` (violation) | Does every message pass? | 1 consumer, 3 events, the second for the reference of the first |
| `shared_key` (violation) | Does a message name an assessment of its declaration? | 2 officers, 2 declarations, 1 Idempotency-Key |
| `domain` | `SlipsAreRejected`, `BytesHoldTheFlags`, `CommitmentsBind`, `EveryLotCanBeJudged`, `PricedByTheRateOfTheDay`, `OnlyTheSignedIsAccepted`, `DutiesAreSegregated` | every case of `MCDomain`, 130 000 initial states |

*Bounds.* `ListBits` stands for the 131072 indexes of a list and is small enough to
be exhausted. Two handlers are enough for every overlap of two operations, and a
third adds only another waiter. Two lots share a counter, which is the case where
claims interleave; lots on different counters interact through the advisory lock
only, which is the instance of `issuance_exclusive`. Quantities of 2 and 1 with
chunks of 1 and 2 give the clipped chunk, the chunk that completes, the chunk in the
middle and the empty call. With the paid quantity exceeded (overlaps allowed) the
list bound also bounds the stamps. A list of 2 indexes lets the chunk that finds it full wait in every place. `MaxEvents` saturates the count of outbox rows: 2
is told apart from 1, which is all `OneEventPerTransition` needs. `Requests` bounds
the calls of a behaviour in `Verification`: three allow a winner, a clone and a
void, or two colliding publishers with a scan beside them; a stamp that is scanned,
cloned and voided twice needs no more than these in pairs. In `Field` three calls with one
nonce are a first use, a repeat within its life and one after it, by one device or two; a
limit of 2 is passed by the third; one lost answer suffices for a nonce that is spent
without its owner's knowledge. `Domain` takes both ends of every row of the lot table and
the arrow's sample +- 1, both ends of each effective date and the days beside the changes,
declarations of one and two lines (`MaxLines`),
amounts that round down, up and from the half, HS codes of every heading with and without
a rate, written plainly, with dots, hyphens, spaces and with a digit of another script, the smallest and largest years, sequences up to 2^31 - 1 (TLC's integers; the code
goes on to 10^10 - 1) with every one-character slip, twin slip and exchange of neighbours,
16 bits in two bytes with up to three set, series of up to five leaves or records over two
contents, all sets of roles, every signature of two keys under three kids over well-formed
and malformed envelopes. Tier thresholds are small so that consignments reach them. In `Settlement` three
officers are a submitter and the two approvers of the middle tier, so that a
submitter who approves himself, a first and a deciding approval and a late rejection
all occur; the amounts are the duty and a wrong one, also in the wrong currency.
`OneRemittance` restricts the rail, not the service: distinct remittances of one
intent are not reported at the same time, while a report may still be repeated at
any time, so two handlers race with one reference. In `Messaging`, `MaxFailures` and
`MaxRestarts` bound crashes: one crash or rebalance already gives a redelivery while the
first delivery is uncommitted, applied, or at its offset; the forged event comes first so
that a late commit of a lost partition would pass an event still in hand. The calls of a
run are all there are: a retry is a call of its own with the same key. Two rows of the
outbox fill a batch, so a crash can fall between its messages. Handlers, requests, stamps and
devices are interchangeable, so the safety runs use symmetry; runs with a liveness property do
not.

*Fairness.* `issuance_concurrent` assumes strong fairness of each handler's own steps:
PostgreSQL queues lock requests, so a waiting handler is not overtaken for ever.
`messaging_drain` assumes weak fairness of a publisher's poll, sends and commit (the loop
of `publish_forever`), weak fairness of a call that was taken up and of a consumer's
steps, and strong fairness for the advisory lock, again because PostgreSQL queues its
waiters; crashes are bounded, so a publisher is not interrupted for ever. `poison_stalls`
assumes the same, restart of the consumer included, so the stall is no artefact of a
consumer that stops. `Verification` and `Field` need no fairness: a request takes a bounded number
of statements, so `NeverStuck` (some request in progress can take its next statement,
without anyone crashing, and nothing but the two waits can keep one from it) is what its end depends on, and a safety run can check it with
three requests. No client is obliged to call, no
officer to activate and no process to crash: starting and crashing are not fair.
`Verification` ends when its `Requests` calls are over (`Terminated`).

### What the violations say

* `over_issue`. Two overlapping `issue` requests load the batch before either locks
  it. The second waits, gets the lock with its stale `issued_count`, claims a new
  serial block and mints again; its flush sets the same cursor value, so the CHECK
  constraint sees nothing. `issuance.py:3` promises the paid quantity is never
  exceeded. With `Exclusive` the cursor counts the stamps (`CursorCountsStamps`).
  The same stale view has two more effects, in the same instance. *A failed lot goes live*:
  of a lot with one passed inspection, an activation loads the READY row, waits for a second
  inspection, which fails the lot, and then works on READY: every stamp goes ACTIVE and so
  does the lot, although `issuance.py:279` and the repository's `README.md:43` say that a
  failed lot can never be activated. `ActiveOnlyAfterPass` does not see this: a passed
  inspection is on record, only not the last one. *A sealed lot grows*: an issue request
  that loaded the batch before another one completed it, and got the lock after it was
  finalized, mints once more and sets READY back to ISSUING or ISSUED; the root that
  stamps.issued.v1 announced does not commit to these stamps, and the lot can be finalized and
  announced again. Without overlap neither happens (`FollowsLifecycle`, `RootCoversStamps`,
  `OneEventPerTransition`); no listed run shows them, as `over_issue` stands for the cause.
* `voided_not_flagged`. Two voids overlap: the first reads the list, the second
  publishes, the first reads the next version number and publishes its older list
  over it. The second stamp is VOID in its row and unflagged in the list, against
  `verification.py:267`.

* `double_applied`. The rail reports two remittances of one intent at the same time.
  Both requests load the PENDING intent; the second waits for the row lock, but its
  object still says PENDING, so it is applied as well: two APPLIED receipts and two
  journals for one duty, against `payments.py:98-99`. The assessment is set to PAID
  again even if its batch has already been created.
* `poison_stalls`. A second event with a new eventId and a reference that is already
  declared passes the checks and violates the unique key. `consume_forever` does not
  catch that error: the process ends before the offset is committed, and meets the same
  message after every restart. The comment at `consumer.py:135-138` says poison messages
  must not stall the partition.
* `shared_key`. `create_assessment` looks an assessment up by its idempotency key alone,
  while idempotency records are per principal. A second officer who uses the same key for
  another declaration is answered with the first one's assessment, and a
  stamps.assessed.v1 message goes out that names this assessment and his declaration.

These are statements about the code's documentation; the runs show the shortest
interleaving in each case.

## 4. Proofs

`IssuanceProofs` proves, for any sets of handlers, lots and counters, any
quantities, chunk sizes and list capacity, and with overlapping requests:

| Theorem | Statement |
|---|---|
| `TypeCorrect` | tables, sessions and locks keep their types |
| `SerialsNeverOverlap` | `Spec => []NoStampTwice` |
| `CounterConsistent` | `Spec => []CounterMatchesStamps` |
| `NeverLiveUninspected` | `Spec => []ActiveOnlyAfterPass` |
| `SerialInvariance` | `Spec => []SerialInv`, the inductive invariant the others follow from |

Neither uniqueness nor the counter's consistency is inductive: between the claim
of a block and the commit of its stamps, the base and the first index live in a
session. `SerialInv` adds what locks give meanwhile. `ClaimInv`: a handler that has
claimed holds the counter row and its base is the committed counter; one that has
allocated holds the advisory lock and its first index is the next unused one; a lock
has one owner, so no other handler is in the same position. `Dense`: the indexes in
use are an initial segment of the naturals, so the maximum plus one is unused. The
commit then extends both segments by the size of the block. TLC checked
`SerialInv` on the instance of `issuance_concurrent` before it was proved. The
assumptions are the named ASSUMEs of `Issuance`: identities are distinct, every
batch has a counter, quantities and chunk sizes are positive.

`NeverLiveUninspected` holds although the view is stale because `activate_batch`
reads the inspections after it has the lock, and inspections are never removed. It says
nothing of a lot that passed and then failed (section 3).

`BatchProofs` goes on from `SerialInv`, for the lots:

| Theorem | Statement |
|---|---|
| `ChunksAreAtomic` | `ChunksAreBounded /\ Spec => MintsAreAtomic`: issuance implements `SerialLedger`, also when requests on one lot overlap |
| `CursorIsDurable` | `NoOverlap /\ Spec => []CursorCountsStamps` |
| `PaidQuantityHolds` | `NoOverlap /\ Spec => []NeverExceedsPaidQuantity`, which `over_issue` refutes without `NoOverlap` |
| `RootIsComplete` | `NoOverlap /\ Spec => []RootCoversStamps` |
| `EventsOnce` | `NoOverlap /\ Spec => []OneEventPerTransition` |
| `LotsFollowLifecycle` | `NoOverlap /\ Spec => FollowsLifecycle`: issuance implements `BatchLifecycle` |
| `BatchInvariance` | `NoOverlap /\ Spec => []BatchInv` |

`ChunksAreBounded` says that one chunk size is the largest, as the parameter of
`SerialLedger` is the largest block; the route bounds it. A commit is then a mint: by
`ClaimInv` its base is the counter and its first index the next one, and by counting
(`CountedBy`: what numbers tell apart is as many as the numbers) the block is as long as the
chunk. `NoOverlap` is the restriction of the run `issuance_exclusive`; `over_issue` shows
that it is needed. `BatchInv` says of each lot what the requests leave: nobody else is at
work on it, so the view of the one who is equals the row it has locked, and its cursor,
stamps, root, inspections and events agree. Every action then does to its own lot what
`BatchLifecycle` allows, and nothing to another.

`VerificationProofs` proves, for any stamps, devices and requests:

| Theorem | Statement |
|---|---|
| `OneWinner` | `Spec => []FirstScanWins` |
| `NoFalseFlag` | `Spec => []FlagsAreTrue` |
| `NoFlagLost` | `Spec => []EveryFlagHasItsVersion` |
| `EventsTell` | `Spec => []EventsMatchStamps` |
| `StampsFollowLifecycle` | `Spec => FollowsLifecycle`: verification implements `StampLifecycle` |
| `NobodyWaitsForEver` | `Spec => []SomeoneCanProceed`: while a request is under way, one waits for nothing |
| `RequestsOnlyAdvance` | `Spec => [][OnlyForward]_vars`: no step takes a request back |
| `VerificationInvariance` | `Spec => []VInv` |

None of them is inductive, as a request reads a list, computes and inserts in different
steps. `VInv` adds what a request holds on to meanwhile (`RequestsSound`): a stamp that is
being flagged is locked by that request alone and not yet void; the bits it has read are
deserved, but for its own; its version is at most the next one, and it is exactly the next
one, for one request at a time, once the insert passed the primary key. A deserved flag stays deserved
(`Deserved`), so writing an old list back drops flags but never adds a false one.
`Evidence`, `Answers` and `Winners` tell the history of a stamp from the answers: the
winner's answer is what makes the evidence. `Versions` counts flags against events and
answers.

`NeverStuck` has two halves. `NobodyWaitsForEver` is the first, for any number of requests: rows
are locked before keys, so the request that is furthest on waits for no one. The second, that a
request without a wait can really take its next statement (`CanProceed(r) <=> ENABLED Proceed(r)`),
stays with TLC. With `RequestsOnlyAdvance` a request that goes on is over after six statements.

`FieldProofs` proves of the guarded scans, the specification of the run `verification`:

| Theorem | Statement |
|---|---|
| `NoncesAreSingleUse` | `FieldSpec => []NonceIsSingleUse` |
| `LimitIsExact` | `FieldSpec => []RateIsExact` |
| `FieldTypes` | `FieldSpec => []FieldTypeOK` |
| `GuardedScans` | `FieldSpec => [](FirstScanWins /\ FlagsAreTrue /\ EveryFlagHasItsVersion /\ EventsMatchStamps)` |
| `GuardedLifecycle` | `FieldSpec => FollowsLifecycle` |
| `GuardedCallsEnd` | `FieldSpec => []SomeoneCanProceed /\ [][OnlyForward]_vars` |
| `GuardInvariance` | `FieldSpec => []FieldInv` |

A step of `Field` is a step of `Verification`, the refusal of a call that has not started,
or none of it, so `VInv` survives. `NonceInv` relates keys and calls both ways: a call that
claimed has its key in Redis until the end of its life, and a key belongs to a call that
claimed it, knowingly or with a lost answer. `RateInv` places the counter of a minute
between the calls that passed and, until one is refused, all that asked. The assumption is
the named one of `Field` (a limit, a positive life, a last minute).

`SettlementProofs` proves, for any sets of officers, assessments, payment requests and
references and any duties and thresholds:

| Theorem | Statement |
|---|---|
| `SettlementTyped` | `Spec => []TypeOK`, the CHECK on the intent's amount included |
| `MakersAndCheckersDiffer` | `Spec => []MakerIsNotChecker` |
| `DecisionsDecide` | `Spec => []StatusFollowsDecisions` |
| `PaidExactly` | `Spec => []PaidByExactReceipt` |
| `BooksMatch` | `Spec => []BooksMatchReceipts` |
| `FundsAppliedOnce` | `OneRemittance /\ Spec => []AppliedOnce` |
| `ObligationsFollowLifecycle` | `OneRemittance /\ Spec => FollowsLifecycle`: settlement implements `Obligation` |

The invariant is in layers. `DecisionInv` adds to the two decision properties that the
levels in use are those up to the number of decisions, so the next one is new, and that
an assessment nobody submitted has no decisions. `SealedInv`: once approved always
approved; it needs the payment requests in progress, because one that read APPROVED will
set PAYMENT_PENDING. `MoneyInv` (`PaidByExactReceipt` and `BooksMatchReceipts`) is
inductive given the types, with overlapping receipts too. `RemittanceInv` says what a
serial rail adds: the reports under way for one intent share a reference, and one whose
view is not SETTLED carries the reference that settled the intent if any did, so its
insert collides. Without the assumption this fails, which is what `double_applied` shows.
The refinement needs all of these and `CalledInv` (an intent exists exactly when its
assessment was called for payment), together `ObligationInv`: then the first decision is an
approval or the end, the intent a step to PAYMENT_PENDING, and the second remittance that
`Obligation` forbids is excluded by `RemittanceInv`.
The assumptions on the constants are the named ASSUMEs of `Settlement`.

`IntakeProofs` proves, for any consumers, calls, events, crashes and rebalances:

| Theorem | Statement |
|---|---|
| `IntakeTyped` | `Spec => []TypeOK`: the lock is held exactly between the read of the last hash and the end |
| `AuditIsAChain` | `Spec => []ChainNeverForks` |
| `OffsetsFollowCommits` | `FirstOffset = 0` implies `Spec => []OffsetBehindDatabase` |
| `OneEffect` | `EventsApart /\ KeysApart /\ Spec => []OneEffectPerKey` |
| `MessagesNameTheirDeclaration` | `KeysApart /\ Spec => []MessagesAreTrue` |
| `IntakeInvariance` | `Spec => []IInv`, the inductive invariant |

`ChainNeverForks` needs `ChainInv`: the hash a transaction holds is still the last one,
since only the holder of the lock appends. `OffsetBehindDatabase` needs `OffsetInv`, which
looks at the position as well: all the owner of the partition was given is applied, but
for the message in its hands before its commit. A partition that moves starts again at
the committed offset, where nothing is in hand. The assumption is needed: a group that
never committed starts at the end of the log after a crash and passes what it had in hand
(hazard at `consumer.py:118`). The other assumptions are the named ASSUMEs of `Intake`.

`OneEffectPerKey` counts, so its invariant `EffectInv` does: of each declaration there is
one audit record and one source, of each key one assessment, one audit record, one message
and, once its call is answered, one record; a call that goes on to its commit without a row
of its own has found the row of its key (`WaitInv`). `EffectInv` was checked on the instance
of `messaging` first. Its hypotheses are what the code leaves to its callers. `EventsApart`:
no event id is a source that the API makes up (`api:{subject}:{ref}`). `KeysApart`: no client
key is one that the API makes up, and two officers do not choose one key. Without
`KeysApart` the run `shared_key` violates `MessagesAreTrue`; with it, the theorem says, no
message is ever false, so this is all that goes wrong there.

`MessagingProofs` proves, for any publishers, rows and restarts:

| Theorem | Statement |
|---|---|
| `IntakeIsUndisturbed` | `MSpec => Spec`: what holds of the intake holds of the composition |
| `MessagingKeepsIntake` | the theorems about `Intake` above, of the composition the runs check |
| `CopiesAreExplained` | `MSpec => []CopiesNeedRestarts` |

`PublisherInv`: a row is held by one publisher at a time and not after it is marked, and its
copies in the broker are the one that was marked or is in flight, and one at most of each
crash of a publisher that held it.

`DomainProofs` proves, for any inputs, where the run has a few:

| Theorem | Statement |
|---|---|
| `AcceptedWasSigned` | `Spec => []OnlyTheSignedIsAccepted`, for any keys, key ids, directory and contents |
| `EveryLotJudged` | `Spec => []EveryLotCanBeJudged`, for any lots of the table, not only those at the boundaries of its rows |
| `RolesAddUp` | a combination of roles may call what its members may call one by one, and nothing else |
| `DutiesSegregated` | `Spec => []DutiesAreSegregated`, whatever the roles |
| `RoundedHalfUp` | a duty is the nearest kobo, the half rounded up, for every value and rate |
| `OneRateADay` | no HS code has two candidate rates on a day, so the sort by prefix decides nothing |
| `EveryLinePriced` | `LinePriced`, what `PricedByTheRateOfTheDay` says of one line, for every HS code, date, quantity and value: one rate a day from its first on, of the category of the code, to the nearest kobo, and from June 2023 on exactly for the named headings and chapter 30 |
| `PricedByTheRate` | `Spec => []PricedByTheRateOfTheDay`, for declarations of any number of lines |
| `ListHoldsTheFlags` | `Spec => []BytesHoldTheFlags`, for a list of any size and any number of writes |
| `SlipsShiftTheSum` | the arithmetic behind `SlipsAreRejected`: a wrong character, an exchange and a twin slip change the sum modulo 34 |
| `SlipsRejected` | `Spec => []SlipsAreRejected`, for every category, year and sequence that `build_serial` takes |
| `HashesBind` | `Spec => []CommitmentsBind`, for any contents and any number of leaves and rows |

`AcceptedWasSigned` rests on ideal signatures (`Signatures`: a signature is the pair of its
key and what it signs) and follows the gates one by one: the JWS, the shape of the body, the
embedded envelope, then the credential and its statuses. `EveryLotJudged` first finds the row
of a lot (`LargerLotsFurtherDown`: a larger lot is never higher up the table), then where the
arrow leads (`PlanOfLot`: the plan accepts fewer defectives than the lot has units), and uses
that samples and acceptance numbers grow down the table. It assumes that lots are among the
sizes the table covers (`LotsAssumption`, `MaxLotAssumption`). `OneRateADay` holds because the
two rates of a prefix meet at the turn of July 2026 without overlapping, and no prefix of the
table extends another. `EveryLinePriced` adds that where a rate ends the next begins the day
after (`RatesMeet`, over the numbers that dates have, `Dates`), so that no day of a heading is
without a rate. `PricedByTheRate` sums the lines: a total is the same from either end
(`TotalReversed`), so the order of the lines decides nothing, and it is the total of all
lines but the last and a natural number more (`TotalOfFront`, `DutyIsNatural`), so the tier
only rises with further lines. It assumes that digits are numbers, days are dates and
amounts are not negative, which is what the schemas accept (`ConsignmentAssumption`).

The algorithms that loop are recursive functions over `0..n`, and what such a loop computes
takes induction. The library states induction for a predicate, which the provers cannot
instantiate; `SetInduction` states it for a set, from the well-foundedness of `<` on the
naturals, and each proof by induction names the set of numbers it holds of.
`LoopHasValues` gives a loop its values, `InBaseUnfolds` and `TotalUnfolds` what they satisfy.

* `ListHoldsTheFlags`: a byte is the number of its eight bits (`NumberOfBits`,
  `BitsOfNumber`), setting or clearing one has no carry and no borrow (`OneBit`), and no two
  indexes share a place (`Places`), so get reads what was written. For the bitstring, eight
  digits of base two are one digit of base 256, byte after byte. It assumes what
  `StatusList` checks, that the length fills its bytes (`ListSizeAssumption`).
* `SlipsRejected`: a slip changes one or two of the addends, so the sum moves by their
  difference (`TotalMoves`), which `SlipsShiftTheSum` shows is no multiple of 34. The one
  exchange the check misses is of 0 with Z: the digits hold no Z, the categories neither, and an
  exchange across a border between them breaks the pattern. Digits read back because what
  `Padded` cuts off place by place is what int() gathers again. The years and sequences
  are those `build_serial` accepts (`SerialAssumption`).
* `HashesBind` has only ideal hashes to rest on, terms that determine their input. Two
  trees over the same number of leaves have levels of the same lengths, and equal next
  levels come from equal levels, so equal roots come down to equal leaves. A chain is
  followed from its start: up to the row that is not as it was recorded every row fits the
  hash before it, and that row or its successor does not.

Only model-checked, and why:

* `RequestsFinish`, `CallsFinish`, `EverySubmissionPublished` are liveness under fairness, and
  one half of `NeverStuck` speaks of ENABLED. All other properties of the passing runs are theorems.
* `VoidedStampIsFlagged` and `NoMessageStalls` are false of the code (section 3), and no
  restriction that the code or its deployment justifies makes them true.

## 5. Not modelled, and why

Bearer authentication, device keys and schemas decide whether a call happens; a refused
call changes no table, and what they hand on, a subject with its roles, is an input of
`Access` and `Settlement`. Canonicalization (`crypto/jcs.py`), base58, compression and the
loading of keys and policy files are computations on text and files with no behaviour the
other parts can interleave with; `Signatures` assumes that canonicalization keeps different
documents apart. Configuration, boot and probes keep no state of interest. The audit record
that ends most other transactions takes one advisory lock last, as in `Intake`, and is left
out of the other modules. In `Intake` the contents of a declaration (lines, duties) are left
out, and so are messages whose shape raises an error that is neither of the three the loop
catches: they end like the colliding one. Times enter where they decide: the expiry of a
stamp (`Expire`), minutes of the guard, days of a rate. The 24 hours of the velocity window
are not: all attempts of a behaviour lie within it. No code reads the velocity verdict, so
nothing is flagged by it, although `README.md:68` of the repository says so.
The append-only triggers of the migration forbid updates no code makes.

Smaller omissions, none of which a property depends on. A lot is identified by its
assessment, which the unique key on `assessment_id` justifies, so a second lot of one
assessment cannot be stated in `Issuance`: `InsertBatch` is where the key is trusted. An
assessment without lines or stamps, for which `create_batch` refuses, is excluded by
`Quantity`. In `Field` the clock is read in the step of the INCR (`redis_guard.py:64-70`), and
Redis is configured, so public calls are counted too (`routes_verify.py:118`). The journal's
reference is the remittance's behind a prefix, in a column of the same 128 characters
(`payments.py:147`): a reference longer than the rest would fail the receipt as a whole, and
is left out. A public call without a serial (`routes_verify.py:148`) and a void of a serial
that does not exist change no table and are left out.

Three remarks on the docs. What is stamp-bearing: the repository's `README.md:17-18` says
"HS chapters 22/24 + sweetened beverages", and `category_for_hs`, which promises None for what
is not stamp-bearing (`tariff.py:129`), gives every code of the two chapters a category. The
tariff table has rates for four of their headings (2202, 2203, 2208, 2402), and
`create_assessment` goes by the rates (`assessments.py:93-95`), as the table of headings in the
same README does: a line of wine (2204) is passed over, and a declaration of nothing else is
refused as not stamp-bearing, "no line item maps to a stamp category" (`assessments.py:116`).
No service calls `category_for_hs`. `PricedByTheRateOfTheDay` states what the code does, in
both directions: it has a line of wine in its run, which has a category and no rate. The
example serial of `domain/serials.py:3` (`NG-TOB-...-7`) is
not one the module would accept, since O is not in its alphabet. And `README.md:52-53` of the
repository says that mis-transcribed serials never touch the store, but only a scan parses
the serial first: the void route and the GET route look up whatever string they are given
(`verification.py:270`, `routes_stamps.py:198`) and answer 404.

## 6. Plan

Done: 1 to 7. Each module is written to be proved about: constants with named
assumptions, one action per operation, no RECURSIVE operators.

1. `Issuance`, its abstractions and its first theorems.
2. `Verification` and `StampLifecycle`.
3. `Settlement` and `Obligation`.
4. `Messaging`: outbox publishers, the broker, the consumer and the declaration
   intake: at least once, dedupe, offsets behind commits, crash at every point, the
   poison message, replayed submissions and idempotency records.
5. `Field`: nonces, rate limits and lost answers in front of the scans.
6. `Domain`: the algorithms against what they are for, on bounded inputs.
7. `VerificationProofs`, `FieldProofs`, `BatchProofs`, `MessagingProofs`, the refinement of
   `Obligation`, one effect per key, and the algorithms: first what needs no induction, then
   the loops of serials, lists, hashes and assessments.

What could be added: that a list without room is found full before an issuer fails, what a
crash of a handler leaves of its locks, and the append-only tables as action properties of
the models that write them.
