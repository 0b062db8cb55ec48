------------------------------- MODULE Intake -------------------------------
(***************************************************************************)
(* How declarations and assessments come in: the Kafka consumer             *)
(* (events/consumer.py), the two intake routes of api/routes_flow.py with   *)
(* their idempotency records (api/deps.py), and the hash-chained audit log  *)
(* (services/audit.py) every one of these transactions ends in.             *)
(*                                                                         *)
(* A transaction first runs its SELECTs, one by one, then waits for the     *)
(* advisory lock of the audit chain and reads the last hash, and last       *)
(* flushes and commits.  The unit of work writes declarations, processed    *)
(* events and idempotency records when audit.record or a later call         *)
(* flushes, so under that lock; only the assessment is flushed before it.   *)
(* What is written under the lock is one step with the COMMIT, because      *)
(* nobody sees it before and every writer of it needs the lock.             *)
(*                                                                         *)
(* The topic has one partition.  Its log, the consumer group and the        *)
(* group's committed offset are Kafka's, as the client library shows them.  *)
(* Line items and duties are left out (Settlement has the duties); a hash   *)
(* is the number of the audit record it belongs to.                         *)
(***************************************************************************)
EXTENDS Naturals, Sequences, FiniteSets

CONSTANTS
  Consumers,      \* processes of the consumer group
  Topic,          \* what producers write to the partition, in this order
  FirstOffset,    \* the group's committed offset at the start, or NoOffset
  NoOffset,       \* the group has not committed on this partition
  Calls,          \* intake calls of the API, retries included
  Call,           \* what each call asks: [op, by, key, ref]
  NoKey,          \* a call without Idempotency-Key
  StampBearing,   \* references of declarations with a stamp-bearing line
  Nobody,         \* no actor, no consumer
  MaxFailures     \* bound on crashes and rebalances

Actors == Consumers \cup Calls
Refs == {Topic[i].ref : i \in DOMAIN Topic} \cup {Call[q].ref : q \in Calls}

ASSUME ActorAssumption ==
  Consumers \cap Calls = {} /\ Nobody \notin Actors /\ MaxFailures \in Nat
ASSUME TopicAssumption ==
  /\ Len(Topic) \in Nat /\ DOMAIN Topic = 1..Len(Topic)
  /\ \A i \in DOMAIN Topic : DOMAIN Topic[i] = {"event", "ref", "accepted"}
  /\ NoOffset \notin 0..Len(Topic) /\ FirstOffset \in {0, NoOffset}
ASSUME CallAssumption ==
  \A q \in Calls : DOMAIN Call[q] = {"op", "by", "key", "ref"} /\ Call[q].op \in {"declare", "assess"}

VARIABLES
  produced,      \* length of the partition's log
  committed,     \* the group's committed offset
  owner,         \* the consumer the partition is assigned to
  position,      \* where the owner reads next
  declarations,  \* declaration_ref and source_event_id
  processed,     \* processed_events
  assessments,   \* idempotency_key, declaration and submitter
  idempotency,   \* idempotency_records
  audit,         \* audit_events by id: prev_hash and the payload
  outbox,        \* stamps.assessed.v1 messages
  session,       \* where each actor is and what it has read
  auditLock,     \* holder of the advisory lock
  failures       \* crashes and rebalances so far

kafka == <<produced, committed, owner, position>>
tables == <<declarations, processed, assessments, idempotency, audit, outbox>>
vars == <<kafka, tables, session, auditLock, failures>>

-----------------------------------------------------------------------------
(* What the transactions write *)

\* envelope eventId of a consumed declaration; "api:{subject}:{ref}" of a declared one.
Source(a) ==
  IF a \in Consumers THEN Topic[session[a].at].event ELSE <<"api", Call[a].by, Call[a].ref>>

RefOf(a) == IF a \in Consumers THEN Topic[session[a].at].ref ELSE Call[a].ref
Declares(a) == IF a \in Calls THEN Call[a].op = "declare" ELSE TRUE

\* idem_key or f"auto:{identity.subject}:{declaration.id}"
AssessmentKey(q) ==
  IF Call[q].key = NoKey THEN <<"auto", Call[q].by, Call[q].ref>> ELSE Call[q].key

DeclarationOf(a) == [ref |-> RefOf(a), source |-> Source(a)]
AssessmentOf(q) == [key |-> AssessmentKey(q), ref |-> Call[q].ref, by |-> Call[q].by]
Body(q) == [op |-> Call[q].op, ref |-> Call[q].ref]
RecordOf(q) == [key |-> Call[q].key, by |-> Call[q].by, body |-> Body(q)]

AuditRecord(a) ==
  [prev |-> session[a].prev,
   type |-> IF Declares(a) THEN "declaration.received" ELSE "assessment.created",
   subject |-> IF Declares(a) THEN Source(a) ELSE AssessmentKey(a),
   ref |-> RefOf(a)]

Message(q) == [assessment |-> AssessmentKey(q), ref |-> Call[q].ref]

\* at: number of the message a consumer handles; pending: its assessment row is flushed.
Idle == [pc |-> "idle", at |-> 0, prev |-> 0, pending |-> FALSE]
Answered == [pc |-> "done", at |-> 0, prev |-> 0, pending |-> FALSE]
PCs == {"idle", "select", "insert", "lock", "write", "offset", "done"}
Goto(a, pc) == session' = [session EXCEPT ![a].pc = pc]

Init ==
  /\ produced = 0 /\ committed = FirstOffset /\ owner = Nobody /\ position = 0
  /\ declarations = {} /\ processed = {} /\ assessments = {} /\ idempotency = {}
  /\ audit = <<>> /\ outbox = <<>>
  /\ session = [a \in Actors |-> Idle]
  /\ auditLock = Nobody /\ failures = 0

-----------------------------------------------------------------------------
(* The broker *)

Produce ==
  /\ produced < Len(Topic) /\ produced' = produced + 1
  /\ UNCHANGED <<committed, owner, position, tables, session, auditLock, failures>>

\* A (re)started consumer goes to the committed offset.  Without one, the client's default
\* auto_offset_reset is "latest": it starts at the end of the log.
StartingAt == IF committed = NoOffset THEN produced ELSE committed

Assigned(c) == owner' = c /\ position' = StartingAt

Join(c) ==
  /\ owner = Nobody
  /\ Assigned(c)
  /\ UNCHANGED <<produced, committed, tables, session, auditLock, failures>>

\* The group moves the partition while either consumer may still be handling a message.
Rebalance(c) ==
  /\ owner \notin {Nobody, c}
  /\ failures < MaxFailures /\ failures' = failures + 1
  /\ Assigned(c)
  /\ UNCHANGED <<produced, committed, tables, session, auditLock>>

-----------------------------------------------------------------------------
(* The consumer's SELECT *)

Rejected(i) == ~Topic[i].accepted
Duplicate(i) == Topic[i].event \in processed

\* verify_envelope and the checks raise EnvelopeError, ValueError or KeyError and the loop
\* goes on to the offset; so it does when the event was applied before.
Fetch(c) ==
  /\ owner = c /\ session[c].pc = "idle" /\ position < produced
  /\ position' = position + 1
  /\ LET i == position + 1 IN
       session' = [session EXCEPT ![c] =
         [pc |-> IF Rejected(i) \/ Duplicate(i) THEN "offset" ELSE "lock",
          at |-> i, prev |-> 0, pending |-> FALSE]]
  /\ UNCHANGED <<produced, committed, owner, tables, auditLock, failures>>

CommitOffset_AfterRebalance(c) ==
  /\ session[c].pc = "offset"
  /\ committed' = position
  /\ session' = [session EXCEPT ![c] = Idle]
  /\ UNCHANGED <<produced, owner, position, tables, auditLock, failures>>

\* consumer.commit() commits the positions of the partitions the consumer has now: nothing
\* when it lost this one meanwhile.
CommitOffset(c) ==
  /\ session[c].pc = "offset"
  /\ committed' = IF owner = c THEN position ELSE committed
  /\ session' = [session EXCEPT ![c] = Idle]
  /\ UNCHANGED <<produced, owner, position, tables, auditLock, failures>>

-----------------------------------------------------------------------------
(* The SELECTs of the API *)

\* The stored record of the same key and principal, if there is one: its answer for the
\* same body, 409 for another one.
Stored(q) == {r \in idempotency : Call[q].key # NoKey /\ r.key = Call[q].key /\ r.by = Call[q].by}

Lookup(q) ==
  /\ session[q].pc = "idle"
  /\ Goto(q, IF Stored(q) = {} THEN "select" ELSE "done")
  /\ UNCHANGED <<kafka, tables, auditLock, failures>>

DeclaredRefs == {d.ref : d \in declarations}
AssessedKeys == {s.key : s \in assessments}

\* 409 when the reference is already declared.
SelectDeclaration(q) ==
  /\ session[q].pc = "select" /\ Call[q].op = "declare"
  /\ Goto(q, IF Call[q].ref \in DeclaredRefs THEN "done" ELSE "lock")
  /\ UNCHANGED <<kafka, tables, auditLock, failures>>

\* 404 without the declaration; the assessment of this key if there is one, whoever
\* submitted it; 422 when no line is stamp-bearing; else a new one.
SelectAssessment(q) ==
  /\ session[q].pc = "select" /\ Call[q].op = "assess"
  /\ Goto(q, CASE Call[q].ref \notin DeclaredRefs -> "done"
               [] Call[q].ref \in DeclaredRefs /\ AssessmentKey(q) \in AssessedKeys -> "lock"
               [] OTHER -> IF Call[q].ref \in StampBearing THEN "insert" ELSE "done")
  /\ UNCHANGED <<kafka, tables, auditLock, failures>>

KeyFree_OnceSelected(q) ==
  \A o \in Calls \ {q} : session[o].pc = "insert" \/ session[o].pending => AssessmentKey(o) # AssessmentKey(q)
KeyFree(q) == \A o \in Calls : session[o].pending => AssessmentKey(o) # AssessmentKey(q)

\* The flush of create_assessment waits for an uncommitted row of the same key and fails
\* on a committed one (HTTP 500, rollback).
FlushAssessment(q) ==
  /\ session[q].pc = "insert"
  /\ KeyFree(q)
  /\ session' = [session EXCEPT ![q] =
       IF AssessmentKey(q) \in AssessedKeys THEN Answered
       ELSE [pc |-> "lock", at |-> 0, prev |-> 0, pending |-> TRUE]]
  /\ UNCHANGED <<kafka, tables, auditLock, failures>>

-----------------------------------------------------------------------------
(* The audit chain and the COMMIT *)

Free_Unlocked == TRUE
Free == auditLock = Nobody

\* pg_advisory_xact_lock, then the last hash.
LockAudit(a) ==
  /\ session[a].pc = "lock" /\ Free
  /\ auditLock' = a
  /\ session' = [session EXCEPT ![a].pc = "write", ![a].prev = Len(audit)]
  /\ UNCHANGED <<kafka, tables, failures>>

Collides_NoRecordKey(a) ==
  \/ Declares(a) /\ \E d \in declarations : d.ref = RefOf(a) \/ d.source = Source(a)
  \/ a \in Consumers /\ Source(a) \in processed

\* A unique key is taken: declaration_ref, source_event_id, processed event_id, or the
\* primary key (key, principal) of the idempotency record.
Collides(a) ==
  \/ Declares(a) /\ \E d \in declarations : d.ref = RefOf(a) \/ d.source = Source(a)
  \/ a \in Consumers /\ Source(a) \in processed
  \/ a \in Calls /\ Stored(a) # {}

\* The rows of the transaction become visible and the lock is released.
Write(a) ==
  /\ session[a].pc = "write" /\ ~Collides(a)
  /\ declarations' = IF Declares(a) THEN declarations \cup {DeclarationOf(a)} ELSE declarations
  /\ processed' = IF a \in Consumers THEN processed \cup {Source(a)} ELSE processed
  /\ assessments' = IF session[a].pending THEN assessments \cup {AssessmentOf(a)} ELSE assessments
  /\ outbox' = IF Declares(a) THEN outbox ELSE Append(outbox, Message(a))
  /\ idempotency' = IF a \in Calls /\ Call[a].key # NoKey
                    THEN idempotency \cup {RecordOf(a)} ELSE idempotency
  /\ audit' = Append(audit, AuditRecord(a))
  /\ session' = [session EXCEPT ![a] =
       IF a \in Consumers THEN [@ EXCEPT !.pc = "offset"] ELSE Answered]
  /\ auditLock' = IF auditLock = a THEN Nobody ELSE auditLock
  /\ UNCHANGED <<kafka, failures>>

RolledBack_KeepsLock(a) ==
  /\ session' = [session EXCEPT ![a] = IF a \in Consumers THEN Idle ELSE Answered]
  /\ owner' = IF owner = a THEN Nobody ELSE owner
  /\ UNCHANGED <<produced, committed, position, tables, auditLock>>

\* A transaction ends without a commit.  A consumer's process ends with it and its partition
\* is free; a call is answered with an error or not at all.
RolledBack(a) ==
  /\ session' = [session EXCEPT ![a] = IF a \in Consumers THEN Idle ELSE Answered]
  /\ auditLock' = IF auditLock = a THEN Nobody ELSE auditLock
  /\ owner' = IF owner = a THEN Nobody ELSE owner
  /\ UNCHANGED <<produced, committed, position, tables>>

\* IntegrityError: the loop of the consumer does not catch it.
WriteFails(a) ==
  /\ session[a].pc = "write" /\ Collides(a)
  /\ RolledBack(a)
  /\ UNCHANGED failures

\* A crash between any two steps; before the offset is committed it has the same effect.
Crash(a) ==
  /\ session[a].pc \notin {"idle", "done"}
  /\ failures < MaxFailures /\ failures' = failures + 1
  /\ RolledBack(a)

ConsumerStep(c) == Join(c) \/ Rebalance(c) \/ Fetch(c) \/ CommitOffset(c)
CallStep(q) == Lookup(q) \/ SelectDeclaration(q) \/ SelectAssessment(q) \/ FlushAssessment(q)
WriterStep(a) == LockAudit(a) \/ Write(a) \/ WriteFails(a) \/ Crash(a)

Next ==
  \/ Produce
  \/ \E c \in Consumers : ConsumerStep(c)
  \/ \E q \in Calls : CallStep(q)
  \/ \E a \in Actors : WriterStep(a)

\* A client need not call and a producer need not produce; a call that was taken up and a
\* consumer that runs go on, and the orchestrator restarts a consumer that ended.
Fairness ==
  /\ WF_vars(Produce)
  /\ \A c \in Consumers : WF_vars(Join(c)) /\ WF_vars(Fetch(c)) /\ WF_vars(CommitOffset(c))
  /\ \A q \in Calls : WF_vars(session[q].pc # "idle" /\ CallStep(q))
  /\ \A a \in Actors : SF_vars(LockAudit(a)) /\ WF_vars(Write(a) \/ WriteFails(a))

Spec == Init /\ [][Next]_vars

-----------------------------------------------------------------------------
(* Properties *)

\* Types, and the advisory lock is held exactly by the transaction that read the last hash.
TypeOK ==
  /\ produced \in 0..Len(Topic) /\ committed \in 0..Len(Topic) \cup {NoOffset}
  /\ position \in 0..produced /\ owner \in Consumers \cup {Nobody}
  /\ DeclaredRefs \subseteq Refs /\ failures \in 0..MaxFailures
  /\ \A s \in assessments : s.ref \in StampBearing
  /\ \A a \in Actors : session[a].pc \in PCs /\ (session[a].pc = "write" <=> auditLock = a)

\* services/audit.py: concurrent writers never fork the chain.  Every record carries the
\* hash of the one before it.
ChainNeverForks == \A i \in DOMAIN audit : audit[i].prev = i - 1

Receipts(d) ==
  {i \in DOMAIN audit : /\ audit[i].type = "declaration.received"
                        /\ audit[i].ref = d.ref /\ audit[i].subject = d.source}

\* events/consumer.py: the offset is committed only after the database commit.  Every
\* accepted message below the offset was applied, across crashes and rebalances.
OffsetBehindDatabase ==
  committed # NoOffset => \A i \in 1..committed : Topic[i].accepted => Topic[i].event \in processed

ClientKeys == {Call[q].key : q \in Calls} \ {NoKey}
MessagesOf(k) == {i \in DOMAIN outbox : outbox[i].assessment = k}

DeclaredOnce ==
  /\ Cardinality(declarations) = Cardinality(DeclaredRefs)
  /\ \A d \in declarations : Cardinality(Receipts(d)) = 1
  /\ \A i \in DOMAIN Topic :
       Topic[i].event \in processed <=> \E d \in declarations : d.source = Topic[i].event

AssessedOnce(k) ==
  /\ Cardinality(MessagesOf(k))
       = Cardinality({i \in DOMAIN audit : audit[i].type = "assessment.created" /\ audit[i].subject = k})
  /\ Cardinality(MessagesOf(k)) = Cardinality({s \in assessments : s.key = k})
  /\ Cardinality(MessagesOf(k)) <= 1

\* README "Idempotency records" and "deduped on eventId": a reference is declared once, by the bus or by
\* the API, with exactly one audit record, and an event is marked as processed exactly when
\* its declaration is stored; a submission repeated with its key, at once or later, leaves
\* one assessment, one audit record and one message.
OneEffectPerKey == DeclaredOnce /\ \A k \in ClientKeys : AssessedOnce(k)

\* create_assessment: "Compute the assessment from declaration line items".  The assessment
\* a stamps.assessed.v1 message names is one of the declaration it names.
MessagesAreTrue ==
  \A i \in DOMAIN outbox :
    \E s \in assessments : s.key = outbox[i].assessment /\ s.ref = outbox[i].ref

\* A call that was taken up ends: nobody waits for ever for an uncommitted key or for the
\* audit lock, also when the holder fails.
CallsFinish == \A q \in Calls : session[q].pc # "idle" ~> session[q].pc = "done"

\* The comment in consume_forever: poison messages must not stall the partition.
NoMessageStalls == \A i \in DOMAIN Topic : <>(committed # NoOffset /\ committed >= i)
=============================================================================
