----------------------------- MODULE Messaging -----------------------------
(***************************************************************************)
(* From the declaration topic to the stamps.assessed topic: Intake commits  *)
(* its messages to the outbox table in the transaction of the assessment,   *)
(* Outbox drains the table.  The table is all they share.                   *)
(***************************************************************************)
EXTENDS Intake

CONSTANTS Publishers, BatchSize, MaxRestarts
ASSUME PublisherAssumption == BatchSize \in Nat \ {0} /\ MaxRestarts \in Nat

VARIABLES published, held, sent, broker, restarts

Drain == INSTANCE Outbox

publishing == <<published, held, sent, broker, restarts>>

MInit == Init /\ Drain!InitPublishers

MNext ==
  \/ Next /\ UNCHANGED publishing
  \/ \E p \in Publishers :
       /\ Drain!PublisherStep(p)
       /\ UNCHANGED <<kafka, declarations, processed, assessments, idempotency, audit,
                      session, auditLock, failures>>

MSpec == MInit /\ [][MNext]_<<vars, publishing>> /\ Drain!PublisherFairness

\* The same system when the intake goes on as well.
IntakeSpec == MSpec /\ Fairness

CopiesNeedRestarts == Drain!CopiesNeedRestarts

\* The transactional outbox (services/outbox.py, "never silently dropped"; publish_once:
\* published_at is set only after the broker acknowledges).  What a submission enqueued is
\* in the broker in the end, and marked as published once.
EverySubmissionPublished ==
  \A i \in 1..Cardinality(Calls) : i \in DOMAIN outbox ~> Drain!PublishedOnce(i)
=============================================================================
