----------------------------- MODULE Settlement -----------------------------
(***************************************************************************)
(* From an assessment to a settled duty: services/assessments.py,           *)
(* services/payments.py and services/journal.py, driven by routes_flow.py.  *)
(*                                                                         *)
(* A decision loads the assessment for the first time under its row lock    *)
(* (SELECT ... FOR UPDATE) and everything it reads and writes is guarded by *)
(* that lock: it is one step.  Payments are different.  A Handler first     *)
(* loads the assessment or the intent without a lock (the route); the       *)
(* service then works on that object: the later SELECT ... FOR UPDATE of    *)
(* the intent returns the object already loaded, with the values of the     *)
(* first load ("view").  From the last read on a transaction is one step    *)
(* with its COMMIT, because nobody sees its writes before.                  *)
(*                                                                         *)
(* Calls that are refused (403, 404, 422, 503) change nothing and are left  *)
(* out where they also read nothing that is used later; audit records are   *)
(* left out.  The lines of an assessment and its intake belong to the       *)
(* declaration side; here an assessment appears with its total duty.        *)
(***************************************************************************)
EXTENDS Naturals, FiniteSets

CONSTANTS
  Assessments,        \* assessments that may be submitted
  NoAssessment,       \* the assessment of an idle handler; payment_intent_id NULL
  Principals,         \* subjects of the officers
  Nobody,             \* submitted_by of an assessment that does not exist yet
  Handlers,           \* concurrent payment requests
  References,         \* external references of the rail's remittances
  NoReference,        \* the reference of an idle handler
  Currencies,         \* currencies a remittance may carry
  NGN,                \* the currency of every intent
  Duty,               \* total_duty_kobo of each assessment
  Amounts,            \* amounts a remittance may carry
  LowThreshold,       \* LOW_THRESHOLD_KOBO
  StandardThreshold,  \* STANDARD_THRESHOLD_KOBO
  OneRemittance       \* TRUE: the rail reports the remittances of an intent one after the
                      \* other (it may still repeat one, even with another amount)

ASSUME IdentityAssumption ==
  /\ NoAssessment \notin Assessments /\ Nobody \notin Principals
  /\ NoReference \notin References /\ NGN \in Currencies
ASSUME AmountAssumption == Duty \in [Assessments -> Nat] /\ Amounts \subseteq Nat
ASSUME TierAssumption ==
  LowThreshold \in Nat /\ StandardThreshold \in Nat /\ LowThreshold < StandardThreshold
ASSUME RailAssumption == OneRemittance \in BOOLEAN

VARIABLES
  assessments,  \* status and submitted_by
  approvals,    \* one row per assessment and deciding principal
  intents,      \* status of the payment intent of each assessment (assessment_id is unique)
  receipts,     \* payment_receipts by external_reference (unique)
  journals,     \* journals and their ledger entries, by reference (unique)
  outbox,       \* number of stamps.approved.v1 per assessment
  session       \* what each handler has read and where it is

tables == <<assessments, approvals, intents, receipts, journals, outbox>>
vars == <<assessments, approvals, intents, receipts, journals, outbox, session>>

-----------------------------------------------------------------------------
(* Rows *)

\* "ABSENT": no row yet.  CANCELLED and ISSUED are declared and assigned by no code.
AssessmentStatuses ==
  {"ABSENT", "PENDING_APPROVAL", "REJECTED", "APPROVED", "PAYMENT_PENDING", "PAID", "ISSUING"}
AssessmentRow == [status: AssessmentStatuses, submitted_by: Principals \cup {Nobody}]

Approval == [assessment: Assessments, principal: Principals, decision: {"APPROVE", "REJECT"}, level: Nat]

\* FAILED is declared and assigned by no code.
IntentStatuses == {"ABSENT", "PENDING", "SETTLED"}

Receipt == [intent: Assessments \cup {NoAssessment}, amount: Nat, currency: Currencies,
            status: {"ABSENT", "APPLIED", "QUARANTINED"}]
NoReceipt == [intent |-> NoAssessment, amount |-> 0, currency |-> NGN, status |-> "ABSENT"]

Leg == [account: {"assets:financial-controls-clearing", "revenue:excise-duty-payable"},
        debit: Nat, credit: Nat]

Remittance == [reference: References, amount: Amounts, currency: Currencies]
NoRemittance == [reference |-> NoReference, amount |-> 0, currency |-> NGN]

Idle == [phase |-> "idle", op |-> "intent", assessment |-> NoAssessment, view |-> "ABSENT",
         remittance |-> NoRemittance]

Init ==
  /\ assessments = [a \in Assessments |-> [status |-> "ABSENT", submitted_by |-> Nobody]]
  /\ approvals = {}
  /\ intents = [a \in Assessments |-> "ABSENT"]
  /\ receipts = [x \in References |-> NoReceipt]
  /\ journals = [x \in References |-> {}]
  /\ outbox = [a \in Assessments |-> 0]
  /\ session = [h \in Handlers |-> Idle]

At(h, phase, op) == session[h].phase = phase /\ session[h].op = op

\* The answer is sent, or an exception closes the session.
Finish(h) == session' = [session EXCEPT ![h] = Idle]
Rollback(h) == Finish(h) /\ UNCHANGED tables

-----------------------------------------------------------------------------
(* Assessments *)

\* risk_tier_for: the number of approvals the total duty demands.
ApprovalsRequired(a) ==
  IF Duty[a] >= StandardThreshold THEN 3 ELSE IF Duty[a] >= LowThreshold THEN 2 ELSE 1

Submit(p, a) ==
  /\ assessments[a].status = "ABSENT"
  /\ assessments' = [assessments EXCEPT ![a] = [status |-> "PENDING_APPROVAL", submitted_by |-> p]]
  /\ UNCHANGED <<approvals, intents, receipts, journals, outbox, session>>

DecisionsOn(a) == {d \in approvals : d.assessment = a}

MayDecide_Self(p, a) ==
  /\ assessments[a].status = "PENDING_APPROVAL"
  /\ \A d \in DecisionsOn(a) : d.principal # p
MayDecide(p, a) ==
  /\ assessments[a].status = "PENDING_APPROVAL"
  /\ p # assessments[a].submitted_by
  /\ \A d \in DecisionsOn(a) : d.principal # p

\* The status the assessment has after n approvals, the one being recorded included.
Decided_BeforeFlush(a, n) == IF n > ApprovalsRequired(a) THEN "APPROVED" ELSE "PENDING_APPROVAL"
Decided(a, n) == IF n >= ApprovalsRequired(a) THEN "APPROVED" ELSE "PENDING_APPROVAL"

Decide(p, a, decision) ==
  LET row == [assessment |-> a, principal |-> p, decision |-> decision,
              level |-> Cardinality(DecisionsOn(a)) + 1]
      approved == {d \in DecisionsOn(a) \cup {row} : d.decision = "APPROVE"}
      status == IF decision = "REJECT" THEN "REJECTED" ELSE Decided(a, Cardinality(approved))
  IN
  /\ MayDecide(p, a)
  /\ approvals' = approvals \cup {row}
  /\ assessments' = [assessments EXCEPT ![a].status = status]
  /\ outbox' = [outbox EXCEPT ![a] = IF status = "APPROVED" THEN @ + 1 ELSE @]
  /\ UNCHANGED <<intents, receipts, journals, session>>

-----------------------------------------------------------------------------
(* create_intent *)

LoadAssessment(h, a) ==
  /\ session[h].phase = "idle"
  /\ assessments[a].status # "ABSENT"
  /\ session' = [session EXCEPT ![h] =
       [Idle EXCEPT !.phase = "loaded", !.assessment = a, !.view = assessments[a].status]]
  /\ UNCHANGED tables

Callable_AnyStatus(view) == TRUE
Callable(view) == view = "APPROVED"

\* Refused (not APPROVED as loaded), or the existing intent is returned.
ReturnIntent(h) ==
  LET s == session[h] IN
  /\ At(h, "loaded", "intent")
  /\ Callable(s.view) => intents[s.assessment] # "ABSENT"
  /\ Rollback(h)

FindNoIntent(h) ==
  LET s == session[h] IN
  /\ At(h, "loaded", "intent")
  /\ Callable(s.view)
  /\ intents[s.assessment] = "ABSENT"
  /\ session' = [session EXCEPT ![h].phase = "absent"]
  /\ UNCHANGED tables

\* CHECK ck_intent_amount: an intent over nothing cannot be stored.
Payable_ZeroToo(a) == TRUE
Payable(a) == Duty[a] > 0

\* The unique key on assessment_id and the CHECK make the insert fail (500).
InsertIntent(h) ==
  LET a == session[h].assessment IN
  /\ At(h, "absent", "intent")
  /\ IF intents[a] = "ABSENT" /\ Payable(a)
       THEN /\ intents' = [intents EXCEPT ![a] = "PENDING"]
            /\ assessments' = [assessments EXCEPT ![a].status = "PAYMENT_PENDING"]
       ELSE UNCHANGED <<intents, assessments>>
  /\ Finish(h)
  /\ UNCHANGED <<approvals, receipts, journals, outbox>>

-----------------------------------------------------------------------------
(* record_receipt *)

LoadIntent(h, a, r) ==
  /\ session[h].phase = "idle"
  /\ intents[a] # "ABSENT"
  /\ OneRemittance => \A g \in Handlers :
       session[g].op = "receipt" /\ session[g].assessment = a
         => session[g].remittance.reference = r.reference
  /\ session' = [session EXCEPT ![h] =
       [phase |-> "loaded", op |-> "receipt", assessment |-> a, view |-> intents[a],
        remittance |-> r]]
  /\ UNCHANGED tables

Known(x) == receipts[x].status # "ABSENT"

\* A replayed reference: the stored receipt is returned, whatever was sent.
ReturnReceipt(h) ==
  /\ At(h, "loaded", "receipt")
  /\ Known(session[h].remittance.reference)
  /\ Rollback(h)

FindNoReceipt(h) ==
  /\ At(h, "loaded", "receipt")
  /\ ~Known(session[h].remittance.reference)
  /\ session' = [session EXCEPT ![h].phase = "absent"]
  /\ UNCHANGED tables

\* The reference may have been stored meanwhile: its unique key fails the insert.
Storable_Upsert(x) == TRUE
Storable(x) == ~Known(x)

ReceiptCollides(h) ==
  /\ At(h, "absent", "receipt")
  /\ ~Storable(session[h].remittance.reference)
  /\ Rollback(h)

Exact_AmountOnly(a, r) == r.amount = Duty[a]
Exact(a, r) == r.amount = Duty[a] /\ r.currency = NGN

Applicable_Again(s) == Exact(s.assessment, s.remittance)
Applicable(s) == s.view # "SETTLED" /\ Exact(s.assessment, s.remittance)

Stored(r, a, status) ==
  [receipts EXCEPT ![r.reference] =
     [intent |-> a, amount |-> r.amount, currency |-> r.currency, status |-> status]]

\* The intent is already settled as loaded, or the remittance does not match.
Quarantine(h) ==
  LET s == session[h] IN
  /\ At(h, "absent", "receipt")
  /\ Storable(s.remittance.reference)
  /\ ~Applicable(s)
  /\ receipts' = Stored(s.remittance, NoAssessment, "QUARANTINED")
  /\ Finish(h)
  /\ UNCHANGED <<assessments, approvals, intents, journals, outbox>>

\* post_journal: two legs of the same amount.
Posted(amount) ==
  {[account |-> "assets:financial-controls-clearing", debit |-> amount, credit |-> 0],
   [account |-> "revenue:excise-duty-payable", debit |-> 0, credit |-> amount]}

\* The assessment is loaded here for the first time and marked PAID.  References are short
\* enough for the journal's, which puts a prefix before them in a column of the same width.
Apply(h) ==
  LET s == session[h] IN
  /\ At(h, "absent", "receipt")
  /\ Storable(s.remittance.reference)
  /\ Applicable(s)
  /\ receipts' = Stored(s.remittance, s.assessment, "APPLIED")
  /\ intents' = [intents EXCEPT ![s.assessment] = "SETTLED"]
  /\ assessments' = [assessments EXCEPT ![s.assessment].status = "PAID"]
  /\ journals' = [journals EXCEPT ![s.remittance.reference] = Posted(s.remittance.amount)]
  /\ Finish(h)
  /\ UNCHANGED <<approvals, outbox>>

-----------------------------------------------------------------------------
\* create_batch (module Issuance) takes over a paid assessment.
StartIssuing(a) ==
  /\ assessments[a].status = "PAID"
  /\ assessments' = [assessments EXCEPT ![a].status = "ISSUING"]
  /\ UNCHANGED <<approvals, intents, receipts, journals, outbox, session>>

\* The connection or the process dies: PostgreSQL rolls back.
Crash(h) ==
  /\ session[h].phase # "idle"
  /\ Rollback(h)

Officer ==
  \E a \in Assessments :
    \/ \E p \in Principals : Submit(p, a) \/ \E d \in {"APPROVE", "REJECT"} : Decide(p, a, d)
    \/ StartIssuing(a)

Pay(h) ==
  \/ \E a \in Assessments : LoadAssessment(h, a) \/ \E r \in Remittance : LoadIntent(h, a, r)
  \/ ReturnIntent(h) \/ FindNoIntent(h) \/ InsertIntent(h)
  \/ ReturnReceipt(h) \/ FindNoReceipt(h) \/ ReceiptCollides(h) \/ Quarantine(h) \/ Apply(h)
  \/ Crash(h)

Next == Officer \/ \E h \in Handlers : Pay(h)

Spec == Init /\ [][Next]_vars

-----------------------------------------------------------------------------
(* Properties *)

Session ==
  [phase: {"idle", "loaded", "absent"}, op: {"intent", "receipt"},
   assessment: Assessments \cup {NoAssessment}, view: AssessmentStatuses \cup IntentStatuses,
   remittance: Remittance \cup {NoRemittance}]

Sealed == {"APPROVED", "PAYMENT_PENDING", "PAID", "ISSUING"}
Applied(a) == {x \in References : receipts[x].status = "APPLIED" /\ receipts[x].intent = a}

\* Every table and session keeps its shape and every stored intent has an
\* amount to pay (CHECK ck_intent_amount).
TypeOK ==
  /\ assessments \in [Assessments -> AssessmentRow]
  /\ approvals \subseteq Approval
  /\ intents \in [Assessments -> IntentStatuses]
  /\ receipts \in [References -> Receipt]
  /\ journals \in [References -> SUBSET Leg]
  /\ outbox \in [Assessments -> Nat]
  /\ session \in [Handlers -> Session]
  /\ \A a \in Assessments : intents[a] # "ABSENT" => Duty[a] > 0

\* Maker and checker are different people, and a checker counts once, at a
\* level of his own (record_decision, unique key uq_approval_principal).
MakerIsNotChecker ==
  \A c, d \in approvals :
    /\ c.principal # assessments[c.assessment].submitted_by
    /\ c.assessment = d.assessment /\ (c.principal = d.principal \/ c.level = d.level) => c = d

Count(a, decision) == Cardinality({d \in DecisionsOn(a) : d.decision = decision})

\* The approvals on record decide the status exactly: the tier's number of
\* approvals and no rejection once approved and ever after, fewer while
\* pending, one rejection at the end of a rejected one; and one
\* stamps.approved.v1 was enqueued exactly for an approved one.
StatusFollowsDecisions ==
  \A a \in Assessments :
    LET status == assessments[a].status IN
    /\ status \in Sealed <=> Count(a, "APPROVE") >= ApprovalsRequired(a)
    /\ Count(a, "APPROVE") <= ApprovalsRequired(a)
    /\ Count(a, "REJECT") = (IF status = "REJECTED" THEN 1 ELSE 0)
    /\ outbox[a] = (IF status \in Sealed THEN 1 ELSE 0)

\* A duty counts as paid exactly when a remittance of exactly that duty, in
\* naira, was applied to its intent, and then the intent is settled; a
\* mismatch never is (record_receipt).
PaidByExactReceipt ==
  \A a \in Assessments :
    /\ assessments[a].status \in {"PAID", "ISSUING"} <=> intents[a] = "SETTLED"
    /\ intents[a] = "SETTLED" <=> Applied(a) # {}
    /\ \A x \in Applied(a) : receipts[x].amount = Duty[a] /\ receipts[x].currency = NGN

\* The books agree with the receipts: an applied one has a journal whose
\* debits equal its credits and its amount, any other one has none
\* (post_journal, deferred trigger of migration 0001).
BooksMatchReceipts ==
  \A x \in References :
    IF receipts[x].status = "APPLIED"
      THEN /\ {l.debit : l \in journals[x]} = {0, receipts[x].amount}
           /\ {l.credit : l \in journals[x]} = {0, receipts[x].amount}
      ELSE journals[x] = {}

\* Funds are never double-applied: one receipt at most is applied to an intent
\* (comment in record_receipt).
AppliedOnce == \A a \in Assessments : Cardinality(Applied(a)) <= 1

\* However decisions, intents, receipts and crashes interleave, an obligation
\* goes through the abstract lifecycle and never back.
Lifecycle == INSTANCE Obligation WITH
  Required <- [a \in Assessments |-> ApprovalsRequired(a)],
  status <- [a \in Assessments |-> assessments[a].status],
  maker <- [a \in Assessments |-> assessments[a].submitted_by],
  checkers <- [a \in Assessments |-> {d.principal : d \in {e \in DecisionsOn(a) : e.decision = "APPROVE"}}],
  settled <- [a \in Assessments |-> Cardinality(Applied(a))]
FollowsLifecycle == Lifecycle!Spec

=============================================================================
