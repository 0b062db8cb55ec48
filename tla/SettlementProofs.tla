-------------------------- MODULE SettlementProofs --------------------------
(***************************************************************************)
(* Theorems about Settlement, for any number of officers, assessments,      *)
(* payment requests and references.                                         *)
(*                                                                         *)
(* The invariant comes in parts, each inductive given the ones before:      *)
(* TypeInv (tables, sessions), DecisionInv (approvals, status, events) and  *)
(* MoneyInv (intents, receipts, journal).  RemittanceInv adds               *)
(* what a rail that reports one remittance at a time makes true, CalledInv  *)
(* when an intent exists; all of them together are ObligationInv, on which  *)
(* the refinement of Obligation rests.                                      *)
(***************************************************************************)
EXTENDS Settlement, FiniteSetTheorems, TLAPS

-----------------------------------------------------------------------------
(* Type correctness *)

\* A busy handler serves one assessment; one that works on a receipt has a
\* remittance and an intent that exists.
GoodSession(s) ==
  /\ s \in Session
  /\ s.phase # "idle" => s.assessment \in Assessments
  /\ s.op = "receipt" => s.phase # "idle" /\ s.remittance \in Remittance

HandlersOK ==
  /\ session \in [Handlers -> Session]
  /\ \A h \in Handlers :
       /\ GoodSession(session[h])
       /\ session[h].op = "receipt" => intents[session[h].assessment] # "ABSENT"

TypeInv == TypeOK /\ HandlersOK /\ IsFiniteSet(approvals)

\* A change of status leaves a well-formed table.
LEMMA StatusStep ==
  ASSUME TypeInv, NEW a \in Assessments, NEW status \in AssessmentStatuses,
         assessments' = [assessments EXCEPT ![a].status = status]
  PROVE  /\ assessments' \in [Assessments -> AssessmentRow]
         /\ assessments'[a].status = status
         /\ assessments'[a].submitted_by = assessments[a].submitted_by
         /\ \A c \in Assessments \ {a} : assessments'[c] = assessments[c]
  BY DEF TypeInv, TypeOK, AssessmentRow

\* An intent never disappears.
IntentsStay == \A a \in Assessments : intents[a] # "ABSENT" => intents'[a] # "ABSENT"

LEMMA IdleSession == GoodSession(Idle) /\ Idle.op = "intent"
  BY DEF GoodSession, Idle, Session, IntentStatuses

\* A handler's step replaces its own session by a good one.
LEMMA HandlerStep ==
  ASSUME TypeInv, NEW h \in Handlers, NEW s, GoodSession(s),
         s.op = "receipt" => intents'[s.assessment] # "ABSENT",
         session' = [session EXCEPT ![h] = s], IntentsStay
  PROVE  HandlersOK'
  <1>1. session' \in [Handlers -> Session]
    BY DEF TypeInv, HandlersOK, GoodSession
  <1>2. ASSUME NEW g \in Handlers
        PROVE  /\ GoodSession(session'[g])
               /\ session'[g].op = "receipt" => intents'[session'[g].assessment] # "ABSENT"
    <2>1. session'[g] = IF g = h THEN s ELSE session[g]
      BY DEF TypeInv, HandlersOK
    <2>2. CASE g = h
      BY <2>1, <2>2
    <2>3. CASE g # h
      BY <2>1, <2>3 DEF TypeInv, HandlersOK, GoodSession, IntentsStay
    <2> QED BY <2>2, <2>3
  <1> QED
    BY <1>1, <1>2 DEF HandlersOK, GoodSession

LEMMA FinishType ==
  ASSUME TypeInv, NEW h \in Handlers, Finish(h), IntentsStay
  PROVE  HandlersOK'
  BY HandlerStep, IdleSession DEF Finish

LEMMA UntouchedTables ==
  ASSUME TypeInv, UNCHANGED tables, HandlersOK'
  PROVE  TypeInv'
  BY DEF TypeInv, TypeOK, HandlersOK, tables

LEMMA TypeInit == Init => TypeInv
  <1> SUFFICES ASSUME Init PROVE TypeInv
    OBVIOUS
  <1>1. HandlersOK
    BY IdleSession DEF Init, HandlersOK, GoodSession
  <1>2. IsFiniteSet(approvals)
    BY FS_EmptySet DEF Init
  <1>3. NoReceipt \in Receipt
    BY IdentityAssumption DEF NoReceipt, Receipt
  <1>4. TypeOK
    BY <1>1, <1>3 DEF Init, TypeOK, HandlersOK, AssessmentRow, AssessmentStatuses, IntentStatuses
  <1> QED BY <1>1, <1>2, <1>4 DEF TypeInv

\* Steps that write no table: first loads, searches, refusals, crashes.
LEMMA TypeReading ==
  ASSUME TypeInv, NEW h \in Handlers,
         \/ \E a \in Assessments : LoadAssessment(h, a) \/ \E r \in Remittance : LoadIntent(h, a, r)
         \/ FindNoIntent(h) \/ FindNoReceipt(h)
         \/ ReturnIntent(h) \/ ReturnReceipt(h) \/ ReceiptCollides(h) \/ Crash(h)
  PROVE  TypeInv'
  <1> USE DEF IntentsStay
  <1>1. ASSUME NEW a \in Assessments, LoadAssessment(h, a) PROVE TypeInv'
    <2> DEFINE s == [Idle EXCEPT !.phase = "loaded", !.assessment = a, !.view = assessments[a].status]
    <2>1. GoodSession(s) /\ s.op = "intent"
      <3>1. assessments[a].status \in AssessmentStatuses
        BY DEF TypeInv, TypeOK, AssessmentRow
      <3> QED BY <3>1 DEF GoodSession, Idle, Session
    <2>2. session' = [session EXCEPT ![h] = s] /\ UNCHANGED tables
      BY <1>1 DEF LoadAssessment
    <2> HIDE DEF s
    <2> QED BY <2>1, <2>2, HandlerStep, UntouchedTables DEF tables
  <1>2. ASSUME NEW a \in Assessments, NEW r \in Remittance, LoadIntent(h, a, r) PROVE TypeInv'
    <2> DEFINE s == [phase |-> "loaded", op |-> "receipt", assessment |-> a, view |-> intents[a],
                     remittance |-> r]
    <2>1. GoodSession(s) /\ s.assessment = a
      BY <1>2 DEF GoodSession, Session, TypeInv, TypeOK
    <2>2. session' = [session EXCEPT ![h] = s] /\ UNCHANGED tables /\ intents[a] # "ABSENT"
      BY <1>2 DEF LoadIntent
    <2> HIDE DEF s
    <2> QED BY <2>1, <2>2, HandlerStep, UntouchedTables DEF tables
  <1>3. CASE FindNoIntent(h) \/ FindNoReceipt(h)
    <2> DEFINE s == [session[h] EXCEPT !.phase = "absent"]
    <2>1. GoodSession(session[h]) /\ session[h].phase = "loaded"
      BY <1>3 DEF FindNoIntent, FindNoReceipt, At, TypeInv, HandlersOK
    <2>2. GoodSession(s) /\ s.op = session[h].op /\ s.assessment = session[h].assessment
      BY <2>1 DEF GoodSession, Session
    <2>3. session' = [session EXCEPT ![h] = s] /\ UNCHANGED tables
      BY <1>3 DEF FindNoIntent, FindNoReceipt
    <2>4. session[h].op = "receipt" => intents[session[h].assessment] # "ABSENT"
      BY DEF TypeInv, HandlersOK
    <2> HIDE DEF s
    <2> QED BY <2>2, <2>3, <2>4, HandlerStep, UntouchedTables DEF tables
  <1>4. CASE ReturnIntent(h) \/ ReturnReceipt(h) \/ ReceiptCollides(h) \/ Crash(h)
    <2>1. Finish(h) /\ UNCHANGED tables
      BY <1>4 DEF ReturnIntent, ReturnReceipt, ReceiptCollides, Crash, Rollback
    <2> QED BY <2>1, FinishType, UntouchedTables DEF tables
  <1> QED BY <1>1, <1>2, <1>3, <1>4

LEMMA TypeOfficer ==
  ASSUME TypeInv, Officer
  PROVE  TypeInv'
  <1>1. PICK a \in Assessments :
          \/ \E p \in Principals : Submit(p, a) \/ \E d \in {"APPROVE", "REJECT"} : Decide(p, a, d)
          \/ StartIssuing(a)
    BY DEF Officer
  <1>2. UNCHANGED <<intents, session, receipts, journals>>
    BY <1>1 DEF Submit, Decide, StartIssuing
  <1>3. HandlersOK'
    BY <1>2 DEF TypeInv, HandlersOK
  <1>4. assessments' \in [Assessments -> AssessmentRow]
    <2>1. ASSUME NEW p \in Principals, Submit(p, a)
          PROVE  assessments' \in [Assessments -> AssessmentRow]
      BY <2>1 DEF Submit, TypeInv, TypeOK, AssessmentRow, AssessmentStatuses
    <2>2. ASSUME NEW p \in Principals, NEW d \in {"APPROVE", "REJECT"}, Decide(p, a, d)
          PROVE  assessments' \in [Assessments -> AssessmentRow]
      <3>1. PICK status \in {"REJECTED", "APPROVED", "PENDING_APPROVAL"} :
              assessments' = [assessments EXCEPT ![a].status = status]
        BY <2>2 DEF Decide, Decided
      <3>2. status \in AssessmentStatuses
        BY DEF AssessmentStatuses
      <3> QED BY <3>1, <3>2, StatusStep
    <2>3. CASE StartIssuing(a)
      BY <2>3, StatusStep DEF StartIssuing, AssessmentStatuses
    <2> QED BY <1>1, <2>1, <2>2, <2>3
  <1>5. approvals' \subseteq Approval /\ IsFiniteSet(approvals') /\ outbox' \in [Assessments -> Nat]
    <2>1. CASE UNCHANGED <<approvals, outbox>>
      BY <2>1 DEF TypeInv, TypeOK
    <2>2. ASSUME NEW p \in Principals, NEW d \in {"APPROVE", "REJECT"}, Decide(p, a, d)
          PROVE  approvals' \subseteq Approval /\ IsFiniteSet(approvals') /\ outbox' \in [Assessments -> Nat]
      <3> DEFINE row == [assessment |-> a, principal |-> p, decision |-> d,
                         level |-> Cardinality(DecisionsOn(a)) + 1]
      <3>1. IsFiniteSet(DecisionsOn(a))
        BY FS_Subset DEF TypeInv, DecisionsOn
      <3>2. row \in Approval
        BY <3>1, FS_CardinalityType DEF Approval
      <3>3. approvals' = approvals \cup {row}
        BY <2>2 DEF Decide
      <3>4. outbox' \in [Assessments -> Nat]
        BY <2>2 DEF Decide, TypeInv, TypeOK
      <3> HIDE DEF row
      <3> QED BY <3>2, <3>3, <3>4, FS_AddElement DEF TypeInv, TypeOK
    <2> QED BY <1>1, <2>1, <2>2 DEF Submit, StartIssuing
  <1> QED
    BY <1>2, <1>3, <1>4, <1>5 DEF TypeInv, TypeOK, HandlersOK

\* The rows a request commits: an intent, a quarantined or an applied receipt.
LEMMA TypePayment ==
  ASSUME TypeInv, NEW h \in Handlers, InsertIntent(h) \/ Quarantine(h) \/ Apply(h)
  PROVE  TypeInv'
  <1> DEFINE s == session[h]
  <1>1. GoodSession(s) /\ s.assessment \in Assessments
    BY DEF TypeInv, HandlersOK, GoodSession, InsertIntent, Quarantine, Apply, At
  <1>2. CASE InsertIntent(h)
    <2>1. IntentsStay
      BY <1>2, <1>1 DEF InsertIntent, IntentsStay, TypeInv, TypeOK
    <2>2. HandlersOK'
      BY <1>2, <2>1, FinishType DEF InsertIntent
    <2>3. assessments' \in [Assessments -> AssessmentRow]
      BY <1>2, <1>1, StatusStep DEF InsertIntent, AssessmentStatuses, TypeInv, TypeOK
    <2>4. /\ intents' \in [Assessments -> IntentStatuses]
          /\ \A a \in Assessments : intents'[a] # "ABSENT" => Duty[a] > 0
      BY <1>2, <1>1 DEF InsertIntent, Payable, IntentStatuses, TypeInv, TypeOK
    <2> QED BY <1>2, <2>2, <2>3, <2>4 DEF InsertIntent, TypeInv, TypeOK, HandlersOK
  <1>3. ASSUME s.op = "receipt",
               NEW status \in {"APPLIED", "QUARANTINED"}, NEW i \in {s.assessment, NoAssessment},
               receipts' = Stored(s.remittance, i, status)
        PROVE  receipts' \in [References -> Receipt]
    <2>1. s.remittance \in Remittance
      BY <1>1, <1>3 DEF GoodSession
    <2>2. /\ s.remittance.reference \in References /\ s.remittance.amount \in Nat
          /\ s.remittance.currency \in Currencies
      BY <2>1, AmountAssumption DEF Remittance
    <2> QED BY <1>1, <1>3, <2>2 DEF Stored, Receipt, TypeInv, TypeOK
  <1>4. CASE Quarantine(h)
    <2>1. HandlersOK'
      BY <1>4, FinishType DEF Quarantine, IntentsStay
    <2>2. receipts' \in [References -> Receipt]
      BY <1>4, <1>3 DEF Quarantine, At
    <2> QED BY <1>4, <2>1, <2>2 DEF Quarantine, TypeInv, TypeOK, HandlersOK
  <1>5. CASE Apply(h)
    <2>1. IntentsStay
      BY <1>5, <1>1 DEF Apply, IntentsStay, TypeInv, TypeOK
    <2>2. HandlersOK'
      BY <1>5, <2>1, FinishType DEF Apply
    <2>3. receipts' \in [References -> Receipt]
      BY <1>5, <1>3, SMTT(30) DEF Apply, At
    <2>4. assessments' \in [Assessments -> AssessmentRow]
      BY <1>5, <1>1, StatusStep DEF Apply, AssessmentStatuses
    <2>5. intents[s.assessment] # "ABSENT"
      BY <1>5 DEF Apply, At, TypeInv, HandlersOK
    <2>6. /\ intents' \in [Assessments -> IntentStatuses]
          /\ \A a \in Assessments : intents'[a] # "ABSENT" => Duty[a] > 0
      BY <1>5, <1>1, <2>5 DEF Apply, IntentStatuses, TypeInv, TypeOK
    <2>7. journals' \in [References -> SUBSET Leg]
      <3>1. s.remittance.amount \in Nat
        BY <1>1, <1>5, AmountAssumption DEF Apply, At, GoodSession, Remittance
      <3>2. Posted(s.remittance.amount) \subseteq Leg
        BY <3>1 DEF Posted, Leg
      <3> QED BY <1>5, <3>2 DEF Apply, TypeInv, TypeOK
    <2> QED BY <1>5, <2>2, <2>3, <2>4, <2>6, <2>7 DEF Apply, TypeInv, TypeOK, HandlersOK
  <1> QED BY <1>2, <1>4, <1>5

LEMMA TypeStep ==
  ASSUME TypeInv, [Next]_vars
  PROVE  TypeInv'
  <1>1. CASE Officer
    BY <1>1, TypeOfficer
  <1>2. ASSUME NEW h \in Handlers, Pay(h) PROVE TypeInv'
    BY <1>2, TypeReading, TypePayment DEF Pay
  <1>3. CASE UNCHANGED vars
    BY <1>3 DEF vars, tables, TypeInv, TypeOK, HandlersOK
  <1> QED BY <1>1, <1>2, <1>3 DEF Next

\* Tables and sessions keep their types, and an intent always has an amount to
\* pay, whatever overlaps.
THEOREM SettlementTyped == Spec => []TypeOK
  <1>1. TypeInv => TypeOK
    BY DEF TypeInv
  <1> QED BY <1>1, TypeInit, TypeStep, PTL DEF Spec

-----------------------------------------------------------------------------
(* Decisions *)

\* What makes the two decision properties inductive: nobody decides on an
\* assessment that does not exist, and the levels used are those up to the
\* number of decisions.
DecisionInv ==
  /\ MakerIsNotChecker
  /\ StatusFollowsDecisions
  /\ \A a \in Assessments : assessments[a].status = "ABSENT" => DecisionsOn(a) = {}
  /\ \A d \in approvals : d.level \in 1..Cardinality(DecisionsOn(d.assessment))

\* A step that records no decision keeps this if it neither seals, rejects nor
\* creates an assessment.
LEMMA NoDecision ==
  ASSUME TypeInv, DecisionInv, UNCHANGED <<approvals, outbox>>,
         \A a \in Assessments :
           /\ assessments'[a].submitted_by = assessments[a].submitted_by
           /\ assessments'[a].status \in Sealed <=> assessments[a].status \in Sealed
           /\ assessments'[a].status = "REJECTED" <=> assessments[a].status = "REJECTED"
           /\ assessments'[a].status = "ABSENT" => assessments[a].status = "ABSENT"
  PROVE  DecisionInv'
  <1>1. \A a : DecisionsOn(a)' = DecisionsOn(a)
    BY DEF DecisionsOn
  <1>2. \A a, d : Count(a, d)' = Count(a, d)
    BY <1>1 DEF Count
  <1>3. MakerIsNotChecker'
    BY DEF DecisionInv, MakerIsNotChecker, TypeInv, TypeOK, Approval
  <1>4. StatusFollowsDecisions'
    BY <1>2 DEF DecisionInv, StatusFollowsDecisions, ApprovalsRequired
  <1> QED
    BY <1>1, <1>3, <1>4 DEF DecisionInv

LEMMA DecisionSubmit ==
  ASSUME TypeInv, DecisionInv, NEW p \in Principals, NEW a \in Assessments, Submit(p, a)
  PROVE  DecisionInv'
  <1>1. \A c : DecisionsOn(c)' = DecisionsOn(c)
    BY DEF DecisionsOn, Submit
  <1>2. \A c, d : Count(c, d)' = Count(c, d)
    BY <1>1 DEF Count
  <1>3. assessments'[a].status = "PENDING_APPROVAL" /\ assessments[a].status = "ABSENT"
    BY DEF Submit, TypeInv, TypeOK
  <1>4. \A c \in Assessments \ {a} : assessments'[c] = assessments[c]
    BY DEF Submit, TypeInv, TypeOK
  <1>5. \A d \in approvals : d.assessment \in Assessments \ {a}
    BY <1>3 DEF DecisionInv, DecisionsOn, TypeInv, TypeOK, Approval
  <1>6. MakerIsNotChecker'
    BY <1>4, <1>5 DEF DecisionInv, MakerIsNotChecker, Submit
  <1>7. StatusFollowsDecisions'
    <2> SUFFICES ASSUME NEW c \in Assessments
                 PROVE  /\ assessments'[c].status \in Sealed <=> assessments[c].status \in Sealed
                        /\ assessments'[c].status = "REJECTED" <=> assessments[c].status = "REJECTED"
      BY <1>2 DEF DecisionInv, StatusFollowsDecisions, ApprovalsRequired, Submit
    <2> QED BY <1>3, <1>4 DEF Sealed
  <1> QED
    BY <1>1, <1>3, <1>4, <1>6, <1>7 DEF DecisionInv, Submit

LEMMA RequiredType == \A a \in Assessments : ApprovalsRequired(a) \in Nat
  BY DEF ApprovalsRequired

\* The decision recorded under the row lock is counted by the same transaction.
LEMMA DecisionDecide ==
  ASSUME TypeInv, DecisionInv, NEW p \in Principals, NEW a \in Assessments,
         NEW decision \in {"APPROVE", "REJECT"}, Decide(p, a, decision)
  PROVE  DecisionInv'
  <1> DEFINE row == [assessment |-> a, principal |-> p, decision |-> decision,
                     level |-> Cardinality(DecisionsOn(a)) + 1]
             Of(d) == {x \in DecisionsOn(a) : x.decision = d}
             With(d) == {x \in DecisionsOn(a) \cup {row} : x.decision = d}
             status == IF decision = "REJECT" THEN "REJECTED" ELSE Decided(a, Cardinality(With("APPROVE")))
  <1>1. /\ approvals' = approvals \cup {row}
        /\ assessments' = [assessments EXCEPT ![a].status = status]
        /\ outbox' = [outbox EXCEPT ![a] = IF status = "APPROVED" THEN @ + 1 ELSE @]
        /\ MayDecide(p, a)
    BY DEF Decide
  <1>2. IsFiniteSet(DecisionsOn(a)) /\ \A d : IsFiniteSet(Of(d))
    <2>1. IsFiniteSet(DecisionsOn(a))
      BY FS_Subset DEF TypeInv, DecisionsOn
    <2> QED BY <2>1, FS_Subset
  <1>3. /\ Cardinality(DecisionsOn(a)) \in Nat /\ Cardinality(Of("APPROVE")) \in Nat
        /\ Cardinality(Of("REJECT")) \in Nat
    BY <1>2, FS_CardinalityType
  <1>4. row \notin DecisionsOn(a)
    BY <1>1 DEF MayDecide
  <1>5. /\ DecisionsOn(a)' = DecisionsOn(a) \cup {row}
        /\ \A c \in Assessments \ {a} : DecisionsOn(c)' = DecisionsOn(c)
    BY <1>1 DEF DecisionsOn
  <1>6. \A d : With(d) = IF d = decision THEN Of(d) \cup {row} ELSE Of(d)
    OBVIOUS
  <1>7. Cardinality(DecisionsOn(a) \cup {row}) = Cardinality(DecisionsOn(a)) + 1
    BY <1>2, <1>4, FS_AddElement
  <1>8. \A d : Cardinality(Of(d) \cup {row}) = Cardinality(Of(d)) + 1
    <2> TAKE d
    <2>1. IsFiniteSet(Of(d)) /\ row \notin Of(d)
      BY <1>2, <1>4
    <2> HIDE DEF row, Of
    <2> QED BY <2>1, FS_AddElement
  <1>9. /\ \A d : Count(a, d)' = IF d = decision THEN Count(a, d) + 1 ELSE Count(a, d)
        /\ \A c \in Assessments \ {a} : \A d : Count(c, d)' = Count(c, d)
        /\ \A d : Count(a, d) = Cardinality(Of(d))
    <2>1. \A d : Count(a, d)' = Cardinality(With(d))
      BY <1>5 DEF Count
    <2>2. \A c \in Assessments \ {a} : \A d : Count(c, d)' = Count(c, d)
      BY <1>5 DEF Count
    <2>3. \A d : Count(a, d) = Cardinality(Of(d))
      BY DEF Count
    <2> HIDE DEF row, Of, With
    <2>4. ASSUME NEW d PROVE Count(a, d)' = IF d = decision THEN Count(a, d) + 1 ELSE Count(a, d)
      BY <2>1, <2>3, <1>6, <1>8
    <2> QED BY <2>2, <2>3, <2>4
  <1>10. status = IF decision = "REJECT" THEN "REJECTED" ELSE Decided(a, Count(a, "APPROVE") + 1)
    <2>1. decision = "APPROVE" => Cardinality(With("APPROVE")) = Count(a, "APPROVE") + 1
      <3> HIDE DEF row, Of, With
      <3> QED BY <1>6, <1>8, <1>9
    <2> HIDE DEF With
    <2> QED BY <2>1
  <1>11. status \in AssessmentStatuses /\ status \in {"REJECTED", "APPROVED", "PENDING_APPROVAL"}
    BY <1>10 DEF Decided, AssessmentStatuses
  <1> HIDE DEF status
  <1>12. /\ assessments'[a].status = status
         /\ assessments'[a].submitted_by = assessments[a].submitted_by
         /\ \A c \in Assessments \ {a} : assessments'[c] = assessments[c]
    BY <1>1, <1>11, StatusStep
  <1>13. MakerIsNotChecker'
    <2>1. row.principal # assessments[a].submitted_by
      BY <1>1 DEF MayDecide
    <2>2. \A c \in approvals' : c.principal # assessments'[c.assessment].submitted_by
      BY <1>1, <1>12, <2>1 DEF DecisionInv, MakerIsNotChecker, TypeInv, TypeOK, Approval
    <2>3. \A d \in approvals : d.assessment = a => d.principal # row.principal /\ d.level # row.level
      <3> SUFFICES ASSUME NEW d \in approvals, d.assessment = a
                   PROVE  d.principal # row.principal /\ d.level # row.level
        OBVIOUS
      <3>1. d.principal # p
        BY <1>1 DEF MayDecide, DecisionsOn
      <3>2. d.level \in 1..Cardinality(DecisionsOn(a))
        BY DEF DecisionInv
      <3> QED BY <3>1, <3>2, <1>3
    <2> HIDE DEF row
    <2>4. row.assessment = a
      BY DEF row
    <2> QED BY <1>1, <2>2, <2>3, <2>4 DEF DecisionInv, MakerIsNotChecker
  <1>14. StatusFollowsDecisions'
    <2> SUFFICES ASSUME NEW c \in Assessments
                 PROVE  /\ assessments'[c].status \in Sealed <=> Count(c, "APPROVE")' >= ApprovalsRequired(c)
                        /\ Count(c, "APPROVE")' <= ApprovalsRequired(c)
                        /\ Count(c, "REJECT")' = (IF assessments'[c].status = "REJECTED" THEN 1 ELSE 0)
                        /\ outbox'[c] = (IF assessments'[c].status \in Sealed THEN 1 ELSE 0)
      BY DEF StatusFollowsDecisions, ApprovalsRequired
    <2>1. /\ assessments[c].status \in Sealed <=> Count(c, "APPROVE") >= ApprovalsRequired(c)
          /\ Count(c, "APPROVE") <= ApprovalsRequired(c)
          /\ Count(c, "REJECT") = (IF assessments[c].status = "REJECTED" THEN 1 ELSE 0)
          /\ outbox[c] = (IF assessments[c].status \in Sealed THEN 1 ELSE 0)
      BY DEF DecisionInv, StatusFollowsDecisions
    <2>2. CASE c # a
      <3>1. outbox'[c] = outbox[c]
        BY <1>1, <2>2 DEF TypeInv, TypeOK
      <3> QED BY <2>1, <2>2, <3>1, <1>9, <1>12
    <2>3. CASE c = a
      <3>1. assessments[a].status = "PENDING_APPROVAL"
        BY <1>1 DEF MayDecide
      <3>2. /\ Count(a, "APPROVE") \in Nat /\ ApprovalsRequired(a) \in Nat
            /\ Count(a, "APPROVE") < ApprovalsRequired(a)
            /\ Count(a, "REJECT") = 0 /\ outbox[a] = 0
        BY <1>3, <1>9, <2>1, <2>3, <3>1, RequiredType DEF Sealed
      <3>3. outbox'[a] = IF status = "APPROVED" THEN 1 ELSE 0
        BY <1>1, <3>2 DEF TypeInv, TypeOK
      <3>4. CASE decision = "REJECT"
        BY <2>3, <3>2, <3>3, <3>4, <1>9, <1>10, <1>12 DEF Sealed
      <3>5. CASE decision = "APPROVE"
        BY <2>3, <3>2, <3>3, <3>5, <1>9, <1>10, <1>12 DEF Sealed, Decided
      <3> QED BY <3>4, <3>5
    <2> QED BY <2>2, <2>3
  <1>15. \A c \in Assessments : assessments'[c].status = "ABSENT" => DecisionsOn(c)' = {}
    BY <1>5, <1>11, <1>12 DEF DecisionInv
  <1>16. \A d \in approvals' : d.level \in 1..Cardinality(DecisionsOn(d.assessment)')
    <2>1. row.level \in 1..Cardinality(DecisionsOn(a)') /\ row.assessment = a
      BY <1>3, <1>5, <1>7
    <2>2. ASSUME NEW d \in approvals PROVE d.level \in 1..Cardinality(DecisionsOn(d.assessment)')
      <3>1. d.assessment \in Assessments
        BY DEF TypeInv, TypeOK, Approval
      <3>2. d.level \in 1..Cardinality(DecisionsOn(d.assessment))
        BY DEF DecisionInv
      <3>3. CASE d.assessment = a
        <4>1. DecisionsOn(d.assessment)' = DecisionsOn(a) \cup {row}
          BY <3>3, <1>5
        <4> HIDE DEF row
        <4> QED BY <4>1, <3>2, <3>3, <1>3, <1>7
      <3>4. CASE d.assessment # a
        <4>1. DecisionsOn(d.assessment)' = DecisionsOn(d.assessment)
          BY <3>1, <3>4, <1>5
        <4> QED BY <4>1, <3>2
      <3> QED BY <3>3, <3>4
    <2> HIDE DEF row
    <2> QED BY <1>1, <2>1, <2>2
  <1> QED
    BY <1>13, <1>14, <1>15, <1>16 DEF DecisionInv

\* An approved obligation stays approved: an intent exists for approved ones
\* only, and a payment request past its check found its assessment approved.
SealedInv ==
  /\ \A a \in Assessments : intents[a] # "ABSENT" => assessments[a].status \in Sealed
  /\ \A h \in Handlers :
       session[h].op = "intent" /\ session[h].phase # "idle" =>
         /\ session[h].view = "APPROVED" => assessments[session[h].assessment].status \in Sealed
         /\ session[h].phase = "absent" => session[h].view = "APPROVED"

\* No step takes an approval back.
LEMMA SealedStays ==
  ASSUME TypeInv, SealedInv, Next
  PROVE  \A a \in Assessments : assessments[a].status \in Sealed => assessments'[a].status \in Sealed
  <1>1. ASSUME NEW c \in Assessments, NEW p \in Principals, Submit(p, c)
        PROVE  \A a \in Assessments : assessments[a].status \in Sealed => assessments'[a].status \in Sealed
    BY <1>1 DEF Submit, Sealed, TypeInv, TypeOK
  <1>2. ASSUME NEW c \in Assessments, NEW p \in Principals, NEW d \in {"APPROVE", "REJECT"}, Decide(p, c, d)
        PROVE  \A a \in Assessments : assessments[a].status \in Sealed => assessments'[a].status \in Sealed
    BY <1>2 DEF Decide, MayDecide, Sealed, TypeInv, TypeOK
  <1>3. ASSUME NEW c \in Assessments, StartIssuing(c)
        PROVE  \A a \in Assessments : assessments[a].status \in Sealed => assessments'[a].status \in Sealed
    BY <1>3, StatusStep DEF StartIssuing, Sealed, AssessmentStatuses
  <1>4. ASSUME NEW h \in Handlers, Pay(h)
        PROVE  \A a \in Assessments : assessments[a].status \in Sealed => assessments'[a].status \in Sealed
    <2>1. CASE InsertIntent(h) \/ Apply(h)
      <3>1. session[h].assessment \in Assessments
        BY <2>1 DEF InsertIntent, Apply, At, TypeInv, HandlersOK, GoodSession
      <3>2. CASE InsertIntent(h)
        BY <3>1, <3>2, StatusStep, SMTT(30) DEF InsertIntent, Sealed, AssessmentStatuses
      <3>3. CASE Apply(h)
        BY <3>1, <3>3, StatusStep DEF Apply, Sealed, AssessmentStatuses
      <3> QED BY <2>1, <3>2, <3>3
    <2>2. CASE ~(InsertIntent(h) \/ Apply(h))
      <3>1. UNCHANGED assessments
        BY <2>2, <1>4 DEF Pay, LoadAssessment, LoadIntent, ReturnIntent, FindNoIntent, ReturnReceipt,
             FindNoReceipt, ReceiptCollides, Quarantine, Crash, Rollback, tables
      <3> QED BY <3>1
    <2> QED BY <2>1, <2>2
  <1> QED
    BY <1>1, <1>2, <1>3, <1>4 DEF Next, Officer

LEMMA SealedStep ==
  ASSUME TypeInv, SealedInv, Next
  PROVE  SealedInv'
  <1>1. \A a \in Assessments : assessments[a].status \in Sealed => assessments'[a].status \in Sealed
    BY SealedStays
  <1> DEFINE Fine(s) == s.op = "intent" /\ s.phase # "idle" =>
               /\ s.view = "APPROVED" => assessments'[s.assessment].status \in Sealed
               /\ s.phase = "absent" => s.view = "APPROVED"
  <1>2. \A h \in Handlers : Fine(session[h])
    BY <1>1 DEF SealedInv, TypeInv, HandlersOK, GoodSession
  <1>3. Fine(Idle)
    BY DEF Idle
  <1>4. \A h \in Handlers : Finish(h) => \A g \in Handlers : Fine(session'[g])
    BY <1>2, <1>3 DEF Finish, TypeInv, HandlersOK
  <1>5. CASE Officer
    <2>1. UNCHANGED <<session, intents>>
      BY <1>5 DEF Officer, Submit, Decide, StartIssuing
    <2> QED BY <2>1, <1>1, <1>2 DEF SealedInv
  <1>6. ASSUME NEW h \in Handlers, Pay(h) PROVE SealedInv'
    <2>1. session \in [Handlers -> Session] /\ GoodSession(session[h])
      BY DEF TypeInv, HandlersOK
    <2>2. \A g \in Handlers : Fine(session'[g])
      <3>1. ASSUME NEW a \in Assessments, LoadAssessment(h, a) PROVE \A g \in Handlers : Fine(session'[g])
        <4>1. Fine([Idle EXCEPT !.phase = "loaded", !.assessment = a, !.view = assessments[a].status])
          BY <1>1 DEF Idle, Sealed
        <4> QED BY <4>1, <3>1, <1>2, <2>1 DEF LoadAssessment
      <3>2. ASSUME NEW a \in Assessments, NEW r \in Remittance, LoadIntent(h, a, r)
            PROVE  \A g \in Handlers : Fine(session'[g])
        BY <3>2, <1>2, <2>1 DEF LoadIntent
      <3>3. CASE FindNoIntent(h)
        <4>1. Fine([session[h] EXCEPT !.phase = "absent"])
          BY <3>3, <1>2, <2>1 DEF FindNoIntent, Callable, At, GoodSession, Session
        <4> QED BY <4>1, <3>3, <1>2, <2>1 DEF FindNoIntent
      <3>4. CASE FindNoReceipt(h)
        <4>1. Fine([session[h] EXCEPT !.phase = "absent"])
          BY <3>4, <2>1 DEF FindNoReceipt, At, GoodSession, Session
        <4> QED BY <4>1, <3>4, <1>2, <2>1 DEF FindNoReceipt
      <3>5. CASE Finish(h)
        BY <3>5, <1>4
      <3> QED
        BY <1>6, <3>1, <3>2, <3>3, <3>4, <3>5 DEF Pay, ReturnIntent, InsertIntent, ReturnReceipt,
             ReceiptCollides, Quarantine, Apply, Crash, Rollback
    <2>3. \A a \in Assessments : intents'[a] # "ABSENT" => assessments'[a].status \in Sealed
      <3>1. CASE InsertIntent(h)
        <4>1. session[h].assessment \in Assessments
          BY <3>1, <2>1 DEF InsertIntent, At, GoodSession
        <4>2. CASE intents[session[h].assessment] = "ABSENT" /\ Payable(session[h].assessment)
          <5>1. assessments'[session[h].assessment].status \in Sealed
            BY <3>1, <4>1, <4>2, StatusStep DEF InsertIntent, AssessmentStatuses, Sealed
          <5> QED BY <3>1, <4>1, <4>2, <5>1, <1>1 DEF InsertIntent, SealedInv, TypeInv, TypeOK
        <4>3. CASE ~(intents[session[h].assessment] = "ABSENT" /\ Payable(session[h].assessment))
          BY <3>1, <4>3 DEF InsertIntent, SealedInv
        <4> QED BY <4>2, <4>3
      <3>2. CASE Apply(h)
        <4>1. session[h].assessment \in Assessments /\ intents[session[h].assessment] # "ABSENT"
          BY <3>2, <2>1 DEF Apply, At, GoodSession, TypeInv, HandlersOK
        <4> QED BY <3>2, <4>1, <1>1 DEF Apply, SealedInv, TypeInv, TypeOK
      <3>3. CASE ~(InsertIntent(h) \/ Apply(h))
        <4>1. UNCHANGED <<assessments, intents>>
          BY <3>3, <1>6 DEF Pay, LoadAssessment, LoadIntent, ReturnIntent, FindNoIntent, ReturnReceipt,
               FindNoReceipt, ReceiptCollides, Quarantine, Crash, Rollback, tables
        <4> QED BY <4>1 DEF SealedInv
      <3> QED BY <3>1, <3>2, <3>3
    <2> QED BY <2>2, <2>3 DEF SealedInv
  <1> QED BY <1>5, <1>6 DEF Next

LEMMA DecisionStep ==
  ASSUME TypeInv, DecisionInv, SealedInv, Next
  PROVE  DecisionInv'
  <1>1. ASSUME NEW a \in Assessments, NEW p \in Principals,
               Submit(p, a) \/ \E d \in {"APPROVE", "REJECT"} : Decide(p, a, d)
        PROVE  DecisionInv'
    BY <1>1, DecisionSubmit, DecisionDecide
  <1>2. ASSUME NEW a \in Assessments, NEW status \in {"PAYMENT_PENDING", "PAID", "ISSUING"},
               assessments[a].status \in Sealed,
               assessments' = [assessments EXCEPT ![a].status = status],
               UNCHANGED <<approvals, outbox>>
        PROVE  DecisionInv'
    <2>1. status \in AssessmentStatuses /\ status \in Sealed /\ status # "REJECTED" /\ status # "ABSENT"
      BY DEF AssessmentStatuses, Sealed
    <2>2. /\ assessments'[a].status = status
          /\ assessments'[a].submitted_by = assessments[a].submitted_by
          /\ \A c \in Assessments \ {a} : assessments'[c] = assessments[c]
      BY <1>2, <2>1, StatusStep
    <2>3. assessments[a].status # "REJECTED"
      BY <1>2 DEF Sealed
    <2> QED BY <1>2, <2>1, <2>2, <2>3, NoDecision
  <1>3. ASSUME NEW a \in Assessments, StartIssuing(a) PROVE DecisionInv'
    BY <1>3, <1>2 DEF StartIssuing, Sealed
  <1>4. ASSUME NEW h \in Handlers, Pay(h) PROVE DecisionInv'
    <2> DEFINE a == session[h].assessment
    <2>1. CASE InsertIntent(h)
      <3>1. a \in Assessments
        BY <2>1 DEF InsertIntent, At, TypeInv, HandlersOK, GoodSession
      <3>2. assessments[a].status \in Sealed
        BY <2>1 DEF InsertIntent, At, SealedInv
      <3> HIDE DEF a
      <3>3. CASE UNCHANGED assessments
        BY <2>1, <3>3, NoDecision DEF InsertIntent
      <3>4. CASE assessments' = [assessments EXCEPT ![a].status = "PAYMENT_PENDING"]
        BY <2>1, <3>1, <3>2, <3>4, <1>2 DEF InsertIntent
      <3> QED BY <2>1, <3>3, <3>4 DEF InsertIntent, a
    <2>2. CASE Apply(h)
      <3>1. a \in Assessments /\ intents[a] # "ABSENT"
        BY <2>2 DEF Apply, At, TypeInv, HandlersOK, GoodSession
      <3>2. assessments[a].status \in Sealed
        BY <3>1 DEF SealedInv
      <3> QED BY <2>2, <3>1, <3>2, <1>2 DEF Apply
    <2>3. CASE ~(InsertIntent(h) \/ Apply(h))
      <3>1. UNCHANGED <<assessments, approvals, outbox>>
        BY <2>3, <1>4 DEF Pay, LoadAssessment, LoadIntent, ReturnIntent, FindNoIntent, ReturnReceipt,
             FindNoReceipt, ReceiptCollides, Quarantine, Crash, Rollback, tables
      <3> QED BY <3>1, NoDecision
    <2> QED BY <2>1, <2>2, <2>3
  <1> QED BY <1>1, <1>3, <1>4 DEF Next, Officer

LEMMA DecisionVars ==
  ASSUME TypeInv, DecisionInv, SealedInv, UNCHANGED vars
  PROVE  DecisionInv' /\ SealedInv'
  <1>1. DecisionInv'
    BY NoDecision DEF vars, tables
  <1>2. SealedInv'
    BY DEF SealedInv, vars, tables
  <1> QED BY <1>1, <1>2

LEMMA DecisionInit == Init => DecisionInv /\ SealedInv
  <1> SUFFICES ASSUME Init PROVE DecisionInv /\ SealedInv
    OBVIOUS
  <1>1. \A a, d : DecisionsOn(a) = {} /\ Count(a, d) = 0
    BY FS_EmptySet DEF Init, DecisionsOn, Count
  <1>2. \A a \in Assessments : ApprovalsRequired(a) \in Nat \ {0}
    BY DEF ApprovalsRequired
  <1>3. DecisionInv
    BY <1>1, <1>2 DEF Init, DecisionInv, MakerIsNotChecker, StatusFollowsDecisions, Sealed
  <1>4. SealedInv
    BY DEF Init, SealedInv, Idle
  <1> QED BY <1>3, <1>4

\* The submitter never decides on his own assessment, and nobody decides twice,
\* however many officers decide at once.
THEOREM MakersAndCheckersDiffer == Spec => []MakerIsNotChecker
  <1>1. TypeInv /\ DecisionInv /\ SealedInv /\ [Next]_vars => (TypeInv /\ DecisionInv /\ SealedInv)'
    BY TypeStep, DecisionVars, DecisionStep, SealedStep
  <1>2. DecisionInv => MakerIsNotChecker
    BY DEF DecisionInv
  <1> QED BY <1>1, <1>2, TypeInit, DecisionInit, PTL DEF Spec

\* The tier's number of approvals and the status never disagree, and an
\* approval is announced exactly once.
THEOREM DecisionsDecide == Spec => []StatusFollowsDecisions
  <1>1. TypeInv /\ DecisionInv /\ SealedInv /\ [Next]_vars => (TypeInv /\ DecisionInv /\ SealedInv)'
    BY TypeStep, DecisionVars, DecisionStep, SealedStep
  <1>2. DecisionInv => StatusFollowsDecisions
    BY DEF DecisionInv
  <1> QED BY <1>1, <1>2, TypeInit, DecisionInit, PTL DEF Spec

-----------------------------------------------------------------------------
(* Receipts, settlement and the journal *)

MoneyInv == PaidByExactReceipt /\ BooksMatchReceipts

\* Steps that touch no receipt, journal or settlement, and pay nothing.
LEMMA NoMoney ==
  ASSUME MoneyInv, UNCHANGED <<receipts, journals>>,
         \A a \in Assessments :
           /\ intents'[a] = "SETTLED" <=> intents[a] = "SETTLED"
           /\ assessments'[a].status \in {"PAID", "ISSUING"} <=> assessments[a].status \in {"PAID", "ISSUING"}
  PROVE  MoneyInv'
  <1>1. \A a : Applied(a)' = Applied(a)
    BY DEF Applied
  <1>2. PaidByExactReceipt'
    BY <1>1 DEF MoneyInv, PaidByExactReceipt
  <1>3. BooksMatchReceipts'
    BY DEF MoneyInv, BooksMatchReceipts
  <1> QED BY <1>2, <1>3 DEF MoneyInv

LEMMA MoneyOfficer ==
  ASSUME TypeInv, MoneyInv, Officer
  PROVE  MoneyInv'
  <1>1. UNCHANGED <<intents, receipts, journals>>
    BY DEF Officer, Submit, Decide, StartIssuing
  <1>2. ASSUME NEW c \in Assessments, NEW p \in Principals, Submit(p, c) PROVE MoneyInv'
    <2>1. \A a \in Assessments :
            assessments'[a].status \in {"PAID", "ISSUING"} <=> assessments[a].status \in {"PAID", "ISSUING"}
      BY <1>2 DEF Submit, TypeInv, TypeOK
    <2> QED BY <1>1, <2>1, NoMoney
  <1>3. ASSUME NEW c \in Assessments, NEW p \in Principals, NEW d \in {"APPROVE", "REJECT"}, Decide(p, c, d)
        PROVE  MoneyInv'
    <2>1. PICK status \in {"REJECTED", "APPROVED", "PENDING_APPROVAL"} :
            assessments' = [assessments EXCEPT ![c].status = status]
      BY <1>3 DEF Decide, Decided
    <2>2. status \in AssessmentStatuses /\ assessments[c].status = "PENDING_APPROVAL"
      BY <1>3 DEF AssessmentStatuses, Decide, MayDecide
    <2>3. \A a \in Assessments :
            assessments'[a].status \in {"PAID", "ISSUING"} <=> assessments[a].status \in {"PAID", "ISSUING"}
      BY <2>1, <2>2, StatusStep
    <2> QED BY <1>1, <2>3, NoMoney
  <1>4. ASSUME NEW c \in Assessments, StartIssuing(c) PROVE MoneyInv'
    <2>1. \A a \in Assessments :
            assessments'[a].status \in {"PAID", "ISSUING"} <=> assessments[a].status \in {"PAID", "ISSUING"}
      BY <1>4, StatusStep DEF StartIssuing, AssessmentStatuses
    <2> QED BY <1>1, <2>1, NoMoney
  <1> QED BY <1>2, <1>3, <1>4 DEF Officer

\* The unique key on assessment_id keeps a second intent from calling a paid
\* assessment for payment again.
LEMMA MoneyInsert ==
  ASSUME TypeInv, MoneyInv, NEW h \in Handlers, InsertIntent(h)
  PROVE  MoneyInv'
  <1> DEFINE a == session[h].assessment
  <1>1. a \in Assessments /\ UNCHANGED <<receipts, journals>>
    BY DEF InsertIntent, At, TypeInv, HandlersOK, GoodSession
  <1>2. CASE UNCHANGED <<intents, assessments>>
    BY <1>1, <1>2, NoMoney
  <1>3. CASE intents[a] = "ABSENT" /\ Payable(a)
    <2>1. assessments' = [assessments EXCEPT ![a].status = "PAYMENT_PENDING"]
          /\ intents' = [intents EXCEPT ![a] = "PENDING"]
      BY <1>3 DEF InsertIntent
    <2>2. ~(assessments[a].status \in {"PAID", "ISSUING"})
      BY <1>1, <1>3, SMTT(30) DEF MoneyInv, PaidByExactReceipt
    <2>3. \A c \in Assessments :
            assessments'[c].status \in {"PAID", "ISSUING"} <=> assessments[c].status \in {"PAID", "ISSUING"}
      BY <1>1, <2>1, <2>2, StatusStep DEF AssessmentStatuses
    <2>4. \A c \in Assessments : intents'[c] = "SETTLED" <=> intents[c] = "SETTLED"
      BY <1>1, <1>3, <2>1 DEF TypeInv, TypeOK
    <2> QED BY <1>1, <2>3, <2>4, NoMoney
  <1> QED BY <1>2, <1>3 DEF InsertIntent

\* A remittance under a reference not seen before.
LEMMA FreshReference ==
  ASSUME TypeInv, NEW h \in Handlers, At(h, "absent", "receipt"),
         Storable(session[h].remittance.reference)
  PROVE  /\ session[h].remittance.reference \in References
         /\ session[h].remittance.amount \in Nat
         /\ session[h].assessment \in Assessments
         /\ receipts[session[h].remittance.reference].status = "ABSENT"
  BY AmountAssumption DEF At, TypeInv, HandlersOK, GoodSession, Remittance, Storable, Known

LEMMA MoneyQuarantine ==
  ASSUME TypeInv, MoneyInv, NEW h \in Handlers, Quarantine(h)
  PROVE  MoneyInv'
  <1> DEFINE r == session[h].remittance
  <1>1. r.reference \in References /\ receipts[r.reference].status = "ABSENT"
    BY FreshReference DEF Quarantine
  <1>2. /\ receipts'[r.reference].status = "QUARANTINED"
        /\ \A x \in References \ {r.reference} : receipts'[x] = receipts[x]
        /\ UNCHANGED <<assessments, intents, journals>>
    BY <1>1 DEF Quarantine, Stored, TypeInv, TypeOK
  <1>3. \A a : Applied(a)' = Applied(a)
    BY <1>1, <1>2 DEF Applied
  <1>4. \A a : \A x \in Applied(a) : receipts'[x] = receipts[x]
    BY <1>1, <1>2 DEF Applied
  <1>5. PaidByExactReceipt'
    BY <1>2, <1>3, <1>4 DEF MoneyInv, PaidByExactReceipt
  <1>6. BooksMatchReceipts'
    BY <1>1, <1>2 DEF MoneyInv, BooksMatchReceipts
  <1> QED BY <1>5, <1>6 DEF MoneyInv

\* An applied remittance: its effect on receipts, books and obligation.
LEMMA Application ==
  ASSUME TypeInv, NEW h \in Handlers, Apply(h)
  PROVE  LET s == session[h]
             x == s.remittance.reference
         IN
         /\ x \in References /\ s.assessment \in Assessments
         /\ receipts[x].status = "ABSENT"
         /\ receipts'[x] = [intent |-> s.assessment, amount |-> s.remittance.amount,
                            currency |-> s.remittance.currency, status |-> "APPLIED"]
         /\ \A y \in References \ {x} : receipts'[y] = receipts[y] /\ journals'[y] = journals[y]
         /\ journals'[x] = Posted(s.remittance.amount)
         /\ \A c \in Assessments : Applied(c)' = IF c = s.assessment THEN Applied(c) \cup {x} ELSE Applied(c)
  <1> DEFINE s == session[h]
             x == s.remittance.reference
  <1>1. x \in References /\ s.assessment \in Assessments /\ receipts[x].status = "ABSENT"
    BY FreshReference DEF Apply
  <1>2. /\ receipts'[x] = [intent |-> s.assessment, amount |-> s.remittance.amount,
                           currency |-> s.remittance.currency, status |-> "APPLIED"]
        /\ \A y \in References \ {x} : receipts'[y] = receipts[y]
    BY <1>1 DEF Apply, Stored, TypeInv, TypeOK
  <1>3. /\ \A y \in References \ {x} : journals'[y] = journals[y]
        /\ journals'[x] = Posted(s.remittance.amount)
    BY <1>1 DEF Apply, TypeInv, TypeOK
  <1> HIDE DEF x, s
  <1>4. ASSUME NEW c \in Assessments
        PROVE  Applied(c)' = IF c = s.assessment THEN Applied(c) \cup {x} ELSE Applied(c)
    BY <1>1, <1>2 DEF Applied
  <1> QED BY <1>1, <1>2, <1>3, <1>4 DEF x, s

LEMMA MoneyApply ==
  ASSUME TypeInv, MoneyInv, NEW h \in Handlers, Apply(h)
  PROVE  MoneyInv'
  <1> DEFINE s == session[h]
             r == s.remittance
             a == s.assessment
             x == r.reference
  <1>1. /\ x \in References /\ a \in Assessments
        /\ receipts[x].status = "ABSENT"
        /\ receipts'[x].status = "APPLIED" /\ receipts'[x].amount = r.amount
        /\ receipts'[x].currency = r.currency
        /\ \A y \in References \ {x} : receipts'[y] = receipts[y] /\ journals'[y] = journals[y]
        /\ journals'[x] = Posted(r.amount)
        /\ \A c \in Assessments : Applied(c)' = IF c = a THEN Applied(c) \cup {x} ELSE Applied(c)
    <2>1. /\ x \in References /\ a \in Assessments
          /\ receipts[x].status = "ABSENT"
          /\ receipts'[x] = [intent |-> a, amount |-> r.amount, currency |-> r.currency, status |-> "APPLIED"]
          /\ \A y \in References \ {x} : receipts'[y] = receipts[y] /\ journals'[y] = journals[y]
          /\ journals'[x] = Posted(r.amount)
          /\ \A c \in Assessments : Applied(c)' = IF c = a THEN Applied(c) \cup {x} ELSE Applied(c)
      BY Application
    <2> HIDE DEF s, r, a, x
    <2> QED BY <2>1
  <1>2. r.amount = Duty[a] /\ r.currency = NGN
    BY DEF Apply, Applicable, Exact
  <1>3. /\ intents' = [intents EXCEPT ![a] = "SETTLED"]
        /\ assessments' = [assessments EXCEPT ![a].status = "PAID"]
    BY SMTT(30) DEF Apply
  <1>4. /\ assessments'[a].status = "PAID"
        /\ \A c \in Assessments \ {a} : assessments'[c] = assessments[c]
    BY <1>1, <1>3, StatusStep DEF AssessmentStatuses
  <1>5. intents'[a] = "SETTLED" /\ \A c \in Assessments \ {a} : intents'[c] = intents[c]
    BY <1>1, <1>3 DEF TypeInv, TypeOK
  <1> HIDE DEF s, r, a, x
  <1>6. PaidByExactReceipt'
    <2> SUFFICES ASSUME NEW c \in Assessments
                 PROVE  /\ assessments'[c].status \in {"PAID", "ISSUING"} <=> intents'[c] = "SETTLED"
                        /\ intents'[c] = "SETTLED" <=> Applied(c)' # {}
                        /\ \A y \in Applied(c)' : receipts'[y].amount = Duty[c] /\ receipts'[y].currency = NGN
      BY DEF PaidByExactReceipt
    <2>1. /\ assessments[c].status \in {"PAID", "ISSUING"} <=> intents[c] = "SETTLED"
          /\ intents[c] = "SETTLED" <=> Applied(c) # {}
          /\ \A y \in Applied(c) : receipts[y].amount = Duty[c] /\ receipts[y].currency = NGN
      BY DEF MoneyInv, PaidByExactReceipt
    <2>2. \A y \in Applied(c) : y \in References \ {x}
      BY <1>1 DEF Applied
    <2>3. CASE c = a
      BY <2>1, <2>2, <2>3, <1>1, <1>2, <1>4, <1>5
    <2>4. CASE c # a
      BY <2>1, <2>2, <2>4, <1>1, <1>4, <1>5
    <2> QED BY <2>3, <2>4
  <1>7. BooksMatchReceipts'
    <2>1. /\ {l.debit : l \in Posted(r.amount)} = {0, r.amount}
          /\ {l.credit : l \in Posted(r.amount)} = {0, r.amount}
      BY DEF Posted
    <2> SUFFICES ASSUME NEW y \in References
                 PROVE  IF receipts'[y].status = "APPLIED"
                          THEN /\ {l.debit : l \in journals'[y]} = {0, receipts'[y].amount}
                               /\ {l.credit : l \in journals'[y]} = {0, receipts'[y].amount}
                          ELSE journals'[y] = {}
      BY DEF BooksMatchReceipts
    <2>2. CASE y = x
      BY <2>1, <2>2, <1>1
    <2>3. CASE y # x
      BY <2>3, <1>1 DEF MoneyInv, BooksMatchReceipts
    <2> QED BY <2>2, <2>3
  <1> QED BY <1>6, <1>7 DEF MoneyInv

LEMMA MoneyStep ==
  ASSUME TypeInv, MoneyInv, [Next]_vars
  PROVE  MoneyInv'
  <1>1. CASE Officer
    BY <1>1, MoneyOfficer
  <1>2. ASSUME NEW h \in Handlers, Pay(h) PROVE MoneyInv'
    <2>1. CASE InsertIntent(h) \/ Quarantine(h) \/ Apply(h)
      BY <2>1, MoneyInsert, MoneyQuarantine, MoneyApply
    <2>2. CASE ~(InsertIntent(h) \/ Quarantine(h) \/ Apply(h))
      <3>1. UNCHANGED tables
        BY <2>2, <1>2 DEF Pay, LoadAssessment, LoadIntent, ReturnIntent, FindNoIntent, ReturnReceipt,
             FindNoReceipt, ReceiptCollides, Crash, Rollback
      <3> QED BY <3>1, NoMoney DEF tables
    <2> QED BY <2>1, <2>2
  <1>3. CASE UNCHANGED vars
    BY <1>3, NoMoney DEF vars, tables
  <1> QED BY <1>1, <1>2, <1>3 DEF Next

LEMMA MoneyInit == Init => MoneyInv
  BY DEF Init, MoneyInv, PaidByExactReceipt, BooksMatchReceipts, Applied, NoReceipt

\* A duty counts as paid exactly when a remittance of exactly that duty was
\* applied to its intent, also when receipts overlap.
THEOREM PaidExactly == Spec => []PaidByExactReceipt
  <1>1. TypeInv /\ MoneyInv /\ [Next]_vars => (TypeInv /\ MoneyInv)'
    BY TypeStep, MoneyStep
  <1>2. MoneyInv => PaidByExactReceipt
    BY DEF MoneyInv
  <1> QED BY <1>1, <1>2, TypeInit, MoneyInit, PTL DEF Spec

\* The journal has two balanced legs of the amount for every applied receipt and
\* nothing else, also when receipts overlap.
THEOREM BooksMatch == Spec => []BooksMatchReceipts
  <1>1. TypeInv /\ MoneyInv /\ [Next]_vars => (TypeInv /\ MoneyInv)'
    BY TypeStep, MoneyStep
  <1>2. MoneyInv => BooksMatchReceipts
    BY DEF MoneyInv
  <1> QED BY <1>1, <1>2, TypeInit, MoneyInit, PTL DEF Spec

-----------------------------------------------------------------------------
(* One remittance at a time *)

OnReceipt(h) == session[h].op = "receipt"

\* Reports that are under way for one intent carry one reference; a report that
\* still believes the intent unsettled carries the reference that settled it, so
\* its insert collides.
RemittanceInv ==
  /\ \A g, h \in Handlers :
       OnReceipt(g) /\ OnReceipt(h) /\ session[g].assessment = session[h].assessment
         => session[g].remittance.reference = session[h].remittance.reference
  /\ \A h \in Handlers :
       OnReceipt(h) /\ session[h].view # "SETTLED"
         => Applied(session[h].assessment) \subseteq {session[h].remittance.reference}
  /\ \A a \in Assessments : \A x, y \in Applied(a) : x = y

\* A step that applies nothing and starts no report keeps this.
LEMMA NoReport ==
  ASSUME RemittanceInv,
         \A a : Applied(a)' = Applied(a),
         \A h \in Handlers :
           session'[h].op = "receipt" =>
             /\ OnReceipt(h)
             /\ session'[h].assessment = session[h].assessment
             /\ session'[h].remittance = session[h].remittance
             /\ session'[h].view = session[h].view
  PROVE  RemittanceInv'
  BY DEF RemittanceInv, OnReceipt

LEMMA RemittanceLoad ==
  ASSUME TypeInv, MoneyInv, RemittanceInv, OneRemittance,
         NEW h \in Handlers, NEW a \in Assessments, NEW r \in Remittance, LoadIntent(h, a, r)
  PROVE  RemittanceInv'
  <1>1. \A c : Applied(c)' = Applied(c)
    BY DEF LoadIntent, tables, Applied
  <1>2. /\ session'[h].op = "receipt" /\ session'[h].assessment = a
        /\ session'[h].remittance = r /\ session'[h].view = intents[a]
        /\ \A g \in Handlers \ {h} : session'[g] = session[g]
    BY DEF LoadIntent, TypeInv, HandlersOK
  <1>3. \A g \in Handlers : OnReceipt(g) /\ session[g].assessment = a
          => session[g].remittance.reference = r.reference
    BY DEF LoadIntent, OnReceipt
  <1>4. intents[a] # "SETTLED" => Applied(a) = {}
    BY DEF MoneyInv, PaidByExactReceipt
  <1>5. \A f, g \in Handlers :
          OnReceipt(f)' /\ OnReceipt(g)' /\ session'[f].assessment = session'[g].assessment
            => session'[f].remittance.reference = session'[g].remittance.reference
    BY <1>2, <1>3 DEF RemittanceInv, OnReceipt
  <1>6. \A g \in Handlers :
          OnReceipt(g)' /\ session'[g].view # "SETTLED"
            => Applied(session[g].assessment)' \subseteq {session'[g].remittance.reference}
    <2> SUFFICES ASSUME NEW g \in Handlers, OnReceipt(g)', session'[g].view # "SETTLED"
                 PROVE  Applied(session[g].assessment)' \subseteq {session'[g].remittance.reference}
      OBVIOUS
    <2>1. CASE g = h
      BY <2>1, <1>1, <1>2, <1>4
    <2>2. CASE g # h
      <3>1. session'[g] = session[g] /\ OnReceipt(g)
        BY <2>2, <1>2 DEF OnReceipt
      <3>2. Applied(session[g].assessment) \subseteq {session[g].remittance.reference}
        BY <3>1 DEF RemittanceInv
      <3>3. Applied(session[g].assessment)' = Applied(session[g].assessment)
        BY <3>1, <1>1
      <3> QED BY <3>1, <3>2, <3>3
    <2> QED BY <2>1, <2>2
  <1>7. \A c \in Assessments : \A x, y \in Applied(c)' : x = y
    BY <1>1 DEF RemittanceInv
  <1> QED BY <1>5, <1>6, <1>7 DEF RemittanceInv

\* The report that settles is the only one under way with its intent, up to
\* repetitions under its own reference.
LEMMA RemittanceApply ==
  ASSUME TypeInv, RemittanceInv, NEW h \in Handlers, Apply(h)
  PROVE  RemittanceInv'
  <1> DEFINE a == session[h].assessment
             x == session[h].remittance.reference
  <1>1. /\ x \in References /\ a \in Assessments /\ receipts[x].status = "ABSENT"
        /\ \A c \in Assessments : Applied(c)' = IF c = a THEN Applied(c) \cup {x} ELSE Applied(c)
    BY Application
  <1>2. OnReceipt(h) /\ session[h].view # "SETTLED"
    BY DEF Apply, At, OnReceipt, Applicable
  <1>3. Applied(a) = {}
    <2>1. Applied(a) \subseteq {x}
      BY <1>2 DEF RemittanceInv
    <2>2. x \notin Applied(a)
      BY <1>1 DEF Applied
    <2> QED BY <2>1, <2>2
  <1>4. \A g \in Handlers : OnReceipt(g)' => OnReceipt(g) /\ g # h /\ session'[g] = session[g]
    BY DEF Apply, Finish, OnReceipt, Idle, TypeInv, HandlersOK
  <1>5. \A f, g \in Handlers :
          OnReceipt(f)' /\ OnReceipt(g)' /\ session'[f].assessment = session'[g].assessment
            => session'[f].remittance.reference = session'[g].remittance.reference
    BY <1>4 DEF RemittanceInv
  <1>6. ASSUME NEW g \in Handlers, OnReceipt(g)', session'[g].view # "SETTLED"
        PROVE  Applied(session[g].assessment)' \subseteq {session'[g].remittance.reference}
    <2>1. OnReceipt(g) /\ session'[g] = session[g] /\ session[g].assessment \in Assessments
      BY <1>4, <1>6 DEF OnReceipt, TypeInv, HandlersOK, GoodSession
    <2>2. Applied(session[g].assessment) \subseteq {session[g].remittance.reference}
      BY <1>6, <2>1 DEF RemittanceInv
    <2>3. session[g].assessment = a => session[g].remittance.reference = x
      BY <1>2, <2>1 DEF RemittanceInv
    <2>4. Applied(session[g].assessment)' =
            IF session[g].assessment = a THEN Applied(session[g].assessment) \cup {x}
            ELSE Applied(session[g].assessment)
      BY <1>1, <2>1
    <2> QED BY <2>1, <2>2, <2>3, <2>4
  <1>7. \A c \in Assessments : \A y, z \in Applied(c)' : y = z
    BY <1>1, <1>3 DEF RemittanceInv
  <1> QED BY <1>5, <1>6, <1>7 DEF RemittanceInv

LEMMA RemittanceStep ==
  ASSUME TypeInv, MoneyInv, RemittanceInv, OneRemittance, [Next]_vars
  PROVE  RemittanceInv'
  <1>1. CASE Officer \/ UNCHANGED vars
    <2>1. UNCHANGED <<session, receipts>>
      BY <1>1 DEF Officer, Submit, Decide, StartIssuing, vars, tables
    <2>2. \A c : Applied(c)' = Applied(c)
      BY <2>1 DEF Applied
    <2> QED BY <2>1, <2>2, NoReport DEF OnReceipt
  <1>2. ASSUME NEW h \in Handlers, Pay(h) PROVE RemittanceInv'
    <2>1. session \in [Handlers -> Session]
      BY DEF TypeInv, HandlersOK
    <2>2. ASSUME \A c : Applied(c)' = Applied(c), Finish(h) PROVE RemittanceInv'
      BY <2>1, <2>2, NoReport DEF Finish, Idle, OnReceipt
    <2>3. ASSUME UNCHANGED tables PROVE \A c : Applied(c)' = Applied(c)
      BY <2>3 DEF tables, Applied
    <2>4. CASE ReturnIntent(h) \/ ReturnReceipt(h) \/ ReceiptCollides(h) \/ Crash(h)
      BY <2>2, <2>3, <2>4 DEF ReturnIntent, ReturnReceipt, ReceiptCollides, Crash, Rollback
    <2>5. CASE InsertIntent(h)
      BY <2>2, <2>5 DEF InsertIntent, Applied
    <2>6. CASE Quarantine(h)
      <3> DEFINE x == session[h].remittance.reference
      <3>1. x \in References /\ receipts[x].status = "ABSENT"
        BY <2>6, FreshReference DEF Quarantine
      <3>2. receipts'[x].status = "QUARANTINED" /\ \A y \in References \ {x} : receipts'[y] = receipts[y]
        BY <2>6, <3>1 DEF Quarantine, Stored, TypeInv, TypeOK
      <3>3. \A c : Applied(c)' = Applied(c)
        BY <3>1, <3>2 DEF Applied
      <3> QED BY <2>2, <2>6, <3>3 DEF Quarantine
    <2>7. ASSUME NEW a \in Assessments, LoadAssessment(h, a) PROVE RemittanceInv'
      <3>1. \A g \in Handlers : session'[g].op = "receipt" => session'[g] = session[g]
        BY <2>1, <2>7 DEF LoadAssessment, Idle
      <3> QED BY <2>3, <2>7, <3>1, NoReport DEF LoadAssessment, OnReceipt
    <2>8. CASE FindNoIntent(h) \/ FindNoReceipt(h)
      <3>1. session' = [session EXCEPT ![h].phase = "absent"] /\ UNCHANGED tables
        BY <2>8 DEF FindNoIntent, FindNoReceipt
      <3>2. \A g \in Handlers : /\ session'[g].op = session[g].op
                                 /\ session'[g].assessment = session[g].assessment
                                 /\ session'[g].remittance = session[g].remittance
                                 /\ session'[g].view = session[g].view
        BY <2>1, <3>1 DEF Session
      <3> QED BY <2>3, <3>1, <3>2, NoReport DEF OnReceipt
    <2> QED
      BY <1>2, <2>4, <2>5, <2>6, <2>7, <2>8, RemittanceLoad, RemittanceApply DEF Pay
  <1> QED BY <1>1, <1>2 DEF Next

LEMMA RemittanceInit == Init => RemittanceInv
  BY DEF Init, RemittanceInv, OnReceipt, Idle, Applied, NoReceipt

LEMMA AtMostOne ==
  ASSUME NEW S, \A x, y \in S : x = y
  PROVE  Cardinality(S) <= 1
  <1>1. CASE S = {}
    BY <1>1, FS_EmptySet
  <1>2. ASSUME NEW x \in S PROVE Cardinality(S) <= 1
    <2>1. S = {x}
      OBVIOUS
    <2> QED BY <2>1, FS_Singleton
  <1> QED BY <1>1, <1>2

\* Funds are never double-applied, if the rail reports the remittances of an
\* intent one after the other: repetitions and crashes are harmless then.
THEOREM FundsAppliedOnce == OneRemittance /\ Spec => []AppliedOnce
  <1>1. OneRemittance /\ TypeInv /\ MoneyInv /\ RemittanceInv /\ [Next]_vars
          => (TypeInv /\ MoneyInv /\ RemittanceInv)'
    BY TypeStep, MoneyStep, RemittanceStep
  <1>2. RemittanceInv => AppliedOnce
    BY AtMostOne DEF RemittanceInv, AppliedOnce
  <1>3. Init => TypeInv /\ MoneyInv /\ RemittanceInv
    BY TypeInit, MoneyInit, RemittanceInit
  <1>4. CASE OneRemittance
    BY <1>1, <1>2, <1>3, <1>4, PTL DEF Spec
  <1> QED BY <1>4

-----------------------------------------------------------------------------
(* The abstract lifecycle *)

\* An assessment was called for payment exactly when its intent exists: both are
\* written by one transaction, and nothing takes either back.
Called == {"PAYMENT_PENDING", "PAID", "ISSUING"}
CalledInv == \A a \in Assessments : intents[a] # "ABSENT" <=> assessments[a].status \in Called

\* A step of one assessment that neither creates its intent nor calls it.
LEMMA CalledElsewhere ==
  ASSUME TypeInv, CalledInv, NEW a \in Assessments,
         \A c \in Assessments : intents'[c] # "ABSENT" <=> intents[c] # "ABSENT",
         \A c \in Assessments \ {a} : assessments'[c] = assessments[c],
         assessments'[a].status \in Called <=> assessments[a].status \in Called
  PROVE  CalledInv'
  BY DEF CalledInv

LEMMA CalledStep ==
  ASSUME TypeInv, SealedInv, CalledInv, [Next]_vars
  PROVE  CalledInv'
  <1>1. ASSUME NEW a \in Assessments, NEW p \in Principals, Submit(p, a) PROVE CalledInv'
    BY <1>1, CalledElsewhere DEF Submit, Called, TypeInv, TypeOK
  <1>2. ASSUME NEW a \in Assessments, NEW p \in Principals, NEW d \in {"APPROVE", "REJECT"}, Decide(p, a, d)
        PROVE  CalledInv'
    <2>1. PICK status \in {"REJECTED", "APPROVED", "PENDING_APPROVAL"} :
            assessments' = [assessments EXCEPT ![a].status = status]
      BY <1>2 DEF Decide, Decided
    <2>2. status \in AssessmentStatuses /\ assessments[a].status = "PENDING_APPROVAL" /\ intents' = intents
      BY <1>2 DEF AssessmentStatuses, Decide, MayDecide
    <2> QED BY <2>1, <2>2, StatusStep, CalledElsewhere DEF Called
  <1>3. ASSUME NEW a \in Assessments, StartIssuing(a) PROVE CalledInv'
    BY <1>3, StatusStep, CalledElsewhere DEF StartIssuing, Called, AssessmentStatuses
  <1>4. ASSUME NEW h \in Handlers, Pay(h) PROVE CalledInv'
    <2>1. PICK a : a = session[h].assessment
      OBVIOUS
    <2>2. CASE InsertIntent(h)
      <3>1. a \in Assessments
        BY <2>1, <2>2 DEF InsertIntent, At, TypeInv, HandlersOK, GoodSession
      <3>2. CASE intents[a] = "ABSENT" /\ Payable(a)
        <4>1. /\ assessments' = [assessments EXCEPT ![a].status = "PAYMENT_PENDING"]
              /\ intents' = [intents EXCEPT ![a] = "PENDING"]
          BY <2>1, <2>2, <3>2 DEF InsertIntent
        <4>2. /\ assessments'[a].status = "PAYMENT_PENDING"
              /\ \A c \in Assessments \ {a} : assessments'[c] = assessments[c]
          BY <3>1, <4>1, StatusStep DEF AssessmentStatuses
        <4> QED BY <3>1, <4>1, <4>2 DEF CalledInv, Called, TypeInv, TypeOK
      <3>3. CASE ~(intents[a] = "ABSENT" /\ Payable(a))
        BY <2>1, <2>2, <3>3 DEF InsertIntent, CalledInv
      <3> QED BY <3>2, <3>3
    <2>3. CASE Apply(h)
      <3>1. a \in Assessments /\ intents[a] # "ABSENT"
        BY <2>1, <2>3 DEF Apply, At, TypeInv, HandlersOK, GoodSession
      <3>2. /\ assessments' = [assessments EXCEPT ![a].status = "PAID"]
            /\ intents' = [intents EXCEPT ![a] = "SETTLED"]
        BY <2>1, <2>3 DEF Apply
      <3>3. /\ assessments'[a].status = "PAID"
            /\ \A c \in Assessments \ {a} : assessments'[c] = assessments[c]
        BY <3>1, <3>2, StatusStep DEF AssessmentStatuses
      <3> QED BY <3>1, <3>2, <3>3 DEF CalledInv, Called, TypeInv, TypeOK
    <2>4. CASE ~(InsertIntent(h) \/ Apply(h))
      <3>1. UNCHANGED <<assessments, intents>>
        BY <2>4, <1>4 DEF Pay, LoadAssessment, LoadIntent, ReturnIntent, FindNoIntent, ReturnReceipt,
             FindNoReceipt, ReceiptCollides, Quarantine, Crash, Rollback, tables
      <3> QED BY <3>1 DEF CalledInv
    <2> QED BY <2>2, <2>3, <2>4
  <1>5. CASE UNCHANGED vars
    BY <1>5 DEF CalledInv, vars, tables
  <1> QED BY <1>1, <1>2, <1>3, <1>4, <1>5 DEF Next, Officer

\* The invariant that the refinement rests on.
ObligationInv == TypeInv /\ DecisionInv /\ SealedInv /\ MoneyInv /\ RemittanceInv /\ CalledInv

LEMMA ObligationStep ==
  ASSUME ObligationInv, OneRemittance, [Next]_vars
  PROVE  ObligationInv'
  <1>1. CASE Next
    BY <1>1, TypeStep, DecisionStep, SealedStep, MoneyStep, RemittanceStep, CalledStep DEF ObligationInv
  <1>2. CASE UNCHANGED vars
    BY <1>2, TypeStep, DecisionVars, MoneyStep, RemittanceStep, CalledStep DEF ObligationInv
  <1> QED BY <1>1, <1>2

LEMMA ObligationStart == Init => ObligationInv
  <1>1. Init => CalledInv
    BY DEF Init, CalledInv, Called
  <1> QED
    BY <1>1, TypeInit, DecisionInit, MoneyInit, RemittanceInit DEF ObligationInv

\* The state of Obligation, read off the tables.
Stages == [a \in Assessments |-> assessments[a].status]
Makers == [a \in Assessments |-> assessments[a].submitted_by]
Approvers(a) == {d.principal : d \in {e \in DecisionsOn(a) : e.decision = "APPROVE"}}
Checkers == [a \in Assessments |-> Approvers(a)]
Settlements == [a \in Assessments |-> Cardinality(Applied(a))]
Tiers == [a \in Assessments |-> ApprovalsRequired(a)]

LEMMA LifecycleCounts == ASSUME NEW S PROVE Lifecycle!Cardinality(S) = Cardinality(S)
  BY DEF Lifecycle!Cardinality, Cardinality

LEMMA OnePrincipalEach ==
  ASSUME NEW S, IsFiniteSet(S), \A c, d \in S : c.principal = d.principal => c = d
  PROVE  LET P == {d.principal : d \in S} IN IsFiniteSet(P) /\ Cardinality(P) = Cardinality(S)
  <1> DEFINE P == {d.principal : d \in S}
             f == [d \in S |-> d.principal]
  <1>1. f \in Bijection(S, P)
    BY DEF Bijection, Injection, Surjection, IsInjective
  <1>2. ExistsBijection(S, P)
    BY <1>1 DEF ExistsBijection
  <1> QED BY <1>2, FS_Bijection

\* Nobody approves twice: people and approvals are as many.
LEMMA ApproversAreApprovals ==
  TypeInv /\ DecisionInv =>
    \A a \in Assessments : IsFiniteSet(Approvers(a)) /\ Cardinality(Approvers(a)) = Count(a, "APPROVE")
  <1> SUFFICES ASSUME TypeInv, DecisionInv, NEW a \in Assessments
               PROVE  IsFiniteSet(Approvers(a)) /\ Cardinality(Approvers(a)) = Count(a, "APPROVE")
    OBVIOUS
  <1> DEFINE S == {e \in DecisionsOn(a) : e.decision = "APPROVE"}
  <1>1. IsFiniteSet(S)
    BY FS_Subset DEF TypeInv, DecisionsOn
  <1>2. \A c, d \in S : c.principal = d.principal => c = d
    BY DEF DecisionInv, MakerIsNotChecker, DecisionsOn
  <1>3. Approvers(a) = {d.principal : d \in S} /\ Count(a, "APPROVE") = Cardinality(S)
    BY DEF Approvers, Count
  <1> HIDE DEF S
  <1> QED BY <1>1, <1>2, <1>3, OnePrincipalEach

LEMMA ApproversAfter ==
  (TypeInv /\ DecisionInv)' =>
    \A a \in Assessments : Cardinality(Approvers(a)') = Count(a, "APPROVE")'
  <1>1. (TypeInv /\ DecisionInv)' =>
          (\A a \in Assessments : IsFiniteSet(Approvers(a)) /\ Cardinality(Approvers(a)) = Count(a, "APPROVE"))'
    BY ApproversAreApprovals, PTL
  <1> QED BY <1>1

\* What a step that changes one assessment changes of Obligation's state.
LEMMA OneObligationMoves ==
  ASSUME NEW a \in Assessments,
         \A c \in Assessments \ {a} : /\ assessments'[c] = assessments[c]
                                      /\ Approvers(c)' = Approvers(c)
                                      /\ Applied(c)' = Applied(c),
         assessments'[a].submitted_by = assessments[a].submitted_by
  PROVE  /\ Stages' = [Stages EXCEPT ![a] = assessments'[a].status]
         /\ Makers' = Makers
         /\ Checkers' = [Checkers EXCEPT ![a] = Approvers(a)']
         /\ Settlements' = [Settlements EXCEPT ![a] = Cardinality(Applied(a)')]
  <1>1. Stages' = [Stages EXCEPT ![a] = assessments'[a].status]
    BY DEF Stages
  <1>2. Makers' = Makers
    BY DEF Makers
  <1>3. Checkers' = [Checkers EXCEPT ![a] = Approvers(a)']
    BY DEF Checkers
  <1>4. Settlements' = [Settlements EXCEPT ![a] = Cardinality(Applied(a)')]
    BY DEF Settlements
  <1> QED BY <1>1, <1>2, <1>3, <1>4

LEMMA SameApprovers == UNCHANGED approvals => \A a : Approvers(a)' = Approvers(a)
  BY DEF Approvers, DecisionsOn
LEMMA SameApplied == UNCHANGED receipts => \A a : Applied(a)' = Applied(a)
  BY DEF Applied

LEMMA SubmitIsSubmit ==
  ASSUME TypeInv, NEW p \in Principals, NEW a \in Assessments, Submit(p, a)
  PROVE  Lifecycle!Next
  <1>1. /\ assessments[a].status = "ABSENT"
        /\ assessments'[a] = [status |-> "PENDING_APPROVAL", submitted_by |-> p]
        /\ \A c \in Assessments \ {a} : assessments'[c] = assessments[c]
    BY DEF Submit, TypeInv, TypeOK
  <1>2. (\A c : Approvers(c)' = Approvers(c)) /\ (\A c : Applied(c)' = Applied(c))
    BY SameApprovers, SameApplied DEF Submit
  <1>3. /\ Stages[a] = "ABSENT"
        /\ Stages' = [Stages EXCEPT ![a] = "PENDING_APPROVAL"]
        /\ Makers' = [Makers EXCEPT ![a] = p]
    <2>1. Stages[a] = "ABSENT"
      BY <1>1 DEF Stages
    <2>2. /\ \A c \in Assessments : assessments'[c].status = IF c = a THEN "PENDING_APPROVAL" ELSE assessments[c].status
          /\ \A c \in Assessments : assessments'[c].submitted_by = IF c = a THEN p ELSE assessments[c].submitted_by
      BY <1>1
    <2>3. Stages' = [Stages EXCEPT ![a] = "PENDING_APPROVAL"]
      BY <2>2 DEF Stages
    <2>4. Makers' = [Makers EXCEPT ![a] = p]
      BY <2>2 DEF Makers
    <2> QED BY <2>1, <2>3, <2>4
  <1>4. Checkers' = Checkers
    BY <1>2 DEF Checkers
  <1>5. Settlements' = Settlements
    BY <1>2 DEF Settlements
  <1>6. Lifecycle!Submit(a, p)
    BY <1>3, <1>4, <1>5 DEF Lifecycle!Submit, Stages, Makers, Checkers, Approvers, Settlements
  <1> QED BY <1>6 DEF Lifecycle!Next

\* The row lock makes the approval that fills the tier the one that approves.
LEMMA DecideIsDecision ==
  ASSUME TypeInv, DecisionInv, NEW p \in Principals, NEW a \in Assessments,
         NEW decision \in {"APPROVE", "REJECT"}, Decide(p, a, decision)
  PROVE  Lifecycle!Next
  <1> DEFINE row == [assessment |-> a, principal |-> p, decision |-> decision,
                     level |-> Cardinality(DecisionsOn(a)) + 1]
  <1>1. /\ assessments[a].status = "PENDING_APPROVAL" /\ p # assessments[a].submitted_by
        /\ \A d \in DecisionsOn(a) : d.principal # p
        /\ approvals' = approvals \cup {row} /\ UNCHANGED receipts
    BY DEF Decide, MayDecide
  <1>2. PICK status \in {"REJECTED", "APPROVED", "PENDING_APPROVAL"} :
          /\ assessments' = [assessments EXCEPT ![a].status = status]
          /\ status = "REJECTED" <=> decision = "REJECT"
    BY DEF Decide, Decided
  <1>3. /\ assessments'[a].status = status
        /\ assessments'[a].submitted_by = assessments[a].submitted_by
        /\ \A c \in Assessments \ {a} : assessments'[c] = assessments[c]
    BY <1>2, StatusStep DEF AssessmentStatuses
  <1>4. /\ \A c \in Assessments \ {a} : Approvers(c)' = Approvers(c)
        /\ Approvers(a)' = IF decision = "APPROVE" THEN Approvers(a) \cup {p} ELSE Approvers(a)
    <2>1. \A c \in Assessments \ {a} : DecisionsOn(c)' = DecisionsOn(c)
      BY <1>1 DEF DecisionsOn
    <2>2. DecisionsOn(a)' = DecisionsOn(a) \cup {row}
      BY <1>1 DEF DecisionsOn
    <2>3. row.principal = p /\ row.decision = decision
      OBVIOUS
    <2> HIDE DEF row
    <2>4. Approvers(a)' = IF decision = "APPROVE" THEN Approvers(a) \cup {p} ELSE Approvers(a)
      BY <2>2, <2>3 DEF Approvers
    <2> QED BY <2>1, <2>4 DEF Approvers
  <1>5. \A c : Applied(c)' = Applied(c)
    BY <1>1, SameApplied
  <1>6. /\ Stages' = [Stages EXCEPT ![a] = status] /\ Makers' = Makers
        /\ Checkers' = [Checkers EXCEPT ![a] = Approvers(a)'] /\ Settlements' = Settlements
    <2>1. /\ Stages' = [Stages EXCEPT ![a] = assessments'[a].status] /\ Makers' = Makers
          /\ Checkers' = [Checkers EXCEPT ![a] = Approvers(a)']
      BY <1>3, <1>4, <1>5, OneObligationMoves
    <2>2. Settlements' = Settlements
      BY <1>5 DEF Settlements
    <2> QED BY <1>3, <2>1, <2>2
  <1>7. /\ Stages[a] = "PENDING_APPROVAL" /\ p # Makers[a] /\ Checkers[a] = Approvers(a)
        /\ p \notin Checkers[a] /\ a \in DOMAIN Checkers
    BY <1>1 DEF Stages, Makers, Checkers, Approvers
  <1>8. CASE decision = "REJECT"
    <2>1. Checkers' = Checkers
      BY <1>3, <1>4, <1>8 DEF Checkers
    <2>2. Lifecycle!Reject(a)
      BY <1>2, <1>6, <1>7, <1>8, <2>1 DEF Lifecycle!Reject, Stages, Makers, Checkers, Approvers, Settlements
    <2> QED BY <2>2 DEF Lifecycle!Next
  <1>9. CASE decision = "APPROVE"
    <2>1. Checkers' = [Checkers EXCEPT ![a] = @ \cup {p}] /\ Checkers'[a] = Approvers(a) \cup {p}
      BY <1>4, <1>6, <1>7, <1>9
    <2>2. Cardinality(Checkers'[a]) = Count(a, "APPROVE") + 1 /\ Count(a, "APPROVE") \in Nat
      <3>1. IsFiniteSet(Approvers(a)) /\ Cardinality(Approvers(a)) = Count(a, "APPROVE") /\ p \notin Approvers(a)
        BY <1>7, ApproversAreApprovals
      <3> QED BY <2>1, <3>1, FS_AddElement, FS_CardinalityType
    <2>3. Count(a, "APPROVE") < ApprovalsRequired(a) /\ ApprovalsRequired(a) \in Nat /\ Tiers[a] = ApprovalsRequired(a)
      BY <1>1, <2>2, RequiredType DEF DecisionInv, StatusFollowsDecisions, Sealed, Tiers
    <2>4. assessments'[a].status \in Sealed <=> Count(a, "APPROVE")' >= ApprovalsRequired(a)
      BY DecisionDecide DEF DecisionInv, StatusFollowsDecisions, ApprovalsRequired
    <2>5. Count(a, "APPROVE")' = Cardinality(Checkers'[a])
      <3>1. TypeInv' /\ DecisionInv'
        BY DecisionDecide, TypeStep DEF Next, Officer
      <3>2. Cardinality(Approvers(a)') = Count(a, "APPROVE")'
        BY <3>1, ApproversAfter
      <3> QED BY <3>2 DEF Checkers
    <2>6. status = IF Cardinality(Checkers'[a]) = Tiers[a] THEN "APPROVED" ELSE Stages[a]
      BY <1>2, <1>3, <1>7, <1>9, <2>2, <2>3, <2>4, <2>5 DEF Sealed
    <2>7. Stages' = [Stages EXCEPT ![a] = IF Cardinality(Checkers'[a]) = Tiers[a] THEN "APPROVED" ELSE @]
      BY <1>6, <2>6
    <2>8. Lifecycle!Approve(a, p)
      BY <1>6, <1>7, <2>1, <2>7, LifecycleCounts
         DEF Lifecycle!Approve, Stages, Makers, Checkers, Approvers, Settlements, Tiers
    <2> QED BY <2>8 DEF Lifecycle!Next
  <1> QED BY <1>8, <1>9

\* A step that changes the status of one assessment and no decision or receipt.
LEMMA StageMoves ==
  ASSUME TypeInv, NEW a \in Assessments, NEW status \in AssessmentStatuses,
         assessments' = [assessments EXCEPT ![a].status = status],
         UNCHANGED approvals
  PROVE  /\ Stages' = [Stages EXCEPT ![a] = status]
         /\ Makers' = Makers /\ Checkers' = Checkers
  <1>1. /\ \A c \in Assessments : assessments'[c].status = IF c = a THEN status ELSE assessments[c].status
        /\ \A c \in Assessments : assessments'[c].submitted_by = assessments[c].submitted_by
    <2>1. /\ assessments'[a].status = status
          /\ assessments'[a].submitted_by = assessments[a].submitted_by
          /\ \A c \in Assessments \ {a} : assessments'[c] = assessments[c]
      BY StatusStep
    <2> QED BY <2>1
  <1>2. Stages' = [Stages EXCEPT ![a] = status]
    BY <1>1 DEF Stages
  <1>3. Makers' = Makers
    BY <1>1 DEF Makers
  <1>4. Checkers' = Checkers
    BY SameApprovers DEF Checkers
  <1> QED BY <1>2, <1>3, <1>4

\* An intent is inserted for an approved assessment, whatever was read before: the
\* view was APPROVED, nothing takes that back, and the unique key admits one call.
LEMMA InsertIsCall ==
  ASSUME TypeInv, SealedInv, CalledInv, NEW h \in Handlers, InsertIntent(h)
  PROVE  Lifecycle!Next \/ UNCHANGED <<Stages, Makers, Checkers, Settlements>>
  <1>1. PICK a : a = session[h].assessment
    OBVIOUS
  <1>2. a \in Assessments /\ UNCHANGED <<approvals, receipts>>
    BY <1>1 DEF InsertIntent, At, TypeInv, HandlersOK, GoodSession
  <1>3. Settlements' = Settlements
    BY <1>2, SameApplied DEF Settlements
  <1>4. CASE intents[a] = "ABSENT" /\ Payable(a)
    <2>1. assessments' = [assessments EXCEPT ![a].status = "PAYMENT_PENDING"]
      BY <1>1, <1>4 DEF InsertIntent
    <2>2. assessments[a].status = "APPROVED"
      <3>1. assessments[a].status \in Sealed
        BY <1>1 DEF InsertIntent, At, SealedInv
      <3>2. assessments[a].status \notin Called
        BY <1>2, <1>4 DEF CalledInv
      <3> QED BY <3>1, <3>2 DEF Sealed, Called
    <2>3. /\ Stages' = [Stages EXCEPT ![a] = "PAYMENT_PENDING"]
          /\ Makers' = Makers /\ Checkers' = Checkers
      BY <1>2, <2>1, StageMoves DEF AssessmentStatuses
    <2>4. Stages[a] = "APPROVED"
      BY <1>2, <2>2 DEF Stages
    <2>5. Lifecycle!Call(a)
      BY <1>3, <2>3, <2>4 DEF Lifecycle!Call, Stages, Makers, Checkers, Approvers, Settlements
    <2> QED BY <1>2, <2>5 DEF Lifecycle!Next
  <1>5. CASE ~(intents[a] = "ABSENT" /\ Payable(a))
    <2>1. UNCHANGED assessments
      BY <1>1, <1>5 DEF InsertIntent
    <2>2. Stages' = Stages /\ Makers' = Makers
      BY <2>1 DEF Stages, Makers
    <2>3. Checkers' = Checkers
      BY <1>2, SameApprovers DEF Checkers
    <2> QED BY <1>3, <2>2, <2>3
  <1> QED BY <1>4, <1>5

\* Only the first report of an intent finds it unsettled, so no receipt is applied to
\* an obligation that was settled before.
LEMMA ApplyIsSettlement ==
  ASSUME ObligationInv, NEW h \in Handlers, Apply(h)
  PROVE  Lifecycle!Next
  <1>1. PICK a, x : a = session[h].assessment /\ x = session[h].remittance.reference
    OBVIOUS
  <1>2. /\ x \in References /\ a \in Assessments /\ receipts[x].status = "ABSENT"
        /\ \A c \in Assessments : Applied(c)' = IF c = a THEN Applied(c) \cup {x} ELSE Applied(c)
    BY <1>1, Application DEF ObligationInv
  <1>3. Applied(a) = {}
    <2>1. OnReceipt(h) /\ session[h].view # "SETTLED"
      BY DEF Apply, At, OnReceipt, Applicable
    <2>2. Applied(a) \subseteq {x}
      BY <1>1, <2>1 DEF ObligationInv, RemittanceInv
    <2>3. x \notin Applied(a)
      BY <1>2 DEF Applied
    <2> QED BY <2>2, <2>3
  <1>4. assessments[a].status = "PAYMENT_PENDING"
    <2>1. intents[a] # "ABSENT"
      BY <1>1 DEF Apply, At, ObligationInv, TypeInv, HandlersOK, GoodSession
    <2>2. assessments[a].status \notin {"PAID", "ISSUING"}
      BY <1>2, <1>3 DEF ObligationInv, MoneyInv, PaidByExactReceipt
    <2> QED BY <1>2, <2>1, <2>2 DEF ObligationInv, CalledInv, Called
  <1>5. /\ Stages' = [Stages EXCEPT ![a] = "PAID"]
        /\ Makers' = Makers /\ Checkers' = Checkers
    <2>1. assessments' = [assessments EXCEPT ![a].status = "PAID"] /\ UNCHANGED approvals
      BY <1>1 DEF Apply
    <2> QED BY <1>2, <2>1, StageMoves DEF ObligationInv, AssessmentStatuses
  <1>6. Settlements[a] = 0 /\ Settlements' = [Settlements EXCEPT ![a] = 1]
    <2>1. Cardinality(Applied(a)) = 0
      BY <1>3, FS_EmptySet
    <2>2. Applied(a)' = {x}
      BY <1>2, <1>3
    <2>3. \A c \in Assessments : Cardinality(Applied(c)') = IF c = a THEN 1 ELSE Cardinality(Applied(c))
      BY <1>2, <2>2, FS_Singleton
    <2>4. Settlements' = [Settlements EXCEPT ![a] = 1]
      BY <2>3 DEF Settlements
    <2> QED BY <1>2, <2>1, <2>4 DEF Settlements
  <1>7. Stages[a] = "PAYMENT_PENDING"
    BY <1>2, <1>4 DEF Stages
  <1>8. Lifecycle!Settle(a)
    BY <1>5, <1>6, <1>7 DEF Lifecycle!Settle, Stages, Makers, Checkers, Approvers, Settlements
  <1> QED BY <1>2, <1>8 DEF Lifecycle!Next

LEMMA StartIsIssue ==
  ASSUME TypeInv, NEW a \in Assessments, StartIssuing(a)
  PROVE  Lifecycle!Next
  <1>1. /\ Stages' = [Stages EXCEPT ![a] = "ISSUING"]
        /\ Makers' = Makers /\ Checkers' = Checkers
    BY StageMoves DEF StartIssuing, AssessmentStatuses
  <1>2. Settlements' = Settlements
    BY SameApplied DEF StartIssuing, Settlements
  <1>3. Stages[a] = "PAID"
    BY DEF Stages, StartIssuing
  <1>4. Lifecycle!Issue(a)
    BY <1>1, <1>2, <1>3 DEF Lifecycle!Issue, Stages, Makers, Checkers, Approvers, Settlements
  <1> QED BY <1>4 DEF Lifecycle!Next

\* Every other step leaves the obligations alone.
LEMMA StepIsLifecycle ==
  ASSUME ObligationInv, [Next]_vars
  PROVE  Lifecycle!Next \/ UNCHANGED <<Stages, Makers, Checkers, Settlements>>
  <1>1. ASSUME UNCHANGED <<assessments, approvals>>, \A a \in Assessments : Applied(a)' = Applied(a)
        PROVE  UNCHANGED <<Stages, Makers, Checkers, Settlements>>
    <2>1. Stages' = Stages /\ Makers' = Makers
      BY <1>1 DEF Stages, Makers
    <2>2. Checkers' = Checkers
      BY <1>1, SameApprovers DEF Checkers
    <2>3. Settlements' = Settlements
      BY <1>1 DEF Settlements
    <2> QED BY <2>1, <2>2, <2>3
  <1>2. ASSUME UNCHANGED tables PROVE UNCHANGED <<Stages, Makers, Checkers, Settlements>>
    BY <1>1, <1>2, SameApplied DEF tables
  <1>3. CASE Officer
    BY <1>3, SubmitIsSubmit, DecideIsDecision, StartIsIssue DEF Officer, ObligationInv
  <1>4. ASSUME NEW h \in Handlers, Pay(h)
        PROVE  Lifecycle!Next \/ UNCHANGED <<Stages, Makers, Checkers, Settlements>>
    <2>1. CASE InsertIntent(h)
      BY <2>1, InsertIsCall DEF ObligationInv
    <2>2. CASE Apply(h)
      BY <2>2, ApplyIsSettlement
    <2>3. CASE Quarantine(h)
      <3>1. PICK x : x = session[h].remittance.reference
        OBVIOUS
      <3>2. x \in References /\ receipts[x].status = "ABSENT" /\ receipts \in [References -> Receipt]
        BY <2>3, <3>1, FreshReference DEF Quarantine, ObligationInv, TypeInv, TypeOK
      <3>3. receipts'[x].status = "QUARANTINED" /\ \A y \in References \ {x} : receipts'[y] = receipts[y]
        BY <2>3, <3>1, <3>2 DEF Quarantine, Stored
      <3>4. \A a \in Assessments : Applied(a)' = Applied(a)
        BY <3>2, <3>3 DEF Applied
      <3> QED BY <2>3, <3>4, <1>1 DEF Quarantine
    <2>4. CASE ~(InsertIntent(h) \/ Apply(h) \/ Quarantine(h))
      <3>1. UNCHANGED tables
        BY <2>4, <1>4 DEF Pay, LoadAssessment, LoadIntent, ReturnIntent, FindNoIntent, ReturnReceipt,
             FindNoReceipt, ReceiptCollides, Crash, Rollback
      <3> QED BY <3>1, <1>2
    <2> QED BY <2>1, <2>2, <2>3, <2>4
  <1>5. CASE UNCHANGED vars
    <2>1. UNCHANGED tables
      BY <1>5 DEF vars, tables
    <2> QED BY <2>1, <1>2
  <1> QED BY <1>3, <1>4, <1>5 DEF Next

LEMMA LifecycleStart == Init => Lifecycle!Init
  <1> SUFFICES ASSUME Init PROVE Lifecycle!Init
    OBVIOUS
  <1>1. /\ Stages = [a \in Assessments |-> "ABSENT"]
        /\ Makers = [a \in Assessments |-> Nobody]
    BY DEF Init, Stages, Makers
  <1>2. Checkers = [a \in Assessments |-> {}]
    BY DEF Init, Checkers, Approvers, DecisionsOn
  <1>3. \A a \in Assessments : Applied(a) = {}
    BY DEF Init, Applied, NoReceipt
  <1>4. Settlements = [a \in Assessments |-> 0]
    BY <1>3, FS_EmptySet DEF Settlements
  <1> QED BY <1>1, <1>2, <1>4 DEF Lifecycle!Init, Stages, Makers, Checkers, Approvers, Settlements

\* If the rail reports one remittance of an intent after the other, settlement
\* implements Obligation: whatever officers, payment requests and crashes do, an
\* obligation is approved by its tier, called, settled once and only then issued
\* (assessments.py, payments.py).
THEOREM ObligationsFollowLifecycle == OneRemittance /\ Spec => FollowsLifecycle
  <1>1. ObligationInv /\ OneRemittance /\ [Next]_vars => ObligationInv'
    BY ObligationStep
  <1>2. ObligationInv /\ [Next]_vars
          => [Lifecycle!Next]_<<[a \in Assessments |-> assessments[a].status],
                                [a \in Assessments |-> assessments[a].submitted_by],
                                [a \in Assessments |-> {d.principal : d \in {e \in DecisionsOn(a) : e.decision = "APPROVE"}}],
                                [a \in Assessments |-> Cardinality(Applied(a))]>>
    BY StepIsLifecycle DEF Stages, Makers, Checkers, Approvers, Settlements
  <1>3. CASE OneRemittance
    BY <1>1, <1>2, <1>3, ObligationStart, LifecycleStart, PTL DEF Spec, FollowsLifecycle, Lifecycle!Spec
  <1> QED BY <1>3
=============================================================================
