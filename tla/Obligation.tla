----------------------------- MODULE Obligation -----------------------------
(***************************************************************************)
(* What a duty obligation promises before any stamp is minted: it is        *)
(* approved by as many people as its tier demands, none of them the one who *)
(* submitted it; it is called for payment once, settled once, and only then *)
(* may issuance begin.  Nothing leads back.                                 *)
(***************************************************************************)
EXTENDS Naturals, FiniteSets

CONSTANTS Assessments, Principals, Nobody, Required

VARIABLES status, maker, checkers, settled

Submit(a, p) ==
  /\ status[a] = "ABSENT"
  /\ status' = [status EXCEPT ![a] = "PENDING_APPROVAL"]
  /\ maker' = [maker EXCEPT ![a] = p]
  /\ UNCHANGED <<checkers, settled>>

Approve(a, p) ==
  /\ status[a] = "PENDING_APPROVAL" /\ p # maker[a] /\ p \notin checkers[a]
  /\ checkers' = [checkers EXCEPT ![a] = @ \cup {p}]
  /\ status' = [status EXCEPT ![a] = IF Cardinality(checkers'[a]) = Required[a] THEN "APPROVED" ELSE @]
  /\ UNCHANGED <<maker, settled>>

Reject(a) ==
  /\ status[a] = "PENDING_APPROVAL"
  /\ status' = [status EXCEPT ![a] = "REJECTED"]
  /\ UNCHANGED <<maker, checkers, settled>>

Call(a) ==
  /\ status[a] = "APPROVED"
  /\ status' = [status EXCEPT ![a] = "PAYMENT_PENDING"]
  /\ UNCHANGED <<maker, checkers, settled>>

Settle(a) ==
  /\ status[a] = "PAYMENT_PENDING" /\ settled[a] = 0
  /\ status' = [status EXCEPT ![a] = "PAID"]
  /\ settled' = [settled EXCEPT ![a] = 1]
  /\ UNCHANGED <<maker, checkers>>

Issue(a) ==
  /\ status[a] = "PAID"
  /\ status' = [status EXCEPT ![a] = "ISSUING"]
  /\ UNCHANGED <<maker, checkers, settled>>

Init ==
  /\ status = [a \in Assessments |-> "ABSENT"]
  /\ maker = [a \in Assessments |-> Nobody]
  /\ checkers = [a \in Assessments |-> {}]
  /\ settled = [a \in Assessments |-> 0]

Next ==
  \E a \in Assessments :
    \/ Reject(a) \/ Call(a) \/ Settle(a) \/ Issue(a)
    \/ \E p \in Principals : Submit(a, p) \/ Approve(a, p)

Spec == Init /\ [][Next]_<<status, maker, checkers, settled>>
=============================================================================
