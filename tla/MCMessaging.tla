---------------------------- MODULE MCMessaging ----------------------------
(* Constants for the runs of Messaging. *)
EXTENDS Messaging, TLC

CONSTANTS e1, e2, e3, d1, d2, alice, bob, k1, k2, q1, q2, q3, q4, c1, c2, r1, r2

Msg(e, d, ok) == [event |-> e, ref |-> d, accepted |-> ok]
Asks(op, by, key, ref) == [op |-> op, by |-> by, key |-> key, ref |-> ref]

\* A forged event, and one whose reference the API may declare first.
MCTopic == <<Msg(e2, d1, FALSE), Msg(e1, d1, TRUE)>>

\* A declaration, an assessment and its retry, and an assessment without a key.
MCCall == q1 :> Asks("declare", alice, k1, d1) @@ q2 :> Asks("assess", bob, k2, d1)
       @@ q3 :> Asks("assess", bob, k2, d1) @@ q4 :> Asks("assess", bob, NoKey, d1)

\* The retry asks what the first call asks.
Symmetry == Permutations(Consumers) \cup Permutations(Publishers) \cup Permutations({q2, q3})

\* A submission, its retry, and one without a key: two messages.
DrainTopic == <<Msg(e1, d1, TRUE)>>
DrainCall == q2 :> Asks("assess", bob, k2, d1) @@ q3 :> Asks("assess", bob, k2, d1)
          @@ q4 :> Asks("assess", bob, NoKey, d1)

\* Two officers whose clients chose the same Idempotency-Key for different declarations.
SharedKeyTopic == <<Msg(e1, d1, TRUE), Msg(e2, d2, TRUE)>>
SharedKeyCall == q1 :> Asks("assess", alice, k1, d1) @@ q2 :> Asks("assess", bob, k1, d2)

\* A second event for a reference that was declared, and an event after it.
StallTopic == <<Msg(e1, d1, TRUE), Msg(e2, d1, TRUE), Msg(e3, d2, TRUE)>>
NoCall == [q \in {} |-> Asks("declare", alice, NoKey, d1)]
=============================================================================
