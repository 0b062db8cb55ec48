--------------------------- MODULE MessagingProofs ---------------------------
(***************************************************************************)
(* Theorems about Messaging: the publishers leave the intake as it is alone, *)
(* so that its theorems hold of the whole; and no row is sent more often     *)
(* than crashes explain, for any number of publishers and rows.              *)
(***************************************************************************)
EXTENDS Messaging, IntakeProofs

\* The intake sees nothing of the publishers: they leave the outbox table as it is, and
\* published_at is no column the intake reads.
THEOREM IntakeIsUndisturbed == MSpec => Spec
  <1>1. MInit => Init
    BY DEF MInit
  <1>2. [MNext]_<<vars, publishing>> => [Next]_vars
    <2> SUFFICES ASSUME [MNext]_<<vars, publishing>> PROVE [Next]_vars
      OBVIOUS
    <2>1. ASSUME NEW p \in Publishers, Drain!PublisherStep(p),
                 UNCHANGED <<kafka, declarations, processed, assessments, idempotency, audit,
                             session, auditLock, failures>>
          PROVE  UNCHANGED vars
      <3>1. outbox' = outbox
        BY <2>1 DEF Drain!PublisherStep, Drain!Select, Drain!Send, Drain!CommitBatch, Drain!Restart
      <3> QED BY <2>1, <3>1 DEF vars, tables
    <2> QED BY <2>1 DEF MNext
  <1> QED BY <1>1, <1>2, PTL DEF MSpec, Spec

\* What the run messaging checks of the intake holds of the composed system at every size.
THEOREM MessagingKeepsIntake ==
  /\ MSpec => [](TypeOK /\ ChainNeverForks)
  /\ FirstOffset = 0 /\ MSpec => []OffsetBehindDatabase
  /\ EventsApart /\ KeysApart /\ MSpec => []OneEffectPerKey
  <1>1. MSpec => [](TypeOK /\ ChainNeverForks)
    BY IntakeIsUndisturbed, IntakeTyped, AuditIsAChain, PTL
  <1>2. FirstOffset = 0 /\ MSpec => []OffsetBehindDatabase
    <2>1. CASE FirstOffset = 0
      <3>1. Spec => []OffsetBehindDatabase
        BY <2>1, OffsetsFollowCommits
      <3> QED BY <3>1, IntakeIsUndisturbed, PTL
    <2> QED BY <2>1
  <1>3. EventsApart /\ KeysApart /\ MSpec => []OneEffectPerKey
    <2>1. CASE EventsApart /\ KeysApart
      BY <2>1, IntakeIsUndisturbed, OneEffect, PTL
    <2> QED BY <2>1
  <1> QED BY <1>1, <1>2, <1>3

-----------------------------------------------------------------------------
(* Rows, locks and copies *)

Count(i, bag) == IF i \in DOMAIN bag THEN bag[i] ELSE 0
IsCount(bag) == bag \in [DOMAIN bag -> Nat \ {0}]

\* A row that somebody sent and has not committed yet.
InFlight(i) == \E p \in Publishers : i \in sent[p]
Due(i) == Count(i, restarts.of) + (IF i \in DOMAIN published \/ InFlight(i) THEN 1 ELSE 0)

\* A row is locked by one publisher at a time, until it is marked; a copy in the broker is
\* the one that was marked, the one in flight, or one of a crash.
PublisherInv ==
  /\ DOMAIN held = Publishers /\ DOMAIN sent = Publishers
  /\ \A p \in Publishers : sent[p] \subseteq held[p] /\ held[p] \cap DOMAIN published = {}
  /\ \A p, o \in Publishers : p # o => held[p] \cap held[o] = {}
  /\ IsCount(broker) /\ IsCount(restarts.of) /\ DOMAIN restarts = {"total", "of"}
  /\ \A i \in DOMAIN broker : Count(i, broker) <= Due(i)

\* One more of each of a set of rows.
LEMMA OneMore ==
  ASSUME NEW B, IsCount(B), NEW S, NEW C,
         C = [e \in DOMAIN B \cup S |-> (IF e \in DOMAIN B THEN B[e] ELSE 0) + (IF e \in S THEN 1 ELSE 0)]
  PROVE  /\ IsCount(C) /\ DOMAIN C = DOMAIN B \cup S
         /\ \A i : Count(i, C) = Count(i, B) + (IF i \in S THEN 1 ELSE 0)
  <1>1. DOMAIN C = DOMAIN B \cup S
    OBVIOUS
  <1>2. \A e \in DOMAIN C : C[e] = (IF e \in DOMAIN B THEN B[e] ELSE 0) + (IF e \in S THEN 1 ELSE 0)
    OBVIOUS
  <1>3. \A e \in DOMAIN B : B[e] \in Nat \ {0}
    BY DEF IsCount
  <1>4. C \in [DOMAIN C -> Nat \ {0}]
    <2>1. \A e \in DOMAIN C : C[e] \in Nat \ {0}
      BY <1>1, <1>2, <1>3
    <2> QED BY <1>1, <2>1
  <1>5. \A i : Count(i, C) = Count(i, B) + (IF i \in S THEN 1 ELSE 0)
    BY <1>1, <1>2, <1>3 DEF Count
  <1> QED BY <1>1, <1>4, <1>5 DEF IsCount

LEMMA CountType == ASSUME NEW bag, IsCount(bag), NEW i PROVE Count(i, bag) \in Nat
  BY DEF IsCount, Count

LEMMA PublishersStart == MInit => PublisherInv
  <1> SUFFICES ASSUME MInit PROVE PublisherInv
    OBVIOUS
  <1>1. /\ held = [p \in Publishers |-> {}] /\ sent = [p \in Publishers |-> {}]
        /\ DOMAIN broker = {} /\ DOMAIN published = {}
        /\ DOMAIN restarts.of = {} /\ DOMAIN restarts = {"total", "of"}
    BY DEF MInit, Drain!InitPublishers, Drain!EmptyBag, Drain!SetToBag
  <1>2. IsCount(broker) /\ IsCount(restarts.of)
    BY DEF MInit, Drain!InitPublishers, Drain!EmptyBag, Drain!SetToBag, IsCount
  <1> QED BY <1>1, <1>2 DEF PublisherInv

\* SKIP LOCKED: nobody else holds what is selected, and nothing marked is selected.
LEMMA SelectRows ==
  ASSUME PublisherInv, NEW p \in Publishers, Drain!Select(p)
  PROVE  PublisherInv'
  <1>1. PICK batch : /\ held' = [held EXCEPT ![p] = batch] /\ held[p] = {}
                     /\ batch \subseteq Drain!Available
    BY DEF Drain!Select, Drain!kSubset
  <1>2. UNCHANGED <<published, sent, broker, restarts>>
    BY DEF Drain!Select
  <1>3. batch \cap DOMAIN published = {} /\ \A o \in Publishers : batch \cap held[o] = {}
    BY <1>1 DEF Drain!Available, Drain!BagIn, Drain!BagToSet
  <1>4. \A i : Due(i)' = Due(i)
    <2>1. \A i : InFlight(i)' <=> InFlight(i)
      BY <1>2 DEF InFlight
    <2> QED BY <1>2, <2>1 DEF Due, Count
  <1>5. /\ DOMAIN held' = Publishers
        /\ \A o \in Publishers : held'[o] = IF o = p THEN batch ELSE held[o]
    BY <1>1 DEF PublisherInv
  <1>6. \A i \in DOMAIN broker' : Count(i, broker') <= Due(i)'
    BY <1>2, <1>4 DEF PublisherInv
  <1> QED BY <1>1, <1>2, <1>3, <1>5, <1>6 DEF PublisherInv

\* A row in the hands of its publisher is neither marked nor in flight before it is sent.
LEMMA SendRow ==
  ASSUME PublisherInv, NEW p \in Publishers, Drain!Send(p)
  PROVE  PublisherInv'
  <1>1. PICK i \in held[p] \ sent[p] :
          /\ broker' = [e \in DOMAIN broker \cup {i} |->
                         (IF e \in DOMAIN broker THEN broker[e] ELSE 0) + (IF e \in {i} THEN 1 ELSE 0)]
          /\ sent' = [sent EXCEPT ![p] = @ \cup {i}]
          /\ UNCHANGED <<published, held, restarts>>
    BY DEF Drain!Send, Drain!SetToBag, Drain!(+)
  <1>2. /\ IsCount(broker') /\ DOMAIN broker' = DOMAIN broker \cup {i}
        /\ \A j : Count(j, broker') = Count(j, broker) + (IF j \in {i} THEN 1 ELSE 0)
    <2>1. PICK bag, one : bag = broker' /\ one = {i}
      OBVIOUS
    <2>2. bag = [e \in DOMAIN broker \cup one |->
                   (IF e \in DOMAIN broker THEN broker[e] ELSE 0) + (IF e \in one THEN 1 ELSE 0)]
      BY <1>1, <2>1
    <2>3. /\ IsCount(bag) /\ DOMAIN bag = DOMAIN broker \cup one
          /\ \A j : Count(j, bag) = Count(j, broker) + (IF j \in one THEN 1 ELSE 0)
      BY <2>2, OneMore DEF PublisherInv
    <2> QED BY <2>1, <2>3
  <1>3. /\ DOMAIN sent' = Publishers
        /\ \A o \in Publishers : sent'[o] = IF o = p THEN sent[p] \cup {i} ELSE sent[o]
    BY <1>1 DEF PublisherInv
  <1>4. i \notin DOMAIN published /\ ~InFlight(i)
    BY <1>1 DEF PublisherInv, InFlight
  <1>5. \A j : InFlight(j)' <=> InFlight(j) \/ j = i
    BY <1>3 DEF InFlight
  <1>6. ASSUME NEW j \in DOMAIN broker' PROVE Count(j, broker') <= Due(j)'
    <2>1. Due(j)' = IF j = i THEN Count(i, restarts.of) + 1 ELSE Due(j)
      BY <1>1, <1>5 DEF Due, Count
    <2>2. Count(i, restarts.of) \in Nat /\ Count(i, broker) \in Nat
      BY CountType DEF PublisherInv
    <2>3. Count(i, broker) <= Count(i, restarts.of)
      <3>1. CASE i \in DOMAIN broker
        BY <1>4, <2>2, <3>1 DEF PublisherInv, Due
      <3>2. CASE i \notin DOMAIN broker
        BY <2>2, <3>2 DEF Count
      <3> QED BY <3>1, <3>2
    <2>4. CASE j = i
      BY <1>2, <2>1, <2>2, <2>3, <2>4
    <2>5. CASE j # i
      <3>1. Count(j, broker) <= Due(j) /\ Count(j, broker) \in Nat
        BY <1>2, <2>5, CountType DEF PublisherInv
      <3> QED BY <1>2, <2>1, <2>5, <3>1
    <2> QED BY <2>4, <2>5
  <1>7. \A o \in Publishers : sent'[o] \subseteq held'[o] /\ held'[o] \cap DOMAIN published' = {}
    BY <1>1, <1>3 DEF PublisherInv
  <1> QED BY <1>1, <1>2, <1>3, <1>6, <1>7 DEF PublisherInv

\* published_at is committed for exactly the rows that were sent.
LEMMA CommitRows ==
  ASSUME PublisherInv, NEW p \in Publishers, Drain!CommitBatch(p)
  PROVE  PublisherInv'
  <1>1. /\ sent[p] = held[p] /\ DOMAIN published' = DOMAIN published \cup held[p]
        /\ held' = [held EXCEPT ![p] = {}] /\ sent' = [sent EXCEPT ![p] = {}]
        /\ UNCHANGED <<broker, restarts>>
    BY DEF Drain!CommitBatch, Drain!Acknowledged, Drain!Released, Drain!SetToBag, Drain!(+)
  <1>2. /\ DOMAIN held' = Publishers /\ DOMAIN sent' = Publishers
        /\ \A o \in Publishers : held'[o] = (IF o = p THEN {} ELSE held[o])
                                 /\ sent'[o] = (IF o = p THEN {} ELSE sent[o])
    BY <1>1 DEF PublisherInv
  <1>3. \A j : j \in DOMAIN published' \/ InFlight(j)' <=> j \in DOMAIN published \/ InFlight(j)
    BY <1>1, <1>2 DEF InFlight
  <1>4. \A j : Due(j)' = Due(j)
    BY <1>1, <1>3 DEF Due, Count
  <1>5. \A j \in DOMAIN broker' : Count(j, broker') <= Due(j)'
    BY <1>1, <1>4 DEF PublisherInv
  <1>6. \A o \in Publishers : sent'[o] \subseteq held'[o] /\ held'[o] \cap DOMAIN published' = {}
    BY <1>1, <1>2 DEF PublisherInv
  <1>7. \A q, o \in Publishers : q # o => held'[q] \cap held'[o] = {}
    BY <1>2 DEF PublisherInv
  <1> QED BY <1>1, <1>2, <1>5, <1>6, <1>7 DEF PublisherInv

\* A crash makes copies of what was sent, at most one of each row that was held.
LEMMA RestartRows ==
  ASSUME PublisherInv, NEW p \in Publishers, Drain!Restart(p)
  PROVE  PublisherInv'
  <1>1. /\ restarts' = [total |-> restarts.total + 1,
                        of |-> [e \in DOMAIN restarts.of \cup held[p] |->
                                 (IF e \in DOMAIN restarts.of THEN restarts.of[e] ELSE 0)
                                   + (IF e \in held[p] THEN 1 ELSE 0)]]
        /\ held' = [held EXCEPT ![p] = {}] /\ sent' = [sent EXCEPT ![p] = {}]
        /\ UNCHANGED <<published, broker>>
    BY DEF Drain!Restart, Drain!Released, Drain!SetToBag, Drain!(+)
  <1>2. /\ IsCount(restarts'.of) /\ DOMAIN restarts' = {"total", "of"}
        /\ \A j : Count(j, restarts'.of) = Count(j, restarts.of) + (IF j \in held[p] THEN 1 ELSE 0)
    <2>1. PICK bag : bag = restarts'.of
      OBVIOUS
    <2>2. bag = [e \in DOMAIN restarts.of \cup held[p] |->
                   (IF e \in DOMAIN restarts.of THEN restarts.of[e] ELSE 0) + (IF e \in held[p] THEN 1 ELSE 0)]
      BY <1>1, <2>1
    <2>3. IsCount(bag) /\ \A j : Count(j, bag) = Count(j, restarts.of) + (IF j \in held[p] THEN 1 ELSE 0)
      BY <2>2, OneMore DEF PublisherInv
    <2> QED BY <1>1, <2>1, <2>3
  <1>3. /\ DOMAIN held' = Publishers /\ DOMAIN sent' = Publishers
        /\ \A o \in Publishers : held'[o] = (IF o = p THEN {} ELSE held[o])
                                 /\ sent'[o] = (IF o = p THEN {} ELSE sent[o])
    BY <1>1 DEF PublisherInv
  <1>4. \A j : InFlight(j) => InFlight(j)' \/ j \in held[p]
    BY <1>3 DEF InFlight, PublisherInv
  <1>5. ASSUME NEW j \in DOMAIN broker' PROVE Count(j, broker') <= Due(j)'
    <2>1. /\ Count(j, broker) <= Due(j) /\ Count(j, broker) \in Nat /\ Count(j, restarts.of) \in Nat
          /\ Count(j, broker') = Count(j, broker)
      BY <1>1, CountType DEF PublisherInv
    <2>2. Due(j)' = Count(j, restarts'.of) + (IF j \in DOMAIN published \/ InFlight(j)' THEN 1 ELSE 0)
      BY <1>1 DEF Due, Count
    <2> QED BY <1>2, <1>4, <2>1, <2>2 DEF Due
  <1>6. \A o \in Publishers : sent'[o] \subseteq held'[o] /\ held'[o] \cap DOMAIN published' = {}
    BY <1>1, <1>3 DEF PublisherInv
  <1>7. \A q, o \in Publishers : q # o => held'[q] \cap held'[o] = {}
    BY <1>3 DEF PublisherInv
  <1> QED BY <1>1, <1>2, <1>3, <1>5, <1>6, <1>7 DEF PublisherInv

LEMMA PublishersStep ==
  ASSUME PublisherInv, [MNext]_<<vars, publishing>>
  PROVE  PublisherInv'
  <1>1. CASE UNCHANGED publishing
    BY <1>1 DEF publishing, PublisherInv, Due, InFlight, Count, IsCount
  <1>2. ASSUME NEW p \in Publishers, Drain!PublisherStep(p) PROVE PublisherInv'
    BY <1>2, SelectRows, SendRow, CommitRows, RestartRows DEF Drain!PublisherStep
  <1> QED BY <1>1, <1>2 DEF MNext

\* At-least-once, but no more often than crashes explain: without a crash of a publisher that
\* held it, a row is in the broker once, however many publishers drain the table
\* (publish_once).
THEOREM CopiesAreExplained == MSpec => []CopiesNeedRestarts
  <1>1. PublisherInv => CopiesNeedRestarts
    <2> SUFFICES ASSUME PublisherInv, NEW i \in DOMAIN broker
                 PROVE  Count(i, broker) <= 1 + Count(i, restarts.of)
      BY DEF CopiesNeedRestarts, Drain!CopiesNeedRestarts, Drain!Copies, Drain!BagIn, Drain!BagToSet, Count
    <2>1. Count(i, broker) <= Due(i) /\ Count(i, broker) \in Nat /\ Count(i, restarts.of) \in Nat
      BY CountType DEF PublisherInv
    <2> QED BY <2>1 DEF Due
  <1> QED BY <1>1, PublishersStart, PublishersStep, PTL DEF MSpec
=============================================================================
