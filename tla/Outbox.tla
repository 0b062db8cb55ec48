------------------------------- MODULE Outbox -------------------------------
(***************************************************************************)
(* events/outbox_publisher.py: publisher processes drain outbox_messages to *)
(* Kafka.  One transaction selects a batch of unpublished rows under row    *)
(* locks (FOR UPDATE SKIP LOCKED), sends them one by one, each acknowledged *)
(* by the broker, and commits published_at at the end.                      *)
(*                                                                         *)
(* Other components append rows; a row is known by its place in the outbox. *)
(* created_at is set at the flush, so the order of the SELECT is not the    *)
(* order of the commits: a batch is any set of free rows of its size.       *)
(***************************************************************************)
EXTENDS Naturals, Sequences, FiniteSetsExt, Bags

CONSTANTS
  Publishers,      \* publisher processes
  BatchSize,       \* _BATCH
  MaxRestarts      \* bound on crashes of publishers

VARIABLES
  outbox,       \* outbox_messages
  published,    \* rows with published_at, by the number of their attempts
  held,         \* rows each publisher has locked
  sent,         \* those it has sent
  broker,       \* copies of each row in the topics
  restarts      \* crashes so far, and for each row those while it was held

pvars == <<published, held, sent, broker, restarts>>

Rows == DOMAIN outbox

Copies(i, bag) == IF BagIn(i, bag) THEN bag[i] ELSE 0

InitPublishers ==
  /\ published = EmptyBag /\ broker = EmptyBag
  /\ held = [p \in Publishers |-> {}] /\ sent = [p \in Publishers |-> {}]
  /\ restarts = [total |-> 0, of |-> EmptyBag]

-----------------------------------------------------------------------------
Available_Locked == {i \in Rows : ~BagIn(i, published)}
Available_NotSent ==
  {i \in Rows : ~BagIn(i, published) /\ ~BagIn(i, broker) /\ \A p \in Publishers : i \notin held[p]}

\* SKIP LOCKED: rows other publishers hold are not selected.
Available == {i \in Rows : ~BagIn(i, published) /\ \A p \in Publishers : i \notin held[p]}

SmallerOf(m, n) == IF m < n THEN m ELSE n

Select(p) ==
  /\ held[p] = {} /\ Available # {}
  /\ \E batch \in kSubset(SmallerOf(BatchSize, Cardinality(Available)), Available) :
       held' = [held EXCEPT ![p] = batch]
  /\ UNCHANGED <<outbox, published, sent, broker, restarts>>

\* send_and_wait returned.
Send(p) ==
  \E i \in held[p] \ sent[p] :
    /\ broker' = broker (+) SetToBag({i})
    /\ sent' = [sent EXCEPT ![p] = @ \cup {i}]
    /\ UNCHANGED <<outbox, published, held, restarts>>

Acknowledged(p) == held[p] # {} /\ sent[p] = held[p]

Released(p) == held' = [held EXCEPT ![p] = {}] /\ sent' = [sent EXCEPT ![p] = {}]

CommitBatch(p) ==
  /\ Acknowledged(p)
  /\ published' = published (+) SetToBag(held[p])
  /\ Released(p)
  /\ UNCHANGED <<outbox, broker, restarts>>

\* The process ends in the middle, or a send fails: the transaction is rolled back, also
\* for the messages the broker already has.
Restart(p) ==
  /\ held[p] # {} /\ restarts.total < MaxRestarts
  /\ restarts' = [total |-> restarts.total + 1, of |-> restarts.of (+) SetToBag(held[p])]
  /\ Released(p)
  /\ UNCHANGED <<outbox, published, broker>>

PublisherStep(p) == Select(p) \/ Send(p) \/ CommitBatch(p) \/ Restart(p)

\* The loop of publish_forever: a publisher that runs polls, sends and commits.
PublisherFairness ==
  \A p \in Publishers :
    WF_<<outbox, pvars>>(Select(p)) /\ WF_<<outbox, pvars>>(Send(p)) /\ WF_<<outbox, pvars>>(CommitBatch(p))

PublishedOnce(i) == BagIn(i, broker) /\ Copies(i, published) = 1

-----------------------------------------------------------------------------
(* Properties *)

\* At-least-once, but no more often than failures explain: without a crash of a publisher
\* that held it, a row is sent once, however many publishers run.
CopiesNeedRestarts ==
  \A i \in BagToSet(broker) : Copies(i, broker) <= 1 + Copies(i, restarts.of)

=============================================================================
