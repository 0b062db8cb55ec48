---------------------------- MODULE IntakeProofs ----------------------------
(***************************************************************************)
(* Theorems about Intake, for any number of consumers, calls, messages,     *)
(* crashes and rebalances.                                                  *)
(*                                                                         *)
(* SessionInv types the sessions and ties the advisory lock to the          *)
(* transaction that read the last hash; LogInv bounds the offsets; ChainInv *)
(* says that the hash a transaction read is still the last one; OffsetInv   *)
(* follows the messages between their delivery and their commit.  EffectInv *)
(* counts rows, records and messages of a reference and of a key, which     *)
(* needs keys and event ids that are told apart (EventsApart, KeysApart).   *)
(***************************************************************************)
EXTENDS Intake, SequenceTheorems, FiniteSetTheorems, TLAPS

Session == [pc: PCs, at: 0..Len(Topic), prev: Nat, pending: BOOLEAN]

\* A consumer that is busy has a message; only a stamp-bearing declaration gets a new
\* assessment.
GoodSession(a, s) ==
  /\ s \in Session
  /\ a \in Consumers => s.pc # "insert" /\ ~s.pending /\ (s.pc # "idle" => s.at \in 1..Len(Topic))
  /\ s.pc = "insert" \/ s.pending => Call[a].ref \in StampBearing

LockHeld == \A a \in Actors : session[a].pc = "write" <=> auditLock = a

SessionInv ==
  /\ session \in [Actors -> Session]
  /\ \A a \in Actors : GoodSession(a, session[a])
  /\ auditLock \in Actors \cup {Nobody}
  /\ LockHeld

LogInv ==
  /\ produced \in 0..Len(Topic) /\ position \in 0..produced
  /\ committed \in 0..produced \cup {NoOffset}
  /\ owner \in Consumers \cup {Nobody}
  /\ failures \in 0..MaxFailures

RowInv ==
  /\ DeclaredRefs \subseteq Refs
  /\ \A s \in assessments : s.ref \in StampBearing

Records == {audit[i] : i \in 1..Len(audit)}

\* The hash read under the lock is the last one as long as the lock is held.
ChainInv ==
  /\ Len(audit) \in Nat /\ audit \in Seq(Records)
  /\ ChainNeverForks
  /\ \A a \in Actors : session[a].pc = "write" => session[a].prev = Len(audit)

Applied(i) == Topic[i].accepted => Topic[i].event \in processed
InHand(i) == i = session[owner].at /\ session[owner].pc \in {"lock", "write"}

\* What the owner of the partition was given is applied, but for the message in its hands.
OffsetInv ==
  /\ committed # NoOffset
  /\ \A i \in 1..committed : Applied(i)
  /\ owner # Nobody => \A i \in 1..position : Applied(i) \/ InHand(i)

-----------------------------------------------------------------------------
(* Sessions and the lock *)

\* A step of one actor that neither takes nor gives back the lock.
LEMMA KeepsLock ==
  ASSUME SessionInv, NEW a \in Actors, NEW s, GoodSession(a, s),
         session[a].pc # "write", s.pc # "write",
         session' = [session EXCEPT ![a] = s], auditLock' = auditLock
  PROVE  SessionInv'
  BY DEF SessionInv, GoodSession, LockHeld

\* A step that ends a transaction, with or without the lock.
LEMMA GivesBack ==
  ASSUME SessionInv, NEW a \in Actors, NEW s, GoodSession(a, s), s.pc # "write",
         session' = [session EXCEPT ![a] = s],
         auditLock' = IF auditLock = a THEN Nobody ELSE auditLock
  PROVE  SessionInv'
  BY ActorAssumption DEF SessionInv, GoodSession, LockHeld

LEMMA IdleSession ==
  ASSUME NEW a \in Actors
  PROVE  GoodSession(a, Idle) /\ Idle \in Session
  BY TopicAssumption DEF GoodSession, Idle, Session, PCs

LEMMA DoneSession ==
  ASSUME NEW q \in Calls
  PROVE  GoodSession(q, Answered)
  BY TopicAssumption, ActorAssumption DEF GoodSession, Answered, Session, PCs, Actors

LEMMA SessionInit == Init => SessionInv
  BY IdleSession, ActorAssumption DEF Init, SessionInv, LockHeld, Idle

\* The two ends of a transaction.
LEMMA EndedSession ==
  ASSUME NEW a \in Actors
  PROVE  GoodSession(a, IF a \in Consumers THEN Idle ELSE Answered)
  BY IdleSession, DoneSession DEF Actors

LEMMA RolledBackSession ==
  ASSUME SessionInv, NEW a \in Actors, RolledBack(a)
  PROVE  SessionInv'
  <1> DEFINE s == IF a \in Consumers THEN Idle ELSE Answered
  <1>1. GoodSession(a, s) /\ s.pc # "write"
    BY EndedSession DEF Idle, Answered
  <1>2. session' = [session EXCEPT ![a] = s] /\ auditLock' = IF auditLock = a THEN Nobody ELSE auditLock
    BY DEF RolledBack
  <1> HIDE DEF s
  <1> QED BY <1>1, <1>2, GivesBack

\* A call goes on to another of its SELECTs or is answered.
LEMMA GotoSession ==
  ASSUME SessionInv, NEW q \in Calls, session[q].pc # "write", NEW pc \in PCs, pc # "write",
         pc = "insert" => Call[q].ref \in StampBearing,
         Goto(q, pc), auditLock' = auditLock
  PROVE  SessionInv'
  <1>1. q \in Actors /\ q \notin Consumers
    BY ActorAssumption DEF Actors
  <1> DEFINE s == [session[q] EXCEPT !.pc = pc]
  <1>2. session[q] \in Session /\ GoodSession(q, session[q])
    BY <1>1 DEF SessionInv
  <1>3. s \in Session /\ s.pc = pc /\ s.pending = session[q].pending
    BY <1>2 DEF Session
  <1>4. GoodSession(q, s)
    BY <1>1, <1>2, <1>3 DEF GoodSession
  <1>5. session' = [session EXCEPT ![q] = s]
    BY DEF Goto
  <1> HIDE DEF s
  <1> QED BY <1>1, <1>3, <1>4, <1>5, KeepsLock

LEMMA CallSession ==
  ASSUME SessionInv, NEW q \in Calls, CallStep(q)
  PROVE  SessionInv'
  <1>1. CASE Lookup(q)
    BY <1>1, GotoSession DEF Lookup, PCs
  <1>2. CASE SelectDeclaration(q)
    BY <1>2, GotoSession DEF SelectDeclaration, PCs
  <1>3. CASE SelectAssessment(q)
    <2> DEFINE pc == CASE Call[q].ref \notin DeclaredRefs -> "done"
                       [] Call[q].ref \in DeclaredRefs /\ AssessmentKey(q) \in AssessedKeys -> "lock"
                       [] OTHER -> IF Call[q].ref \in StampBearing THEN "insert" ELSE "done"
    <2>1. pc \in {"done", "lock", "insert"} /\ (pc = "insert" => Call[q].ref \in StampBearing)
      OBVIOUS
    <2>2. Goto(q, pc) /\ session[q].pc = "select" /\ auditLock' = auditLock
      BY <1>3 DEF SelectAssessment
    <2> HIDE DEF pc
    <2> QED BY <2>1, <2>2, GotoSession DEF PCs
  <1>4. CASE FlushAssessment(q)
    <2> DEFINE s == IF AssessmentKey(q) \in AssessedKeys THEN Answered
                    ELSE [pc |-> "lock", at |-> 0, prev |-> 0, pending |-> TRUE]
    <2>1. q \in Actors /\ q \notin Consumers /\ session[q].pc = "insert"
      BY <1>4, ActorAssumption DEF Actors, FlushAssessment
    <2>2. Call[q].ref \in StampBearing
      BY <2>1 DEF SessionInv, GoodSession
    <2>3. GoodSession(q, s) /\ s.pc # "write"
      BY <2>1, <2>2, DoneSession, TopicAssumption DEF GoodSession, Session, Answered, PCs
    <2>4. session' = [session EXCEPT ![q] = s] /\ auditLock' = auditLock
      BY <1>4 DEF FlushAssessment
    <2> HIDE DEF s
    <2> QED BY <2>1, <2>3, <2>4, KeepsLock
  <1> QED BY <1>1, <1>2, <1>3, <1>4 DEF CallStep

LEMMA ConsumerSession ==
  ASSUME SessionInv, LogInv, NEW c \in Consumers, ConsumerStep(c)
  PROVE  SessionInv'
  <1> c \in Actors
    BY DEF Actors
  <1>1. CASE Join(c) \/ Rebalance(c)
    BY <1>1 DEF Join, Rebalance, SessionInv, LockHeld, GoodSession
  <1>2. CASE Fetch(c)
    <2> DEFINE i == position + 1
               s == [pc |-> IF Rejected(i) \/ Duplicate(i) THEN "offset" ELSE "lock",
                     at |-> i, prev |-> 0, pending |-> FALSE]
    <2>1. i \in 1..Len(Topic)
      BY <1>2, TopicAssumption DEF Fetch, LogInv
    <2>2. s.pc \in {"offset", "lock"} /\ s.at = i /\ s.prev = 0 /\ s.pending = FALSE
      OBVIOUS
    <2>3. s \in Session
      BY <2>1, TopicAssumption DEF Session, PCs
    <2>4. session' = [session EXCEPT ![c] = s] /\ auditLock' = auditLock /\ session[c].pc = "idle"
      BY <1>2 DEF Fetch
    <2> HIDE DEF i, s
    <2>5. GoodSession(c, s)
      BY <2>1, <2>2, <2>3 DEF GoodSession
    <2> QED BY <2>2, <2>4, <2>5, KeepsLock
  <1>3. CASE CommitOffset(c)
    BY <1>3, IdleSession, KeepsLock DEF CommitOffset, Idle
  <1> QED BY <1>1, <1>2, <1>3 DEF ConsumerStep

LEMMA WriterSession ==
  ASSUME SessionInv, ChainInv, NEW a \in Actors, WriterStep(a)
  PROVE  SessionInv'
  <1>1. CASE LockAudit(a)
    <2>1. session[a] \in Session /\ GoodSession(a, session[a]) /\ Len(audit) \in Nat
      BY DEF SessionInv, ChainInv
    <2>2. session' = [session EXCEPT ![a].pc = "write", ![a].prev = Len(audit)]
      BY <1>1 DEF LockAudit
    <2>3. session' \in [Actors -> Session]
      BY <2>1, <2>2 DEF SessionInv, Session, PCs
    <2>4. /\ session'[a].pc = "write" /\ session'[a].at = session[a].at
          /\ session'[a].pending = session[a].pending
          /\ \A o \in Actors \ {a} : session'[o] = session[o]
      BY <2>1, <2>2 DEF SessionInv, Session
    <2>5. session[a].pc = "lock" /\ auditLock = Nobody /\ auditLock' = a
      BY <1>1 DEF LockAudit, Free
    <2>6. GoodSession(a, session'[a])
      BY <2>1, <2>3, <2>4, <2>5 DEF GoodSession
    <2>7. \A o \in Actors : GoodSession(o, session'[o])
      BY <2>4, <2>6 DEF SessionInv
    <2>8. LockHeld'
      BY <2>4, <2>5, ActorAssumption DEF SessionInv, LockHeld
    <2> QED BY <2>3, <2>5, <2>7, <2>8 DEF SessionInv, GoodSession
  <1>2. CASE Write(a)
    <2> DEFINE s == IF a \in Consumers THEN [session[a] EXCEPT !.pc = "offset"] ELSE Answered
    <2>1. session' = [session EXCEPT ![a] = s] /\ auditLock' = IF auditLock = a THEN Nobody ELSE auditLock
      BY <1>2 DEF Write, SessionInv
    <2>2. session[a] \in Session /\ GoodSession(a, session[a]) /\ session[a].pc = "write"
      BY <1>2 DEF Write, SessionInv
    <2>3. CASE a \in Consumers
      BY <2>1, <2>2, <2>3, GivesBack DEF GoodSession, Session, PCs
    <2>4. CASE a \notin Consumers
      BY <2>1, <2>4, DoneSession, GivesBack DEF Actors, Answered
    <2> QED BY <2>3, <2>4
  <1>3. CASE WriteFails(a) \/ Crash(a)
    BY <1>3, RolledBackSession DEF WriteFails, Crash
  <1> QED BY <1>1, <1>2, <1>3 DEF WriterStep

-----------------------------------------------------------------------------
(* The log and the rows *)

LEMMA LogInit == Init => LogInv
  BY ActorAssumption, TopicAssumption DEF Init, LogInv

LEMMA LogStep ==
  ASSUME LogInv, [Next]_vars
  PROVE  LogInv'
  <1>1. CASE Produce
    BY <1>1, TopicAssumption DEF Produce, LogInv
  <1>2. ASSUME NEW c \in Consumers, ConsumerStep(c)
        PROVE  LogInv'
    <2>1. CASE Join(c) \/ Rebalance(c)
      BY <2>1, ActorAssumption DEF Join, Rebalance, Assigned, StartingAt, LogInv
    <2>2. CASE Fetch(c)
      BY <2>2, TopicAssumption DEF Fetch, LogInv
    <2>3. CASE CommitOffset(c)
      BY <2>3 DEF CommitOffset, LogInv
    <2> QED BY <1>2, <2>1, <2>2, <2>3 DEF ConsumerStep
  <1>3. ASSUME NEW q \in Calls, CallStep(q)
        PROVE  LogInv'
    BY <1>3 DEF CallStep, Lookup, SelectDeclaration, SelectAssessment, FlushAssessment, kafka, LogInv
  <1>4. ASSUME NEW a \in Actors, WriterStep(a)
        PROVE  LogInv'
    <2>1. CASE LockAudit(a) \/ Write(a)
      BY <2>1 DEF LockAudit, Write, kafka, LogInv
    <2>2. CASE WriteFails(a) \/ Crash(a)
      BY <2>2, ActorAssumption DEF WriteFails, Crash, RolledBack, LogInv
    <2> QED BY <1>4, <2>1, <2>2 DEF WriterStep
  <1>5. CASE UNCHANGED vars
    BY <1>5 DEF vars, kafka, LogInv
  <1> QED BY <1>1, <1>2, <1>3, <1>4, <1>5 DEF Next

LEMMA RowInit == Init => RowInv
  BY DEF Init, RowInv, DeclaredRefs

LEMMA RowStep ==
  ASSUME SessionInv, RowInv, [Next]_vars
  PROVE  RowInv'
  <1>1. CASE UNCHANGED tables
    BY <1>1 DEF tables, RowInv, DeclaredRefs
  <1>2. ASSUME NEW a \in Actors, Write(a)
        PROVE  RowInv'
    <2>1. GoodSession(a, session[a]) /\ session[a].pc = "write"
      BY <1>2 DEF SessionInv, Write
    <2>2. RefOf(a) \in Refs
      BY <2>1, TopicAssumption DEF GoodSession, RefOf, Refs, Actors
    <2>3. DeclaredRefs' \subseteq DeclaredRefs \cup {RefOf(a)}
      BY <1>2 DEF Write, DeclaredRefs, DeclarationOf
    <2>4. \A s \in assessments' : s.ref \in StampBearing
      BY <1>2, <2>1 DEF Write, RowInv, AssessmentOf, GoodSession
    <2> QED BY <2>2, <2>3, <2>4 DEF RowInv
  <1>3. UNCHANGED tables \/ \E a \in Actors : Write(a)
    BY DEF Next, vars, Produce, ConsumerStep, Join, Rebalance, Fetch, CommitOffset, CallStep,
           Lookup, SelectDeclaration, SelectAssessment, FlushAssessment, WriterStep, LockAudit,
           WriteFails, Crash, RolledBack
  <1> QED BY <1>1, <1>2, <1>3

-----------------------------------------------------------------------------
(* The audit chain *)

LEMMA ChainInit == Init => ChainInv
  <1> SUFFICES ASSUME Init PROVE ChainInv
    OBVIOUS
  <1>1. audit = <<>> /\ \A a \in Actors : session[a].pc = "idle"
    BY DEF Init, Idle
  <1>2. Len(audit) = 0 /\ audit \in Seq(Records)
    BY <1>1
  <1> QED BY <1>1, <1>2 DEF ChainInv, ChainNeverForks

\* Appending to the log keeps it a sequence.
LEMMA AppendRecord ==
  ASSUME NEW log, NEW S, log \in Seq(S), NEW r
  PROVE  /\ Append(log, r) \in Seq(S \cup {r})
         /\ Len(Append(log, r)) = Len(log) + 1
         /\ \A i \in 1..Len(log) : Append(log, r)[i] = log[i]
         /\ Append(log, r)[Len(log) + 1] = r
  <1>1. log \in Seq(S \cup {r})
    BY SeqMonotonic
  <1> QED BY <1>1, AppendProperties, LenProperties

\* Only the holder of the lock appends, and nobody else has read the last hash.
LEMMA ChainWrite ==
  ASSUME SessionInv, ChainInv, NEW a \in Actors, Write(a)
  PROVE  ChainInv'
  <1>1. session[a].pc = "write" /\ session[a].prev = Len(audit) /\ Len(audit) \in Nat
    BY DEF Write, ChainInv
  <1> DEFINE r == AuditRecord(a)
             n == Len(audit)
  <1>2. r.prev = n
    BY <1>1 DEF AuditRecord
  <1> HIDE DEF r
  <1>3. audit' = Append(audit, r)
    BY DEF Write, r
  <1>4. /\ audit' \in Seq(Records \cup {r})
        /\ Len(audit') = n + 1
        /\ \A i \in 1..n : audit'[i] = audit[i]
        /\ audit'[n + 1] = r
    BY <1>3, AppendRecord DEF ChainInv
  <1>5. audit' \in Seq(Records')
    <2>1. \A i \in 1..Len(audit') : audit'[i] \in Records'
      BY DEF Records
    <2> QED BY <1>4, <2>1, ElementOfSeq, SeqDef
  <1>6. ChainNeverForks'
    <2> SUFFICES ASSUME NEW i \in 1..(n + 1) PROVE audit'[i].prev = i - 1
      BY <1>4, LenProperties DEF ChainNeverForks
    <2>1. CASE i \in 1..n
      BY <1>4, <2>1, LenProperties DEF ChainInv, ChainNeverForks
    <2>2. CASE i = n + 1
      BY <1>1, <1>2, <1>4, <2>2
    <2> QED BY <1>1, <2>1, <2>2
  <1>7. \A o \in Actors : session'[o].pc # "write"
    <2>1. \A o \in Actors \ {a} : session'[o] = session[o] /\ session[o].pc # "write"
      BY <1>1 DEF Write, SessionInv, LockHeld
    <2>2. session'[a].pc # "write"
      BY <1>1 DEF Write, SessionInv, Session, Answered
    <2> QED BY <2>1, <2>2
  <1> QED BY <1>1, <1>4, <1>5, <1>6, <1>7 DEF ChainInv

\* A step that appends nothing and reads no hash.
LEMMA ChainFrame ==
  ASSUME SessionInv, ChainInv, audit' = audit,
         \A a \in Actors : session'[a].pc = "write" => session'[a] = session[a]
  PROVE  ChainInv'
  BY DEF ChainInv, ChainNeverForks, Records

LEMMA ChainStep ==
  ASSUME SessionInv, ChainInv, [Next]_vars
  PROVE  ChainInv'
  <1>1. CASE Produce \/ UNCHANGED vars
    BY <1>1, ChainFrame DEF Produce, vars, tables
  <1>2. ASSUME NEW c \in Consumers, ConsumerStep(c)
        PROVE  ChainInv'
    BY <1>2, ChainFrame
       DEF ConsumerStep, Join, Rebalance, Fetch, CommitOffset, tables, Idle, SessionInv, Actors
  <1>3. ASSUME NEW q \in Calls, CallStep(q)
        PROVE  ChainInv'
    <2>1. audit' = audit
      BY <1>3 DEF CallStep, Lookup, SelectDeclaration, SelectAssessment, FlushAssessment, tables
    <2>2. CASE FlushAssessment(q)
      BY <2>1, <2>2, ChainFrame DEF FlushAssessment, Answered, SessionInv, Actors
    <2>3. ASSUME NEW pc, pc # "write", Goto(q, pc)
          PROVE  ChainInv'
      BY <2>1, <2>3, ChainFrame DEF Goto, SessionInv, Session, Actors
    <2>4. CASE Lookup(q)
      BY <2>3, <2>4 DEF Lookup
    <2>5. CASE SelectDeclaration(q)
      BY <2>3, <2>5 DEF SelectDeclaration
    <2>6. CASE SelectAssessment(q)
      <3> DEFINE pc == CASE Call[q].ref \notin DeclaredRefs -> "done"
                         [] Call[q].ref \in DeclaredRefs /\ AssessmentKey(q) \in AssessedKeys -> "lock"
                         [] OTHER -> IF Call[q].ref \in StampBearing THEN "insert" ELSE "done"
      <3>1. pc # "write"
        OBVIOUS
      <3>2. Goto(q, pc)
        BY <2>6 DEF SelectAssessment
      <3> HIDE DEF pc
      <3> QED BY <3>1, <3>2, <2>3
    <2> QED BY <1>3, <2>2, <2>4, <2>5, <2>6 DEF CallStep
  <1>4. ASSUME NEW a \in Actors, LockAudit(a)
        PROVE  ChainInv'
    <2>1. session'[a].prev = Len(audit) /\ \A o \in Actors \ {a} : session'[o] = session[o]
      BY <1>4 DEF LockAudit, SessionInv, Session
    <2>2. audit' = audit
      BY <1>4 DEF LockAudit, tables
    <2> QED BY <2>1, <2>2 DEF ChainInv, ChainNeverForks, Records
  <1>5. ASSUME NEW a \in Actors, WriteFails(a) \/ Crash(a)
        PROVE  ChainInv'
    BY <1>5, ChainFrame DEF WriteFails, Crash, RolledBack, tables, Idle, Answered, SessionInv
  <1> QED BY <1>1, <1>2, <1>3, <1>4, <1>5, ChainWrite DEF Next, WriterStep

LEMMA SessionStep ==
  ASSUME SessionInv, LogInv, ChainInv, [Next]_vars
  PROVE  SessionInv'
  <1>1. CASE Produce \/ UNCHANGED vars
    BY <1>1 DEF Produce, vars, SessionInv, LockHeld, GoodSession
  <1> QED BY <1>1, ConsumerSession, CallSession, WriterSession DEF Next

-----------------------------------------------------------------------------
(* Offsets *)

\* Marks in processed_events stay.
LEMMA ProcessedStay ==
  ASSUME [Next]_vars
  PROVE  processed \subseteq processed'
  BY DEF Next, vars, tables, Produce, ConsumerStep, Join, Rebalance, Fetch, CommitOffset, CallStep,
         Lookup, SelectDeclaration, SelectAssessment, FlushAssessment, WriterStep, LockAudit,
         Write, WriteFails, Crash, RolledBack

\* A step in which the partition, its position and its owner's message stay as they are.
LEMMA OffsetFrame ==
  ASSUME OffsetInv, processed \subseteq processed',
         committed' = committed, position' = position,
         owner' \in {owner, Nobody},
         owner' # Nobody /\ session[owner].pc \in {"lock", "write"} =>
           /\ session'[owner].at = session[owner].at
           /\ \/ session'[owner].pc \in {"lock", "write"}
              \/ Applied(session[owner].at)'
  PROVE  OffsetInv'
  BY DEF OffsetInv, Applied, InHand

LEMMA OffsetConsumer ==
  ASSUME SessionInv, LogInv, OffsetInv, NEW c \in Consumers, ConsumerStep(c)
  PROVE  OffsetInv'
  <1>0. c \in Actors /\ c # Nobody /\ processed' = processed
    BY ActorAssumption
    DEF Actors, ConsumerStep, Join, Rebalance, Fetch, CommitOffset, tables
  <1>1. CASE Join(c) \/ Rebalance(c)
    BY <1>0, <1>1 DEF Join, Rebalance, Assigned, StartingAt, OffsetInv, Applied
  <1>2. CASE Fetch(c)
    <2> DEFINE i == position + 1
    <2>1. /\ session'[c].at = i
          /\ session'[c].pc = IF Rejected(i) \/ Duplicate(i) THEN "offset" ELSE "lock"
      BY <1>0, <1>2 DEF Fetch, SessionInv
    <2>2. Applied(i) \/ session'[c].pc = "lock"
      BY <2>1 DEF Rejected, Duplicate, Applied
    <2>3. owner = c /\ owner' = c /\ position' = i /\ committed' = committed /\ session[c].pc = "idle"
      BY <1>2 DEF Fetch
    <2>4. \A j \in 1..position : Applied(j)
      BY <1>0, <2>3 DEF OffsetInv, InHand
    <2>5. \A j \in 1..i : j \in 1..position \/ j = i
      BY DEF LogInv
    <2> HIDE DEF i
    <2> QED BY <1>0, <2>1, <2>2, <2>3, <2>4, <2>5 DEF OffsetInv, Applied, InHand
  <1>3. CASE CommitOffset(c)
    <2>1. session[c].pc = "offset" /\ owner' = owner /\ position' = position
      BY <1>3 DEF CommitOffset
    <2>2. session' = [session EXCEPT ![c] = Idle]
      BY <1>3 DEF CommitOffset
    <2>3. CASE owner = c
      <3>1. \A j \in 1..position : Applied(j)
        BY <1>0, <2>1, <2>3 DEF OffsetInv, InHand
      <3>2. committed' = position
        BY <1>3, <2>3 DEF CommitOffset
      <3>3. position # NoOffset
        BY TopicAssumption DEF LogInv
      <3> QED BY <1>0, <2>1, <3>1, <3>2, <3>3 DEF OffsetInv, Applied
    <2>4. CASE owner # c
      <3>1. committed' = committed
        BY <1>3, <2>4 DEF CommitOffset
      <3>2. session'[owner] = session[owner]
        BY <2>2, <2>4, <1>0 DEF SessionInv
      <3> QED BY <1>0, <2>1, <3>1, <3>2, OffsetFrame
    <2> QED BY <2>3, <2>4
  <1> QED BY <1>1, <1>2, <1>3 DEF ConsumerStep

LEMMA OffsetStep ==
  ASSUME SessionInv, LogInv, OffsetInv, [Next]_vars
  PROVE  OffsetInv'
  <1>0. processed \subseteq processed'
    BY ProcessedStay
  <1>1. CASE Produce \/ UNCHANGED vars
    BY <1>0, <1>1, OffsetFrame DEF Produce, vars, kafka
  <1>2. ASSUME NEW q \in Calls, CallStep(q)
        PROVE  OffsetInv'
    <2>1. q \in Actors /\ q \notin Consumers
      BY ActorAssumption DEF Actors
    <2>2. committed' = committed /\ position' = position /\ owner' = owner
      BY <1>2 DEF CallStep, Lookup, SelectDeclaration, SelectAssessment, FlushAssessment, kafka
    <2>3. owner # Nobody => session'[owner] = session[owner]
      BY <1>2, <2>1
      DEF LogInv, SessionInv, CallStep, Lookup, SelectDeclaration, SelectAssessment,
          FlushAssessment, Goto, Actors
    <2> QED BY <1>0, <2>2, <2>3, OffsetFrame
  <1>3. ASSUME NEW a \in Actors, LockAudit(a)
        PROVE  OffsetInv'
    <2>1. committed' = committed /\ position' = position /\ owner' = owner
      BY <1>3 DEF LockAudit, kafka
    <2>2. owner # Nobody => owner \in Actors
      BY DEF LogInv, Actors
    <2>3. owner # Nobody =>
            session'[owner].at = session[owner].at /\ session'[owner].pc \in {session[owner].pc, "write"}
      BY <1>3, <2>2 DEF LockAudit, SessionInv, Session
    <2> QED BY <1>0, <2>1, <2>3, OffsetFrame
  <1>4. ASSUME NEW a \in Actors, Write(a)
        PROVE  OffsetInv'
    <2>1. committed' = committed /\ position' = position /\ owner' = owner
      BY <1>4 DEF Write, kafka
    <2>2. CASE owner = a /\ owner # Nobody
      <3>1. a \in Consumers
        BY <2>2 DEF LogInv
      <3>2. session'[a].at = session[a].at
        BY <1>4, <3>1 DEF Write, SessionInv, Session
      <3>3. Topic[session[a].at].event \in processed'
        BY <1>4, <3>1 DEF Write, Source
      <3> QED BY <1>0, <2>1, <2>2, <3>2, <3>3, OffsetFrame DEF Applied
    <2>3. CASE owner # a
      BY <1>0, <1>4, <2>1, <2>3, OffsetFrame DEF Write, SessionInv
    <2> QED BY <1>0, <2>1, <2>2, <2>3, OffsetFrame
  <1>5. ASSUME NEW a \in Actors, WriteFails(a) \/ Crash(a)
        PROVE  OffsetInv'
    <2>1. /\ committed' = committed /\ position' = position
          /\ owner' = IF owner = a THEN Nobody ELSE owner
      BY <1>5 DEF WriteFails, Crash, RolledBack
    <2>2. owner # Nobody => owner \in Actors
      BY DEF LogInv, Actors
    <2>3. owner' # Nobody => session'[owner] = session[owner]
      BY <1>5, <2>1, <2>2 DEF WriteFails, Crash, RolledBack, SessionInv
    <2> QED BY <1>0, <2>1, <2>3, OffsetFrame
  <1> QED BY <1>1, <1>2, <1>3, <1>4, <1>5, OffsetConsumer DEF Next, WriterStep

-----------------------------------------------------------------------------
(* Theorems *)

IInv == SessionInv /\ LogInv /\ RowInv /\ ChainInv

\* The inductive invariant: one transaction at a time is between the read of the last hash
\* and its commit, whatever crashes or collides.
THEOREM IntakeInvariance == Spec => []IInv
  <1>1. Init => IInv
    BY SessionInit, LogInit, RowInit, ChainInit DEF IInv
  <1>2. IInv /\ [Next]_vars => IInv'
    BY SessionStep, LogStep, RowStep, ChainStep DEF IInv
  <1> QED BY <1>1, <1>2, PTL DEF Spec

\* Types of every variable, and the advisory lock is held exactly while a transaction relies
\* on the last hash (audit.record).
THEOREM IntakeTyped == Spec => []TypeOK
  <1>1. IInv => TypeOK
    BY TopicAssumption
    DEF IInv, TypeOK, SessionInv, LogInv, RowInv, LockHeld, Session
  <1> QED BY <1>1, IntakeInvariance, PTL

\* Concurrent writers never fork the audit chain (audit.record).
THEOREM AuditIsAChain == Spec => []ChainNeverForks
  <1>1. IInv => ChainNeverForks
    BY DEF IInv, ChainInv
  <1> QED BY <1>1, IntakeInvariance, PTL

\* The offset is committed only after the database commit: a consumer group that starts at a
\* committed offset never passes an accepted event that was not applied, across crashes and
\* rebalances (consume_forever).
THEOREM OffsetsFollowCommits ==
  ASSUME FirstOffset = 0
  PROVE  Spec => []OffsetBehindDatabase
  <1>1. Init => OffsetInv
    BY TopicAssumption DEF Init, OffsetInv
  <1>2. IInv /\ OffsetInv /\ [Next]_vars => OffsetInv'
    BY OffsetStep DEF IInv
  <1>3. OffsetInv => OffsetBehindDatabase
    BY DEF OffsetInv, OffsetBehindDatabase, Applied
  <1> QED BY <1>1, <1>2, <1>3, IntakeInvariance, PTL DEF Spec

-----------------------------------------------------------------------------
(* What a transaction does to the tables *)

\* Any step changes the tables by one commit, if at all.
LEMMA TablesStep ==
  ASSUME [Next]_vars
  PROVE  UNCHANGED tables \/ \E a \in Actors : Write(a)
  BY DEF Next, vars, Produce, ConsumerStep, Join, Rebalance, Fetch, CommitOffset, CallStep,
         Lookup, SelectDeclaration, SelectAssessment, FlushAssessment, WriterStep, LockAudit,
         WriteFails, Crash, RolledBack

\* A commit adds one audit record at the end.
LEMMA WriteRecord ==
  ASSUME ChainInv, NEW a \in Actors, Write(a)
  PROVE  /\ Len(audit) \in Nat /\ DOMAIN audit = 1..Len(audit)
         /\ DOMAIN audit' = 1..(Len(audit) + 1)
         /\ \A i \in 1..Len(audit) : audit'[i] = audit[i]
         /\ audit'[Len(audit) + 1] = AuditRecord(a)
  <1>1. audit \in Seq(Records) /\ Len(audit) \in Nat
    BY DEF ChainInv
  <1>2. audit' = Append(audit, AuditRecord(a))
    BY DEF Write
  <1>3. PICK r : r = AuditRecord(a)
    OBVIOUS
  <1>4. /\ audit' \in Seq(Records \cup {r}) /\ Len(audit') = Len(audit) + 1
        /\ \A i \in 1..Len(audit) : audit'[i] = audit[i]
        /\ audit'[Len(audit) + 1] = r
    BY <1>1, <1>2, <1>3, AppendRecord
  <1> QED BY <1>1, <1>3, <1>4, LenProperties

Single(S) == \A x, y \in S : x = y

LEMMA SingleCounts ==
  ASSUME NEW S, Single(S)
  PROVE  Cardinality(S) = IF S = {} THEN 0 ELSE 1
  <1>1. CASE S = {}
    BY <1>1, FS_EmptySet
  <1>2. ASSUME NEW x \in S PROVE Cardinality(S) = 1
    <2>1. S = {x}
      BY DEF Single
    <2> QED BY <2>1, FS_Singleton
  <1> QED BY <1>1, <1>2

-----------------------------------------------------------------------------
(* Declarations *)

\* Event ids and the sources the API makes up ("api:{subject}:{ref}") are told apart by those
\* who choose the ids.
EventsApart ==
  \A i \in DOMAIN Topic : \A q \in Calls : Topic[i].event # <<"api", Call[q].by, Call[q].ref>>

\* Every declaration has one audit record and every such record its declaration; no two
\* declarations share a reference or a source.
DeclarationInv ==
  /\ IsFiniteSet(declarations)
  /\ \A d, e \in declarations : d.ref = e.ref \/ d.source = e.source => d = e
  /\ \A d \in declarations : Receipts(d) # {} /\ Single(Receipts(d))
  /\ \A i \in DOMAIN audit : audit[i].type = "declaration.received" =>
       \E d \in declarations : d.ref = audit[i].ref /\ d.source = audit[i].subject
  /\ \A i \in DOMAIN Topic :
       Topic[i].event \in processed <=> \E d \in declarations : d.source = Topic[i].event

LEMMA DeclarationFrame ==
  ASSUME DeclarationInv, UNCHANGED <<declarations, processed, audit>>
  PROVE  DeclarationInv'
  BY DEF DeclarationInv, Receipts

\* The unique keys of the reference and of the source refuse a second declaration, so its
\* record is the only one.
LEMMA DeclarationWrite ==
  ASSUME SessionInv, ChainInv, DeclarationInv, EventsApart, NEW a \in Actors, Write(a)
  PROVE  DeclarationInv'
  <1>1. /\ Len(audit) \in Nat /\ DOMAIN audit = 1..Len(audit) /\ DOMAIN audit' = 1..(Len(audit) + 1)
        /\ \A i \in 1..Len(audit) : audit'[i] = audit[i]
        /\ audit'[Len(audit) + 1] = AuditRecord(a)
    BY WriteRecord
  <1>2. PICK n : n = Len(audit)
    OBVIOUS
  <1>3. CASE ~Declares(a)
    <2>1. a \in Calls /\ a \notin Consumers
      BY <1>3, ActorAssumption DEF Declares, Actors
    <2>2. UNCHANGED <<declarations, processed>> /\ audit'[n + 1].type = "assessment.created"
      BY <1>1, <1>2, <1>3, <2>1 DEF Write, AuditRecord
    <2>3. \A d : Receipts(d)' = Receipts(d)
      BY <1>1, <1>2, <2>2 DEF Receipts
    <2>4. \A i \in DOMAIN audit' : audit'[i].type = "declaration.received" =>
            \E d \in declarations : d.ref = audit'[i].ref /\ d.source = audit'[i].subject
      BY <1>1, <1>2, <2>2 DEF DeclarationInv
    <2> QED BY <2>2, <2>3, <2>4 DEF DeclarationInv
  <1>4. CASE Declares(a)
    <2>1. PICK new : new = DeclarationOf(a)
      OBVIOUS
    <2>2. declarations' = declarations \cup {new} /\ new.ref = RefOf(a) /\ new.source = Source(a)
      BY <1>4, <2>1 DEF Write, DeclarationOf
    <2>3. \A d \in declarations : d.ref # new.ref /\ d.source # new.source
      BY <1>4, <2>2 DEF Write, Collides
    <2>4. /\ audit'[n + 1].type = "declaration.received"
          /\ audit'[n + 1].ref = new.ref /\ audit'[n + 1].subject = new.source
      BY <1>1, <1>2, <1>4, <2>2 DEF AuditRecord
    <2>5. \A d \in declarations : Receipts(d)' = Receipts(d)
      BY <1>1, <1>2, <2>3, <2>4 DEF Receipts
    <2>6. Receipts(new)' = {n + 1}
      <3>1. \A i \in 1..n : ~(/\ audit[i].type = "declaration.received"
                              /\ audit[i].ref = new.ref /\ audit[i].subject = new.source)
        BY <1>1, <1>2, <2>3 DEF DeclarationInv
      <3> QED BY <1>1, <1>2, <2>4, <3>1 DEF Receipts
    <2>7. IsFiniteSet(declarations')
      BY <2>2, FS_AddElement DEF DeclarationInv
    <2>8. \A d \in declarations' : Receipts(d)' # {} /\ Single(Receipts(d)')
      BY <2>2, <2>5, <2>6 DEF DeclarationInv, Single
    <2>9. \A i \in DOMAIN audit' : audit'[i].type = "declaration.received" =>
            \E d \in declarations' : d.ref = audit'[i].ref /\ d.source = audit'[i].subject
      BY <1>1, <1>2, <2>2, <2>4 DEF DeclarationInv
    <2>10. \A i \in DOMAIN Topic :
             Topic[i].event \in processed' <=> \E d \in declarations' : d.source = Topic[i].event
      <3>1. CASE a \in Consumers
        <4>1. processed' = processed \cup {new.source}
          BY <2>2, <3>1 DEF Write
        <4> QED BY <2>2, <4>1 DEF DeclarationInv
      <3>2. CASE a \notin Consumers
        <4>1. processed' = processed /\ \A i \in DOMAIN Topic : new.source # Topic[i].event
          BY <2>2, <3>2 DEF Write, Source, EventsApart, Actors
        <4> QED BY <2>2, <4>1 DEF DeclarationInv
      <3> QED BY <3>1, <3>2
    <2>11. \A d, e \in declarations' : d.ref = e.ref \/ d.source = e.source => d = e
      BY <2>2, <2>3 DEF DeclarationInv
    <2> QED BY <2>7, <2>8, <2>9, <2>10, <2>11 DEF DeclarationInv
  <1> QED BY <1>3, <1>4

LEMMA DeclarationStart == Init => DeclarationInv
  <1> SUFFICES ASSUME Init PROVE DeclarationInv
    OBVIOUS
  <1>1. declarations = {} /\ processed = {} /\ audit = <<>>
    BY DEF Init
  <1>2. DOMAIN audit = {}
    BY <1>1
  <1> QED BY <1>1, <1>2, FS_EmptySet DEF DeclarationInv

\* References and declarations are as many.
LEMMA DeclarationsAreOnce == DeclarationInv => DeclaredOnce
  <1> SUFFICES ASSUME DeclarationInv PROVE DeclaredOnce
    OBVIOUS
  <1> DEFINE f == [d \in declarations |-> d.ref]
  <1>1. f \in Bijection(declarations, DeclaredRefs)
    BY DEF DeclarationInv, DeclaredRefs, Bijection, Injection, Surjection, IsInjective
  <1>2. Cardinality(declarations) = Cardinality(DeclaredRefs)
    BY <1>1, FS_Bijection DEF ExistsBijection, DeclarationInv
  <1>3. \A d \in declarations : Cardinality(Receipts(d)) = 1
    BY SingleCounts DEF DeclarationInv
  <1> QED BY <1>2, <1>3 DEF DeclarationInv, DeclaredOnce

-----------------------------------------------------------------------------
(* Submissions *)

\* A client does not choose "auto:{subject}:{id}", the key the API makes up, as its own key,
\* and two officers do not choose one key (the run shared_key shows what they get).
KeysApart ==
  /\ \A q, o \in Calls : Call[q].key # NoKey => Call[q].key # <<"auto", Call[o].by, Call[o].ref>>
  /\ \A q, o \in Calls : Call[q].key # NoKey /\ Call[q].key = Call[o].key => Call[q].by = Call[o].by

RowsOf(k) == {s \in assessments : s.key = k}
Created(k) == {i \in DOMAIN audit : audit[i].type = "assessment.created" /\ audit[i].subject = k}
Sent == {outbox[i] : i \in 1..Len(outbox)}

\* Only an assess call inserts an assessment; one that goes on to its commit without a row of
\* its own has found the row of its key.
WaitInv ==
  \A q \in Calls :
    /\ session[q].pc = "insert" \/ session[q].pending => Call[q].op = "assess"
    /\ session[q].pc \in {"lock", "write"} /\ Call[q].op = "assess" /\ ~session[q].pending
         => AssessmentKey(q) \in AssessedKeys

\* An assessment of a client key, its audit record and its message come together with the
\* idempotency record of the key, and once.
KeyInv ==
  /\ Len(outbox) \in Nat /\ outbox \in Seq(Sent)
  /\ \A r \in idempotency : \E q \in Calls :
       Call[q].key # NoKey /\ r.key = Call[q].key /\ r.by = Call[q].by
  /\ \A k \in ClientKeys :
       /\ Single(RowsOf(k)) /\ Single(MessagesOf(k)) /\ Single(Created(k))
       /\ RowsOf(k) = {} <=> MessagesOf(k) = {}
       /\ RowsOf(k) = {} <=> Created(k) = {}
       /\ RowsOf(k) # {} => \E r \in idempotency : r.key = k

LEMMA AssessedStay ==
  ASSUME [Next]_vars
  PROVE  AssessedKeys \subseteq AssessedKeys'
  <1>1. assessments \subseteq assessments'
    BY TablesStep DEF tables, Write
  <1> QED BY <1>1 DEF AssessedKeys

\* A step after which a call is where it was, or ended, or not yet at its lock.
LEMMA WaitFrame ==
  ASSUME WaitInv, AssessedKeys \subseteq AssessedKeys',
         \A q \in Calls :
           \/ session'[q] = session[q]
           \/ session'[q].pc \in {"idle", "select", "done"} /\ ~session'[q].pending
  PROVE  WaitInv'
  BY DEF WaitInv

LEMMA WaitStep ==
  ASSUME SessionInv, WaitInv, [Next]_vars
  PROVE  WaitInv'
  <1>0. AssessedKeys \subseteq AssessedKeys'
    BY AssessedStay
  <1>1. CASE Produce \/ UNCHANGED vars
    BY <1>0, <1>1, WaitFrame DEF Produce, vars
  <1>2. ASSUME NEW c \in Consumers, ConsumerStep(c) PROVE WaitInv'
    <2>1. \A q \in Calls : session'[q] = session[q]
      BY <1>2, ActorAssumption
      DEF ConsumerStep, Join, Rebalance, Fetch, CommitOffset, SessionInv, Actors
    <2> QED BY <1>0, <2>1, WaitFrame
  <1>3. ASSUME NEW q \in Calls, CallStep(q) PROVE WaitInv'
    <2>0. q \in Actors /\ session[q] \in Session /\ session \in [Actors -> Session]
      BY DEF SessionInv, Actors
    <2>1. \A o \in Calls \ {q} : session'[o] = session[o]
      BY <1>3, <2>0
      DEF CallStep, Lookup, SelectDeclaration, SelectAssessment, FlushAssessment, Goto, Actors
    <2>2. ASSUME /\ session'[q].pc = "insert" \/ session'[q].pending => Call[q].op = "assess"
                 /\ session'[q].pc \in {"lock", "write"} /\ Call[q].op = "assess" /\ ~session'[q].pending
                      => AssessmentKey(q) \in AssessedKeys'
          PROVE  WaitInv'
      BY <1>0, <2>1, <2>2 DEF WaitInv
    <2>3. ASSUME NEW pc, Goto(q, pc)
          PROVE  session'[q].pc = pc /\ session'[q].pending = session[q].pending
      BY <2>0, <2>3 DEF Goto, Session
    <2>4. CASE Lookup(q)
      <3>1. Goto(q, "select") \/ Goto(q, "done")
        BY <2>4 DEF Lookup
      <3> QED BY <2>2, <2>3, <3>1 DEF WaitInv
    <2>5. CASE SelectDeclaration(q)
      <3>1. (Goto(q, "lock") \/ Goto(q, "done")) /\ Call[q].op = "declare"
        BY <2>5 DEF SelectDeclaration
      <3> QED BY <2>2, <2>3, <3>1 DEF WaitInv
    <2>6. CASE SelectAssessment(q)
      <3>1. PICK pc : Goto(q, pc) /\ pc = CASE Call[q].ref \notin DeclaredRefs -> "done"
                       [] Call[q].ref \in DeclaredRefs /\ AssessmentKey(q) \in AssessedKeys -> "lock"
                       [] OTHER -> IF Call[q].ref \in StampBearing THEN "insert" ELSE "done"
        BY <2>6 DEF SelectAssessment
      <3>2. /\ pc \in {"done", "lock", "insert"} /\ Call[q].op = "assess"
            /\ pc = "lock" => AssessmentKey(q) \in AssessedKeys
        BY <2>6, <3>1 DEF SelectAssessment
      <3>3. session'[q].pc = pc /\ session'[q].pending = session[q].pending
        BY <2>3, <3>1
      <3> QED BY <1>0, <2>2, <3>2, <3>3
    <2>7. CASE FlushAssessment(q)
      <3>1. Call[q].op = "assess"
        BY <2>7 DEF FlushAssessment, WaitInv
      <3>2. session'[q] = Answered \/ session'[q] = [pc |-> "lock", at |-> 0, prev |-> 0, pending |-> TRUE]
        BY <2>0, <2>7 DEF FlushAssessment
      <3> QED BY <2>2, <3>1, <3>2 DEF Answered
    <2> QED BY <1>3, <2>4, <2>5, <2>6, <2>7 DEF CallStep
  <1>4. ASSUME NEW a \in Actors, LockAudit(a) PROVE WaitInv'
    <2>1. session[a].pc = "lock" /\ session' = [session EXCEPT ![a].pc = "write", ![a].prev = Len(audit)]
      BY <1>4 DEF LockAudit
    <2>2. /\ \A o \in Actors \ {a} : session'[o] = session[o]
          /\ session'[a].pc = "write" /\ session'[a].pending = session[a].pending
      BY <2>1 DEF SessionInv, Session
    <2>3. ASSUME NEW q \in Calls
          PROVE  /\ session'[q].pc = "insert" \/ session'[q].pending => Call[q].op = "assess"
                 /\ session'[q].pc \in {"lock", "write"} /\ Call[q].op = "assess" /\ ~session'[q].pending
                      => AssessmentKey(q) \in AssessedKeys'
      BY <1>0, <2>1, <2>2 DEF WaitInv, Actors
    <2> QED BY <2>3 DEF WaitInv
  <1>5. ASSUME NEW a \in Actors, Write(a) \/ WriteFails(a) \/ Crash(a) PROVE WaitInv'
    <2>1. \A q \in Calls : session'[q] = session[q] \/ session'[q] = Answered
      BY <1>5, ActorAssumption DEF Write, WriteFails, Crash, RolledBack, SessionInv, Actors
    <2> QED BY <1>0, <2>1, WaitFrame DEF Answered
  <1> QED BY <1>1, <1>2, <1>3, <1>4, <1>5 DEF Next, WriterStep

LEMMA KeyFrame ==
  ASSUME KeyInv, UNCHANGED tables
  PROVE  KeyInv'
  <1>1. UNCHANGED <<assessments, audit, outbox, idempotency>>
    BY DEF tables
  <1>2. \A k : RowsOf(k)' = RowsOf(k) /\ Created(k)' = Created(k) /\ MessagesOf(k)' = MessagesOf(k)
    BY <1>1 DEF RowsOf, Created, MessagesOf
  <1>3. Len(outbox)' \in Nat /\ outbox' \in Seq(Sent')
    BY <1>1 DEF KeyInv, Sent
  <1> QED BY <1>1, <1>2, <1>3 DEF KeyInv, Single

\* The declare calls and the consumers: no assessment, no message.
LEMMA KeyDeclares ==
  ASSUME SessionInv, ChainInv, WaitInv, KeyInv, NEW a \in Actors, Write(a), Declares(a)
  PROVE  KeyInv'
  <1>1. /\ Len(audit) \in Nat /\ DOMAIN audit = 1..Len(audit) /\ DOMAIN audit' = 1..(Len(audit) + 1)
        /\ \A i \in 1..Len(audit) : audit'[i] = audit[i]
        /\ audit'[Len(audit) + 1] = AuditRecord(a)
    BY WriteRecord
  <1>2. ~session[a].pending
    BY DEF SessionInv, GoodSession, WaitInv, Declares, Actors
  <1>3. UNCHANGED <<assessments, outbox>>
    BY <1>2 DEF Write
  <1>4. audit'[Len(audit) + 1].type = "declaration.received"
    BY <1>1 DEF AuditRecord
  <1>5. \A k : RowsOf(k)' = RowsOf(k) /\ MessagesOf(k)' = MessagesOf(k)
    BY <1>3 DEF RowsOf, MessagesOf
  <1>6. \A k : Created(k)' = Created(k)
    BY <1>1, <1>4 DEF Created
  <1>7. Len(outbox)' \in Nat /\ outbox' \in Seq(Sent')
    BY <1>3 DEF KeyInv, Sent
  <1>8. /\ idempotency \subseteq idempotency'
        /\ \A r \in idempotency' : \E q \in Calls :
             Call[q].key # NoKey /\ r.key = Call[q].key /\ r.by = Call[q].by
    BY DEF Write, RecordOf, KeyInv
  <1> QED BY <1>5, <1>6, <1>7, <1>8 DEF KeyInv, Single

\* The idempotency record of the key, by its primary key, lets one submission commit.
LEMMA KeySubmits ==
  ASSUME SessionInv, ChainInv, WaitInv, KeyInv, KeysApart, NEW a \in Actors, Write(a), ~Declares(a)
  PROVE  KeyInv'
  <1>1. /\ Len(audit) \in Nat /\ DOMAIN audit = 1..Len(audit) /\ DOMAIN audit' = 1..(Len(audit) + 1)
        /\ \A i \in 1..Len(audit) : audit'[i] = audit[i]
        /\ audit'[Len(audit) + 1] = AuditRecord(a)
    BY WriteRecord
  <1>2. a \in Calls /\ a \notin Consumers /\ Call[a].op = "assess"
    BY ActorAssumption, CallAssumption DEF Declares, Actors
  <1>3. PICK n, m, key : n = Len(audit) /\ m = Len(outbox) /\ key = AssessmentKey(a)
    OBVIOUS
  <1>4. /\ outbox' \in Seq(Sent \cup {Message(a)}) /\ Len(outbox') = m + 1 /\ m \in Nat
        /\ \A i \in 1..m : outbox'[i] = outbox[i]
        /\ outbox'[m + 1] = Message(a)
        /\ DOMAIN outbox = 1..m /\ DOMAIN outbox' = 1..(m + 1)
    <2>1. outbox' = Append(outbox, Message(a))
      BY DEF Write
    <2>2. PICK msg : msg = Message(a)
      OBVIOUS
    <2> QED BY <1>3, <2>1, <2>2, AppendRecord, LenProperties DEF KeyInv
  <1>5. Len(outbox)' \in Nat /\ outbox' \in Seq(Sent')
    <2>1. \A i \in 1..Len(outbox') : outbox'[i] \in Sent'
      BY DEF Sent
    <2> QED BY <1>4, <2>1, ElementOfSeq, SeqDef
  <1>6. outbox'[m + 1].assessment = key /\ audit'[n + 1].type = "assessment.created" /\ audit'[n + 1].subject = key
    BY <1>1, <1>2, <1>3, <1>4 DEF Message, AuditRecord, Declares
  <1>7. assessments' = IF session[a].pending THEN assessments \cup {AssessmentOf(a)} ELSE assessments
    BY DEF Write
  <1>8. \A k : k # key => /\ RowsOf(k)' = RowsOf(k) /\ MessagesOf(k)' = MessagesOf(k)
                          /\ Created(k)' = Created(k)
    <2>1. AssessmentOf(a).key = key
      BY <1>3 DEF AssessmentOf
    <2>2. \A k : k # key => RowsOf(k)' = RowsOf(k)
      BY <1>7, <2>1 DEF RowsOf
    <2>3. \A k : k # key => MessagesOf(k)' = MessagesOf(k)
      BY <1>4, <1>6 DEF MessagesOf
    <2>4. \A k : k # key => Created(k)' = Created(k)
      BY <1>1, <1>3, <1>6 DEF Created
    <2> QED BY <2>2, <2>3, <2>4
  <1>9. /\ idempotency \subseteq idempotency'
        /\ \A r \in idempotency' : \E q \in Calls :
             Call[q].key # NoKey /\ r.key = Call[q].key /\ r.by = Call[q].by
    BY <1>2, SMTT(30) DEF Write, RecordOf, KeyInv
  <1>10. ASSUME key \in ClientKeys
         PROVE  /\ Single(RowsOf(key)') /\ Single(MessagesOf(key)') /\ Single(Created(key)')
                /\ RowsOf(key)' # {} /\ MessagesOf(key)' # {} /\ Created(key)' # {}
                /\ \E r \in idempotency' : r.key = key
    <2>1. Call[a].key = key /\ key # NoKey
      BY <1>2, <1>3, <1>10 DEF ClientKeys, AssessmentKey, KeysApart
    <2>2. \A r \in idempotency : r.key # key
      <3>1. Stored(a) = {}
        BY <1>2 DEF Write, Collides
      <3>2. \A r \in idempotency : r.key = key => r.by = Call[a].by
        BY <1>2, <2>1 DEF KeyInv, KeysApart
      <3> QED BY <2>1, <3>1, <3>2 DEF Stored
    <2>3. RowsOf(key) = {} /\ MessagesOf(key) = {} /\ Created(key) = {}
      BY <1>10, <2>2 DEF KeyInv
    <2>4. session[a].pending
      <3>1. key \notin AssessedKeys
        BY <2>3 DEF AssessedKeys, RowsOf
      <3> QED BY <1>2, <1>3, <3>1 DEF WaitInv, Write
    <2>5. RowsOf(key)' = {AssessmentOf(a)}
      <3>1. AssessmentOf(a).key = key
        BY <1>3 DEF AssessmentOf
      <3> QED BY <1>7, <2>3, <2>4, <3>1 DEF RowsOf
    <2>6. MessagesOf(key)' = {m + 1}
      BY <1>4, <1>6, <2>3 DEF MessagesOf
    <2>7. Created(key)' = {n + 1}
      BY <1>1, <1>3, <1>6, <2>3 DEF Created
    <2>8. RecordOf(a) \in idempotency' /\ RecordOf(a).key = key
      BY <1>2, <2>1 DEF Write, RecordOf
    <2> QED BY <2>5, <2>6, <2>7, <2>8 DEF Single
  <1>11. ASSUME NEW k \in ClientKeys
         PROVE  /\ Single(RowsOf(k)') /\ Single(MessagesOf(k)') /\ Single(Created(k)')
                /\ RowsOf(k)' = {} <=> MessagesOf(k)' = {}
                /\ RowsOf(k)' = {} <=> Created(k)' = {}
                /\ RowsOf(k)' # {} => \E r \in idempotency' : r.key = k
    <2>1. CASE k = key
      BY <1>10, <2>1
    <2>2. CASE k # key
      BY <1>8, <1>9, <2>2 DEF KeyInv
    <2> QED BY <2>1, <2>2
  <1>12. KeyInv' = ( /\ Len(outbox)' \in Nat /\ outbox' \in Seq(Sent')
                     /\ \A r \in idempotency' : \E q \in Calls :
                          Call[q].key # NoKey /\ r.key = Call[q].key /\ r.by = Call[q].by
                     /\ \A k \in ClientKeys :
                          /\ Single(RowsOf(k)') /\ Single(MessagesOf(k)') /\ Single(Created(k)')
                          /\ RowsOf(k)' = {} <=> MessagesOf(k)' = {}
                          /\ RowsOf(k)' = {} <=> Created(k)' = {}
                          /\ RowsOf(k)' # {} => \E r \in idempotency' : r.key = k )
    BY DEF KeyInv, Single
  <1> QED BY <1>5, <1>9, <1>11, <1>12

LEMMA SubmissionStart == Init => WaitInv /\ KeyInv
  <1> SUFFICES ASSUME Init PROVE WaitInv /\ KeyInv
    OBVIOUS
  <1>1. outbox = <<>> /\ audit = <<>> /\ assessments = {} /\ idempotency = {}
    BY DEF Init
  <1>2. Len(outbox) \in Nat /\ outbox \in Seq(Sent) /\ DOMAIN outbox = {} /\ DOMAIN audit = {}
    BY <1>1
  <1>3. \A k : RowsOf(k) = {} /\ MessagesOf(k) = {} /\ Created(k) = {}
    BY <1>1, <1>2 DEF RowsOf, MessagesOf, Created
  <1>4. KeyInv
    BY <1>1, <1>2, <1>3 DEF KeyInv, Single
  <1>5. WaitInv
    BY DEF Init, WaitInv, Idle, Actors
  <1> QED BY <1>4, <1>5

LEMMA SubmissionStep ==
  ASSUME IInv, WaitInv, KeyInv, KeysApart, [Next]_vars
  PROVE  WaitInv' /\ KeyInv'
  <1>1. WaitInv'
    BY WaitStep DEF IInv
  <1>2. KeyInv'
    BY TablesStep, KeyFrame, KeyDeclares, KeySubmits DEF IInv
  <1> QED BY <1>1, <1>2

LEMMA DeclarationStep ==
  ASSUME IInv, DeclarationInv, EventsApart, [Next]_vars
  PROVE  DeclarationInv'
  <1>1. UNCHANGED tables => UNCHANGED <<declarations, processed, audit>>
    BY DEF tables
  <1> QED BY <1>1, TablesStep, DeclarationFrame, DeclarationWrite DEF IInv

\* What OneEffectPerKey needs to be inductive, on top of IInv.
EffectInv == DeclarationInv /\ WaitInv /\ KeyInv

LEMMA EffectStep ==
  ASSUME IInv, EffectInv, EventsApart, KeysApart, [Next]_vars
  PROVE  EffectInv'
  BY SubmissionStep, DeclarationStep DEF EffectInv

\* If event ids, made-up keys and the keys of different officers are told apart by those who
\* choose them: a reference is declared once, by the bus or the API, with one audit record,
\* and an event is marked exactly when its declaration is stored; a submission repeated with
\* its key, at once or later, leaves one assessment, one audit record and one message.
THEOREM OneEffect == EventsApart /\ KeysApart /\ Spec => []OneEffectPerKey
  <1>1. Init => EffectInv
    BY DeclarationStart, SubmissionStart DEF EffectInv
  <1>2. EventsApart /\ KeysApart /\ IInv /\ EffectInv /\ [Next]_vars => EffectInv'
    BY EffectStep
  <1>3. EffectInv => OneEffectPerKey
    <2> SUFFICES ASSUME EffectInv PROVE OneEffectPerKey
      OBVIOUS
    <2>1. ASSUME NEW k \in ClientKeys PROVE AssessedOnce(k)
      <3>1. /\ Single(RowsOf(k)) /\ Single(MessagesOf(k)) /\ Single(Created(k))
            /\ RowsOf(k) = {} <=> MessagesOf(k) = {}
            /\ RowsOf(k) = {} <=> Created(k) = {}
        BY DEF EffectInv, KeyInv
      <3>2. Cardinality(RowsOf(k)) = Cardinality(MessagesOf(k)) /\ Cardinality(Created(k)) = Cardinality(MessagesOf(k))
            /\ Cardinality(MessagesOf(k)) <= 1
        BY <3>1, SingleCounts
      <3> QED BY <3>2 DEF AssessedOnce, RowsOf, Created
    <2> QED BY <2>1, DeclarationsAreOnce DEF EffectInv, OneEffectPerKey
  <1>4. CASE EventsApart /\ KeysApart
    BY <1>1, <1>2, <1>3, <1>4, IntakeInvariance, PTL DEF Spec
  <1> QED BY <1>4

-----------------------------------------------------------------------------
(* Which assessment a message names *)

MessageInv == MessagesAreTrue /\ \A s \in assessments : \E q \in Calls : s = AssessmentOf(q)

\* A submission without a row of its own found the row of its key: a made-up key names the
\* declaration, and with a client's key it would collide with the first one.
LEMMA MessageWrite ==
  ASSUME SessionInv, WaitInv, KeyInv, MessageInv, KeysApart, NEW a \in Actors, Write(a), ~Declares(a)
  PROVE  \E s \in assessments' : s.key = AssessmentKey(a) /\ s.ref = Call[a].ref
  <1>1. a \in Calls /\ a \notin Consumers /\ Call[a].op = "assess"
    BY ActorAssumption, CallAssumption DEF Declares, Actors
  <1>2. CASE session[a].pending
    <2>1. AssessmentOf(a) \in assessments'
      BY <1>2 DEF Write
    <2>2. AssessmentOf(a).key = AssessmentKey(a) /\ AssessmentOf(a).ref = Call[a].ref
      BY DEF AssessmentOf
    <2> QED BY <2>1, <2>2
  <1>3. CASE ~session[a].pending
    <2>1. PICK s \in assessments : s.key = AssessmentKey(a)
      BY <1>1, <1>3 DEF WaitInv, Write, AssessedKeys
    <2>2. PICK o \in Calls : s = AssessmentOf(o)
      BY DEF MessageInv
    <2>3. AssessmentKey(o) = AssessmentKey(a) /\ s.ref = Call[o].ref
      BY <2>1, <2>2 DEF AssessmentOf
    <2>4. CASE Call[a].key = NoKey
      <3>1. Call[o].key = NoKey
        BY <1>1, <2>3, <2>4 DEF AssessmentKey, KeysApart
      <3>2. Call[o].ref = Call[a].ref
        BY <2>3, <2>4, <3>1 DEF AssessmentKey
      <3> QED BY <1>3, <2>1, <2>3, <3>2 DEF Write
    <2>5. CASE Call[a].key # NoKey
      <3>1. AssessmentKey(a) = Call[a].key /\ Call[a].key \in ClientKeys
        BY <1>1, <2>5 DEF AssessmentKey, ClientKeys
      <3>2. PICK r \in idempotency : r.key = Call[a].key
        BY <2>1, <3>1 DEF KeyInv, RowsOf
      <3>3. r.by = Call[a].by
        BY <1>1, <2>5, <3>2 DEF KeyInv, KeysApart
      <3>4. FALSE
        BY <1>1, <2>5, <3>2, <3>3 DEF Write, Collides, Stored
      <3> QED BY <3>4
    <2> QED BY <2>4, <2>5
  <1> QED BY <1>2, <1>3

LEMMA MessageStep ==
  ASSUME SessionInv, WaitInv, KeyInv, MessageInv, KeysApart, [Next]_vars
  PROVE  MessageInv'
  <1>1. CASE UNCHANGED tables
    BY <1>1 DEF tables, MessageInv, MessagesAreTrue
  <1>2. ASSUME NEW a \in Actors, Write(a) PROVE MessageInv'
    <2>1. /\ assessments \subseteq assessments'
          /\ \A s \in assessments' : \E q \in Calls : s = AssessmentOf(q)
      <3>1. session[a].pending => a \in Calls
        BY DEF SessionInv, GoodSession, Actors
      <3> QED BY <1>2, <3>1 DEF Write, MessageInv
    <2>2. CASE Declares(a)
      <3>1. outbox' = outbox
        BY <1>2, <2>2 DEF Write
      <3> QED BY <2>1, <3>1 DEF MessageInv, MessagesAreTrue
    <2>3. CASE ~Declares(a)
      <3>1. outbox' = Append(outbox, Message(a))
        BY <1>2, <2>3 DEF Write
      <3>2. PICK m, msg : m = Len(outbox) /\ msg = Message(a)
        OBVIOUS
      <3>3. /\ DOMAIN outbox = 1..m /\ DOMAIN outbox' = 1..(m + 1) /\ m \in Nat
            /\ \A i \in 1..m : outbox'[i] = outbox[i]
            /\ outbox'[m + 1] = msg
        BY <3>1, <3>2, AppendRecord, LenProperties DEF KeyInv
      <3>4. \E s \in assessments' : s.key = msg.assessment /\ s.ref = msg.ref
        BY <1>2, <2>3, <3>2, MessageWrite DEF Message
      <3>5. \A i \in 1..m : \E s \in assessments' : s.key = outbox'[i].assessment /\ s.ref = outbox'[i].ref
        BY <2>1, <3>3 DEF MessageInv, MessagesAreTrue
      <3>6. MessagesAreTrue'
        <4>1. ASSUME NEW i \in 1..(m + 1)
              PROVE  \E s \in assessments' : s.key = outbox'[i].assessment /\ s.ref = outbox'[i].ref
          <5>1. i \in 1..m \/ i = m + 1
            BY <3>3
          <5> QED BY <3>3, <3>4, <3>5, <5>1
        <4> QED BY <3>3, <4>1 DEF MessagesAreTrue
      <3> QED BY <2>1, <3>6 DEF MessageInv
    <2> QED BY <2>2, <2>3
  <1> QED BY <1>1, <1>2, TablesStep

\* Keys that are told apart are all it takes: then the assessment a message names is one of
\* the declaration it names (create_assessment).
THEOREM MessagesNameTheirDeclaration == KeysApart /\ Spec => []MessagesAreTrue
  <1>1. Init => WaitInv /\ KeyInv /\ MessageInv
    <2>1. Init => outbox = <<>> /\ assessments = {}
      BY DEF Init
    <2>2. Init => MessageInv
      BY <2>1 DEF MessageInv, MessagesAreTrue
    <2> QED BY <2>2, SubmissionStart
  <1>2. KeysApart /\ IInv /\ WaitInv /\ KeyInv /\ MessageInv /\ [Next]_vars
          => WaitInv' /\ KeyInv' /\ MessageInv'
    BY SubmissionStep, MessageStep DEF IInv
  <1>3. MessageInv => MessagesAreTrue
    BY DEF MessageInv
  <1>4. CASE KeysApart
    BY <1>1, <1>2, <1>3, <1>4, IntakeInvariance, PTL DEF Spec
  <1> QED BY <1>4
=============================================================================
