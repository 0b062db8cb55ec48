-------------------------- MODULE VerificationProofs --------------------------
(***************************************************************************)
(* Theorems about Verification, for any sets of stamps, devices and         *)
(* requests.                                                                *)
(*                                                                         *)
(* VInv is the inductive invariant.  Sound says what a request holds on to  *)
(* between its statements: the stamp it has locked, the list it is about to *)
(* publish and the version it gives it.  Answers, Winners and Events relate *)
(* what was answered to the stamps and to what was announced.               *)
(***************************************************************************)
EXTENDS Verification, FiniteSetTheorems, TLAPS

-----------------------------------------------------------------------------
(* The invariant *)

\* What makes a flag in a list of purpose p true; no step undoes it.
Deserved(p, s) ==
  IF p = "void" THEN stamps[s].status = "VOID"
  ELSE \E r \in Requests : req[r].stamp = s /\ attempts[r] = "clone_suspect"

\* Request r may be in the place q: the row lock, the list read and the version number are
\* what the tables and the other requests allow.
Sound(r, q) ==
  /\ q \in Request
  /\ q.kind = "void" => q.stamp \in Stamps
  /\ q.phase = "new" => q = New
  /\ q.phase \in Publishing =>
       /\ q.stamp \in Stamps /\ stamps[q.stamp].status # "VOID"
       /\ q.kind = "scan" => stamps[q.stamp].first # Nobody
       /\ \A o \in Requests \ {r} : req[o].phase \in Publishing => req[o].stamp # q.stamp
  /\ q.phase \in {"read", "numbered", "inserted"} =>
       \A s \in q.bits \ {q.stamp} : Deserved(PurposeOf(q), s)
  /\ q.phase = "numbered" => q.version <= lists[PurposeOf(q)].version + 1
  /\ q.phase = "inserted" =>
       /\ q.version = lists[PurposeOf(q)].version + 1
       /\ \A o \in Requests \ {r} : req[o].phase = "inserted" => PurposeOf(req[o]) # PurposeOf(q)

RequestsSound == \A r \in Requests : Sound(r, req[r])

\* A stamp has first-scan evidence exactly in the states after its first scan.
Evidence ==
  \A s \in Stamps :
    /\ stamps[s].status \in {"CONSUMED", "SUSPECT"} => stamps[s].first # Nobody
    /\ stamps[s].first # Nobody => stamps[s].status \in {"CONSUMED", "SUSPECT", "VOID"}

\* What an answer says of the stamp stays true of it.
Faithful(q, outcome) ==
  /\ q.phase = "done" /\ q.kind = "scan"
  /\ outcome \in {"unknown_serial", "malformed_serial"} <=> q.stamp \notin Stamps
  /\ outcome \in {"valid", "clone_suspect", "already_verified"} => stamps[q.stamp].first # Nobody
  /\ outcome = "valid" => q.device = stamps[q.stamp].first
  /\ outcome = "already_verified" => q.device \in {stamps[q.stamp].first, Public}
  /\ outcome = "active" => q.device = Public
  /\ outcome = "void" => stamps[q.stamp].status = "VOID"
  /\ outcome = "expired" => q.stamp \in expired

Answers == \A r \in Requests : attempts[r] # "none" => Faithful(req[r], attempts[r])

Wins(r, s) == req[r].stamp = s /\ attempts[r] = "valid"

\* One winner for each stamp with evidence.
Winners ==
  /\ \A s \in Stamps : stamps[s].first # Nobody => \E r \in Requests : Wins(r, s)
  /\ \A q, r \in Requests : Wins(q, req[r].stamp) /\ Wins(r, req[r].stamp) => q = r

\* The devices with an attempt on the stamp before it was consumed.
EarlyDevices(s) ==
  {req[r].device : r \in {o \in Requests :
     req[o].stamp = s /\ attempts[o] \in {"not_active", "invalid_credential", "valid"}}} \ {Public}

\* Each event is of the call that caused it, and each cause has its event.
Events ==
  /\ \A e \in outbox :
       /\ req[e.by].phase = "done" /\ req[e.by].stamp = e.stamp
       /\ e.type = "verified" =>
            /\ attempts[e.by] = "valid"
            /\ e.rapid <=> Cardinality(EarlyDevices(e.stamp)) >= VelocityDevices
       /\ e.type = "voided" => stamps[e.stamp].status = "VOID" /\ req[e.by].kind = "void"
  /\ \A r \in Requests : attempts[r] = "valid" =>
       \E e \in outbox : e.type = "verified" /\ e.by = r
  /\ \A s \in Stamps : stamps[s].status = "VOID" =>
       \E e \in outbox : e.type = "voided" /\ e.stamp = s
  /\ \A e, f \in outbox : e.type = "voided" /\ f.type = "voided" /\ e.stamp = f.stamp => e = f

Voids == {e \in outbox : e.type = "voided"}
Clones == {r \in Requests : attempts[r] = "clone_suspect"}

\* Each version is a flag: the lists never lose one.
Versions ==
  /\ IsFiniteSet(Voids) /\ lists["void"].version = Cardinality(Voids)
  /\ IsFiniteSet(Clones) /\ lists["suspect"].version = Cardinality(Clones)

Flags == \A p \in Purposes : \A s \in lists[p].bits : Deserved(p, s)

VInv == TypeOK /\ RequestsSound /\ Evidence /\ Answers /\ Winners /\ Events /\ Versions /\ Flags

\* What the history is told by: answered calls and announced events are settled.
LEMMA SettledCalls ==
  ASSUME VInv
  PROVE  /\ \A r \in Requests : attempts[r] # "none" => req[r].phase = "done"
         /\ \A e \in outbox : e.by \in Requests /\ e.stamp \in Stamps /\ req[e.by].phase = "done"
  BY DEF VInv, Answers, Faithful, Events, TypeOK, Event

LEMMA RequestTypes ==
  ASSUME VInv, NEW r \in Requests
  PROVE  /\ req[r] \in Request /\ Sound(r, req[r])
         /\ PurposeOf(req[r]) \in Purposes /\ lists[PurposeOf(req[r])] \in Snapshot
  BY DEF VInv, TypeOK, RequestsSound, PurposeOf, Purposes

\* A step that writes no table and leaves request r in a sound place.
LEMMA QuietStep ==
  ASSUME VInv, NEW r \in Requests, NEW q, Sound(r, q), req[r].phase \notin Over,
         req' = [req EXCEPT ![r] = q], UNCHANGED <<tables, expired>>
  PROVE  VInv'
<1>1. /\ req \in [Requests -> Request] /\ q \in Request
      /\ \A g \in Requests : req'[g] = IF g = r THEN q ELSE req[g]
  BY DEF VInv, TypeOK, Sound
<1>2. UNCHANGED <<stamps, lists, attempts, outbox, expired>>
  BY DEF tables
<1>3. /\ \A g \in Requests : attempts[g] # "none" => g # r
      /\ \A e \in outbox : e.by \in Requests \ {r}
  BY SettledCalls DEF Over
<1>4. /\ \A g \in Requests : attempts[g] # "none" => req'[g] = req[g]
      /\ \A e \in outbox : req'[e.by] = req[e.by]
  BY <1>1, <1>3
<1>5. RequestsSound'
  <2> SUFFICES ASSUME NEW g \in Requests PROVE Sound(g, req[g])'
    BY DEF RequestsSound
  <2>1. \A p, s : Deserved(p, s) => Deserved(p, s)'
    BY <1>2, <1>4 DEF Deserved
  <2>2. CASE g = r
    BY <1>1, <1>2, <2>1, <2>2 DEF Sound
  <2>3. CASE g # r
    <3>1. Sound(g, req[g]) /\ req'[g] = req[g]
      BY <1>1, <2>3 DEF VInv, RequestsSound
    <3>2. \A o \in Requests \ {g} : o # r => req'[o] = req[o]
      BY <1>1
    <3>3. q.phase \in Publishing /\ req[g].phase \in Publishing => q.stamp # req[g].stamp
      BY <2>3 DEF Sound
    <3>4. q.phase = "inserted" /\ req[g].phase = "inserted" => PurposeOf(q) # PurposeOf(req[g])
      BY <2>3 DEF Sound
    <3>5. req'[r] = q
      BY <1>1
    <3> QED BY <1>2, <2>1, <3>1, <3>2, <3>3, <3>4, <3>5 DEF Sound
  <2> QED BY <2>2, <2>3
<1>6. TypeOK'
  <2>1. req' \in [Requests -> Request]
    BY <1>1
  <2>2. \A f, g \in Requests :
          {req'[f].phase, req'[g].phase} \subseteq Publishing /\ req'[f].stamp = req'[g].stamp => f = g
    BY <1>5 DEF RequestsSound, Sound
  <2> QED BY <1>2, <2>1, <2>2 DEF VInv, TypeOK
<1>7. Evidence' /\ Versions'
  BY <1>2 DEF VInv, Evidence, Versions, Voids, Clones
<1>8. Answers' /\ Flags'
  BY <1>2, <1>4 DEF VInv, Answers, Faithful, Flags, Deserved
<1>9. Winners'
  <2>1. \A g \in Requests : \A s : Wins(g, s)' <=> Wins(g, s)
    BY <1>2, <1>4 DEF Wins
  <2>2. \A f, g \in Requests : Wins(f, req[g].stamp)' /\ Wins(g, req[g].stamp)' => f = g
    BY <1>2, <1>4, <2>1 DEF VInv, Winners, Wins
  <2> QED BY <1>2, <2>1, <2>2 DEF VInv, Winners
<1>10. Events'
  <2>1. \A s : EarlyDevices(s)' = EarlyDevices(s)
    BY <1>2, <1>4 DEF EarlyDevices
  <2> QED BY <1>2, <1>4, <2>1 DEF VInv, Events
<1> QED BY <1>5, <1>6, <1>7, <1>8, <1>9, <1>10 DEF VInv

-----------------------------------------------------------------------------
(* Steps that write no table *)

\* A fresh session is sound in the places where nothing is read or locked yet.
LEMMA FreshSession ==
  /\ New \in Request /\ New.kind = "scan" /\ New.phase = "new"
  /\ \A q \in Request : Answer(q) \in Request /\ Answer(q).phase = "done"
                        /\ Answer(q).kind = q.kind /\ Answer(q).stamp = q.stamp
                        /\ Answer(q).device = q.device
  /\ \A phase \in Over : Lost(phase) \in Request /\ Lost(phase).phase = phase /\ Lost(phase).kind = "scan"
  BY DEF New, Request, Phases, Over, Answer, Lost

\* The refusal of a call before it has started (module Field).
TurnedAway(r) ==
  At(r, "scan", "new") /\ req' = [req EXCEPT ![r].phase = "done"] /\ UNCHANGED <<tables, expired>>

LEMMA StartSteps ==
  ASSUME VInv, NEW r \in Requests, Start(r) \/ TurnedAway(r) \/ ReadSuspectList(r)
  PROVE  VInv'
<1> USE DEF At, Over, Publishing
<1>1. ASSUME NEW s \in Stamps \cup {Unknown, Malformed}, NEW d \in Devices \cup {Public},
             NEW g \in BOOLEAN, StartScan(r, s, d, g)
      PROVE  VInv'
  <2> DEFINE c == g /\ s \notin lists["void"].bits
             q == [New EXCEPT !.phase = IF c THEN "started" ELSE "loaded",
                              !.stamp = s, !.device = d, !.credible = c]
  <2>1. q \in Request /\ q.kind = "scan" /\ q.phase \in {"started", "loaded"}
    BY DEF New, Request, Phases
  <2>2. req' = [req EXCEPT ![r] = q] /\ UNCHANGED <<tables, expired>> /\ req[r].phase = "new"
    BY <1>1 DEF StartScan
  <2> HIDE DEF q
  <2>3. Sound(r, q) BY <2>1 DEF Sound
  <2> QED BY <2>2, <2>3, QuietStep
<1>2. ASSUME NEW s \in Stamps, StartVoid(r, s) PROVE VInv'
  <2> DEFINE q == [New EXCEPT !.phase = "loaded", !.kind = "void", !.stamp = s]
  <2>1. q \in Request /\ q.phase = "loaded" /\ q.stamp = s
    BY DEF New, Request, Phases
  <2>2. req' = [req EXCEPT ![r] = q] /\ UNCHANGED <<tables, expired>> /\ req[r].phase = "new"
    BY <1>2 DEF StartVoid
  <2> HIDE DEF q
  <2>3. Sound(r, q) BY <2>1 DEF Sound
  <2> QED BY <2>2, <2>3, QuietStep
<1>3. CASE TurnedAway(r)
  <2> DEFINE q == [req[r] EXCEPT !.phase = "done"]
  <2>1. q \in Request /\ q.phase = "done" /\ q.kind = "scan"
    BY <1>3, RequestTypes DEF TurnedAway, Request, Phases
  <2>2. req' = [req EXCEPT ![r] = q] /\ UNCHANGED <<tables, expired>> /\ req[r].phase = "new"
    BY <1>3 DEF TurnedAway
  <2> HIDE DEF q
  <2>3. Sound(r, q) BY <2>1 DEF Sound
  <2> QED BY <2>2, <2>3, QuietStep
<1>4. CASE ReadSuspectList(r)
  <2> DEFINE c == req[r].stamp \notin lists["suspect"].bits
             q == [req[r] EXCEPT !.phase = "loaded", !.credible = c]
  <2>1. q \in Request /\ q.phase = "loaded" /\ q.kind = "scan"
    BY <1>4, RequestTypes DEF ReadSuspectList, Request, Phases
  <2>2. req' = [req EXCEPT ![r] = q] /\ UNCHANGED <<tables, expired>> /\ req[r].phase = "started"
    BY <1>4 DEF ReadSuspectList
  <2> HIDE DEF q
  <2>3. Sound(r, q) BY <2>1 DEF Sound
  <2> QED BY <2>2, <2>3, QuietStep
<1> QED BY <1>1, <1>2, <1>3, <1>4 DEF Start

\* Verdict of a clone and of a void: the stamp's row is locked and can be flagged.
LEMMA LockSteps ==
  ASSUME VInv, NEW r \in Requests, SuspectClone(r) \/ VoidStamp(r) \/ Crash(r)
  PROVE  VInv'
<1> USE DEF At, Over, Publishing
<1>1. CASE SuspectClone(r)
  <2> DEFINE q == [req[r] EXCEPT !.phase = "flagging"]
  <2>1. q \in Request /\ q.phase = "flagging" /\ q.kind = "scan" /\ q.stamp = req[r].stamp
    BY <1>1, RequestTypes DEF SuspectClone, Request, Phases
  <2>2. req' = [req EXCEPT ![r] = q] /\ UNCHANGED <<tables, expired>> /\ req[r].phase = "loaded"
    BY <1>1 DEF SuspectClone
  <2>3. /\ q.stamp \in Stamps /\ Unlocked(q.stamp)
        /\ stamps[q.stamp].status # "VOID" /\ stamps[q.stamp].first # Nobody
    BY <1>1, <2>1 DEF SuspectClone, Suspicious, Dead, Scanned, VInv, Evidence
  <2> HIDE DEF q
  <2>4. Sound(r, q) BY <2>1, <2>3 DEF Sound, Unlocked
  <2> QED BY <2>2, <2>4, QuietStep
<1>2. CASE VoidStamp(r) /\ stamps[req[r].stamp].status = "VOID"
  <2> DEFINE q == Answer(req[r])
  <2>1. q \in Request /\ q.phase = "done" /\ q.kind = "void" /\ q.stamp = req[r].stamp
    BY <1>2, RequestTypes, FreshSession DEF VoidStamp
  <2>2. req' = [req EXCEPT ![r] = q] /\ UNCHANGED <<tables, expired>> /\ req[r].phase = "loaded"
    BY <1>2 DEF VoidStamp
  <2>3. q.stamp \in Stamps
    BY <1>2, <2>1, RequestTypes DEF VoidStamp, Sound
  <2> HIDE DEF q
  <2>4. Sound(r, q) BY <2>1, <2>3 DEF Sound
  <2> QED BY <2>2, <2>4, QuietStep
<1>3. CASE VoidStamp(r) /\ stamps[req[r].stamp].status # "VOID"
  <2> DEFINE q == [req[r] EXCEPT !.phase = "flagging"]
  <2>1. q \in Request /\ q.phase = "flagging" /\ q.kind = "void" /\ q.stamp = req[r].stamp
    BY <1>3, RequestTypes DEF VoidStamp, Request, Phases
  <2>2. req' = [req EXCEPT ![r] = q] /\ UNCHANGED <<tables, expired>> /\ req[r].phase = "loaded"
    BY <1>3 DEF VoidStamp
  <2>3. q.stamp \in Stamps /\ Unlocked(q.stamp) /\ stamps[q.stamp].status # "VOID"
    BY <1>3, <2>1, RequestTypes DEF VoidStamp, Sound
  <2> HIDE DEF q
  <2>4. Sound(r, q) BY <2>1, <2>3 DEF Sound, Unlocked
  <2> QED BY <2>2, <2>4, QuietStep
<1>4. CASE Crash(r)
  <2>1. req' = [req EXCEPT ![r] = Lost("crashed")] /\ UNCHANGED <<tables, expired>> /\ req[r].phase \notin Over
    BY <1>4 DEF Crash
  <2>2. Sound(r, Lost("crashed")) BY FreshSession DEF Sound
  <2> QED BY <2>1, <2>2, QuietStep
<1> QED BY <1>1, <1>2, <1>3, <1>4

\* The statements of set_flag before its commit.
LEMMA FlagSteps ==
  ASSUME VInv, NEW r \in Requests, ReadList(r) \/ ReadVersion(r) \/ InsertSnapshot(r)
  PROVE  VInv'
<1> USE DEF Over, Publishing
<1> DEFINE p == PurposeOf(req[r])
<1>1. /\ req[r] \in Request /\ Sound(r, req[r]) /\ p \in Purposes
      /\ lists[p].version \in Nat /\ lists[p].bits \subseteq Stamps
  BY RequestTypes DEF Snapshot
<1>2. CASE ReadList(r)
  <2> DEFINE bits == lists[p].bits \cup {req[r].stamp}
             q == [req[r] EXCEPT !.phase = "read", !.bits = bits]
  <2>1. req[r].phase = "flagging" /\ req[r].stamp \in Stamps
    BY <1>1, <1>2 DEF ReadList, Sound
  <2>2. q \in Request /\ q.phase = "read" /\ q.kind = req[r].kind /\ q.stamp = req[r].stamp /\ q.bits = bits
    BY <1>1, <2>1 DEF Request, Phases
  <2>3. req' = [req EXCEPT ![r] = q] /\ UNCHANGED <<tables, expired>>
    BY <1>2 DEF ReadList
  <2>4. PurposeOf(q) = p
    BY <2>2 DEF PurposeOf
  <2>5. \A s \in bits \ {q.stamp} : Deserved(p, s)
    BY <1>1, <2>2 DEF VInv, Flags
  <2> HIDE DEF q
  <2>6. Sound(r, q) BY <1>1, <2>1, <2>2, <2>4, <2>5 DEF Sound
  <2> QED BY <2>1, <2>3, <2>6, QuietStep
<1>3. CASE ReadVersion(r)
  <2> DEFINE version == lists[p].version + 1
             q == [req[r] EXCEPT !.phase = "numbered", !.version = version]
  <2>1. req[r].phase = "read"
    BY <1>3 DEF ReadVersion
  <2>2. /\ q \in Request /\ q.phase = "numbered" /\ q.kind = req[r].kind /\ q.stamp = req[r].stamp
        /\ q.bits = req[r].bits /\ q.version = version
    <3>1. version \in Nat BY <1>1
    <3> HIDE DEF version
    <3> QED BY <1>1, <3>1 DEF Request, Phases
  <2>3. req' = [req EXCEPT ![r] = q] /\ UNCHANGED <<tables, expired>>
    BY <1>3 DEF ReadVersion
  <2>4. PurposeOf(q) = p
    BY <2>2 DEF PurposeOf
  <2> HIDE DEF q
  <2>5. Sound(r, q) BY <1>1, <2>1, <2>2, <2>4 DEF Sound
  <2> QED BY <2>1, <2>3, <2>5, QuietStep
<1>4. CASE InsertSnapshot(r) /\ Insertable(req[r])
  <2> DEFINE q == [req[r] EXCEPT !.phase = "inserted"]
  <2>1. req[r].phase = "numbered" /\ ~KeyPending(req[r]) /\ req[r].version > lists[p].version
    BY <1>4 DEF InsertSnapshot, Insertable
  <2>2. /\ q \in Request /\ q.phase = "inserted" /\ q.kind = req[r].kind /\ q.stamp = req[r].stamp
        /\ q.bits = req[r].bits /\ q.version = req[r].version
    BY <1>1 DEF Request, Phases
  <2>3. req' = [req EXCEPT ![r] = q] /\ UNCHANGED <<tables, expired>>
    BY <1>4 DEF InsertSnapshot
  <2>4. PurposeOf(q) = p
    BY <2>2 DEF PurposeOf
  <2>5. req[r].version = lists[p].version + 1
    BY <1>1, <2>1 DEF Sound, Request
  <2>6. \A o \in Requests \ {r} : req[o].phase = "inserted" => PurposeOf(req[o]) # p
    <3> SUFFICES ASSUME NEW o \in Requests, req[o].phase = "inserted", PurposeOf(req[o]) = p PROVE FALSE
      OBVIOUS
    <3>1. req[o].version = lists[p].version + 1
      BY RequestTypes DEF Sound
    <3> QED BY <2>1, <2>5, <3>1 DEF KeyPending
  <2> HIDE DEF q
  <2>7. Sound(r, q) BY <1>1, <2>1, <2>2, <2>4, <2>5, <2>6 DEF Sound
  <2> QED BY <2>1, <2>3, <2>7, QuietStep
<1>5. CASE InsertSnapshot(r) /\ ~Insertable(req[r])
  <2>1. req' = [req EXCEPT ![r] = Lost("failed")] /\ UNCHANGED <<tables, expired>> /\ req[r].phase = "numbered"
    BY <1>5 DEF InsertSnapshot
  <2>2. Sound(r, Lost("failed")) BY FreshSession DEF Sound
  <2> QED BY <2>1, <2>2, QuietStep
<1> QED BY <1>2, <1>3, <1>4, <1>5

-----------------------------------------------------------------------------
(* Steps that write *)

\* What every writing step respects: answers and evidence are final, a call under way keeps
\* its place unless it is answered, its stamp is not voided behind its back, and a list
\* changes by the commit of a request that has inserted the next version.
Progress ==
  /\ req' \in [Requests -> Request]
  /\ \A g \in Requests :
       \/ req'[g] = req[g] /\ attempts'[g] = attempts[g]
       \/ req[g].phase \notin Over /\ req'[g] = Answer(req[g])
  /\ \A s \in Stamps :
       /\ stamps[s].first # Nobody => stamps'[s].first = stamps[s].first
       /\ stamps[s].status = "VOID" => stamps'[s].status = "VOID"
  /\ \A g \in Requests : req[g].phase \in Publishing /\ req'[g] = req[g] =>
       (stamps[req[g].stamp].status # "VOID" => stamps'[req[g].stamp].status # "VOID")
  /\ expired \subseteq expired'
  /\ \A p \in Purposes :
       \/ lists'[p] = lists[p]
       \/ \E g \in Requests :
            /\ req[g].phase = "inserted" /\ PurposeOf(req[g]) = p /\ req'[g] # req[g]
            /\ lists'[p].version = lists[p].version + 1

LEMMA ProgressKeeps ==
  ASSUME VInv, Progress
  PROVE  /\ \A g \in Requests : attempts[g] # "none" =>
              /\ req'[g] = req[g] /\ attempts'[g] = attempts[g]
              /\ Faithful(req[g], attempts[g])'
         /\ \A e \in outbox : req'[e.by] = req[e.by]
         /\ \A p \in Purposes, s \in Stamps : Deserved(p, s) => Deserved(p, s)'
<1>1. \A g \in Requests : attempts[g] # "none" => req'[g] = req[g] /\ attempts'[g] = attempts[g]
  BY SettledCalls DEF Progress, Over
<1>2. \A e \in outbox : req'[e.by] = req[e.by]
  BY SettledCalls DEF Progress, Over
<1>3. ASSUME NEW g \in Requests, attempts[g] # "none" PROVE Faithful(req[g], attempts[g])'
  <2>1. Faithful(req[g], attempts[g]) /\ req[g] \in Request /\ attempts[g] \in Outcomes
    BY <1>3 DEF VInv, Answers, TypeOK
  <2>2. req[g].stamp \in Stamps \/ req[g].stamp \notin Stamps
    OBVIOUS
  <2>3. req'[g] = req[g] /\ attempts'[g] = attempts[g]
    BY <1>1, <1>3
  <2>4. CASE req[g].stamp \in Stamps
    BY <2>1, <2>3, <2>4 DEF Faithful, Progress
  <2>5. CASE req[g].stamp \notin Stamps
    <3>1. attempts[g] \in {"unknown_serial", "malformed_serial"}
      BY <2>1, <2>5 DEF Faithful
    <3> QED BY <2>1, <2>3, <3>1 DEF Faithful
  <2> QED BY <2>4, <2>5
<1>4. ASSUME NEW p \in Purposes, NEW s \in Stamps, Deserved(p, s) PROVE Deserved(p, s)'
  <2>1. CASE p = "void"
    BY <1>4, <2>1 DEF Deserved, Progress
  <2>2. CASE p # "void"
    BY <1>1, <1>4, <2>2 DEF Deserved
  <2> QED BY <2>1, <2>2
<1> QED BY <1>1, <1>2, <1>3, <1>4

\* Whoever is still under way stays sound.
LEMMA ProgressSound ==
  ASSUME VInv, Progress
  PROVE  RequestsSound'
<1> SUFFICES ASSUME NEW g \in Requests PROVE Sound(g, req[g])'
  BY DEF RequestsSound
<1>1. Sound(g, req[g]) /\ req[g] \in Request
  BY RequestTypes
<1>2. \A o \in Requests : req'[o].phase \in {"flagging", "read", "numbered", "inserted"} => req'[o] = req[o]
  <2>1. \A o \in Requests : req'[o] # req[o] => req'[o].phase = "done"
    BY FreshSession, RequestTypes DEF Progress
  <2> QED BY <2>1
<1>3. CASE req'[g] # req[g]
  <2>1. req'[g] = Answer(req[g])
    BY <1>3 DEF Progress
  <2>2. req'[g] \in Request /\ req'[g].phase = "done" /\ req'[g].kind = req[g].kind /\ req'[g].stamp = req[g].stamp
    BY <1>1, <2>1, FreshSession
  <2> QED BY <1>1, <2>2 DEF Sound, Publishing
<1>4. CASE req'[g] = req[g]
  <2>0. PICK p \in Purposes : p = PurposeOf(req[g])
    BY RequestTypes
  <2>1. lists[p].version \in Nat
    BY <2>0, RequestTypes DEF Snapshot
  <2>2. req[g].phase \in Publishing =>
          /\ req[g].stamp \in Stamps /\ stamps'[req[g].stamp].status # "VOID"
          /\ req[g].kind = "scan" => stamps'[req[g].stamp].first # Nobody
          /\ \A o \in Requests \ {g} : req'[o].phase \in Publishing => req'[o].stamp # req[g].stamp
    <3> SUFFICES ASSUME req[g].phase \in Publishing
                 PROVE  /\ req[g].stamp \in Stamps /\ stamps'[req[g].stamp].status # "VOID"
                        /\ req[g].kind = "scan" => stamps'[req[g].stamp].first # Nobody
                        /\ \A o \in Requests \ {g} : req'[o].phase \in Publishing => req'[o].stamp # req[g].stamp
      OBVIOUS
    <3>1. req[g].stamp \in Stamps /\ stamps'[req[g].stamp].status # "VOID"
      BY <1>1, <1>4 DEF Sound, Progress
    <3>2. req[g].kind = "scan" => stamps'[req[g].stamp].first # Nobody
      BY <1>1, <3>1 DEF Sound, Progress
    <3>3. \A o \in Requests \ {g} : req'[o].phase \in Publishing => req'[o].stamp # req[g].stamp
      BY <1>1, <1>2 DEF Sound, Publishing
    <3> QED BY <3>1, <3>2, <3>3
  <2>3. req[g].phase \in {"read", "numbered", "inserted"} =>
          \A s \in req[g].bits \ {req[g].stamp} : Deserved(p, s)'
    <3>1. req[g].bits \subseteq Stamps
      BY <1>1 DEF Request
    <3> QED BY <1>1, <2>0, <3>1, ProgressKeeps DEF Sound
  <2>4. lists'[p] = lists[p] \/ lists'[p].version = lists[p].version + 1
    BY DEF Progress
  <2>5. req[g].phase = "numbered" => req[g].version <= lists'[p].version + 1
    <3>1. req[g].version \in Nat BY <1>1 DEF Request
    <3> QED BY <1>1, <2>0, <2>1, <2>4, <3>1 DEF Sound
  <2>6. req[g].phase = "inserted" => lists'[p] = lists[p]
    <3> SUFFICES ASSUME req[g].phase = "inserted", lists'[p] # lists[p] PROVE FALSE
      OBVIOUS
    <3>1. PICK o \in Requests : req[o].phase = "inserted" /\ PurposeOf(req[o]) = p /\ req'[o] # req[o]
      BY DEF Progress
    <3> QED BY <1>1, <1>4, <2>0, <3>1 DEF Sound
  <2>7. req[g].phase = "inserted" =>
          \A o \in Requests \ {g} : req'[o].phase = "inserted" => PurposeOf(req'[o]) # p
    BY <1>1, <1>2, <2>0 DEF Sound
  <2>8. p = PurposeOf(req'[g])
    BY <1>4, <2>0
  <2> QED BY <1>1, <1>4, <2>0, <2>2, <2>3, <2>5, <2>6, <2>7, <2>8 DEF Sound
<1> QED BY <1>3, <1>4

\* The last part of TypeOK is the row lock.
LEMMA RowLocks ==
  ASSUME VInv, Progress
  PROVE  \A q, r \in Requests :
           {req'[q].phase, req'[r].phase} \subseteq Publishing /\ req'[q].stamp = req'[r].stamp => q = r
  BY ProgressSound DEF RequestsSound, Sound

\* The early devices of a stamp change by an early answer about it only.
LEMMA EarlyStays ==
  ASSUME VInv, Progress, NEW s,
         \A g \in Requests : attempts'[g] # attempts[g] /\ req[g].stamp = s
           => attempts'[g] \notin {"not_active", "invalid_credential", "valid"}
  PROVE  EarlyDevices(s)' = EarlyDevices(s)
<1> DEFINE Early == {"not_active", "invalid_credential", "valid"}
           E == {o \in Requests : req[o].stamp = s /\ attempts[o] \in Early}
           F == {o \in Requests : req'[o].stamp = s /\ attempts'[o] \in Early}
<1>1. \A o \in E : o \in F /\ req'[o] = req[o]
  BY ProgressKeeps
<1>2. ASSUME NEW o \in F PROVE o \in E
  <2>1. req'[o].stamp = req[o].stamp
    BY FreshSession, RequestTypes DEF Progress
  <2> QED BY <2>1
<1>3. E = F BY <1>1, <1>2
<1>4. EarlyDevices(s) = {req[o].device : o \in E} \ {Public}
  BY DEF EarlyDevices
<1>5. EarlyDevices(s)' = {req'[o].device : o \in F} \ {Public}
  BY DEF EarlyDevices
<1>6. {req[o].device : o \in E} = {req'[o].device : o \in F}
  BY <1>1, <1>3
<1> QED BY <1>4, <1>5, <1>6

\* No event speaks of a first scan before there is evidence of it, nor of a void before it.
LEMMA NoEventYet ==
  ASSUME VInv
  PROVE  /\ \A e \in outbox : e.type = "verified" => stamps[e.stamp].first # Nobody
         /\ \A e \in outbox : e.type = "voided" => stamps[e.stamp].status = "VOID"
         /\ \A e \in outbox : e.type \in {"verified", "voided"}
<1>1. ASSUME NEW e \in outbox, e.type = "verified" PROVE stamps[e.stamp].first # Nobody
  <2>1. e.by \in Requests /\ attempts[e.by] = "valid" /\ req[e.by].stamp = e.stamp
    BY <1>1, SettledCalls DEF VInv, Events
  <2> QED BY <2>1 DEF VInv, Answers, Faithful
<1>2. \A e \in outbox : e.type \in {"verified", "voided"}
  BY DEF VInv, TypeOK, Event
<1> QED BY <1>1, <1>2 DEF VInv, Events

\* A request that gets its answer, with the outcome of its attempt.
LEMMA RecordStep ==
  ASSUME VInv, NEW r \in Requests, RecordAttempt(r)
  PROVE  VInv'
<1> DEFINE q == req[r]
           v == Verdict(q)
<1>1. /\ q \in Request /\ q.kind = "scan" /\ q.phase = "loaded" /\ attempts[r] = "none"
      /\ attempts \in [Requests -> Outcomes \cup {"none"}] /\ req \in [Requests -> Request]
  BY RequestTypes, SettledCalls DEF RecordAttempt, At, VInv, TypeOK
<1>2. /\ attempts' = [attempts EXCEPT ![r] = v] /\ req' = [req EXCEPT ![r] = Answer(q)]
      /\ UNCHANGED <<stamps, expired, lists, outbox>>
      /\ q.stamp \in Stamps => ~Suspicious(q)
  BY DEF RecordAttempt
<1>3. Answer(q) \in Request
  BY <1>1, FreshSession
<1>4. v \in Outcomes \ {"valid", "clone_suspect"}
  BY DEF Verdict, Outcomes
<1> HIDE DEF v
<1>5. /\ req'[r] = Answer(q) /\ attempts'[r] = v
      /\ \A g \in Requests \ {r} : req'[g] = req[g] /\ attempts'[g] = attempts[g]
  BY <1>1, <1>2
<1>6. Progress
  <2>1. req' \in [Requests -> Request]
    BY <1>1, <1>2, <1>3
  <2> QED BY <1>1, <1>2, <1>5, <2>1 DEF Progress, Over
<1>7. TypeOK'
  <2>1. attempts' \in [Requests -> Outcomes \cup {"none"}] /\ req' \in [Requests -> Request]
    BY <1>1, <1>2, <1>3, <1>4
  <2> QED BY <1>2, <1>6, <2>1, RowLocks DEF VInv, TypeOK
<1>8. Answers'
  <2>1. Answer(q).phase = "done" /\ Answer(q).kind = "scan" /\ Answer(q).stamp = q.stamp /\ Answer(q).device = q.device
    BY <1>1, FreshSession
  <2>2. v \in {"unknown_serial", "malformed_serial"} <=> q.stamp \notin Stamps
    BY <1>1, IdentityAssumption DEF v, Verdict, Request
  <2>3. v = "already_verified" => /\ stamps[q.stamp].first # Nobody
                                  /\ q.device \in {stamps[q.stamp].first, Public}
    <3> SUFFICES ASSUME v = "already_verified"
                 PROVE  stamps[q.stamp].first # Nobody /\ q.device \in {stamps[q.stamp].first, Public}
      OBVIOUS
    <3>1. q.stamp \in Stamps
      BY <2>2
    <3>2. Scanned(q.stamp) /\ ~Dead(q.stamp)
      BY <3>1 DEF v, Verdict, Dead
    <3>3. stamps[q.stamp].first # Nobody
      BY <3>1, <3>2 DEF Scanned, VInv, Evidence
    <3> QED BY <1>2, <3>1, <3>2, <3>3 DEF Suspicious
  <2>4. /\ v = "active" => q.device = Public
        /\ v = "void" => stamps[q.stamp].status = "VOID"
        /\ v = "expired" => q.stamp \in expired
    BY DEF v, Verdict
  <2>5. Faithful(req[r], attempts[r])'
    BY <1>2, <1>4, <1>5, <2>1, <2>2, <2>3, <2>4 DEF Faithful
  <2>6. \A g \in Requests \ {r} : attempts'[g] # "none" => Faithful(req[g], attempts[g])'
    BY <1>5, <1>6, ProgressKeeps
  <2> QED BY <2>5, <2>6 DEF Answers
<1>9. \A g \in Requests : attempts'[g] \in {"valid", "clone_suspect"} <=> attempts[g] \in {"valid", "clone_suspect"}
  BY <1>1, <1>4, <1>5
<1>10. \A g \in Requests : attempts'[g] \in {"valid", "clone_suspect"} => req'[g] = req[g] /\ attempts'[g] = attempts[g]
  BY <1>1, <1>4, <1>5
<1>11. Evidence'
  BY <1>2 DEF VInv, Evidence
<1>12. Winners'
  <2>1. \A g \in Requests : \A s : Wins(g, s)' <=> Wins(g, s)
    BY <1>9, <1>10 DEF Wins
  <2>2. \A f, g \in Requests : Wins(f, req[g].stamp)' /\ Wins(g, req[g].stamp)' => f = g
    BY <1>10, <2>1 DEF VInv, Winners, Wins
  <2> QED BY <1>2, <2>1, <2>2 DEF VInv, Winners
<1>13. Versions'
  <2>1. Clones' = Clones
    BY <1>9, <1>10 DEF Clones
  <2> QED BY <1>2, <2>1 DEF VInv, Versions, Voids
<1>14. Flags'
  BY <1>2, <1>6, ProgressKeeps DEF VInv, Flags, TypeOK, Snapshot
<1>15. Events'
  <2>1. ASSUME NEW e \in outbox, e.type = "verified" PROVE EarlyDevices(e.stamp)' = EarlyDevices(e.stamp)
    <3>1. stamps[e.stamp].first # Nobody /\ e.stamp \in Stamps
      BY <2>1, NoEventYet, SettledCalls
    <3>2. q.stamp = e.stamp => v \notin {"not_active", "invalid_credential", "valid"}
      BY <1>4, <3>1, IdentityAssumption DEF v, Verdict, Scanned
    <3> QED BY <1>5, <1>6, <3>2, EarlyStays
  <2>2. \A e \in outbox : /\ req'[e.by] = req[e.by] /\ e.by \in Requests
                          /\ attempts[e.by] = "valid" => attempts'[e.by] = "valid"
    BY <1>1, <1>5, <1>6, ProgressKeeps, SettledCalls
  <2> QED BY <1>2, <1>10, <2>1, <2>2 DEF VInv, Events
<1> QED BY <1>6, <1>7, <1>8, <1>11, <1>12, <1>13, <1>14, <1>15, ProgressSound DEF VInv

\* The velocity verdict of the winning scan counts the early devices of its stamp.
LEMMA ConsumeCounts ==
  ASSUME VInv, NEW r \in Requests, Consume(r), Progress, NEW s \in Stamps, s = req[r].stamp
  PROVE  EarlyDevices(s)' = DevicesOn(s, r)
<1> DEFINE Early == {"not_active", "invalid_credential", "valid"}
           tried == {o \in Requests : req[o].stamp = s /\ (attempts[o] # "none" \/ o = r)}
           early == {o \in Requests : req'[o].stamp = s /\ attempts'[o] \in Early}
<1>1. /\ stamps[s].first = Nobody /\ stamps[s].status # "VOID" /\ s \notin expired
      /\ attempts[r] = "none" /\ attempts \in [Requests -> Outcomes \cup {"none"}]
  BY SettledCalls DEF Consume, At, FirstScan, Dead, Scanned, VInv, TypeOK
<1>2. /\ attempts'[r] = "valid"
      /\ \A o \in Requests \ {r} : attempts'[o] = attempts[o]
  BY <1>1 DEF Consume
<1>3. \A o \in Requests : req'[o].device = req[o].device /\ req'[o].stamp = req[o].stamp
  BY FreshSession, RequestTypes DEF Progress
<1>4. \A o \in early : o \in tried
  BY <1>2, <1>3
<1>5. ASSUME NEW o \in tried, o \notin early PROVE req[o].device = Public
  <2>1. o # r /\ attempts[o] # "none" /\ attempts[o] \notin Early /\ attempts[o] \in Outcomes
    BY <1>1, <1>2, <1>3, <1>5
  <2>2. Faithful(req[o], attempts[o]) /\ req[o].stamp = s
    BY <2>1, <1>5 DEF VInv, Answers
  <2>3. attempts[o] = "active"
    BY <1>1, <2>1, <2>2 DEF Faithful, Outcomes
  <2> QED BY <2>2, <2>3 DEF Faithful
<1>6. {req'[o].device : o \in early} \ {Public} = {req[o].device : o \in tried} \ {Public}
  <2>1. \A o \in early : o \in tried /\ req'[o].device = req[o].device
    BY <1>3, <1>4
  <2>2. \A o \in tried : req[o].device # Public => o \in early /\ req'[o].device = req[o].device
    BY <1>3, <1>5
  <2> HIDE DEF early, tried
  <2> QED BY <2>1, <2>2
<1>7. EarlyDevices(s)' = {req'[o].device : o \in early} \ {Public}
  BY DEF EarlyDevices
<1>8. DevicesOn(s, r) = {req[o].device : o \in tried} \ {Public}
  BY DEF DevicesOn
<1> QED BY <1>6, <1>7, <1>8

\* First scan wins.
LEMMA ConsumeStep ==
  ASSUME VInv, NEW r \in Requests, Consume(r)
  PROVE  VInv'
<1> DEFINE q == req[r]
           rapid == Cardinality(DevicesOn(q.stamp, r)) >= VelocityDevices
           event == [type |-> "verified", stamp |-> q.stamp, by |-> r, rapid |-> rapid]
<1>1. /\ q \in Request /\ q.kind = "scan" /\ q.phase = "loaded" /\ attempts[r] = "none"
      /\ attempts \in [Requests -> Outcomes \cup {"none"}] /\ req \in [Requests -> Request]
      /\ stamps \in [Stamps -> StampRow]
  BY RequestTypes, SettledCalls DEF Consume, At, VInv, TypeOK
<1>2. PICK s \in Stamps : s = q.stamp
  BY DEF Consume
<1>3. /\ stamps[s].status = "ACTIVE" /\ stamps[s].first = Nobody /\ Unlocked(s)
      /\ q.device # Public /\ q.device \in Devices
  BY <1>1, <1>2 DEF Consume, FirstScan, Scanned, Request
<1>4. /\ stamps' = [stamps EXCEPT ![s] = [status |-> "CONSUMED", first |-> q.device]]
      /\ attempts' = [attempts EXCEPT ![r] = "valid"] /\ req' = [req EXCEPT ![r] = Answer(q)]
      /\ outbox' = outbox \cup {event} /\ UNCHANGED <<expired, lists>>
  BY <1>2 DEF Consume
<1>5. /\ Answer(q) \in Request /\ Answer(q).phase = "done" /\ Answer(q).kind = "scan"
      /\ Answer(q).stamp = s /\ Answer(q).device = q.device
  BY <1>1, <1>2, FreshSession
<1>6. /\ req'[r] = Answer(q) /\ attempts'[r] = "valid"
      /\ \A g \in Requests \ {r} : req'[g] = req[g] /\ attempts'[g] = attempts[g]
      /\ stamps'[s].status = "CONSUMED" /\ stamps'[s].first = q.device
      /\ \A t \in Stamps \ {s} : stamps'[t] = stamps[t]
  BY <1>1, <1>4
<1>7. q.device # Nobody
  BY <1>3, IdentityAssumption
<1>8. Progress
  <2>1. req' \in [Requests -> Request]
    BY <1>1, <1>4, <1>5
  <2>2. \A g \in Requests : req[g].phase \in Publishing =>
          (stamps[req[g].stamp].status # "VOID" => stamps'[req[g].stamp].status # "VOID")
    BY <1>6, RequestTypes DEF Sound
  <2>3. \A t \in Stamps : /\ stamps[t].first # Nobody => stamps'[t].first = stamps[t].first
                          /\ stamps[t].status = "VOID" => stamps'[t].status = "VOID"
    BY <1>3, <1>6
  <2> QED BY <1>1, <1>4, <1>6, <2>1, <2>2, <2>3 DEF Progress, Over
<1>9. rapid \in BOOLEAN /\ event \in Event
  BY <1>2 DEF Event
<1>10. event.type = "verified" /\ event.stamp = s /\ event.by = r /\ event.rapid = rapid
  BY <1>2
<1> HIDE DEF rapid, event
<1>11. TypeOK'
  <2>1. attempts' \in [Requests -> Outcomes \cup {"none"}] /\ req' \in [Requests -> Request]
    BY <1>1, <1>4, <1>5 DEF Outcomes
  <2>2. stamps' \in [Stamps -> StampRow]
    BY <1>1, <1>3, <1>4 DEF StampRow
  <2> QED BY <1>4, <1>8, <1>9, <2>1, <2>2, RowLocks DEF VInv, TypeOK
<1>12. Evidence'
  BY <1>6, <1>7 DEF VInv, Evidence
<1>13. Answers'
  <2>1. Faithful(req[r], attempts[r])'
    BY <1>2, <1>3, <1>5, <1>6, <1>7 DEF Faithful
  <2>2. \A g \in Requests \ {r} : attempts'[g] # "none" => Faithful(req[g], attempts[g])'
    BY <1>6, <1>8, ProgressKeeps
  <2> QED BY <2>1, <2>2 DEF Answers
<1>14. \A g \in Requests : attempts[g] = "valid" => g # r /\ req[g].stamp # s
  BY <1>1, <1>3 DEF VInv, Answers, Faithful
<1>15. Winners'
  <2>1. \A g \in Requests : \A t : Wins(g, t)' <=> (Wins(g, t) \/ (g = r /\ t = s))
    BY <1>1, <1>2, <1>5, <1>6 DEF Wins
  <2>2. \A f, g \in Requests : Wins(f, req[g].stamp)' /\ Wins(g, req[g].stamp)' => f = g
    <3> SUFFICES ASSUME NEW f \in Requests, NEW g \in Requests,
                        Wins(f, req[g].stamp)', Wins(g, req[g].stamp)'
                 PROVE  f = g
      OBVIOUS
    <3>1. /\ req'[f].stamp = req'[g].stamp /\ attempts'[f] = "valid" /\ attempts'[g] = "valid"
      BY DEF Wins
    <3>2. \A h \in Requests : req'[h].stamp = req[h].stamp
      BY <1>2, <1>5, <1>6
    <3>3. CASE f # r /\ g # r
      BY <1>6, <3>1, <3>2, <3>3 DEF VInv, Winners, Wins
    <3> QED BY <1>2, <1>6, <1>14, <3>1, <3>2, <3>3
  <2>3. \A t \in Stamps : stamps'[t].first # Nobody => \E g \in Requests : Wins(g, t)'
    BY <1>6, <2>1 DEF VInv, Winners
  <2> QED BY <2>2, <2>3 DEF Winners
<1>16. Versions'
  <2>1. Clones' = Clones
    BY <1>1, <1>6 DEF Clones
  <2>2. Voids' = Voids
    BY <1>4, <1>10 DEF Voids
  <2> QED BY <1>4, <2>1, <2>2 DEF VInv, Versions
<1>17. Flags'
  BY <1>4, <1>8, ProgressKeeps DEF VInv, Flags, TypeOK, Snapshot
<1>18. Events'
  <2>1. ASSUME NEW e \in outbox, e.type = "verified" PROVE EarlyDevices(e.stamp)' = EarlyDevices(e.stamp)
    <3>1. e.stamp # s
      BY <1>3, <2>1, NoEventYet
    <3> QED BY <1>2, <1>6, <1>8, <3>1, EarlyStays
  <2>2. \A e \in outbox : /\ req'[e.by] = req[e.by] /\ e.by \in Requests \ {r} /\ e.stamp \in Stamps
                          /\ attempts'[e.by] = attempts[e.by]
    BY <1>1, <1>6, <1>8, ProgressKeeps, SettledCalls
  <2>3. rapid <=> Cardinality(EarlyDevices(s)') >= VelocityDevices
    BY <1>2, <1>8, ConsumeCounts DEF rapid
  <2>4. \A t \in Stamps : stamps'[t].status = "VOID" <=> stamps[t].status = "VOID"
    BY <1>3, <1>6
  <2>5. ASSUME NEW e \in outbox'
        PROVE  /\ req'[e.by].phase = "done" /\ req'[e.by].stamp = e.stamp
               /\ e.type = "verified" =>
                    /\ attempts'[e.by] = "valid"
                    /\ e.rapid <=> Cardinality(EarlyDevices(e.stamp)') >= VelocityDevices
               /\ e.type = "voided" => stamps'[e.stamp].status = "VOID" /\ req'[e.by].kind = "void"
    <3>1. CASE e = event
      BY <1>5, <1>6, <1>10, <2>3, <3>1
    <3>2. CASE e \in outbox
      BY <2>1, <2>2, <2>4, <3>2 DEF VInv, Events
    <3> QED BY <1>4, <3>1, <3>2
  <2>6. \A g \in Requests : attempts'[g] = "valid" => \E e \in outbox' : e.type = "verified" /\ e.by = g
    BY <1>4, <1>6, <1>10 DEF VInv, Events
  <2>7. \A t \in Stamps : stamps'[t].status = "VOID" => \E e \in outbox' : e.type = "voided" /\ e.stamp = t
    BY <1>4, <2>4 DEF VInv, Events
  <2>8. \A e, f \in outbox' : e.type = "voided" /\ f.type = "voided" /\ e.stamp = f.stamp => e = f
    BY <1>4, <1>10 DEF VInv, Events
  <2> QED BY <2>5, <2>6, <2>7, <2>8 DEF Events
<1> QED BY <1>8, <1>11, <1>12, <1>13, <1>15, <1>16, <1>17, <1>18, ProgressSound DEF VInv

\* What the commit of a flag writes, for a scan and for a void.
LEMMA CommitWrites ==
  ASSUME VInv, NEW r \in Requests, CommitFlag(r)
  PROVE  \E s \in Stamps, p \in Purposes, status \in {"SUSPECT", "VOID"} :
           /\ s = req[r].stamp /\ p = PurposeOf(req[r])
           /\ stamps[s].status # "VOID"
           /\ req[r].phase = "inserted" /\ attempts[r] = "none"
           /\ req[r].version = lists[p].version + 1
           /\ req[r].bits \subseteq Stamps
           /\ \A t \in req[r].bits \ {s} : Deserved(p, t)
           /\ stamps' = [stamps EXCEPT ![s].status = status]
           /\ lists' = [lists EXCEPT ![p] = [version |-> req[r].version, bits |-> req[r].bits]]
           /\ req' = [req EXCEPT ![r] = Answer(req[r])] /\ expired' = expired
           /\ \/ /\ p = "suspect" /\ status = "SUSPECT" /\ req[r].kind = "scan"
                 /\ stamps[s].first # Nobody
                 /\ attempts' = [attempts EXCEPT ![r] = "clone_suspect"] /\ outbox' = outbox
              \/ /\ p = "void" /\ status = "VOID" /\ req[r].kind = "void" /\ attempts' = attempts
                 /\ outbox' = outbox \cup {[type |-> "voided", stamp |-> s, by |-> r, rapid |-> FALSE]}
<1>1. Sound(r, req[r]) /\ req[r] \in Request /\ req[r].phase = "inserted" /\ attempts[r] = "none"
  BY RequestTypes, SettledCalls DEF CommitFlag
<1>2. /\ req[r].stamp \in Stamps /\ stamps[req[r].stamp].status # "VOID"
      /\ req[r].kind = "scan" => stamps[req[r].stamp].first # Nobody
      /\ req[r].version = lists[PurposeOf(req[r])].version + 1
      /\ req[r].bits \subseteq Stamps
      /\ \A t \in req[r].bits \ {req[r].stamp} : Deserved(PurposeOf(req[r]), t)
  BY <1>1 DEF Sound, Publishing, Request
<1>3. CASE req[r].kind = "scan"
  <2>1. PurposeOf(req[r]) = "suspect" /\ StatusOf(req[r]) = "SUSPECT" /\ "suspect" \in Purposes
    BY <1>3 DEF PurposeOf, StatusOf, Purposes
  <2> QED BY <1>1, <1>2, <1>3, <2>1 DEF CommitFlag, Flagged
<1>4. CASE req[r].kind = "void"
  <2>1. PurposeOf(req[r]) = "void" /\ StatusOf(req[r]) = "VOID" /\ "void" \in Purposes
    BY <1>4 DEF PurposeOf, StatusOf, Purposes
  <2> QED BY <1>1, <1>2, <1>4, <2>1 DEF CommitFlag, Flagged
<1>5. req[r].kind \in {"scan", "void"}
  BY <1>1 DEF Request
<1> QED BY <1>3, <1>4, <1>5

LEMMA CommitStep ==
  ASSUME VInv, NEW r \in Requests, CommitFlag(r)
  PROVE  VInv'
<1> DEFINE q == req[r]
<1>1. PICK s \in Stamps, p \in Purposes, status \in {"SUSPECT", "VOID"} :
        /\ s = q.stamp /\ p = PurposeOf(q)
        /\ stamps[s].status # "VOID"
        /\ q.phase = "inserted" /\ attempts[r] = "none"
        /\ q.version = lists[p].version + 1
        /\ q.bits \subseteq Stamps
        /\ \A t \in q.bits \ {s} : Deserved(p, t)
        /\ stamps' = [stamps EXCEPT ![s].status = status]
        /\ lists' = [lists EXCEPT ![p] = [version |-> q.version, bits |-> q.bits]]
        /\ req' = [req EXCEPT ![r] = Answer(q)] /\ expired' = expired
        /\ \/ /\ p = "suspect" /\ status = "SUSPECT" /\ q.kind = "scan"
              /\ stamps[s].first # Nobody
              /\ attempts' = [attempts EXCEPT ![r] = "clone_suspect"] /\ outbox' = outbox
           \/ /\ p = "void" /\ status = "VOID" /\ q.kind = "void" /\ attempts' = attempts
              /\ outbox' = outbox \cup {[type |-> "voided", stamp |-> s, by |-> r, rapid |-> FALSE]}
  BY CommitWrites
<1>2. /\ q \in Request /\ req \in [Requests -> Request] /\ stamps \in [Stamps -> StampRow]
      /\ attempts \in [Requests -> Outcomes \cup {"none"}] /\ lists \in [Purposes -> Snapshot]
  BY RequestTypes DEF VInv, TypeOK
<1>3. /\ Answer(q) \in Request /\ Answer(q).phase = "done" /\ Answer(q).kind = q.kind
      /\ Answer(q).stamp = s /\ Answer(q).device = q.device
  BY <1>1, <1>2, FreshSession
<1>4. /\ req'[r] = Answer(q)
      /\ \A g \in Requests \ {r} : req'[g] = req[g] /\ attempts'[g] = attempts[g]
      /\ stamps' \in [Stamps -> StampRow]
      /\ stamps'[s].status = status /\ stamps'[s].first = stamps[s].first
      /\ \A t \in Stamps \ {s} : stamps'[t] = stamps[t]
  <2>1. /\ req'[r] = Answer(q)
        /\ \A g \in Requests \ {r} : req'[g] = req[g] /\ attempts'[g] = attempts[g]
    BY <1>1, <1>2
  <2>2. /\ stamps' \in [Stamps -> StampRow]
        /\ stamps'[s].status = status /\ stamps'[s].first = stamps[s].first
        /\ \A t \in Stamps \ {s} : stamps'[t] = stamps[t]
    BY <1>1, <1>2 DEF StampRow
  <2> QED BY <2>1, <2>2
<1>5. /\ lists' \in [Purposes -> Snapshot]
      /\ lists'[p].version = lists[p].version + 1 /\ lists'[p].bits = q.bits
      /\ \A o \in Purposes \ {p} : lists'[o] = lists[o]
  <2>1. [version |-> q.version, bits |-> q.bits] \in Snapshot
    BY <1>1, <1>2 DEF Snapshot, Request
  <2> QED BY <1>1, <1>2, <2>1
<1>6. Progress
  <2>1. req' \in [Requests -> Request]
    BY <1>1, <1>2, <1>3
  <2>2. \A g \in Requests \ {r} : req[g].phase \in Publishing => req[g].stamp \in Stamps \ {s}
    BY <1>1, RequestTypes DEF Sound, Publishing
  <2>3. req'[r] # req[r]
    BY <1>1, <1>3, <1>4
  <2>4. \A o \in Purposes :
          \/ lists'[o] = lists[o]
          \/ \E g \in Requests : /\ req[g].phase = "inserted" /\ PurposeOf(req[g]) = o /\ req'[g] # req[g]
                                 /\ lists'[o].version = lists[o].version + 1
    BY <1>1, <1>5, <2>3
  <2>5. \A g \in Requests : req[g].phase \in Publishing /\ req'[g] = req[g] =>
          (stamps[req[g].stamp].status # "VOID" => stamps'[req[g].stamp].status # "VOID")
    BY <1>4, <2>2, <2>3
  <2>6. \A t \in Stamps : /\ stamps[t].first # Nobody => stamps'[t].first = stamps[t].first
                          /\ stamps[t].status = "VOID" => stamps'[t].status = "VOID"
    BY <1>1, <1>4
  <2>7. req[r].phase \notin Over
    BY <1>1 DEF Over
  <2>8. \A g \in Requests :
          \/ req'[g] = req[g] /\ attempts'[g] = attempts[g]
          \/ req[g].phase \notin Over /\ req'[g] = Answer(req[g])
    BY <1>4, <2>7
  <2>9. expired \subseteq expired'
    BY <1>1
  <2> QED BY <2>1, <2>4, <2>5, <2>6, <2>8, <2>9 DEF Progress
<1>7. attempts' \in [Requests -> Outcomes \cup {"none"}]
  BY <1>1, <1>2 DEF Outcomes
<1>8. TypeOK'
  <2>1. outbox' \subseteq Event
    <3>1. [type |-> "voided", stamp |-> s, by |-> r, rapid |-> FALSE] \in Event
      BY DEF Event
    <3> QED BY <1>1, <3>1 DEF VInv, TypeOK
  <2>2. req' \in [Requests -> Request] /\ expired' \subseteq Stamps
    BY <1>1, <1>6 DEF Progress, VInv, TypeOK
  <2> QED BY <1>4, <1>5, <1>6, <1>7, <2>1, <2>2, RowLocks DEF TypeOK
<1>9. Evidence'
  BY <1>1, <1>4 DEF VInv, Evidence
<1>10. Answers'
  <2>1. attempts'[r] # "none" => Faithful(req[r], attempts[r])'
    BY <1>1, <1>2, <1>3, <1>4 DEF Faithful
  <2>2. \A g \in Requests \ {r} : attempts'[g] # "none" => Faithful(req[g], attempts[g])'
    BY <1>4, <1>6, ProgressKeeps
  <2> QED BY <2>1, <2>2 DEF Answers
<1>11. \A g \in Requests : attempts'[g] = "valid" \/ attempts[g] = "valid" =>
         g # r /\ req'[g] = req[g] /\ attempts'[g] = attempts[g]
  BY <1>1, <1>2, <1>4
<1>12. Winners'
  <2>1. \A g \in Requests : \A t : Wins(g, t)' <=> Wins(g, t)
    BY <1>11 DEF Wins
  <2>2. \A f, g \in Requests : Wins(f, req[g].stamp)' /\ Wins(g, req[g].stamp)' => f = g
    BY <1>11, <2>1 DEF VInv, Winners, Wins
  <2>3. \A t \in Stamps : stamps'[t].first = stamps[t].first
    BY <1>4
  <2> QED BY <2>1, <2>2, <2>3 DEF VInv, Winners
<1>13. \A e \in outbox : /\ req'[e.by] = req[e.by] /\ e.by \in Requests \ {r} /\ e.stamp \in Stamps
                         /\ attempts'[e.by] = attempts[e.by]
  BY <1>1, <1>4, <1>6, ProgressKeeps, SettledCalls
<1>14. ASSUME NEW t PROVE EarlyDevices(t)' = EarlyDevices(t)
  BY <1>1, <1>2, <1>4, <1>6, EarlyStays
<1>15. CASE p = "suspect"
  <2>1. /\ attempts'[r] = "clone_suspect" /\ outbox' = outbox /\ status = "SUSPECT"
    BY <1>1, <1>2, <1>15
  <2>2. Versions'
    <3>1. Clones' = Clones \cup {r} /\ r \notin Clones
      BY <1>1, <1>4, <2>1 DEF Clones
    <3>2. Voids' = Voids
      BY <2>1 DEF Voids
    <3>3. IsFiniteSet(Clones') /\ Cardinality(Clones') = Cardinality(Clones) + 1
      BY <3>1, FS_AddElement DEF VInv, Versions
    <3>4. lists'["suspect"].version = lists["suspect"].version + 1 /\ lists'["void"] = lists["void"]
      BY <1>5, <1>15 DEF Purposes
    <3> QED BY <3>2, <3>3, <3>4 DEF VInv, Versions
  <2>3. Flags'
    <3>1. \A t \in q.bits : Deserved(p, t)'
      <4>1. Deserved(p, s)'
        BY <1>3, <1>4, <1>15, <2>1 DEF Deserved
      <4> QED BY <1>1, <1>6, <4>1, ProgressKeeps
    <3>2. \A o \in Purposes \ {p} : \A t \in lists[o].bits : Deserved(o, t)'
      BY <1>2, <1>6, ProgressKeeps DEF VInv, Flags, Snapshot
    <3> QED BY <1>5, <3>1, <3>2 DEF Flags
  <2>4. Events'
    <3>1. \A t \in Stamps : stamps'[t].status = "VOID" <=> stamps[t].status = "VOID"
      BY <1>1, <1>4, <2>1
    <3> QED BY <1>11, <1>13, <1>14, <2>1, <3>1 DEF VInv, Events
  <2> QED BY <1>6, <1>8, <1>9, <1>10, <1>12, <2>2, <2>3, <2>4, ProgressSound DEF VInv
<1>16. CASE p = "void"
  <2> DEFINE event == [type |-> "voided", stamp |-> s, by |-> r, rapid |-> FALSE]
  <2>1. attempts' = attempts /\ outbox' = outbox \cup {event} /\ status = "VOID" /\ q.kind = "void"
    BY <1>1, <1>16
  <2>2. event.type = "voided" /\ event.stamp = s /\ event.by = r
    OBVIOUS
  <2> HIDE DEF event
  <2>3. \A e \in outbox : e.type = "voided" => e.stamp # s
    BY <1>1, NoEventYet
  <2>4. Versions'
    <3>1. Voids' = Voids \cup {event} /\ event \notin Voids
      BY <2>1, <2>2, <2>3 DEF Voids
    <3>2. Clones' = Clones
      BY <2>1 DEF Clones
    <3>3. IsFiniteSet(Voids') /\ Cardinality(Voids') = Cardinality(Voids) + 1
      BY <3>1, FS_AddElement DEF VInv, Versions
    <3>4. lists'["void"].version = lists["void"].version + 1 /\ lists'["suspect"] = lists["suspect"]
      BY <1>5, <1>16 DEF Purposes
    <3> QED BY <3>2, <3>3, <3>4 DEF VInv, Versions
  <2>5. Flags'
    <3>1. \A t \in q.bits : Deserved(p, t)'
      <4>1. Deserved(p, s)'
        BY <1>4, <1>16, <2>1 DEF Deserved
      <4> QED BY <1>1, <1>6, <4>1, ProgressKeeps
    <3>2. \A o \in Purposes \ {p} : \A t \in lists[o].bits : Deserved(o, t)'
      BY <1>2, <1>6, ProgressKeeps DEF VInv, Flags, Snapshot
    <3> QED BY <1>5, <3>1, <3>2 DEF Flags
  <2>6. Events'
    <3>1. \A t \in Stamps : stamps'[t].status = "VOID" <=> (stamps[t].status = "VOID" \/ t = s)
      BY <1>4, <2>1
    <3>2. ASSUME NEW e \in outbox'
          PROVE  /\ req'[e.by].phase = "done" /\ req'[e.by].stamp = e.stamp
                 /\ e.type = "verified" =>
                      /\ attempts'[e.by] = "valid"
                      /\ e.rapid <=> Cardinality(EarlyDevices(e.stamp)') >= VelocityDevices
                 /\ e.type = "voided" => stamps'[e.stamp].status = "VOID" /\ req'[e.by].kind = "void"
      <4>1. CASE e = event
        BY <1>3, <1>4, <2>1, <2>2, <4>1
      <4>2. CASE e \in outbox
        BY <1>13, <1>14, <3>1, <4>2 DEF VInv, Events
      <4> QED BY <2>1, <4>1, <4>2
    <3>3. \A g \in Requests : attempts'[g] = "valid" => \E e \in outbox' : e.type = "verified" /\ e.by = g
      BY <2>1 DEF VInv, Events
    <3>4. \A t \in Stamps : stamps'[t].status = "VOID" => \E e \in outbox' : e.type = "voided" /\ e.stamp = t
      BY <2>1, <2>2, <3>1 DEF VInv, Events
    <3>5. \A e, f \in outbox' : e.type = "voided" /\ f.type = "voided" /\ e.stamp = f.stamp => e = f
      BY <2>1, <2>2, <2>3 DEF VInv, Events
    <3> QED BY <3>2, <3>3, <3>4, <3>5 DEF Events
  <2> QED BY <1>6, <1>8, <1>9, <1>10, <1>12, <2>4, <2>5, <2>6, ProgressSound DEF VInv
<1> QED BY <1>15, <1>16 DEF Purposes

\* Activation and expiry.
LEMMA OtherSteps ==
  ASSUME VInv, ActivateBatch \/ \E s \in Stamps : Expire(s)
  PROVE  VInv'
<1>1. /\ UNCHANGED <<lists, attempts, outbox, req>> /\ expired \subseteq expired' /\ expired' \subseteq Stamps
  BY DEF ActivateBatch, Expire, tables, VInv, TypeOK
<1>2. \A s \in Stamps :
        \/ stamps'[s] = stamps[s]
        \/ stamps[s].status = "ISSUED" /\ stamps'[s].status = "ACTIVE" /\ stamps'[s].first = stamps[s].first
  <2>1. CASE ActivateBatch
    <3>1. stamps' = [s \in Stamps |->
            IF stamps[s].status = "ISSUED" THEN [stamps[s] EXCEPT !.status = "ACTIVE"] ELSE stamps[s]]
      BY <2>1 DEF ActivateBatch
    <3>2. \A s \in Stamps : stamps[s] \in StampRow
      BY DEF VInv, TypeOK
    <3> QED BY <3>1, <3>2 DEF StampRow
  <2>2. CASE \E s \in Stamps : Expire(s)
    BY <2>2 DEF Expire, tables
  <2> QED BY <2>1, <2>2
<1>3. stamps' \in [Stamps -> StampRow]
  <2>1. CASE ActivateBatch
    <3>1. \A s \in Stamps : [stamps[s] EXCEPT !.status = "ACTIVE"] \in StampRow
      BY DEF VInv, TypeOK, StampRow
    <3> QED BY <2>1, <3>1 DEF ActivateBatch, VInv, TypeOK
  <2>2. CASE \E s \in Stamps : Expire(s)
    BY <2>2 DEF Expire, tables, VInv, TypeOK
  <2> QED BY <2>1, <2>2
<1>4. Progress
  <2>1. \A g \in Requests : req[g].phase \in Publishing => req[g].stamp \in Stamps
    BY RequestTypes DEF Sound
  <2>2. \A g \in Requests : req[g].phase \in Publishing =>
          (stamps[req[g].stamp].status # "VOID" => stamps'[req[g].stamp].status # "VOID")
    BY <1>2, <2>1
  <2>3. \A s \in Stamps : /\ stamps[s].first # Nobody => stamps'[s].first = stamps[s].first
                          /\ stamps[s].status = "VOID" => stamps'[s].status = "VOID"
    BY <1>2
  <2> QED BY <1>1, <2>2, <2>3 DEF Progress, VInv, TypeOK
<1>5. TypeOK'
  BY <1>1, <1>3 DEF VInv, TypeOK
<1>6. Evidence'
  BY <1>2 DEF VInv, Evidence
<1>7. Answers'
  BY <1>1, <1>4, ProgressKeeps DEF Answers
<1>8. Winners'
  BY <1>1, <1>2 DEF VInv, Winners, Wins
<1>9. Versions'
  BY <1>1 DEF VInv, Versions, Voids, Clones
<1>10. Flags'
  BY <1>1, <1>4, ProgressKeeps DEF VInv, Flags, TypeOK, Snapshot
<1>11. Events'
  <2>1. \A s : EarlyDevices(s)' = EarlyDevices(s)
    BY <1>1 DEF EarlyDevices
  <2>2. \A s \in Stamps : stamps'[s].status = "VOID" <=> stamps[s].status = "VOID"
    BY <1>2
  <2>3. \A e \in outbox : e.stamp \in Stamps
    BY SettledCalls
  <2> QED BY <1>1, <2>1, <2>2, <2>3 DEF VInv, Events
<1> QED BY <1>4, <1>5, <1>6, <1>7, <1>8, <1>9, <1>10, <1>11, ProgressSound DEF VInv

-----------------------------------------------------------------------------
(* The invariant holds *)

LEMMA VInit == Init => VInv
<1> SUFFICES ASSUME Init PROVE VInv
  OBVIOUS
<1>1. /\ \A r \in Requests : req[r] = New /\ attempts[r] = "none"
      /\ \A s \in Stamps : stamps[s].status = "ISSUED" /\ stamps[s].first = Nobody
      /\ \A p \in Purposes : lists[p].version = 0 /\ lists[p].bits = {}
      /\ outbox = {}
  BY DEF Init
<1>2. TypeOK
  BY <1>1, FreshSession DEF Init, TypeOK, StampRow, Snapshot, Publishing
<1>3. RequestsSound
  BY <1>1, FreshSession DEF RequestsSound, Sound, Publishing
<1>4. Evidence /\ Answers /\ Events /\ Flags
  BY <1>1 DEF Evidence, Answers, Events, Flags
<1>5. Winners
  BY <1>1 DEF Winners, Wins
<1>6. Versions
  <2>1. Voids = {} /\ Clones = {}
    BY <1>1 DEF Voids, Clones
  <2> QED BY <1>1, <2>1, FS_EmptySet DEF Versions, Purposes
<1> QED BY <1>2, <1>3, <1>4, <1>5, <1>6 DEF VInv

LEMMA UnchangedVInv ==
  ASSUME VInv, UNCHANGED vars
  PROVE  VInv'
<1>1. UNCHANGED <<stamps, expired, lists, attempts, outbox, req>>
  BY DEF vars
<1>2. TypeOK' /\ Evidence' /\ Answers' /\ Winners' /\ Versions'
  BY <1>1 DEF VInv, TypeOK, Evidence, Answers, Faithful, Winners, Wins, Versions, Voids, Clones
<1>3. Flags' /\ RequestsSound'
  BY <1>1 DEF VInv, Flags, Deserved, RequestsSound, Sound
<1>4. Events'
  <2>1. \A s : EarlyDevices(s)' = EarlyDevices(s)
    BY <1>1 DEF EarlyDevices
  <2> QED BY <1>1, <2>1 DEF VInv, Events
<1> QED BY <1>2, <1>3, <1>4 DEF VInv

LEMMA VStep ==
  ASSUME VInv, [Next]_vars \/ \E r \in Requests : TurnedAway(r)
  PROVE  VInv'
<1>1. CASE \E r \in Requests : Start(r) \/ TurnedAway(r) \/ ReadSuspectList(r)
  BY <1>1, StartSteps
<1>2. CASE \E r \in Requests : SuspectClone(r) \/ VoidStamp(r) \/ Crash(r)
  BY <1>2, LockSteps
<1>3. CASE \E r \in Requests : ReadList(r) \/ ReadVersion(r) \/ InsertSnapshot(r)
  BY <1>3, FlagSteps
<1>4. CASE \E r \in Requests : RecordAttempt(r) \/ Consume(r) \/ CommitFlag(r)
  BY <1>4, RecordStep, ConsumeStep, CommitStep
<1>5. CASE ActivateBatch \/ \E s \in Stamps : Expire(s)
  BY <1>5, OtherSteps
<1>6. CASE Terminated \/ UNCHANGED vars
  BY <1>6, UnchangedVInv DEF Terminated
<1> QED BY <1>1, <1>2, <1>3, <1>4, <1>5, <1>6 DEF Next, Proceed

\* The inductive invariant holds in every behaviour of the calls.
THEOREM VerificationInvariance == Spec => []VInv
<1>1. VInv /\ [Next]_vars => VInv'
  BY VStep
<1> QED BY <1>1, VInit, PTL DEF Spec

-----------------------------------------------------------------------------
(* What it implies *)

LEMMA WinsOnce == VInv => FirstScanWins
<1> SUFFICES ASSUME VInv, NEW s \in Stamps
             PROVE  LET scans == {r \in Requests : req[r].stamp = s /\ req[r].kind = "scan"}
                        winners == {r \in scans : attempts[r] = "valid"}
                    IN
                    /\ Cardinality(winners) = IF stamps[s].first = Nobody THEN 0 ELSE 1
                    /\ \A r \in winners : req[r].device = stamps[s].first
                    /\ \A r \in scans : attempts[r] = "already_verified"
                         => req[r].device \in {stamps[s].first, Public}
  BY DEF FirstScanWins
<1> DEFINE scans == {r \in Requests : req[r].stamp = s /\ req[r].kind = "scan"}
           winners == {r \in scans : attempts[r] = "valid"}
<1>1. \A r \in Requests : r \in winners <=> Wins(r, s)
  BY DEF Wins, VInv, Answers, Faithful
<1>2. \A r \in winners : stamps[s].first # Nobody /\ req[r].device = stamps[s].first
  BY DEF VInv, Answers, Faithful
<1>3. \A r \in scans : attempts[r] = "already_verified" => req[r].device \in {stamps[s].first, Public}
  BY DEF VInv, Answers, Faithful
<1>4. CASE stamps[s].first = Nobody
  <2>1. winners = {} BY <1>2, <1>4
  <2> QED BY <1>2, <1>3, <1>4, <2>1, FS_EmptySet
<1>5. CASE stamps[s].first # Nobody
  <2>1. PICK w \in Requests : Wins(w, s)
    BY <1>5 DEF VInv, Winners
  <2>2. \A r \in winners : r = w
    BY <1>1, <2>1 DEF VInv, Winners, Wins
  <2>3. winners = {w}
    BY <1>1, <2>1, <2>2
  <2>4. Cardinality(winners) = 1
    BY <2>3, FS_Singleton
  <2> QED BY <1>2, <1>3, <1>5, <2>4
<1> QED BY <1>4, <1>5

LEMMA FlagsHold == VInv => FlagsAreTrue
  BY DEF VInv, Flags, Deserved, FlagsAreTrue, Purposes

LEMMA VersionsHold == VInv => EveryFlagHasItsVersion
  BY DEF VInv, Versions, Voids, Clones, EveryFlagHasItsVersion

LEMMA EventsHold == VInv => EventsMatchStamps
<1> SUFFICES ASSUME VInv, NEW s \in Stamps
             PROVE  LET Of(type) == {e \in outbox : e.type = type /\ e.stamp = s}
                        Early == {"not_active", "invalid_credential", "valid"}
                        early == {r \in Requests : req[r].stamp = s /\ attempts[r] \in Early}
                    IN
                    /\ {e.by : e \in Of("verified")} = {r \in early : attempts[r] = "valid"}
                    /\ \A e \in Of("verified") :
                         e.rapid <=> Cardinality({req[r].device : r \in early} \ {Public}) >= VelocityDevices
                    /\ Cardinality(Of("voided")) = IF stamps[s].status = "VOID" THEN 1 ELSE 0
  BY DEF EventsMatchStamps
<1> DEFINE Of(type) == {e \in outbox : e.type = type /\ e.stamp = s}
           early == {r \in Requests : req[r].stamp = s /\ attempts[r] \in {"not_active", "invalid_credential", "valid"}}
<1>1. {e.by : e \in Of("verified")} = {r \in early : attempts[r] = "valid"}
  <2>1. \A e \in Of("verified") : e.by \in early /\ attempts[e.by] = "valid"
    BY SettledCalls DEF VInv, Events
  <2>2. ASSUME NEW r \in early, attempts[r] = "valid" PROVE \E e \in Of("verified") : e.by = r
    <3>1. PICK e \in outbox : e.type = "verified" /\ e.by = r
      BY <2>2 DEF VInv, Events
    <3>2. e.stamp = s
      BY <3>1 DEF VInv, Events
    <3> QED BY <3>1, <3>2
  <2> QED BY <2>1, <2>2
<1>2. \A e \in Of("verified") : e.rapid <=> Cardinality({req[r].device : r \in early} \ {Public}) >= VelocityDevices
  <2>1. EarlyDevices(s) = {req[r].device : r \in early} \ {Public}
    BY DEF EarlyDevices
  <2>2. ASSUME NEW e \in outbox, e.type = "verified", e.stamp = s
        PROVE  e.rapid <=> Cardinality(EarlyDevices(s)) >= VelocityDevices
    BY <2>2 DEF VInv, Events
  <2> HIDE DEF early
  <2> QED BY <2>1, <2>2
<1>3. Cardinality(Of("voided")) = IF stamps[s].status = "VOID" THEN 1 ELSE 0
  <2>1. CASE stamps[s].status = "VOID"
    <3>1. PICK e \in outbox : e.type = "voided" /\ e.stamp = s
      BY <2>1 DEF VInv, Events
    <3>2. \A f \in Of("voided") : f = e
      BY <3>1 DEF VInv, Events
    <3>3. Of("voided") = {e}
      BY <3>1, <3>2
    <3> QED BY <2>1, <3>3, FS_Singleton
  <2>2. CASE stamps[s].status # "VOID"
    <3>1. Of("voided") = {}
      BY <2>2, NoEventYet
    <3> QED BY <2>2, <3>1, FS_EmptySet
  <2> QED BY <2>1, <2>2
<1> QED BY <1>1, <1>2, <1>3

-----------------------------------------------------------------------------
(* The life of a stamp *)

\* Every step of a call, refused or not, is a step of the abstract lifecycle or none of it.
LEMMA LifecycleStep ==
  ASSUME VInv, [Next]_vars \/ \E r \in Requests : TurnedAway(r)
  PROVE  [Lifecycle!Next]_<<[s \in Stamps |-> stamps[s].status], [s \in Stamps |-> stamps[s].first]>>
<1> DEFINE status == [s \in Stamps |-> stamps[s].status]
           owner == [s \in Stamps |-> stamps[s].first]
<1>1. CASE UNCHANGED stamps
  BY <1>1
<1>2. ASSUME NEW r \in Requests, Consume(r) PROVE Lifecycle!Next
  <2>1. PICK s \in Stamps, d \in Devices : s = req[r].stamp /\ d = req[r].device
    BY <1>2, RequestTypes DEF Consume, FirstScan, Request
  <2>2. stamps[s].status = "ACTIVE" /\ stamps[s].first = Nobody
    BY <1>2, <2>1 DEF Consume, FirstScan, Scanned
  <2>3. stamps' = [stamps EXCEPT ![s] = [status |-> "CONSUMED", first |-> d]]
    BY <1>2, <2>1 DEF Consume
  <2>4. \A t \in Stamps : /\ stamps'[t].status = IF t = s THEN "CONSUMED" ELSE stamps[t].status
                          /\ stamps'[t].first = IF t = s THEN d ELSE stamps[t].first
    BY <2>3 DEF VInv, TypeOK
  <2>5. status' = [status EXCEPT ![s] = "CONSUMED"] /\ owner' = [owner EXCEPT ![s] = d]
    BY <2>4
  <2>6. Lifecycle!FirstScan(s, d)
    BY <2>2, <2>5 DEF Lifecycle!FirstScan
  <2> QED BY <2>1, <2>2, <2>6 DEF Lifecycle!Next
<1>3. ASSUME NEW r \in Requests, CommitFlag(r)
      PROVE  Lifecycle!Next \/ UNCHANGED <<status, owner>>
  <2>1. PICK s \in Stamps, flag \in {"SUSPECT", "VOID"} :
          /\ stamps' = [stamps EXCEPT ![s].status = flag]
          /\ stamps[s].status # "VOID"
          /\ flag = "SUSPECT" => stamps[s].first # Nobody
    <3>1. /\ stamps' = [stamps EXCEPT ![req[r].stamp].status = StatusOf(req[r])]
          /\ req[r].phase = "inserted" /\ req[r].kind \in {"scan", "void"}
      BY <1>3, RequestTypes DEF CommitFlag, Flagged, Request
    <3>2. /\ req[r].stamp \in Stamps /\ stamps[req[r].stamp].status # "VOID"
          /\ req[r].kind = "scan" => stamps[req[r].stamp].first # Nobody
      BY <3>1, RequestTypes DEF Sound, Publishing
    <3>3. CASE req[r].kind = "scan"
      BY <3>1, <3>2, <3>3 DEF StatusOf
    <3>4. CASE req[r].kind = "void"
      BY <3>1, <3>2, <3>4 DEF StatusOf
    <3> QED BY <3>1, <3>3, <3>4
  <2>2. \A t \in Stamps : /\ stamps'[t].status = IF t = s THEN flag ELSE stamps[t].status
                          /\ stamps'[t].first = stamps[t].first
    BY <2>1 DEF VInv, TypeOK, StampRow
  <2>3. status' = [status EXCEPT ![s] = flag] /\ owner' = owner
    BY <2>2
  <2>4. CASE flag = "VOID"
    BY <2>1, <2>3, <2>4 DEF Lifecycle!Next, Lifecycle!Void
  <2>5. CASE flag = "SUSPECT" /\ stamps[s].status = "CONSUMED"
    BY <2>1, <2>3, <2>5 DEF Lifecycle!Next, Lifecycle!Suspect
  <2>6. CASE flag = "SUSPECT" /\ stamps[s].status = "SUSPECT"
    <3>1. status' = status BY <2>2, <2>6
    <3> QED BY <2>3, <3>1
  <2>7. flag = "SUSPECT" => stamps[s].status \in {"CONSUMED", "SUSPECT"}
    BY <2>1 DEF VInv, Evidence
  <2> QED BY <2>4, <2>5, <2>6, <2>7
<1>4. CASE ActivateBatch
  <2>0. PICK live \in SUBSET Stamps : live = {s \in Stamps : stamps[s].status = "ISSUED"}
    OBVIOUS
  <2>1. \A s \in Stamps : /\ stamps'[s].status = IF s \in live THEN "ACTIVE" ELSE stamps[s].status
                          /\ stamps'[s].first = stamps[s].first
    <3>1. \A s \in Stamps : stamps[s] \in StampRow
      BY DEF VInv, TypeOK
    <3> QED BY <1>4, <2>0, <3>1 DEF ActivateBatch, StampRow
  <2>2. status' = [s \in Stamps |-> IF s \in live THEN "ACTIVE" ELSE status[s]] /\ owner' = owner
    BY <2>1
  <2>3. Lifecycle!GoLive(live)
    BY <2>0, <2>2 DEF Lifecycle!GoLive
  <2> QED BY <2>3 DEF Lifecycle!Next
<1>5. CASE \E r \in Requests : Start(r) \/ TurnedAway(r)
  BY <1>1, <1>5 DEF Start, StartScan, StartVoid, TurnedAway, tables
<1>6. CASE \E r \in Requests : \/ ReadSuspectList(r) \/ RecordAttempt(r) \/ SuspectClone(r) \/ VoidStamp(r)
                               \/ ReadList(r) \/ ReadVersion(r) \/ InsertSnapshot(r) \/ Crash(r)
  BY <1>1, <1>6 DEF ReadSuspectList, RecordAttempt, SuspectClone, VoidStamp, ReadList, ReadVersion,
                    InsertSnapshot, Crash, tables
<1>7. CASE (\E s \in Stamps : Expire(s)) \/ Terminated \/ UNCHANGED vars
  BY <1>1, <1>7 DEF Expire, Terminated, vars, tables
<1> QED BY <1>2, <1>3, <1>4, <1>5, <1>6, <1>7 DEF Next, Proceed

LEMMA LifecycleInit == Init => Lifecycle!Init
  BY DEF Init, Lifecycle!Init

\* verify_stamp, void_stamp, activate_batch: whatever the interleaving of scans, voids, crashes
\* and publications, a stamp moves through the abstract lifecycle: it goes live once, is
\* consumed by one scan whose device stays its owner, and a void is for ever.
THEOREM StampsFollowLifecycle == Spec => FollowsLifecycle
<1>1. VInv /\ [Next]_vars
        => [Lifecycle!Next]_<<[s \in Stamps |-> stamps[s].status], [s \in Stamps |-> stamps[s].first]>>
  BY LifecycleStep
<1> QED BY <1>1, LifecycleInit, VerificationInvariance, PTL DEF Spec, FollowsLifecycle, Lifecycle!Spec

-----------------------------------------------------------------------------
(* The properties *)

\* verify_stamp: one attempt at most is answered "valid" for a stamp, and its device is the
\* evidence for ever.
THEOREM OneWinner == Spec => []FirstScanWins
  BY VerificationInvariance, WinsOnce, PTL

\* set_flag: a published void bit is a VOID stamp, a suspect bit a stamp with a recorded clone
\* verdict, whatever becomes of the publisher that had read the list.
THEOREM NoFalseFlag == Spec => []FlagsAreTrue
  BY VerificationInvariance, FlagsHold, PTL

\* set_flag: no snapshot overwrites another.
THEOREM NoFlagLost == Spec => []EveryFlagHasItsVersion
  BY VerificationInvariance, VersionsHold, PTL

\* verify_stamp, void_stamp: one verified event for the winning scan with its velocity verdict,
\* one voided event for a VOID stamp.
THEOREM EventsTell == Spec => []EventsMatchStamps
  BY VerificationInvariance, EventsHold, PTL

-----------------------------------------------------------------------------
(* The end of every request *)

\* Row locks and snapshot keys are taken in this order, so the request that is furthest on
\* waits for no one.
LEMMA SomeoneProceeds == VInv => SomeoneCanProceed
<1> SUFFICES ASSUME VInv, NEW r \in Requests, Underway(r) PROVE \E q \in Requests : CanProceed(q)
  BY DEF SomeoneCanProceed
<1>1. \A q \in Requests : req[q].phase \in Phases
  BY DEF VInv, TypeOK, Request
<1>2. CASE \E q \in Requests : req[q].phase \in {"started", "flagging", "read", "inserted"}
  BY <1>2 DEF CanProceed, Underway, Over
<1>3. CASE /\ \A q \in Requests : req[q].phase # "inserted"
           /\ \E q \in Requests : req[q].phase = "numbered"
  BY <1>3 DEF CanProceed, Underway, Over, KeyPending
<1>4. CASE \A q \in Requests : req[q].phase \notin Publishing \cup {"started"}
  <2>1. req[r].phase = "loaded" BY <1>1, <1>4 DEF Underway, Phases
  <2>2. \A s : Unlocked(s) BY <1>4 DEF Unlocked
  <2> QED BY <2>1, <2>2 DEF CanProceed, Underway, Over
<1> QED BY <1>2, <1>3, <1>4 DEF Publishing

\* The place of a request in the sequence of its statements.
Stage(phase) ==
  CASE phase = "new" -> 0 [] phase = "started" -> 1 [] phase = "loaded" -> 2
    [] phase = "flagging" -> 3 [] phase = "read" -> 4 [] phase = "numbered" -> 5
    [] phase = "inserted" -> 6 [] OTHER -> 7

OnlyForward ==
  \A r \in Requests : req'[r] # req[r] => Stage(req'[r].phase) > Stage(req[r].phase)

\* A step moves one request on, or none.
LEMMA StepsForward ==
  ASSUME VInv, [Next]_vars \/ \E r \in Requests : TurnedAway(r)
  PROVE  OnlyForward
<1> USE DEF At, Over
<1>1. req \in [Requests -> Request] /\ \A r \in Requests : req[r].phase \in Phases
  BY DEF VInv, TypeOK, Request
<1>2. ASSUME NEW r \in Requests, NEW q, req' = [req EXCEPT ![r] = q],
             Stage(q.phase) > Stage(req[r].phase)
      PROVE  OnlyForward
  BY <1>1, <1>2 DEF OnlyForward
<1>3. ASSUME UNCHANGED req PROVE OnlyForward
  BY <1>3 DEF OnlyForward
<1>4. \A r \in Requests : \A phase : [req[r] EXCEPT !.phase = phase].phase = phase
  BY <1>1 DEF Request
<1>5. ASSUME NEW r \in Requests, NEW phase,
             req' = [req EXCEPT ![r] = [req[r] EXCEPT !.phase = phase]] \/ req' = [req EXCEPT ![r] = Lost(phase)],
             Stage(phase) > Stage(req[r].phase)
      PROVE  OnlyForward
  <2>1. Lost(phase).phase = phase BY DEF Lost, New
  <2> QED BY <1>2, <1>4, <1>5, <2>1
<1>6. ASSUME NEW r \in Requests, req' = [req EXCEPT ![r] = Answer(req[r])],
             Stage(req[r].phase) < Stage("done")
      PROVE  OnlyForward
  <2>1. Answer(req[r]).phase = "done" BY DEF Answer, New
  <2> QED BY <1>2, <1>6, <2>1
<1>7. /\ Stage("new") = 0 /\ Stage("started") = 1 /\ Stage("loaded") = 2 /\ Stage("flagging") = 3
      /\ Stage("read") = 4 /\ Stage("numbered") = 5 /\ Stage("inserted") = 6
      /\ Stage("done") = 7 /\ Stage("failed") = 7 /\ Stage("crashed") = 7
  BY DEF Stage
<1> HIDE DEF Stage
<1>8. ASSUME NEW r \in Requests, Start(r) PROVE OnlyForward
  <2>1. req[r].phase = "new"
    BY <1>8 DEF Start, StartScan, StartVoid
  <2>2. ASSUME NEW s, NEW d, NEW g, StartScan(r, s, d, g) PROVE OnlyForward
    <3> DEFINE credible == g /\ s \notin lists["void"].bits
               q == [New EXCEPT !.phase = IF credible THEN "started" ELSE "loaded",
                                !.stamp = s, !.device = d, !.credible = credible]
    <3>1. req' = [req EXCEPT ![r] = q] BY <2>2 DEF StartScan
    <3>2. q.phase \in {"started", "loaded"} BY DEF New
    <3> HIDE DEF q
    <3>3. Stage(q.phase) > Stage(req[r].phase) BY <1>7, <2>1, <3>2
    <3> QED BY <1>2, <3>1, <3>3, Zenon
  <2>3. ASSUME NEW s, StartVoid(r, s) PROVE OnlyForward
    <3> DEFINE q == [New EXCEPT !.phase = "loaded", !.kind = "void", !.stamp = s]
    <3>1. req' = [req EXCEPT ![r] = q] BY <2>3 DEF StartVoid
    <3>2. q.phase = "loaded" BY DEF New
    <3> HIDE DEF q
    <3>3. Stage(q.phase) > Stage(req[r].phase) BY <1>7, <2>1, <3>2
    <3> QED BY <1>2, <3>1, <3>3, Zenon
  <2> QED BY <1>8, <2>2, <2>3 DEF Start
<1>9. ASSUME NEW r \in Requests, Proceed(r) \/ Crash(r) \/ TurnedAway(r) PROVE OnlyForward
  <2> DEFINE Moves(from, to) ==
        req[r].phase = from /\ req' = [req EXCEPT ![r] = [req[r] EXCEPT !.phase = to]]
  <2>1. CASE ReadSuspectList(r)
    <3> DEFINE q == [req[r] EXCEPT !.phase = "loaded", !.credible = req[r].stamp \notin lists["suspect"].bits]
    <3>1. req[r].phase = "started" /\ req' = [req EXCEPT ![r] = q] BY <1>1, <2>1 DEF ReadSuspectList
    <3>2. q.phase = "loaded" BY <1>1 DEF Request
    <3> HIDE DEF q
    <3>3. Stage(q.phase) > Stage(req[r].phase) BY <1>7, <3>1, <3>2
    <3> QED BY <1>2, <3>1, <3>3, Zenon
  <2>2. CASE ReadList(r)
    <3> DEFINE q == [req[r] EXCEPT !.phase = "read", !.bits = lists[PurposeOf(req[r])].bits \cup {req[r].stamp}]
    <3>1. req[r].phase = "flagging" /\ req' = [req EXCEPT ![r] = q] BY <1>1, <2>2 DEF ReadList
    <3>2. q.phase = "read" BY <1>1 DEF Request
    <3> HIDE DEF q
    <3>3. Stage(q.phase) > Stage(req[r].phase) BY <1>7, <3>1, <3>2
    <3> QED BY <1>2, <3>1, <3>3, Zenon
  <2>3. CASE ReadVersion(r)
    <3> DEFINE q == [req[r] EXCEPT !.phase = "numbered", !.version = lists[PurposeOf(req[r])].version + 1]
    <3>1. req[r].phase = "read" /\ req' = [req EXCEPT ![r] = q] BY <1>1, <2>3 DEF ReadVersion
    <3>2. q.phase = "numbered" BY <1>1 DEF Request
    <3> HIDE DEF q
    <3>3. Stage(q.phase) > Stage(req[r].phase) BY <1>7, <3>1, <3>2
    <3> QED BY <1>2, <3>1, <3>3, Zenon
  <2>4. CASE SuspectClone(r)
    <3>1. Moves("loaded", "flagging") BY <2>4 DEF SuspectClone
    <3>2. Stage("flagging") > Stage(req[r].phase) BY <1>7, <3>1
    <3> QED BY <1>5, <3>1, <3>2, Zenon
  <2>5. CASE VoidStamp(r)
    <3>1. req[r].phase = "loaded" BY <2>5 DEF VoidStamp
    <3>2. Moves("loaded", "flagging") \/ req' = [req EXCEPT ![r] = Answer(req[r])]
      BY <2>5 DEF VoidStamp
    <3>3. Stage("flagging") > Stage(req[r].phase) /\ Stage(req[r].phase) < Stage("done") BY <1>7, <3>1
    <3> QED BY <1>5, <1>6, <3>2, <3>3, Zenon
  <2>6. CASE InsertSnapshot(r)
    <3>1. req[r].phase = "numbered" BY <2>6 DEF InsertSnapshot
    <3>2. Moves("numbered", "inserted") \/ req' = [req EXCEPT ![r] = Lost("failed")]
      BY <2>6 DEF InsertSnapshot
    <3>3. Stage("inserted") > Stage(req[r].phase) /\ Stage("failed") > Stage(req[r].phase) BY <1>7, <3>1
    <3> QED BY <1>5, <3>2, <3>3, Zenon
  <2>7. CASE RecordAttempt(r) \/ Consume(r) \/ CommitFlag(r)
    <3>1. req[r].phase \in {"loaded", "inserted"} /\ req' = [req EXCEPT ![r] = Answer(req[r])]
      BY <2>7 DEF RecordAttempt, Consume, CommitFlag
    <3>2. Stage(req[r].phase) < Stage("done") BY <1>7, <3>1
    <3> QED BY <1>6, <3>1, <3>2, Zenon
  <2>8. CASE TurnedAway(r)
    <3>1. Moves("new", "done") BY <2>8 DEF TurnedAway
    <3>2. Stage("done") > Stage(req[r].phase) BY <1>7, <3>1
    <3> QED BY <1>5, <3>1, <3>2, Zenon
  <2>9. CASE Crash(r)
    <3>1. /\ req[r].phase \in {"started", "loaded", "flagging", "read", "numbered", "inserted"}
          /\ req' = [req EXCEPT ![r] = Lost("crashed")]
      BY <1>1, <2>9 DEF Crash, Phases, Publishing
    <3>2. Stage("crashed") > Stage(req[r].phase) BY <1>7, <3>1
    <3> QED BY <1>5, <3>1, <3>2, Zenon
  <2> QED BY <1>9, <2>1, <2>2, <2>3, <2>4, <2>5, <2>6, <2>7, <2>8, <2>9 DEF Proceed
<1>10. CASE ActivateBatch \/ (\E s \in Stamps : Expire(s)) \/ Terminated \/ UNCHANGED vars
  BY <1>3, <1>10 DEF ActivateBatch, Expire, Terminated, vars, tables
<1> QED BY <1>8, <1>9, <1>10 DEF Next

\* set_flag, SELECT ... FOR UPDATE: the waits for rows and snapshot keys never close a cycle,
\* and no crash leaves one without an end, for any number of requests: while one is under way,
\* one can take its next statement.
THEOREM NobodyWaitsForEver == Spec => []SomeoneCanProceed
  BY VerificationInvariance, SomeoneProceeds, PTL

\* verify, void_stamp_route: no statement is ever repeated, so a request that goes on is over
\* after six.
THEOREM RequestsOnlyAdvance == Spec => [][OnlyForward]_vars
<1>1. VInv /\ [Next]_vars => [OnlyForward]_vars
  BY StepsForward
<1> QED BY <1>1, VerificationInvariance, PTL DEF Spec
=============================================================================
