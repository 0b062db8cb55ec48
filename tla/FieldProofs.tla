----------------------------- MODULE FieldProofs -----------------------------
(***************************************************************************)
(* Theorems about Field: the guard keeps what it promises, and the theorems *)
(* about Verification hold behind it, for any devices, calls and nonces,    *)
(* any limit, life of a nonce and number of lost answers.                   *)
(*                                                                         *)
(* A step of Field is a step of Verification, a refusal of a call that has  *)
(* not started, or no step of it, so VInv is preserved.  GateInv relates    *)
(* the calls to their place at the guard, NonceInv the keys in Redis to the *)
(* calls that claimed them, RateInv the counters to the calls they counted. *)
(***************************************************************************)
EXTENDS Field, VerificationProofs

-----------------------------------------------------------------------------
(* The invariant *)

\* A call enters only when it is admitted, and waits for its nonce before it starts.
GateInv ==
  /\ minute \in 0..MaxMinute /\ hits \in [Callers -> Nat]
  /\ claims \subseteq [device: Devices, nonce: Nonces, at: 0..MaxMinute]
  /\ gate \in [Requests -> Gate]
  /\ \A r \in Requests :
       /\ gate[r].stage = "counted" /\ gate[r].device # Public => req[r].phase = "new"
       /\ req[r].phase \in {"started", "loaded"} /\ req[r].kind = "scan" => Admitted(r)
       /\ req[r].phase \in Publishing /\ req[r].kind = "scan" => Admitted(r)
       /\ attempts[r] # "none" => Admitted(r)

\* A claimed nonce has its key until its life is over, and a key the call that has set it.
NonceInv ==
  /\ \A r \in Requests : gate[r].stage = "claimed" =>
       /\ gate[r].nonce \in Nonces /\ gate[r].at <= minute
       /\ \/ [device |-> gate[r].device, nonce |-> gate[r].nonce, at |-> gate[r].at] \in claims
          \/ gate[r].at + Life <= minute
  /\ \A c \in claims : \E r \in Requests :
       /\ gate[r].stage \in {"claimed", "lost"}
       /\ gate[r].device = c.device /\ gate[r].nonce = c.nonce /\ gate[r].at = c.at

\* The calls that asked for the limit of a bucket in a minute, those refused by it, and those
\* that passed.
Calls(d, m) == {r \in Requests : gate[r].stage # "outside" /\ gate[r].device = d /\ gate[r].since = m}
Limited(d, m) == {r \in Calls(d, m) : gate[r].stage = "limited"}
Passed(d, m) == {r \in Calls(d, m) : gate[r].stage \notin {"limited", "lost"}}

\* The counter is at least the calls that passed, and no more than all as long as none is
\* refused.
RateInv ==
  /\ IsFiniteSet({r \in Requests : gate[r].stage # "outside"})
  /\ \A r \in Requests : gate[r].stage # "outside" => gate[r].since <= minute
  /\ \A d \in Callers :
       /\ Cardinality(Passed(d, minute)) <= hits[d]
       /\ Limited(d, minute) = {} => hits[d] <= Cardinality(Calls(d, minute))

FieldInv == VInv /\ GateInv /\ NonceInv /\ NonceIsSingleUse /\ RateInv /\ RateIsExact

-----------------------------------------------------------------------------
(* Steps of the guard *)

LEMMA GuardNumbers ==
  /\ Limit \in Nat /\ Life \in Nat /\ Life > 0 /\ MaxMinute \in Nat
  BY GuardAssumption

\* A step at the guard changes the place of one call, which has not started.
LEMMA GuardChanges ==
  ASSUME VInv, GateInv, NEW r \in Requests, GuardStep(r)
  PROVE  /\ req[r].phase = "new" /\ attempts[r] = "none" /\ UNCHANGED <<tables, expired>>
         /\ TurnedAway(r) \/ UNCHANGED vars
         /\ gate' \in [Requests -> Gate] /\ claims' \subseteq [device: Devices, nonce: Nonces, at: 0..MaxMinute]
         /\ \A g \in Requests \ {r} : gate'[g] = gate[g] /\ req'[g] = req[g]
         /\ gate'[r].stage \in Refused \/ req' = req
         /\ gate'[r].stage \in Refused => req'[r].phase = "done"
<1>1. /\ gate \in [Requests -> Gate] /\ gate[r] \in Gate /\ req \in [Requests -> Request]
      /\ claims \subseteq [device: Devices, nonce: Nonces, at: 0..MaxMinute]
  BY DEF GateInv, VInv, TypeOK
<1>2. /\ req[r].phase = "new" /\ Answered(r) /\ UNCHANGED <<tables, expired>>
      /\ \E g \in Gate : gate' = [gate EXCEPT ![r] = g]
      /\ claims' \subseteq [device: Devices, nonce: Nonces, at: 0..MaxMinute]
  <2>1. CASE \E d \in Callers : Count(r, d)
    <3>0. PICK d \in Callers : Count(r, d) BY <2>1
    <3>1. PICK window \in Windows, stage \in {"counted", "limited", "lost"} :
            gate' = [gate EXCEPT ![r] = [gate[r] EXCEPT !.stage = stage, !.device = d, !.since = window]]
      BY <3>0 DEF Count
    <3>2. window \in 0..MaxMinute
      BY GuardNumbers DEF Windows, GateInv
    <3>3. [gate[r] EXCEPT !.stage = stage, !.device = d, !.since = window] \in Gate
      BY <1>1, <3>2 DEF Gate, Stages
    <3>4. req[r].phase = "new" /\ Answered(r) /\ UNCHANGED <<tables, expired, claims>>
      BY <3>0 DEF Count, At
    <3> QED BY <1>1, <3>1, <3>3, <3>4
  <2>2. CASE \E n \in Nonces : Claim(r, n)
    <3>0. PICK n \in Nonces : Claim(r, n) BY <2>2
    <3> DEFINE d == gate[r].device
    <3>1. PICK window \in Windows, stage \in {"claimed", "replayed", "lost"}, set \in BOOLEAN, dead \in SUBSET claims :
            /\ claims' = (claims \ dead) \cup (IF set THEN {[device |-> d, nonce |-> n, at |-> window]} ELSE {})
            /\ gate' = [gate EXCEPT ![r] = [gate[r] EXCEPT !.stage = stage, !.at = window,
                          !.nonce = IF set \/ stage = "replayed" THEN n ELSE NoNonce]]
      BY <3>0, ZenonT(90) DEF Claim
    <3>2. window \in 0..MaxMinute
      BY GuardNumbers DEF Windows, GateInv
    <3>3. [gate[r] EXCEPT !.stage = stage, !.at = window,
             !.nonce = IF set \/ stage = "replayed" THEN n ELSE NoNonce] \in Gate
      BY <1>1, <3>2 DEF Gate, Stages
    <3>4. /\ gate[r].stage = "counted" /\ d # Public /\ d \in Devices
          /\ Answered(r) /\ UNCHANGED <<tables, expired>>
      BY <1>1, <3>0 DEF Claim, Gate, Callers
    <3>5. req[r].phase = "new"
      BY <3>4 DEF GateInv
    <3>6. claims' \subseteq [device: Devices, nonce: Nonces, at: 0..MaxMinute]
      BY <1>1, <3>1, <3>2, <3>4
    <3> QED BY <3>1, <3>3, <3>4, <3>5, <3>6
  <2> QED BY <2>1, <2>2 DEF GuardStep
<1>3. /\ gate' \in [Requests -> Gate]
      /\ \A g \in Requests \ {r} : gate'[g] = gate[g] /\ req'[g] = req[g]
  BY <1>1, <1>2 DEF Answered
<1>4. gate'[r].stage \in Refused =>
        req' = [req EXCEPT ![r].phase = "done"] /\ req'[r].phase = "done" /\ TurnedAway(r)
  <2> SUFFICES ASSUME gate'[r].stage \in Refused
               PROVE  req' = [req EXCEPT ![r].phase = "done"] /\ req'[r].phase = "done" /\ TurnedAway(r)
    OBVIOUS
  <2>1. req' = [req EXCEPT ![r].phase = "done"]
    BY <1>2 DEF Answered
  <2>2. req'[r].phase = "done"
    BY <1>1, <2>1 DEF Request
  <2>3. req[r].kind = "scan"
    BY <1>2, RequestTypes, FreshSession DEF Sound
  <2> QED BY <1>2, <2>1, <2>2, <2>3 DEF TurnedAway, At
<1>5. gate'[r].stage \notin Refused => req' = req /\ UNCHANGED vars
  <2> SUFFICES ASSUME gate'[r].stage \notin Refused PROVE req' = req /\ UNCHANGED vars
    OBVIOUS
  <2>1. req' = [req EXCEPT ![r].phase = req[r].phase]
    BY <1>2 DEF Answered
  <2>2. [req[r] EXCEPT !.phase = req[r].phase] = req[r]
    BY <1>1 DEF Request
  <2>3. req' = req
    BY <1>1, <2>1, <2>2
  <2> QED BY <1>2, <2>3 DEF vars, tables
<1>6. attempts[r] = "none"
  BY <1>2, SettledCalls
<1> QED BY <1>2, <1>3, <1>4, <1>5, <1>6

\* Behind the guard, a step is one of Verification, a refusal, or none.
LEMMA FieldIsVerification ==
  ASSUME VInv, GateInv, [FieldNext]_<<vars, guard>>
  PROVE  [Next]_vars \/ \E r \in Requests : TurnedAway(r)
<1>1. CASE \E r \in Requests : GuardStep(r)
  BY <1>1, GuardChanges
<1>2. ASSUME NEW r \in Requests, Enter(r) PROVE Next
  <2>1. gate[r].device \in Devices \cup {Public}
    BY DEF GateInv, Gate, Callers
  <2> QED BY <1>2, <2>1 DEF Enter, Next, Start
<1>3. CASE TableStep
  BY <1>3 DEF TableStep, Next
<1>4. CASE UNCHANGED <<vars, guard>>
  BY <1>4
<1> QED BY <1>1, <1>2, <1>3, <1>4 DEF FieldNext

LEMMA GateKept ==
  ASSUME VInv, GateInv, [FieldNext]_<<vars, guard>>
  PROVE  GateInv'
<1>1. ASSUME NEW r \in Requests, GuardStep(r) PROVE GateInv'
  <2>1. minute' \in 0..MaxMinute /\ hits' \in [Callers -> Nat]
    <3>1. \A window \in Windows : window \in 0..MaxMinute
      BY GuardNumbers DEF Windows, GateInv
    <3>2. \A c \in Callers, window \in Windows, n \in {0, 1} : Hits(c, window) \in Nat /\ Hits(c, window) + n \in Nat
      BY DEF Hits, GateInv
    <3>3. ASSUME NEW d \in Callers, Count(r, d) PROVE minute' \in 0..MaxMinute /\ hits' \in [Callers -> Nat]
      <4>1. PICK window \in Windows, n \in {0, 1} :
              /\ hits' = [c \in Callers |-> Hits(c, window) + IF c = d THEN n ELSE 0] /\ minute' = window
        BY <3>3 DEF Count
      <4>2. \A c \in Callers : Hits(c, window) + (IF c = d THEN n ELSE 0) \in Nat
        BY <3>2
      <4> QED BY <3>1, <4>1, <4>2
    <3>4. ASSUME NEW n \in Nonces, Claim(r, n) PROVE minute' \in 0..MaxMinute /\ hits' \in [Callers -> Nat]
      BY <3>1, <3>2, <3>4 DEF Claim
    <3> QED BY <1>1, <3>3, <3>4 DEF GuardStep
  <2>2. /\ req[r].phase = "new" /\ attempts' = attempts /\ attempts[r] = "none"
        /\ \A g \in Requests \ {r} : gate'[g] = gate[g] /\ req'[g] = req[g]
        /\ req'[r].phase \in {"new", "done"} /\ (gate'[r].stage \in Refused \/ req'[r].phase = "new")
    BY <1>1, GuardChanges DEF tables
  <2>3. ASSUME NEW g \in Requests
        PROVE  /\ gate'[g].stage = "counted" /\ gate'[g].device # Public => req'[g].phase = "new"
               /\ req'[g].phase \in {"started", "loaded"} /\ req'[g].kind = "scan" => Admitted(g)'
               /\ req'[g].phase \in Publishing /\ req'[g].kind = "scan" => Admitted(g)'
               /\ attempts'[g] # "none" => Admitted(g)'
    <3>1. CASE g = r
      BY <2>2, <3>1 DEF Refused, Publishing
    <3>2. CASE g # r
      BY <2>2, <3>2 DEF GateInv, Admitted
    <3> QED BY <3>1, <3>2
  <2> QED BY <1>1, <2>1, <2>3, GuardChanges DEF GateInv
<1>2. ASSUME UNCHANGED guard,
             \A g \in Requests :
               \/ /\ req'[g] = req[g] \/ (req[g].phase # "new" /\ req'[g].phase \in Over)
                  /\ attempts'[g] = attempts[g]
               \/ /\ req[g].phase # "new" /\ req'[g].kind = req[g].kind
                  /\ req[g].phase \in {"started", "loaded"} \cup Publishing
                  /\ attempts'[g] = attempts[g] \/ req[g].kind = "scan"
               \/ attempts'[g] = attempts[g] /\ Admitted(g)
               \/ attempts'[g] = attempts[g] /\ gate[g].stage = "outside" /\ req'[g].kind = "void"
      PROVE  GateInv'
  <2>1. UNCHANGED <<minute, hits, claims, gate>>
    BY <1>2 DEF guard
  <2>2. ASSUME NEW g \in Requests
        PROVE  /\ gate'[g].stage = "counted" /\ gate'[g].device # Public => req'[g].phase = "new"
               /\ req'[g].phase \in {"started", "loaded"} /\ req'[g].kind = "scan" => Admitted(g)'
               /\ req'[g].phase \in Publishing /\ req'[g].kind = "scan" => Admitted(g)'
               /\ attempts'[g] # "none" => Admitted(g)'
    <3>1. Admitted(g)' = Admitted(g)
      BY <2>1 DEF Admitted
    <3>2. Admitted(g) => ~(gate[g].stage = "counted" /\ gate[g].device # Public)
      BY DEF Admitted
    <3> QED BY <1>2, <2>1, <3>1, <3>2 DEF GateInv, Over, Publishing
  <2> QED BY <2>1, <2>2 DEF GateInv
<1> DEFINE Quiet(g) == req'[g] = req[g] /\ attempts'[g] = attempts[g]
<1>3. ASSUME NEW r \in Requests, Enter(r) PROVE GateInv'
  <2>1. UNCHANGED guard /\ attempts' = attempts
    BY <1>3 DEF Enter, StartScan, StartVoid, tables
  <2>2. \A g \in Requests \ {r} : req'[g] = req[g]
    BY <1>3 DEF Enter, StartScan, StartVoid, VInv, TypeOK
  <2>3. Admitted(r) \/ (gate[r].stage = "outside" /\ req'[r].kind = "void")
    <3>1. ASSUME NEW s \in Stamps, StartVoid(r, s) PROVE req'[r].kind = "void"
      BY <3>1 DEF StartVoid, VInv, TypeOK, New
    <3> QED BY <1>3, <3>1 DEF Enter
  <2> QED BY <1>2, <2>1, <2>2, <2>3
<1>4. ASSUME TableStep PROVE GateInv'
  <2>1. UNCHANGED guard
    BY <1>4 DEF TableStep
  <2>2. ASSUME NEW r \in Requests, Proceed(r) \/ Crash(r) PROVE GateInv'
    <3>1. /\ \A g \in Requests \ {r} : Quiet(g)
          /\ req[r].phase \in {"started", "loaded"} \cup Publishing
          /\ attempts'[r] = attempts[r] \/ req[r].kind = "scan"
          /\ req'[r].kind = req[r].kind \/ (req'[r].phase \in Over /\ attempts'[r] = attempts[r])
      <4> USE DEF At, Publishing
      <4>1. /\ req \in [Requests -> Request] /\ attempts \in [Requests -> Outcomes \cup {"none"}]
            /\ req[r] \in Request /\ Answer(req[r]).kind = req[r].kind
            /\ Lost("failed").phase = "failed" /\ Lost("crashed").phase = "crashed"
        BY RequestTypes, FreshSession DEF VInv, TypeOK, Over
      <4>2. CASE ReadSuspectList(r) \/ SuspectClone(r) \/ ReadList(r) \/ ReadVersion(r)
        BY <2>2, <4>1, <4>2 DEF ReadSuspectList, SuspectClone, ReadList, ReadVersion, tables, Request
      <4>3. CASE RecordAttempt(r) \/ Consume(r) \/ CommitFlag(r)
        BY <4>1, <4>3 DEF RecordAttempt, Consume, CommitFlag
      <4>4. CASE VoidStamp(r) \/ InsertSnapshot(r) \/ Crash(r)
        BY <4>1, <4>4 DEF VoidStamp, InsertSnapshot, Crash, tables, Request, Over, Phases
      <4> QED BY <2>2, <4>2, <4>3, <4>4 DEF Proceed
    <3>2. req[r].phase # "new"
      BY <3>1 DEF Publishing
    <3> QED BY <1>2, <2>1, <3>1, <3>2
  <2>3. CASE ActivateBatch \/ (\E s \in Stamps : Expire(s)) \/ Terminated
    <3>1. \A g \in Requests : Quiet(g)
      BY <2>3 DEF ActivateBatch, Expire, Terminated, vars, tables
    <3> QED BY <1>2, <2>1, <3>1
  <2> QED BY <1>4, <2>2, <2>3 DEF TableStep
<1>5. ASSUME UNCHANGED <<vars, guard>> PROVE GateInv'
  BY <1>2, <1>5 DEF vars
<1> QED BY <1>1, <1>3, <1>4, <1>5 DEF FieldNext

-----------------------------------------------------------------------------
(* Nonces *)

LEMMA NonceCounted ==
  ASSUME VInv, GateInv, NonceInv, NonceIsSingleUse, NEW r \in Requests, NEW d \in Callers, Count(r, d)
  PROVE  NonceInv' /\ NonceIsSingleUse'
<1>1. /\ gate[r].stage = "outside" /\ gate'[r].stage \in {"counted", "limited", "lost"}
      /\ claims' = claims /\ minute' \in minute..MaxMinute
  <2>1. PICK window \in Windows, stage \in {"counted", "limited", "lost"} :
          /\ gate' = [gate EXCEPT ![r] = [gate[r] EXCEPT !.stage = stage, !.device = d, !.since = window]]
          /\ minute' = window
    BY DEF Count
  <2>2. gate[r].stage = "outside" /\ claims' = claims
    BY DEF Count
  <2>3. gate'[r].stage = stage
    BY <2>1 DEF GateInv, Gate
  <2> QED BY <2>1, <2>2, <2>3 DEF Windows
<1>2. \A g \in Requests \ {r} : gate'[g] = gate[g]
  BY GuardChanges DEF GuardStep
<1>3. minute \in Nat /\ minute' \in Nat /\ minute <= minute' /\ \A g \in Requests : gate[g].at \in Nat
  BY <1>1, GuardNumbers DEF GateInv, Gate
<1>4. NonceInv'
  <2>1. ASSUME NEW g \in Requests, gate'[g].stage = "claimed"
        PROVE  /\ gate'[g].nonce \in Nonces /\ gate'[g].at <= minute'
               /\ \/ [device |-> gate'[g].device, nonce |-> gate'[g].nonce, at |-> gate'[g].at] \in claims'
                  \/ gate'[g].at + Life <= minute'
    <3>1. g # r BY <1>1, <2>1
    <3>2. gate'[g] = gate[g] BY <1>2, <3>1
    <3> QED BY <1>1, <1>3, <2>1, <3>2, GuardNumbers DEF NonceInv
  <2>2. ASSUME NEW c \in claims
        PROVE  \E g \in Requests : /\ gate'[g].stage \in {"claimed", "lost"}
                                   /\ gate'[g].device = c.device /\ gate'[g].nonce = c.nonce /\ gate'[g].at = c.at
    <3>1. PICK g \in Requests : /\ gate[g].stage \in {"claimed", "lost"}
                                /\ gate[g].device = c.device /\ gate[g].nonce = c.nonce /\ gate[g].at = c.at
      BY DEF NonceInv
    <3> QED BY <1>1, <1>2, <3>1
  <2> QED BY <1>1, <2>1, <2>2 DEF NonceInv
<1>5. NonceIsSingleUse'
  <2>1. \A g \in Requests : gate'[g].stage \in {"claimed", "replayed"} => g # r /\ gate'[g] = gate[g]
    BY <1>1, <1>2
  <2>2. \A g \in Requests : gate[g].stage \in {"claimed", "lost"} => g # r /\ gate'[g] = gate[g]
    BY <1>1, <1>2
  <2> QED BY <2>1, <2>2 DEF NonceIsSingleUse
<1> QED BY <1>4, <1>5

LEMMA NonceClaimed ==
  ASSUME VInv, GateInv, NonceInv, NonceIsSingleUse, NEW r \in Requests, NEW nonce \in Nonces, Claim(r, nonce)
  PROVE  NonceInv' /\ NonceIsSingleUse'
<1>1. PICK d \in Devices : d = gate[r].device
  BY DEF Claim, GateInv, Gate, Callers
<1>2. PICK window \in Windows, stage \in {"claimed", "replayed", "lost"}, set \in BOOLEAN, dead \in SUBSET claims :
        LET e == gate[r].device
            live == claims \ dead
            taken == \E c \in live : Holds(c, e, nonce)
        IN
        /\ \A c \in dead : c.at + Life <= window
        /\ \A c \in live : c.at + Life >= window
        /\ set => ~taken
        /\ IF stage = "lost" THEN AnswerMayGetLost
           ELSE (stage = "claimed" <=> set) /\ (stage = "replayed" <=> taken)
        /\ claims' = live \cup (IF set THEN {[device |-> e, nonce |-> nonce, at |-> window]} ELSE {})
        /\ hits' = [c \in Callers |-> Hits(c, window)]
        /\ minute' = window
        /\ gate' = [gate EXCEPT ![r] = [gate[r] EXCEPT !.stage = stage, !.at = window,
                      !.nonce = IF set \/ stage = "replayed" THEN nonce ELSE NoNonce]]
  BY Zenon DEF Claim
<1> DEFINE live == claims \ dead
           taken == \E c \in live : Holds(c, d, nonce)
           key == [device |-> d, nonce |-> nonce, at |-> window]
<1>3. /\ \A c \in dead : c.at + Life <= window
      /\ \A c \in live : c.at + Life >= window
      /\ set => ~taken
      /\ stage = "claimed" => set
      /\ set => stage \in {"claimed", "lost"}
      /\ stage = "replayed" => taken
  BY <1>1, <1>2
<1>4. claims' = live \cup (IF set THEN {key} ELSE {})
  BY <1>1, <1>2
<1>5. gate[r].stage = "counted" /\ gate \in [Requests -> Gate]
  BY DEF Claim, GateInv
<1>6. \A g \in Requests \ {r} : gate'[g] = gate[g]
  BY <1>2, <1>5
<1>7. /\ gate'[r].stage = stage /\ gate'[r].device = d /\ gate'[r].at = window
      /\ set \/ stage = "replayed" => gate'[r].nonce = nonce
  <2>1. gate'[r] = [gate[r] EXCEPT !.stage = stage, !.at = window,
                      !.nonce = IF set \/ stage = "replayed" THEN nonce ELSE NoNonce]
    BY <1>2, <1>5
  <2> QED BY <1>1, <1>5, <2>1 DEF Gate
<1>8. /\ minute \in Nat /\ window \in Nat /\ minute' = window /\ minute <= window
      /\ \A g \in Requests : gate[g].at \in Nat
      /\ \A c \in claims : c.at \in Nat
  BY <1>2, GuardNumbers DEF GateInv, Gate, Windows
<1>9. key.device = d /\ key.nonce = nonce /\ key.at = window
  OBVIOUS
<1> HIDE DEF key, live, taken
\* Who had claimed this nonce before has lost its key.
<1>10. ASSUME set, NEW q \in Requests \ {r}, gate[q].stage = "claimed", gate[q].device = d, gate[q].nonce = nonce
       PROVE  gate[q].at + Life <= window
  <2> DEFINE c == [device |-> d, nonce |-> nonce, at |-> gate[q].at]
  <2>1. c \in claims \/ gate[q].at + Life <= minute
    BY <1>10 DEF NonceInv
  <2>2. c.device = d /\ c.nonce = nonce /\ c.at = gate[q].at
    OBVIOUS
  <2> HIDE DEF c
  <2>3. Holds(c, d, nonce)
    BY <2>2 DEF Holds
  <2>4. c \notin live
    BY <1>3, <1>10, <2>3 DEF taken
  <2>5. c \in claims => gate[q].at + Life <= window
    BY <1>3, <2>2, <2>4 DEF live
  <2>6. gate[q].at + Life <= minute => gate[q].at + Life <= window
    BY <1>8, GuardNumbers
  <2> QED BY <2>1, <2>5, <2>6
<1>11. NonceInv'
  <2>1. ASSUME NEW g \in Requests, gate'[g].stage = "claimed"
        PROVE  /\ gate'[g].nonce \in Nonces /\ gate'[g].at <= minute'
               /\ \/ [device |-> gate'[g].device, nonce |-> gate'[g].nonce, at |-> gate'[g].at] \in claims'
                  \/ gate'[g].at + Life <= minute'
    <3>1. CASE g = r
      <4>1. set /\ gate'[r].nonce = nonce
        BY <1>3, <1>7, <2>1, <3>1
      <4>2. [device |-> gate'[r].device, nonce |-> gate'[r].nonce, at |-> gate'[r].at] = key
        BY <1>7, <4>1 DEF key
      <4>3. key \in claims'
        BY <1>4, <4>1
      <4> QED BY <1>7, <1>8, <3>1, <4>1, <4>2, <4>3
    <3>2. CASE g # r
      <4> DEFINE c == [device |-> gate[g].device, nonce |-> gate[g].nonce, at |-> gate[g].at]
      <4>1. gate'[g] = gate[g]
        BY <1>6, <3>2
      <4>2. gate[g].nonce \in Nonces /\ gate[g].at <= minute /\ (c \in claims \/ gate[g].at + Life <= minute)
        BY <2>1, <4>1 DEF NonceInv
      <4>3. c.at = gate[g].at
        OBVIOUS
      <4> HIDE DEF c
      <4>4. c \in claims' \/ gate[g].at + Life <= window
        <5>1. CASE c \in live BY <1>4, <5>1
        <5>2. CASE c \in claims /\ c \notin live BY <1>3, <4>3, <5>2 DEF live
        <5>3. CASE c \notin claims BY <1>8, <4>2, <5>3, GuardNumbers
        <5> QED BY <5>1, <5>2, <5>3
      <4>5. gate[g].at <= window
        BY <1>8, <4>2
      <4> QED BY <1>8, <4>1, <4>2, <4>4, <4>5 DEF c
    <3> QED BY <3>1, <3>2
  <2>2. ASSUME NEW c \in claims'
        PROVE  \E g \in Requests : /\ gate'[g].stage \in {"claimed", "lost"}
                                   /\ gate'[g].device = c.device /\ gate'[g].nonce = c.nonce /\ gate'[g].at = c.at
    <3>1. CASE set /\ c = key
      BY <1>3, <1>7, <1>9, <3>1
    <3>2. CASE c \in claims
      <4>1. PICK g \in Requests : /\ gate[g].stage \in {"claimed", "lost"}
                                  /\ gate[g].device = c.device /\ gate[g].nonce = c.nonce /\ gate[g].at = c.at
        BY <3>2 DEF NonceInv
      <4> QED BY <1>5, <1>6, <4>1
    <3> QED BY <1>4, <3>1, <3>2 DEF live
  <2> QED BY <2>1, <2>2 DEF NonceInv
<1>12. NonceIsSingleUse'
  <2>1. ASSUME NEW p \in Requests, NEW q \in Requests, p # q,
               gate'[p].stage = "claimed", gate'[q].stage = "claimed",
               gate'[q].device = gate'[p].device, gate'[q].nonce = gate'[p].nonce, gate'[q].at <= gate'[p].at
        PROVE  gate'[q].at + Life <= gate'[p].at
    <3>1. CASE p = r
      <4>1. set /\ gate'[r].nonce = nonce /\ gate'[q] = gate[q]
        BY <1>3, <1>6, <1>7, <2>1, <3>1
      <4> QED BY <1>7, <1>10, <2>1, <3>1, <4>1
    <3>2. CASE q = r
      <4>1. set /\ gate'[r].nonce = nonce /\ gate'[p] = gate[p]
        BY <1>3, <1>6, <1>7, <2>1, <3>2
      <4>2. gate[p].at + Life <= window
        BY <1>7, <1>10, <2>1, <3>2, <4>1
      <4>3. window <= gate[p].at
        BY <1>7, <2>1, <3>2, <4>1
      <4> QED BY <1>8, <4>2, <4>3, GuardNumbers
    <3>3. CASE p # r /\ q # r
      BY <1>6, <2>1, <3>3 DEF NonceIsSingleUse
    <3> QED BY <3>1, <3>2, <3>3
  <2>2. ASSUME NEW p \in Requests, gate'[p].stage = "replayed"
        PROVE  \E q \in Requests \ {p} :
                 /\ gate'[q].device = gate'[p].device /\ gate'[q].nonce = gate'[p].nonce
                 /\ gate'[q].stage \in {"claimed", "lost"} /\ gate'[q].at + Life >= gate'[p].at
    <3>1. CASE p = r
      <4>1. PICK c \in live : Holds(c, d, nonce)
        BY <1>3, <1>7, <2>2, <3>1 DEF taken
      <4>2. PICK q \in Requests : /\ gate[q].stage \in {"claimed", "lost"}
                                  /\ gate[q].device = c.device /\ gate[q].nonce = c.nonce /\ gate[q].at = c.at
        BY <4>1 DEF live, NonceInv
      <4>3. q # r /\ gate'[q] = gate[q]
        BY <1>5, <1>6, <4>2
      <4>4. c.at + Life >= window
        BY <1>3
      <4>5. gate'[r].nonce = nonce
        BY <1>7, <2>2, <3>1
      <4> QED BY <1>7, <3>1, <4>1, <4>2, <4>3, <4>4, <4>5 DEF Holds
    <3>2. CASE p # r
      <4>1. gate'[p] = gate[p]
        BY <1>6, <3>2
      <4>2. PICK q \in Requests \ {p} :
              /\ gate[q].device = gate[p].device /\ gate[q].nonce = gate[p].nonce
              /\ gate[q].stage \in {"claimed", "lost"} /\ gate[q].at + Life >= gate[p].at
        BY <2>2, <4>1 DEF NonceIsSingleUse
      <4>3. gate'[q] = gate[q]
        BY <1>5, <1>6, <4>2
      <4> QED BY <4>1, <4>2, <4>3
    <3> QED BY <3>1, <3>2
  <2> QED BY <2>1, <2>2 DEF NonceIsSingleUse
<1> QED BY <1>11, <1>12

-----------------------------------------------------------------------------
(* The rate limit *)

\* What the limit of a bucket promises for one minute.
Exact(d, m) ==
  /\ Cardinality(Passed(d, m)) <= Limit
  /\ Limited(d, m) # {} => Cardinality(Calls(d, m) \ Limited(d, m)) >= Limit

LEMMA RateRestated ==
  /\ RateIsExact <=> \A d \in Callers, m \in 0..MaxMinute : Exact(d, m)
  /\ RateIsExact' <=> \A d \in Callers, m \in 0..MaxMinute : Exact(d, m)'
<1>1. ASSUME NEW d \in Callers, NEW m \in 0..MaxMinute
      PROVE  Calls(d, m) \ (Limited(d, m) \cup {r \in Calls(d, m) : gate[r].stage = "lost"}) = Passed(d, m)
  BY DEF Limited, Passed
<1>2. ASSUME NEW d \in Callers, NEW m \in 0..MaxMinute
      PROVE  (Calls(d, m) \ (Limited(d, m) \cup {r \in Calls(d, m) : gate[r].stage = "lost"}) = Passed(d, m))'
  BY DEF Limited, Passed
<1>3. RateIsExact <=> \A d \in Callers, m \in 0..MaxMinute : Exact(d, m)
  BY ZenonT(40), <1>1 DEF RateIsExact, Exact, Limited, Calls
<1>4. RateIsExact' <=> \A d \in Callers, m \in 0..MaxMinute : Exact(d, m)'
  BY ZenonT(40), <1>2 DEF RateIsExact, Exact, Limited, Calls
<1> QED BY <1>3, <1>4

LEMMA RateSets ==
  ASSUME RateInv, NEW d \in Callers, NEW m
  PROVE  /\ IsFiniteSet(Calls(d, m)) /\ IsFiniteSet(Passed(d, m)) /\ IsFiniteSet(Calls(d, m) \ Limited(d, m))
         /\ Cardinality(Calls(d, m)) \in Nat /\ Cardinality(Passed(d, m)) \in Nat
         /\ Cardinality(Calls(d, m) \ Limited(d, m)) \in Nat
<1>1. Calls(d, m) \subseteq {r \in Requests : gate[r].stage # "outside"}
  BY DEF Calls
<1>2. Passed(d, m) \subseteq Calls(d, m) /\ Calls(d, m) \ Limited(d, m) \subseteq Calls(d, m)
  BY DEF Passed
<1>3. IsFiniteSet(Calls(d, m))
  BY <1>1, FS_Subset DEF RateInv
<1>4. IsFiniteSet(Passed(d, m)) /\ IsFiniteSet(Calls(d, m) \ Limited(d, m))
  BY <1>2, <1>3, FS_Subset
<1> QED BY <1>3, <1>4, FS_CardinalityType

\* A command sees the counter of the minute it runs in, which counts the calls of that minute.
LEMMA AtWindow ==
  ASSUME GateInv, RateInv, NEW d \in Callers, NEW window \in Windows
  PROVE  /\ Hits(d, window) \in Nat
         /\ Cardinality(Passed(d, window)) <= Hits(d, window)
         /\ Limited(d, window) = {} => Hits(d, window) <= Cardinality(Calls(d, window))
<1>1. CASE window = minute
  BY <1>1 DEF Hits, RateInv, GateInv
<1>2. CASE window # minute
  <2>1. window > minute
    BY <1>2, GuardNumbers DEF Windows, GateInv
  <2>2. Calls(d, window) = {}
    BY <2>1, GuardNumbers DEF Calls, RateInv, GateInv, Gate
  <2>3. Passed(d, window) = {}
    BY <2>2 DEF Passed
  <2> QED BY <1>2, <2>2, <2>3, FS_EmptySet DEF Hits
<1> QED BY <1>1, <1>2

LEMMA RateCounted ==
  ASSUME VInv, GateInv, RateInv, RateIsExact, NEW r \in Requests, NEW d \in Callers, Count(r, d)
  PROVE  RateInv' /\ RateIsExact'
<1>1. PICK window \in Windows, stage \in {"counted", "limited", "lost"}, n \in {0, 1} :
       /\ IF stage = "lost" THEN AnswerMayGetLost
          ELSE n = 1 /\ (stage = "limited" <=> OverLimit(Hits(d, window) + 1))
       /\ hits' = [c \in Callers |-> Hits(c, window) + IF c = d THEN n ELSE 0]
       /\ minute' = window
       /\ gate' = [gate EXCEPT ![r] = [gate[r] EXCEPT !.stage = stage, !.device = d, !.since = window]]
  BY Zenon DEF Count
<1>2. /\ gate[r].stage = "outside" /\ gate \in [Requests -> Gate]
      /\ window \in Nat /\ minute \in Nat /\ minute <= window /\ window \in 0..MaxMinute
  BY GuardNumbers DEF Count, GateInv, Windows
<1>3. \A g \in Requests \ {r} : gate'[g] = gate[g]
  BY <1>1, <1>2
<1>4. gate'[r].stage = stage /\ gate'[r].device = d /\ gate'[r].since = window
  <2>1. gate'[r] = [gate[r] EXCEPT !.stage = stage, !.device = d, !.since = window]
    BY <1>1, <1>2
  <2> QED BY <1>2, <2>1 DEF Gate
<1>5. ASSUME NEW c \in Callers, NEW m
      PROVE  /\ r \notin Calls(c, m)
             /\ c # d \/ m # window => /\ Calls(c, m)' = Calls(c, m)
                                       /\ Limited(c, m)' = Limited(c, m) /\ Passed(c, m)' = Passed(c, m)
  <2>1. r \notin Calls(c, m)
    BY <1>2 DEF Calls
  <2>2. ASSUME c # d \/ m # window, NEW g \in Requests
        PROVE  (gate'[g].stage # "outside" /\ gate'[g].device = c /\ gate'[g].since = m) <=> g \in Calls(c, m)
    BY <1>3, <1>4, <2>1, <2>2 DEF Calls
  <2>3. ASSUME c # d \/ m # window PROVE Calls(c, m)' = Calls(c, m)
    BY <2>2, <2>3 DEF Calls
  <2>4. ASSUME c # d \/ m # window PROVE Limited(c, m)' = Limited(c, m) /\ Passed(c, m)' = Passed(c, m)
    BY <1>3, <2>1, <2>3, <2>4 DEF Limited, Passed, Calls
  <2> QED BY <2>1, <2>3, <2>4
<1>6. /\ Calls(d, window)' = Calls(d, window) \cup {r}
      /\ Limited(d, window)' = Limited(d, window) \cup (IF stage = "limited" THEN {r} ELSE {})
      /\ Passed(d, window)' = Passed(d, window) \cup (IF stage = "counted" THEN {r} ELSE {})
  <2>1. Calls(d, window)' = Calls(d, window) \cup {r}
    BY <1>3, <1>4 DEF Calls
  <2>2. r \notin Calls(d, window)
    BY <1>5
  <2>3. \A g \in Calls(d, window) : g # r /\ gate'[g] = gate[g]
    BY <1>3, <2>2 DEF Calls
  <2>4. Limited(d, window)' = Limited(d, window) \cup (IF stage = "limited" THEN {r} ELSE {})
    <3>1. \A g : g \in Limited(d, window)' <=> g \in Calls(d, window)' /\ gate'[g].stage = "limited"
      BY DEF Limited
    <3>2. \A g : g \in Limited(d, window) <=> g \in Calls(d, window) /\ gate[g].stage = "limited"
      BY DEF Limited
    <3>3. \A g : g \in Limited(d, window)' <=> g \in Limited(d, window) \/ (g = r /\ stage = "limited")
      BY <1>4, <2>1, <2>3, <3>1, <3>2
    <3> QED BY <3>3
  <2>5. Passed(d, window)' = Passed(d, window) \cup (IF stage = "counted" THEN {r} ELSE {})
    <3>1. \A g : g \in Passed(d, window)' <=> g \in Calls(d, window)' /\ gate'[g].stage \notin {"limited", "lost"}
      BY DEF Passed
    <3>2. \A g : g \in Passed(d, window) <=> g \in Calls(d, window) /\ gate[g].stage \notin {"limited", "lost"}
      BY DEF Passed
    <3>3. \A g : g \in Passed(d, window)' <=> g \in Passed(d, window) \/ (g = r /\ stage = "counted")
      BY <1>4, <2>1, <2>3, <3>1, <3>2
    <3> QED BY <3>3
  <2> QED BY <2>1, <2>4, <2>5
<1> DEFINE calls == Cardinality(Calls(d, window))
           passed == Cardinality(Passed(d, window))
           others == Cardinality(Calls(d, window) \ Limited(d, window))
           count == Hits(d, window)
<1>7. /\ Cardinality(Calls(d, window)') = calls + 1
      /\ Cardinality(Passed(d, window)') = passed + (IF stage = "counted" THEN 1 ELSE 0)
      /\ Cardinality(Calls(d, window)' \ Limited(d, window)') = others + (IF stage = "limited" THEN 0 ELSE 1)
  <2>1. /\ r \notin Calls(d, window) /\ r \notin Passed(d, window) /\ r \notin Limited(d, window)
        /\ r \notin Calls(d, window) \ Limited(d, window)
    BY <1>5 DEF Passed, Limited
  <2>2. Calls(d, window)' \ Limited(d, window)' =
          (Calls(d, window) \ Limited(d, window)) \cup (IF stage = "limited" THEN {} ELSE {r})
    BY <1>6, <2>1
  <2>3. Cardinality(Calls(d, window) \cup {r}) = calls + 1
    BY <2>1, RateSets, FS_AddElement
  <2>4. Cardinality(Passed(d, window) \cup {r}) = passed + 1
    BY <2>1, RateSets, FS_AddElement
  <2>5. Cardinality((Calls(d, window) \ Limited(d, window)) \cup {r}) = others + 1
    BY <2>1, RateSets, FS_AddElement
  <2>6. passed \in Nat /\ others \in Nat
    BY RateSets
  <2> HIDE DEF calls, passed, others
  <2>7. Cardinality(Passed(d, window)') = passed + (IF stage = "counted" THEN 1 ELSE 0)
    <3>1. CASE stage = "counted" BY <1>6, <2>4, <3>1
    <3>2. CASE stage # "counted"
      <4>1. Passed(d, window)' = Passed(d, window) BY <1>6, <3>2
      <4> QED BY <2>6, <3>2, <4>1 DEF passed
    <3> QED BY <3>1, <3>2
  <2>8. Cardinality(Calls(d, window)' \ Limited(d, window)') = others + (IF stage = "limited" THEN 0 ELSE 1)
    <3>1. CASE stage = "limited"
      <4>1. Calls(d, window)' \ Limited(d, window)' = Calls(d, window) \ Limited(d, window) BY <2>2, <3>1
      <4>2. Cardinality(Calls(d, window)' \ Limited(d, window)') = others BY Zenon, <4>1 DEF others
      <4> QED BY <2>6, <3>1, <4>2
    <3>2. CASE stage # "limited" BY <2>2, <2>5, <3>2
    <3> QED BY <3>1, <3>2
  <2> QED BY <1>6, <2>3, <2>7, <2>8
<1>8. /\ calls \in Nat /\ passed \in Nat /\ others \in Nat /\ count \in Nat /\ passed <= count
      /\ Limited(d, window) = {} => count <= calls /\ others = calls
  <2>1. Limited(d, window) = {} => Calls(d, window) \ Limited(d, window) = Calls(d, window)
    OBVIOUS
  <2> QED BY <2>1, RateSets, AtWindow
<1>9. hits'[d] = count + n /\ \A c \in Callers \ {d} : hits'[c] = Hits(c, window)
  BY <1>1, AtWindow
<1> HIDE DEF calls, passed, others, count
<1>10. RateInv'
  <2>1. IsFiniteSet({g \in Requests : gate'[g].stage # "outside"})
    <3>1. {g \in Requests : gate'[g].stage # "outside"} = {g \in Requests : gate[g].stage # "outside"} \cup {r}
      BY <1>3, <1>4
    <3> QED BY <3>1, FS_AddElement DEF RateInv
  <2>2. ASSUME NEW g \in Requests, gate'[g].stage # "outside" PROVE gate'[g].since <= minute'
    <3>1. CASE g = r BY <1>1, <1>2, <1>4, <3>1
    <3>2. CASE g # r
      <4>1. gate'[g] = gate[g] /\ gate[g].since <= minute /\ gate[g].since \in Nat
        BY <1>2, <1>3, <2>2, <3>2, GuardNumbers DEF RateInv, Gate
      <4> QED BY <1>1, <1>2, <4>1
    <3> QED BY <3>1, <3>2
  <2>3. ASSUME NEW c \in Callers
        PROVE  /\ Cardinality(Passed(c, window)') <= hits'[c]
               /\ Limited(c, window)' = {} => hits'[c] <= Cardinality(Calls(c, window)')
    <3>1. CASE c = d
      <4>1. Cardinality(Passed(d, window)') <= hits'[d]
        BY <1>1, <1>7, <1>8, <1>9
      <4>2. ASSUME Limited(d, window)' = {} PROVE hits'[d] <= Cardinality(Calls(d, window)')
        <5>1. Limited(d, window) = {} BY <1>6, <4>2
        <5> QED BY <1>7, <1>8, <1>9, <5>1
      <4> QED BY <3>1, <4>1, <4>2
    <3>2. CASE c # d
      BY <1>5, <1>9, <3>2, AtWindow
    <3> QED BY <3>1, <3>2
  <2>4. \A c \in Callers :
          /\ Cardinality(Passed(c, minute)') <= hits'[c]
          /\ Limited(c, minute)' = {} => hits'[c] <= Cardinality(Calls(c, minute)')
    BY <1>1, <2>3 DEF Passed, Limited, Calls
  <2> QED BY <2>1, <2>2, <2>4 DEF RateInv
<1>11. ASSUME NEW c \in Callers, NEW m \in 0..MaxMinute PROVE Exact(c, m)'
  <2>1. CASE c = d /\ m = window
    <3>1. Exact(d, window)
      BY <1>2, RateRestated
    <3>2. Cardinality(Passed(d, window)') <= Limit
      <4>1. CASE stage = "counted"
        <5>1. count + 1 <= Limit BY <1>1, <1>8, <4>1, GuardNumbers DEF OverLimit, count
        <5> QED BY <1>7, <1>8, <4>1, <5>1, GuardNumbers
      <4>2. CASE stage # "counted"
        BY <1>7, <1>8, <3>1, <4>2 DEF Exact, passed
      <4> QED BY <4>1, <4>2
    <3>3. ASSUME Limited(d, window)' # {} PROVE Cardinality(Calls(d, window)' \ Limited(d, window)') >= Limit
      <4>1. CASE Limited(d, window) # {}
        <5>1. others >= Limit BY <3>1, <4>1 DEF Exact, others
        <5> QED BY <1>7, <1>8, <5>1, GuardNumbers
      <4>2. CASE Limited(d, window) = {}
        <5>1. stage = "limited" BY <1>6, <3>3, <4>2
        <5>2. count + 1 > Limit BY <1>1, <5>1 DEF OverLimit, count
        <5> QED BY <1>7, <1>8, <4>2, <5>1, <5>2, GuardNumbers
      <4> QED BY <4>1, <4>2
    <3> QED BY <2>1, <3>2, <3>3 DEF Exact
  <2>2. CASE c # d \/ m # window
    <3>1. Exact(c, m)
      BY RateRestated
    <3> QED BY <1>5, <2>2, <3>1 DEF Exact
  <2> QED BY <2>1, <2>2
<1> QED BY <1>10, <1>11, RateRestated

\* A claim leaves the counters as they are; a call whose answer is lost has not passed.
LEMMA RateClaimed ==
  ASSUME VInv, GateInv, RateInv, RateIsExact, NEW r \in Requests, NEW nonce \in Nonces, Claim(r, nonce)
  PROVE  RateInv' /\ RateIsExact'
<1>1. PICK window \in Windows, stage \in {"claimed", "replayed", "lost"}, kept \in Nonces \cup {NoNonce} :
        /\ hits' = [c \in Callers |-> Hits(c, window)]
        /\ minute' = window
        /\ gate' = [gate EXCEPT ![r] = [gate[r] EXCEPT !.stage = stage, !.at = window, !.nonce = kept]]
  <2>1. PICK window \in Windows, stage \in {"claimed", "replayed", "lost"}, set \in BOOLEAN :
          /\ hits' = [c \in Callers |-> Hits(c, window)]
          /\ minute' = window
          /\ gate' = [gate EXCEPT ![r] = [gate[r] EXCEPT !.stage = stage, !.at = window,
                        !.nonce = IF set \/ stage = "replayed" THEN nonce ELSE NoNonce]]
    BY ZenonT(40) DEF Claim
  <2>2. (IF set \/ stage = "replayed" THEN nonce ELSE NoNonce) \in Nonces \cup {NoNonce}
    OBVIOUS
  <2> QED BY <2>1, <2>2
<1>2. /\ gate[r].stage = "counted" /\ gate \in [Requests -> Gate]
      /\ window \in Nat /\ minute \in Nat /\ minute <= window
  BY GuardNumbers DEF Claim, GateInv, Windows
<1>3. \A g \in Requests : gate'[g].device = gate[g].device /\ gate'[g].since = gate[g].since
  <2>1. \A g \in Requests \ {r} : gate'[g] = gate[g]
    BY <1>1, <1>2
  <2>2. gate'[r] = [gate[r] EXCEPT !.stage = stage, !.at = window, !.nonce = kept]
    BY <1>1, <1>2
  <2>3. gate'[r].device = gate[r].device /\ gate'[r].since = gate[r].since
    BY <1>2, <2>2 DEF Gate
  <2> QED BY <2>1, <2>3
<1>4. \A g \in Requests : gate'[g].stage = gate[g].stage \/ (g = r /\ gate'[g].stage = stage)
  <2>1. \A g \in Requests \ {r} : gate'[g] = gate[g]
    BY <1>1, <1>2
  <2>2. gate'[r] = [gate[r] EXCEPT !.stage = stage, !.at = window, !.nonce = kept]
    BY <1>1, <1>2
  <2>3. gate'[r].stage = stage
    BY <1>2, <2>2 DEF Gate
  <2> QED BY <2>1, <2>3
<1>5. \A g \in Requests : /\ gate'[g].stage = "outside" <=> gate[g].stage = "outside"
                          /\ gate'[g].stage = "limited" <=> gate[g].stage = "limited"
                          /\ gate'[g].stage \notin {"limited", "lost"} => gate[g].stage \notin {"limited", "lost"}
  BY <1>2, <1>4
<1>6. ASSUME NEW d \in Callers, NEW m
      PROVE  Calls(d, m)' = Calls(d, m) /\ Limited(d, m)' = Limited(d, m) /\ Passed(d, m)' \subseteq Passed(d, m)
  <2>1. Calls(d, m)' = Calls(d, m)
    BY <1>3, <1>5 DEF Calls
  <2>2. Limited(d, m)' = Limited(d, m)
    BY <1>5, <2>1 DEF Limited, Calls
  <2>3. Passed(d, m)' \subseteq Passed(d, m)
    BY <1>5, <2>1 DEF Passed, Calls
  <2> QED BY <2>1, <2>2, <2>3
<1>7. ASSUME NEW d \in Callers, NEW m
      PROVE  /\ Cardinality(Passed(d, m)') \in Nat /\ Cardinality(Passed(d, m)) \in Nat
             /\ Cardinality(Passed(d, m)') <= Cardinality(Passed(d, m))
  BY <1>6, RateSets, FS_Subset, FS_CardinalityType
<1>8. RateInv'
  <2>1. {g \in Requests : gate'[g].stage # "outside"} = {g \in Requests : gate[g].stage # "outside"}
    BY <1>5
  <2>2. ASSUME NEW g \in Requests, gate'[g].stage # "outside" PROVE gate'[g].since <= minute'
    <3>1. gate[g].since <= minute /\ gate[g].since \in Nat /\ gate'[g].since = gate[g].since
      BY <1>2, <1>3, <1>5, <2>2, GuardNumbers DEF RateInv, Gate
    <3> QED BY <1>1, <1>2, <3>1
  <2>3. ASSUME NEW c \in Callers
        PROVE  /\ Cardinality(Passed(c, window)') <= hits'[c]
               /\ Limited(c, window)' = {} => hits'[c] <= Cardinality(Calls(c, window)')
    <3>1. hits'[c] = Hits(c, window) /\ Calls(c, window)' = Calls(c, window) /\ Limited(c, window)' = Limited(c, window)
      BY <1>1, <1>6
    <3>2. Cardinality(Passed(c, window)') <= hits'[c]
      BY <1>7, <3>1, AtWindow
    <3> QED BY <3>1, <3>2, AtWindow
  <2>4. \A c \in Callers :
          /\ Cardinality(Passed(c, minute)') <= hits'[c]
          /\ Limited(c, minute)' = {} => hits'[c] <= Cardinality(Calls(c, minute)')
    BY <1>1, <2>3 DEF Passed, Limited, Calls
  <2> QED BY <2>1, <2>2, <2>4 DEF RateInv
<1>9. ASSUME NEW d \in Callers, NEW m \in 0..MaxMinute PROVE Exact(d, m)'
  <2>1. Exact(d, m)
    BY RateRestated
  <2>2. Cardinality(Passed(d, m)') <= Limit
    BY <1>7, <2>1, GuardNumbers DEF Exact
  <2>3. Limited(d, m)' # {} => Cardinality(Calls(d, m)' \ Limited(d, m)') >= Limit
    BY <1>6, <2>1 DEF Exact
  <2> QED BY <2>2, <2>3 DEF Exact
<1> QED BY <1>8, <1>9, RateRestated

-----------------------------------------------------------------------------
(* The invariant is kept *)

LEMMA FieldStart ==
  ASSUME FieldInit
  PROVE  FieldInv
<1>1. VInv
  BY VInit DEF FieldInit
<1>2. /\ minute = 0 /\ hits = [d \in Callers |-> 0] /\ claims = {} /\ 0 \in 0..MaxMinute
      /\ gate = [r \in Requests |->
           [stage |-> "outside", device |-> Public, nonce |-> NoNonce, since |-> 0, at |-> 0]]
  BY GuardNumbers DEF FieldInit, InitGuard
<1>3. \A r \in Requests : gate[r].stage = "outside" /\ gate[r].since = 0
  BY <1>2
<1>4. GateInv
  <2>1. gate \in [Requests -> Gate]
    BY <1>2 DEF Gate, Stages, Callers
  <2>2. \A r \in Requests : req[r].phase = "new" /\ attempts[r] = "none"
    BY DEF FieldInit, Init, New
  <2> QED BY <1>2, <1>3, <2>1, <2>2 DEF GateInv, Publishing
<1>5. NonceInv /\ NonceIsSingleUse
  BY <1>2, <1>3 DEF NonceInv, NonceIsSingleUse
<1>6. \A d \in Callers, m \in 0..MaxMinute : Calls(d, m) = {} /\ Limited(d, m) = {} /\ Passed(d, m) = {}
  BY <1>3 DEF Calls, Limited, Passed
<1>7. RateInv
  <2>1. {r \in Requests : gate[r].stage # "outside"} = {}
    BY <1>3
  <2>2. Cardinality({}) = 0 /\ IsFiniteSet({})
    BY FS_EmptySet
  <2> QED BY <1>2, <1>3, <1>6, <2>1, <2>2 DEF RateInv
<1>8. RateIsExact
  <2>1. \A d \in Callers, m \in 0..MaxMinute : Exact(d, m)
    BY <1>6, FS_EmptySet, GuardNumbers DEF Exact
  <2> QED BY <2>1, RateRestated
<1> QED BY <1>1, <1>4, <1>5, <1>7, <1>8 DEF FieldInv

\* The database's steps leave the guard alone.
LEMMA GuardAside ==
  ASSUME NonceInv, NonceIsSingleUse, RateInv, RateIsExact, UNCHANGED guard
  PROVE  NonceInv' /\ NonceIsSingleUse' /\ RateInv' /\ RateIsExact'
<1>1. minute' = minute /\ hits' = hits /\ claims' = claims /\ gate' = gate
  BY DEF guard
<1>2. NonceInv' /\ NonceIsSingleUse'
  BY <1>1 DEF NonceInv, NonceIsSingleUse
<1>3. \A d, m : /\ Calls(d, m)' = Calls(d, m)
                /\ Limited(d, m)' = Limited(d, m) /\ Passed(d, m)' = Passed(d, m)
  BY <1>1, Zenon DEF Calls, Limited, Passed
<1>4. RateInv' BY <1>1, <1>3 DEF RateInv
<1>5. RateIsExact'
  <2>1. \A d, m : Exact(d, m)' <=> Exact(d, m) BY <1>3, Zenon DEF Exact
  <2> QED BY <2>1, RateRestated, Zenon
<1> QED BY <1>2, <1>4, <1>5

LEMMA FieldStep ==
  ASSUME FieldInv, [FieldNext]_<<vars, guard>>
  PROVE  FieldInv'
<1>1. VInv' /\ GateInv'
  BY FieldIsVerification, VStep, GateKept DEF FieldInv
<1>2. NonceInv' /\ NonceIsSingleUse' /\ RateInv' /\ RateIsExact'
  <2>1. CASE \E r \in Requests : GuardStep(r)
    <3>1. PICK r \in Requests : (\E d \in Callers : Count(r, d)) \/ (\E n \in Nonces : Claim(r, n))
      BY <2>1 DEF GuardStep
    <3>2. CASE \E d \in Callers : Count(r, d)
      BY <3>2, NonceCounted, RateCounted DEF FieldInv
    <3>3. CASE \E n \in Nonces : Claim(r, n)
      BY <3>3, NonceClaimed, RateClaimed DEF FieldInv
    <3> QED BY <3>1, <3>2, <3>3
  <2>2. CASE UNCHANGED guard
    BY <2>2, GuardAside DEF FieldInv
  <2> QED BY <2>1, <2>2 DEF FieldNext, Enter, TableStep
<1> QED BY <1>1, <1>2 DEF FieldInv

-----------------------------------------------------------------------------
(* Theorems *)

\* redis_guard.py and the scan behind it: in every reachable state the keys and counters in
\* Redis, the place of every call at the guard and the tables agree as FieldInv says.
THEOREM GuardInvariance == FieldSpec => []FieldInv
<1>1. FieldInit => FieldInv
  BY FieldStart
<1>2. FieldInv /\ [FieldNext]_<<vars, guard>> => FieldInv'
  BY FieldStep
<1> QED BY <1>1, <1>2, PTL DEF FieldSpec

\* Tables, Redis and calls keep their shape, and a scan is recorded only for a call the
\* guard has admitted (verify, verify_public).
THEOREM FieldTypes == FieldSpec => []FieldTypeOK
<1>1. FieldInv => FieldTypeOK
  BY DEF FieldInv, VInv, GateInv, FieldTypeOK
<1> QED BY <1>1, GuardInvariance, PTL

\* claim_nonce: a device passes twice with one nonce only if the life of the nonce lies
\* between, and a call is refused as a replay only because of another call of that device.
THEOREM NoncesAreSingleUse == FieldSpec => []NonceIsSingleUse
<1>1. FieldInv => NonceIsSingleUse
  BY DEF FieldInv
<1> QED BY <1>1, GuardInvariance, PTL

\* hit_rate_limit: at most Limit calls of a bucket pass in a minute, and none is refused
\* before Limit others have asked in it.
THEOREM LimitIsExact == FieldSpec => []RateIsExact
<1>1. FieldInv => RateIsExact
  BY DEF FieldInv
<1> QED BY <1>1, GuardInvariance, PTL

\* Behind the guard, refusals and lost answers included, the first scan still wins, flags
\* are true and have versions of their own, and events match the stamps (verify_stamp, set_flag).
THEOREM GuardedScans ==
  FieldSpec => [](FirstScanWins /\ FlagsAreTrue /\ EveryFlagHasItsVersion /\ EventsMatchStamps)
<1>1. FieldInv => FirstScanWins /\ FlagsAreTrue /\ EveryFlagHasItsVersion /\ EventsMatchStamps
  BY WinsOnce, FlagsHold, VersionsHold, EventsHold DEF FieldInv
<1> QED BY <1>1, GuardInvariance, PTL

\* The guarded system moves every stamp through the abstract lifecycle: FieldSpec implements
\* StampLifecycle (verification.py, statuslists.py and redis_guard.py together).
THEOREM GuardedLifecycle == FieldSpec => FollowsLifecycle
<1>1. FieldInit => Lifecycle!Init
  BY LifecycleInit DEF FieldInit
<1>2. FieldInv /\ [FieldNext]_<<vars, guard>>
        => [Lifecycle!Next]_<<[s \in Stamps |-> stamps[s].status], [s \in Stamps |-> stamps[s].first]>>
  BY FieldIsVerification, LifecycleStep DEF FieldInv
<1> QED BY <1>1, <1>2, GuardInvariance, PTL DEF FieldSpec, FollowsLifecycle, Lifecycle!Spec

\* Behind the guard as well, calls that wait for each other never close a cycle, and no step
\* takes a call back (verify, set_flag, void_stamp).
THEOREM GuardedCallsEnd == FieldSpec => []SomeoneCanProceed /\ [][OnlyForward]_vars
<1>1. FieldInv => SomeoneCanProceed
  BY SomeoneProceeds DEF FieldInv
<1>2. FieldInv /\ [FieldNext]_<<vars, guard>> => [OnlyForward]_vars
  BY FieldIsVerification, StepsForward DEF FieldInv
<1> QED BY <1>1, <1>2, GuardInvariance, PTL DEF FieldSpec
=============================================================================
