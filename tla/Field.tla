------------------------------- MODULE Field -------------------------------
(***************************************************************************)
(* The way of a scan to the stamp: services/redis_guard.py in front of the  *)
(* verification of module Verification.  A device's call counts against its *)
(* rate limit and then claims its nonce, a public call only counts against  *)
(* the limit of its address.  Both commands are atomic in Redis; no         *)
(* transaction ties them to each other or to the database, so a nonce stays *)
(* spent when the scan behind it fails.  Whoever gets no answer from Redis  *)
(* is refused with 503, although the command may have been executed.        *)
(***************************************************************************)
EXTENDS Verification

CONSTANTS
  Nonces,
  Limit,      \* rate_limit_per_minute
  Life,       \* ttl_seconds of a nonce, in minutes
  NoNonce,
  MaxMinute,  \* bound on the clock
  MaxLost     \* bound on the answers of Redis that get lost

ASSUME GuardAssumption ==
  Limit \in Nat /\ Life \in Nat \ {0} /\ MaxMinute \in Nat /\ MaxLost \in Nat /\ NoNonce \notin Nonces

VARIABLES
  minute,     \* time.time() // 60
  hits,       \* Redis: the counter of each bucket in the current window
  claims,     \* Redis: the nonce keys, with the minute of the claim
  gate        \* what each call has done at the guard, and the answer it got

guard == <<minute, hits, claims, gate>>

Callers == Devices \cup {Public}

\* lost: 503; limited, replayed: 429.
Stages == {"outside", "counted", "claimed", "limited", "replayed", "lost"}
Refused == {"limited", "replayed", "lost"}

Gate == [stage: Stages, device: Callers, nonce: Nonces \cup {NoNonce},
         since: 0..MaxMinute, at: 0..MaxMinute]

InitGuard ==
  /\ minute = 0 /\ hits = [d \in Callers |-> 0] /\ claims = {}
  /\ gate = [r \in Requests |->
       [stage |-> "outside", device |-> Public, nonce |-> NoNonce, since |-> 0, at |-> 0]]

FieldInit == Init /\ InitGuard

-----------------------------------------------------------------------------
\* Only the guard looks at the clock, so it is the guard's commands that see it advance.
Windows == minute..MaxMinute

\* A refused call has its answer and touches no table.
Answered(r) ==
  req' = [req EXCEPT ![r].phase = IF gate'[r].stage \in Refused THEN "done" ELSE @]

AnswerMayGetLost == Cardinality({r \in Requests : gate[r].stage = "lost"}) < MaxLost

OverLimit_AtLimit(count) == count >= Limit
OverLimit(count) == count > Limit

\* Every window has a key of its own, which outlives it (EXPIRE 90).
Hits(d, window) == IF window = minute THEN hits[d] ELSE 0

\* INCR; then EXPIRE, whose loss is a lost answer too.  The window is that of the clock at the
\* INCR: a call that waits between the two is taken to ask in the window it read.  Redis is
\* configured; without it the public endpoint does not count.
Count(r, d) ==
  /\ At(r, "scan", "new") /\ gate[r].stage = "outside"
  /\ \E window \in Windows, stage \in {"counted", "limited", "lost"}, n \in {0, 1} :
       /\ IF stage = "lost" THEN AnswerMayGetLost
          ELSE n = 1 /\ (stage = "limited" <=> OverLimit(Hits(d, window) + 1))
       /\ hits' = [c \in Callers |-> Hits(c, window) + IF c = d THEN n ELSE 0]
       /\ minute' = window
       /\ gate' = [gate EXCEPT ![r] = [@ EXCEPT !.stage = stage, !.device = d, !.since = window]]
  /\ Answered(r)
  /\ UNCHANGED <<tables, expired, claims>>

\* nonce_key has the device in it.
Holds_ByAnyone(c, d, nonce) == c.nonce = nonce
Holds(c, d, nonce) == c.device = d /\ c.nonce = nonce

\* SET key NX EX ttl.  A key expires in the minute Life minutes after its claim, before or
\* after this command.
Claim(r, nonce) ==
  LET d == gate[r].device IN
  /\ gate[r].stage = "counted" /\ d # Public
  /\ \E window \in Windows, stage \in {"claimed", "replayed", "lost"}, set \in BOOLEAN,
        dead \in SUBSET claims :
       LET live == claims \ dead
           taken == \E c \in live : Holds(c, d, nonce)
       IN
       /\ \A c \in dead : c.at + Life <= window
       /\ \A c \in live : c.at + Life >= window
       /\ set => ~taken
       /\ IF stage = "lost" THEN AnswerMayGetLost
          ELSE (stage = "claimed" <=> set) /\ (stage = "replayed" <=> taken)
       /\ claims' = live \cup (IF set THEN {[device |-> d, nonce |-> nonce, at |-> window]} ELSE {})
       /\ hits' = [c \in Callers |-> Hits(c, window)]
       /\ minute' = window
       /\ gate' = [gate EXCEPT ![r] = [@ EXCEPT !.stage = stage, !.at = window,
                     !.nonce = IF set \/ stage = "replayed" THEN nonce ELSE NoNonce]]
  /\ Answered(r)
  /\ UNCHANGED <<tables, expired>>

-----------------------------------------------------------------------------
Admitted(r) == gate[r].stage = IF gate[r].device = Public THEN "counted" ELSE "claimed"

Enter(r) ==
  /\ \/ /\ Admitted(r)
        /\ \E s \in Stamps \cup {Unknown, Malformed}, g \in BOOLEAN : StartScan(r, s, gate[r].device, g)
     \/ gate[r].stage = "outside" /\ \E s \in Stamps : StartVoid(r, s)
  /\ UNCHANGED guard

GuardStep(r) == (\E d \in Callers : Count(r, d)) \/ (\E n \in Nonces : Claim(r, n))

TableStep ==
  /\ \/ \E r \in Requests : Proceed(r) \/ Crash(r)
     \/ ActivateBatch
     \/ \E s \in Stamps : Expire(s)
     \/ Terminated
  /\ UNCHANGED guard

FieldNext ==
  \/ \E r \in Requests : GuardStep(r) \/ Enter(r)
  \/ TableStep

FieldSpec == FieldInit /\ [][FieldNext]_<<vars, guard>>

-----------------------------------------------------------------------------
(* Properties *)

\* Verification's types, and those of Redis and the calls; only an admitted call is under way.
FieldTypeOK ==
  /\ TypeOK
  /\ minute \in 0..MaxMinute /\ hits \in [Callers -> Nat]
  /\ claims \subseteq [device: Devices, nonce: Nonces, at: 0..MaxMinute]
  /\ gate \in [Requests -> Gate]
  /\ \A r \in Requests : req[r].kind = "scan" /\ attempts[r] # "none" => Admitted(r)

\* "Redis single-use nonce": two calls a device makes with one nonce pass only if the life of
\* the nonce lies between them; a call is refused as a replay only because of another call of
\* the same device with that nonce, which has spent it whatever became of its scan.
NonceIsSingleUse ==
  \A r \in Requests :
    LET same == {q \in Requests \ {r} : gate[q].device = gate[r].device /\ gate[q].nonce = gate[r].nonce}
    IN
    /\ gate[r].stage = "claimed" =>
         \A q \in same : gate[q].stage = "claimed" /\ gate[q].at <= gate[r].at => gate[q].at + Life <= gate[r].at
    /\ gate[r].stage = "replayed" =>
         \E q \in same : gate[q].stage \in {"claimed", "lost"} /\ gate[q].at + Life >= gate[r].at

\* The fixed-window limit, refused calls and lost answers included: at most Limit calls of a
\* bucket pass in a minute, and one is refused only after Limit others of that minute.
RateIsExact ==
  \A d \in Callers, m \in 0..MaxMinute :
    LET calls == {r \in Requests : gate[r].stage # "outside" /\ gate[r].device = d /\ gate[r].since = m}
        limited == {r \in calls : gate[r].stage = "limited"}
        lost == {r \in calls : gate[r].stage = "lost"}
    IN
    /\ Cardinality(calls \ (limited \cup lost)) <= Limit
    /\ limited # {} => Cardinality(calls \ limited) >= Limit

=============================================================================
