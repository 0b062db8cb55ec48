---------------------------- MODULE Verification ----------------------------
(***************************************************************************)
(* A stamp in the field: services/verification.py and                       *)
(* services/statuslists.py, driven by routes_verify.py and the void route   *)
(* of routes_stamps.py.                                                     *)
(*                                                                         *)
(* A Request is one HTTP call with its own database session: a scan by a    *)
(* device, a scan through the anonymous public endpoint, or a void.  The    *)
(* stamp row is loaded for the first time by SELECT ... FOR UPDATE, so what *)
(* a request sees is the committed row, and no one else changes it until    *)
(* the transaction ends.  The status lists are different: a scan reads them *)
(* before it locks the stamp, and set_flag publishes a new version of a     *)
(* list in three statements, with no lock on the list:                      *)
(*     read the newest snapshot; read the newest version number; insert.    *)
(* Only the primary key (purpose, version) makes two publishers meet: the   *)
(* second inserter of a version waits for the first one and then fails.     *)
(*                                                                         *)
(* Uncommitted writes are invisible to others, so a transaction that        *)
(* publishes nothing is one step.  The nonce and the rate limit in front of *)
(* a scan are in module Field; device authentication and audit records are  *)
(* left out.  The code never publishes a list for the purpose "expired".    *)
(***************************************************************************)
EXTENDS Naturals, FiniteSets

CONSTANTS
  Stamps,     \* stamps of one batch
  Unknown,    \* a well-formed serial that no stamp has
  Malformed,  \* a string that parse_serial rejects
  Devices,    \* verifier_id of the authenticated devices
  Public,     \* the anonymous verifier, verifier_id = ''
  Nobody,     \* first_scan_verifier of a stamp that was never scanned
  VelocityDevices,  \* velocity_distinct_devices
  Requests    \* bound: the calls that are ever made

ASSUME IdentityAssumption ==
  /\ Unknown \notin Stamps /\ Malformed \notin Stamps /\ Unknown # Malformed
  /\ Public \notin Devices /\ Nobody \notin Devices /\ Public # Nobody
  /\ VelocityDevices \in Nat

VARIABLES
  stamps,     \* status and first-scan evidence of each stamp
  expired,    \* stamps whose valid_until has passed
  lists,      \* newest committed snapshot per purpose: its version and set bits
  attempts,   \* verifications: the outcome recorded for each request
  outbox,     \* events enqueued, each with the request that enqueued it
  req         \* what each request asked for, what it has read, where it is

tables == <<stamps, lists, attempts, outbox>>
vars == <<stamps, expired, lists, attempts, outbox, req>>

-----------------------------------------------------------------------------
(* Rows and requests *)

\* EXPIRED is declared by the schema and assigned by no code.
StampRow == [status: {"ISSUED", "ACTIVE", "CONSUMED", "SUSPECT", "VOID"},
             first: Devices \cup {Nobody}]

Purposes == {"void", "suspect"}
Snapshot == [version: Nat, bits: SUBSET Stamps]

Outcomes == {"valid", "already_verified", "clone_suspect", "unknown_serial", "malformed_serial",
             "not_active", "void", "expired", "invalid_credential", "active"}

\* rapid: velocitySuspect, of a verified event.
Event == [type: {"verified", "voided"}, stamp: Stamps, by: Requests, rapid: BOOLEAN]

\* done: answered; failed: a unique violation, answered 500 and rolled back;
\* crashed: no answer, rolled back.
Over == {"done", "failed", "crashed"}
Publishing == {"flagging", "read", "numbered", "inserted"}
Phases == {"new", "started", "loaded"} \cup Publishing \cup Over

Request ==
  [phase: Phases, kind: {"scan", "void"}, stamp: Stamps \cup {Unknown, Malformed},
   device: Devices \cup {Public}, credible: BOOLEAN, bits: SUBSET Stamps, version: Nat]

New == [phase |-> "new", kind |-> "scan", stamp |-> Unknown, device |-> Public,
        credible |-> FALSE, bits |-> {}, version |-> 0]

\* What an answered call was about; nothing remains of a call that failed.
Answer(q) == [New EXCEPT !.phase = "done", !.kind = q.kind, !.stamp = q.stamp, !.device = q.device]
Lost(phase) == [New EXCEPT !.phase = phase]

Init ==
  /\ stamps = [s \in Stamps |-> [status |-> "ISSUED", first |-> Nobody]]
  /\ expired = {}
  /\ lists = [p \in Purposes |-> [version |-> 0, bits |-> {}]]
  /\ attempts = [r \in Requests |-> "none"]
  /\ outbox = {}
  /\ req = [r \in Requests |-> New]

At(r, kind, phase) == req[r].kind = kind /\ req[r].phase = phase

\* A request that publishes a flag holds its stamp's row lock until it is over.
Unlocked_NoForUpdate(s) == TRUE
Unlocked(s) ==
  \A q \in Requests : req[q].stamp = s => req[q].phase \notin Publishing

\* The list a publishing request writes, and the status it gives the stamp.
PurposeOf(q) == IF q.kind = "void" THEN "void" ELSE "suspect"
StatusOf(q) == IF q.kind = "void" THEN "VOID" ELSE "SUSPECT"

-----------------------------------------------------------------------------
(* Scans: the route *)

\* The lists are read one after the other, before the stamp is locked: the credential is
\* credible as long as neither has the stamp's bit.  The public endpoint passes no
\* credential to verify_stamp.  A public call without a serial looks nothing up and is left out.
StartScan(r, s, d, genuine) ==
  LET credible == genuine /\ s \notin lists["void"].bits IN
  /\ At(r, "scan", "new")
  /\ genuine => s \in Stamps /\ d # Public
  /\ req' = [req EXCEPT ![r] =
       [New EXCEPT !.phase = IF credible THEN "started" ELSE "loaded",
                   !.stamp = s, !.device = d, !.credible = credible]]
  /\ UNCHANGED <<tables, expired>>

ReadSuspectList(r) ==
  /\ At(r, "scan", "started")
  /\ req' = [req EXCEPT ![r].phase = "loaded",
                        ![r].credible = req[r].stamp \notin lists["suspect"].bits]
  /\ UNCHANGED <<tables, expired>>

(* Scans: verify_stamp, in the order of its checks *)

Dead(s) == stamps[s].status = "VOID" \/ s \in expired

Scanned_ByStatus(s) == stamps[s].status = "CONSUMED"
Scanned(s) == stamps[s].status = "CONSUMED" \/ stamps[s].first # Nobody

\* A repeat scan by an authenticated device other than the first one.
Suspicious_DeadToo(q) ==
  Scanned(q.stamp) /\ stamps[q.stamp].first # q.device /\ q.device # Public
Suspicious(q) ==
  ~Dead(q.stamp) /\ Scanned(q.stamp) /\ stamps[q.stamp].first # q.device /\ q.device # Public

\* The proof, the serial and the status bits of the presented credential.
CredentialAccepted(q) == q.credible

FirstScan_SeenActive(q) ==
  ~Dead(q.stamp) /\ stamps[q.stamp].status \in {"ACTIVE", "CONSUMED"} /\ q.device # Public
FirstScan(q) ==
  /\ ~Dead(q.stamp) /\ ~Scanned(q.stamp)
  /\ stamps[q.stamp].status = "ACTIVE"
  /\ q.device # Public

Verdict(q) ==
  IF q.stamp = Malformed THEN "malformed_serial"
  ELSE IF q.stamp = Unknown THEN "unknown_serial"
  ELSE IF stamps[q.stamp].status = "VOID" THEN "void"
  ELSE IF q.stamp \in expired THEN "expired"
  ELSE IF Scanned(q.stamp) THEN "already_verified"
  ELSE IF stamps[q.stamp].status # "ACTIVE" THEN "not_active"
  ELSE IF q.device = Public THEN "active"
  ELSE "invalid_credential"

\* Every answer but "valid" and "clone_suspect" writes the attempt only.
RecordAttempt(r) ==
  LET q == req[r] IN
  /\ At(r, "scan", "loaded")
  /\ q.stamp \in Stamps => /\ Unlocked(q.stamp)
                           /\ ~Suspicious(q)
                           /\ ~(FirstScan(q) /\ CredentialAccepted(q))
  /\ attempts' = [attempts EXCEPT ![r] = Verdict(q)]
  /\ req' = [req EXCEPT ![r] = Answer(@)]
  /\ UNCHANGED <<stamps, expired, lists, outbox>>

\* The devices with an attempt on the stamp, counted after the flush of this one.  The
\* velocity window covers all calls of a behaviour.
DevicesOn_Earlier(s, r) ==
  {req[q].device : q \in {o \in Requests : req[o].stamp = s /\ attempts[o] # "none"}} \ {Public}
DevicesOn(s, r) ==
  {req[q].device : q \in {o \in Requests : req[o].stamp = s /\ (attempts[o] # "none" \/ o = r)}}
    \ {Public}

\* First scan wins: the stamp, the attempt and the event commit together.
Consume(r) ==
  LET q == req[r] IN
  /\ At(r, "scan", "loaded") /\ q.stamp \in Stamps
  /\ Unlocked(q.stamp)
  /\ FirstScan(q) /\ CredentialAccepted(q)
  /\ stamps' = [stamps EXCEPT ![q.stamp] = [status |-> "CONSUMED", first |-> q.device]]
  /\ attempts' = [attempts EXCEPT ![r] = "valid"]
  /\ outbox' = outbox \cup {[type |-> "verified", stamp |-> q.stamp, by |-> r,
                           rapid |-> Cardinality(DevicesOn(q.stamp, r)) >= VelocityDevices]}
  /\ req' = [req EXCEPT ![r] = Answer(@)]
  /\ UNCHANGED <<expired, lists>>

\* The row stays locked while the suspect flag is published.
SuspectClone(r) ==
  LET q == req[r] IN
  /\ At(r, "scan", "loaded") /\ q.stamp \in Stamps
  /\ Unlocked(q.stamp)
  /\ Suspicious(q)
  /\ req' = [req EXCEPT ![r].phase = "flagging"]
  /\ UNCHANGED <<tables, expired>>

(* void_stamp: an authorised officer gives a reason; a second void of the    *)
(* same stamp changes nothing                                                *)

StartVoid(r, s) ==
  /\ At(r, "scan", "new")
  /\ req' = [req EXCEPT ![r] = [New EXCEPT !.phase = "loaded", !.kind = "void", !.stamp = s]]
  /\ UNCHANGED <<tables, expired>>

VoidStamp(r) ==
  LET s == req[r].stamp IN
  /\ At(r, "void", "loaded")
  /\ Unlocked(s)
  /\ req' = [req EXCEPT ![r] =
       IF stamps[s].status = "VOID" THEN Answer(@) ELSE [@ EXCEPT !.phase = "flagging"]]
  /\ UNCHANGED <<tables, expired>>

-----------------------------------------------------------------------------
(* set_flag *)

ReadList(r) ==
  LET q == req[r] IN
  /\ q.phase = "flagging"
  /\ req' = [req EXCEPT ![r].phase = "read",
                        ![r].bits = lists[PurposeOf(q)].bits \cup {q.stamp}]
  /\ UNCHANGED <<tables, expired>>

ReadVersion(r) ==
  LET q == req[r] IN
  /\ q.phase = "read"
  /\ req' = [req EXCEPT ![r].phase = "numbered", ![r].version = lists[PurposeOf(q)].version + 1]
  /\ UNCHANGED <<tables, expired>>

\* An uncommitted row with the same key makes the insert wait; a committed one
\* makes it fail, and the request with it: even its attempt is rolled back.
KeyPending_OnceNumbered(q) ==
  \E o \in Requests :
    /\ req[o] # q /\ req[o].phase \in {"numbered", "inserted"}
    /\ PurposeOf(req[o]) = PurposeOf(q) /\ req[o].version = q.version
KeyPending(q) ==
  \E o \in Requests :
    /\ req[o].phase = "inserted"
    /\ PurposeOf(req[o]) = PurposeOf(q) /\ req[o].version = q.version
Insertable_Overwrite(q) == TRUE
Insertable(q) == lists[PurposeOf(q)].version < q.version

InsertSnapshot(r) ==
  LET q == req[r] IN
  /\ q.phase = "numbered"
  /\ ~KeyPending(q)
  /\ req' = [req EXCEPT ![r] = IF Insertable(q) THEN [@ EXCEPT !.phase = "inserted"] ELSE Lost("failed")]
  /\ UNCHANGED <<tables, expired>>

\* The status, the new list and the attempt (of a scan) or the event (of a
\* void) commit together.
Flagged_ListOnly(r, s) == stamps
Flagged(r, s) == [stamps EXCEPT ![s].status = StatusOf(req[r])]

CommitFlag(r) ==
  LET q == req[r] IN
  /\ q.phase = "inserted"
  /\ stamps' = Flagged(r, q.stamp)
  /\ lists' = [lists EXCEPT ![PurposeOf(q)] = [version |-> q.version, bits |-> q.bits]]
  /\ IF q.kind = "scan"
       THEN attempts' = [attempts EXCEPT ![r] = "clone_suspect"] /\ UNCHANGED outbox
       ELSE outbox' = outbox \cup {[type |-> "voided", stamp |-> q.stamp, by |-> r, rapid |-> FALSE]}
            /\ UNCHANGED attempts
  /\ req' = [req EXCEPT ![r] = Answer(@)]
  /\ UNCHANGED expired

-----------------------------------------------------------------------------
(* The other half of the life of a stamp, and the environment *)

\* activate_batch (module Issuance): one UPDATE of the stamps still ISSUED.
ActivateBatch ==
  /\ \E s \in Stamps : stamps[s].status = "ISSUED"
  /\ \A s \in Stamps : Unlocked(s)
  /\ stamps' = [s \in Stamps |->
       IF stamps[s].status = "ISSUED" THEN [stamps[s] EXCEPT !.status = "ACTIVE"] ELSE stamps[s]]
  /\ UNCHANGED <<expired, lists, attempts, outbox, req>>

\* valid_until passes.
Expire(s) ==
  /\ s \notin expired
  /\ expired' = expired \cup {s}
  /\ UNCHANGED <<tables, req>>

\* The connection or the process dies: PostgreSQL rolls back.
Crash(r) ==
  /\ req[r].phase \notin Over \cup {"new"}
  /\ req' = [req EXCEPT ![r] = Lost("crashed")]
  /\ UNCHANGED <<tables, expired>>

\* All calls are over: only the bound on the number of calls ends a behaviour.
Terminated ==
  /\ \A r \in Requests : req[r].phase \in Over
  /\ UNCHANGED vars

-----------------------------------------------------------------------------
Start(r) ==
  \/ \E s \in Stamps \cup {Unknown, Malformed}, d \in Devices \cup {Public}, g \in BOOLEAN :
       StartScan(r, s, d, g)
  \/ \E s \in Stamps : StartVoid(r, s)

Proceed(r) ==
  \/ ReadSuspectList(r) \/ RecordAttempt(r) \/ Consume(r) \/ SuspectClone(r)
  \/ VoidStamp(r)
  \/ ReadList(r) \/ ReadVersion(r) \/ InsertSnapshot(r) \/ CommitFlag(r)

Next ==
  \/ \E r \in Requests : Start(r) \/ Proceed(r) \/ Crash(r)
  \/ ActivateBatch
  \/ \E s \in Stamps : Expire(s)
  \/ Terminated

Spec == Init /\ [][Next]_vars

-----------------------------------------------------------------------------
(* Properties *)

\* Tables and requests keep their shape, and at most one transaction at a time
\* holds a stamp's row while it publishes a flag (SELECT ... FOR UPDATE).
TypeOK ==
  /\ stamps \in [Stamps -> StampRow]
  /\ expired \subseteq Stamps
  /\ lists \in [Purposes -> Snapshot]
  /\ attempts \in [Requests -> Outcomes \cup {"none"}]
  /\ outbox \subseteq Event
  /\ req \in [Requests -> Request]
  /\ \A q, r \in Requests :
       {req[q].phase, req[r].phase} \subseteq Publishing /\ req[q].stamp = req[r].stamp => q = r

\* First scan wins, whatever the race: one attempt at most is answered "valid"
\* for a stamp, the evidence kept with the stamp is that attempt's device for
\* ever, and a later scan by another device is never taken for a harmless
\* repeat (verify_stamp).
FirstScanWins ==
  \A s \in Stamps :
    LET scans == {r \in Requests : req[r].stamp = s /\ req[r].kind = "scan"}
        winners == {r \in scans : attempts[r] = "valid"}
    IN
    /\ Cardinality(winners) = IF stamps[s].first = Nobody THEN 0 ELSE 1
    /\ \A r \in winners : req[r].device = stamps[s].first
    /\ \A r \in scans : attempts[r] = "already_verified" => req[r].device \in {stamps[s].first, Public}

\* A flag in a published list is never false, even if the request that read
\* the previous list crashes or fails: void bits are VOID stamps, suspect bits
\* are stamps with a recorded clone_suspect attempt (set_flag).
FlagsAreTrue ==
  /\ \A s \in lists["void"].bits : stamps[s].status = "VOID"
  /\ \A s \in lists["suspect"].bits :
       \E r \in Requests : req[r].stamp = s /\ attempts[r] = "clone_suspect"

\* No snapshot is overwritten: each committed flag has a list version of its
\* own, so the version counts the voids and the clone verdicts (set_flag).
EveryFlagHasItsVersion ==
  /\ lists["void"].version = Cardinality({e \in outbox : e.type = "voided"})
  /\ lists["suspect"].version = Cardinality({r \in Requests : attempts[r] = "clone_suspect"})

\* The events tell the story of the stamps: stamps.verified.v1 exactly for the
\* winning scan, stamps.voided.v1 exactly once for a VOID stamp, whoever
\* repeats or races the call; and the velocity verdict of the former is that of
\* all the devices that tried the stamp before it was consumed (_velocity_suspect).
EventsMatchStamps ==
  \A s \in Stamps :
    LET Of(type) == {e \in outbox : e.type = type /\ e.stamp = s}
        Early == {"not_active", "invalid_credential", "valid"}
        early == {r \in Requests : req[r].stamp = s /\ attempts[r] \in Early}
    IN
    /\ {e.by : e \in Of("verified")} = {r \in early : attempts[r] = "valid"}
    /\ \A e \in Of("verified") :
         e.rapid <=> Cardinality({req[r].device : r \in early} \ {Public}) >= VelocityDevices
    /\ Cardinality(Of("voided")) = IF stamps[s].status = "VOID" THEN 1 ELSE 0

\* However scans, voids and the activation interleave, a stamp moves through
\* the abstract lifecycle.
Lifecycle == INSTANCE StampLifecycle WITH
  status <- [s \in Stamps |-> stamps[s].status],
  owner <- [s \in Stamps |-> stamps[s].first]
FollowsLifecycle == Lifecycle!Spec

Underway(r) == req[r].phase \notin Over \cup {"new"}

\* A request waits for the row of its stamp and for an uncommitted snapshot of its key.
CanProceed(r) ==
  /\ Underway(r)
  /\ req[r].phase = "loaded" /\ req[r].stamp \in Stamps => Unlocked(req[r].stamp)
  /\ req[r].phase = "numbered" => ~KeyPending(req[r])

SomeoneCanProceed == (\E r \in Requests : Underway(r)) => \E r \in Requests : CanProceed(r)

\* No two publishers wait for each other, and a failed one leaves no row locked: while a
\* request is not over, one of them can take its next statement, as nothing but these waits
\* can keep it from that.  A request takes at most six, so all of them end (verify,
\* void_stamp_route).
NeverStuck ==
  /\ SomeoneCanProceed
  /\ \A r \in Requests : CanProceed(r) <=> ENABLED Proceed(r)

\* A voided stamp has its bit set in the published void list (docstring of
\* void_stamp, README): what verifiers offline rely on.
VoidedStampIsFlagged ==
  \A s \in Stamps : stamps[s].status = "VOID" => s \in lists["void"].bits

=============================================================================
