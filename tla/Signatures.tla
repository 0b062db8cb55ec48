----------------------------- MODULE Signatures -----------------------------
(***************************************************************************)
(* Signed documents: event envelopes (events/envelope.py over the JWS of    *)
(* crypto/eddsa.py) and stamp credentials (crypto/vc.py and the credential  *)
(* gate of services/verification.py).  A signature is ideal: it verifies    *)
(* under the key that made it and over the message it was made over, and    *)
(* nothing else does.  Canonicalization keeps different documents apart.    *)
(***************************************************************************)
EXTENDS Naturals

Signature(key, message) == [by |-> key, over |-> message]
Verifies(sig, key, message) == sig = Signature(key, message)

-----------------------------------------------------------------------------
(* JWS *)

\* The signature covers the header, {alg, kid}, and the payload.
JwsSign(kid, key, payload) ==
  LET signed == [alg |-> "EdDSA", kid |-> kid, payload |-> payload]
  IN  [signed |-> signed, sig |-> Signature(key, signed)]

PayloadMatches_Unchecked(jws, expected) == TRUE
PayloadMatches(jws, expected) == jws.signed.payload = expected

\* directory: the mounted public keys by kid.
JwsVerified(jws, directory, expected) ==
  /\ jws.signed.alg = "EdDSA"
  /\ jws.signed.kid \in DOMAIN directory
  /\ PayloadMatches(jws, expected)
  /\ Verifies(jws.sig, directory[jws.signed.kid], jws.signed)

-----------------------------------------------------------------------------
(* Envelopes *)

EventResources == {"stamps.assessed.v1", "stamps.approved.v1", "stamps.issued.v1",
                   "stamps.activated.v1", "stamps.verified.v1", "stamps.voided.v1"}

\* The resource carries the name of its event.  Other services build theirs likewise.
BuildEnvelope(type, content) ==
  [version |-> "1.0", type |-> type, bundle |-> "message", entries |-> 1, resource |-> type,
   content |-> content]

\* provenance.signature = ""
NoJws == JwsSign("", "", BuildEnvelope("", ""))

SignEnvelope(body, kid, key) == [body |-> body, jws |-> JwsSign(kid, key, body)]

\* expected_event_type = None, as the declarations consumer calls verify_envelope.
AnyType == "any"

\* verify_envelope, in the order of its checks.
EnvelopeAccepted(e, directory, expectedType) ==
  /\ e.body.version = "1.0"
  /\ expectedType \in {AnyType, e.body.type}
  /\ e.body.bundle = "message" /\ e.body.entries = 1
  /\ e.body.type \in EventResources => e.body.resource = e.body.type
  /\ e.jws # NoJws
  /\ JwsVerified(e.jws, directory, e.body)

-----------------------------------------------------------------------------
(* Stamp credentials *)

ProofOptions == [type |-> "DataIntegrityProof", suite |-> "eddsa-jcs-2022"]

\* One status entry for each purpose, all with the stamp's index.
BuildStampCredential(serial, index, purposes) ==
  [serial |-> serial, statuses |-> {[purpose |-> p, index |-> index] : p \in purposes}]

IssueProof(doc, key) ==
  [doc |-> doc, options |-> ProofOptions, proof |-> Signature(key, <<ProofOptions, doc>>)]

ProofFails(c, key) ==
  c.options # ProofOptions \/ ~Verifies(c.proof, key, <<c.options, c.doc>>)

\* A purpose that has no published list has no flags.
FlaggedPurposes(c, lists) ==
  {p \in {s.purpose : s \in c.doc.statuses} :
     p \in DOMAIN lists /\ \E s \in c.doc.statuses : s.purpose = p /\ s.index \in lists[p]}

VerifyCredentialOffline(c, key, lists) ==
  (IF ProofFails(c, key) THEN {"invalid-proof"} ELSE {}) \cup FlaggedPurposes(c, lists)

SerialDiffers(c, serial) == c.doc.serial # serial

CredentialFailures(c, serial, key, lists) ==
  VerifyCredentialOffline(c, key, lists)
    \cup (IF SerialDiffers(c, serial) THEN {"credential-serial-mismatch"} ELSE {})

=============================================================================
