---------------------------- MODULE DomainProofs ----------------------------
(***************************************************************************)
(* Theorems about Domain, for any sets of inputs: a serial reads back and   *)
(* no slip in it passes, a status list of any size holds the bits of its    *)
(* flags, a root or a chain fits one content, every lot can be judged,      *)
(* every declaration is priced by the rates of its day, what is accepted    *)
(* was signed, and roles add up and keep duties apart.                      *)
(***************************************************************************)
EXTENDS Domain, FiniteSetTheorems, SequenceTheorems, WellFoundedInduction, TLAPS

-----------------------------------------------------------------------------
(* Loops *)

\* Induction for a set: what holds 0 and the successor of each of its elements is all of Nat.
LEMMA SetInduction ==
  ASSUME NEW S, 0 \in S, \A n \in Nat : n \in S => n + 1 \in S
  PROVE  Nat \subseteq S
<1> SUFFICES ASSUME Nat \ S # {} PROVE FALSE
  OBVIOUS
<1> DEFINE R == OpToRel(<, Nat)
<1>1. IsWellFoundedOn(R, Nat) BY NatLessThanWellFounded
<1>2. \A m, n \in Nat : m < n => <<m, n>> \in R
  BY DEF OpToRel
<1> HIDE DEF R
<1>3. PICK n \in Nat \ S : \A m \in Nat \ S : ~(<<m, n>> \in R)
  BY <1>1, WFMin, Zenon
<1>4. n # 0 BY <1>3
<1>5. n - 1 \in Nat /\ n - 1 < n /\ (n - 1) + 1 = n BY <1>3, <1>4
<1>6. n - 1 \in S BY <1>2, <1>3, <1>5
<1> QED BY <1>3, <1>5, <1>6

\* The loop has its values: the first is 0, each is the base times the one before, plus a digit.
LEMMA LoopHasValues ==
  ASSUME NEW base \in Int, NEW a, NEW n \in Nat, \A i \in 1..n : a[i] \in Int
  PROVE  \E f \in [0..n -> Int] : f = [i \in 0..n |-> IF i = 0 THEN 0 ELSE base * f[i - 1] + a[i]]
<1> DEFINE Loop(f, m) == f = [i \in 0..m |-> IF i = 0 THEN 0 ELSE base * f[i - 1] + a[i]]
           S == {m \in Nat : m <= n => \E f \in [0..m -> Int] : Loop(f, m)}
<1>1. 0 \in S
  <2> DEFINE f == [i \in 0..0 |-> 0]
  <2>1. f \in [0..0 -> Int] OBVIOUS
  <2>2. \A i \in 0..0 : i = 0 OBVIOUS
  <2>3. Loop(f, 0) BY <2>2
  <2> QED BY <2>1, <2>3
<1>2. ASSUME NEW m \in Nat, m \in S PROVE m + 1 \in S
  <2>0. m + 1 \in Nat OBVIOUS
  <2> SUFFICES ASSUME m + 1 <= n PROVE \E f \in [0..(m + 1) -> Int] : Loop(f, m + 1)
    BY <2>0, Zenon
  <2>1. PICK f \in [0..m -> Int] : Loop(f, m) BY <1>2
  <2> DEFINE g == [i \in 0..(m + 1) |-> IF i = m + 1 THEN base * f[m] + a[m + 1] ELSE f[i]]
  <2>2. base * f[m] + a[m + 1] \in Int BY <2>1
  <2>3. g \in [0..(m + 1) -> Int] BY <2>1, <2>2
  <2>4. \A i \in 0..(m + 1) : g[i] = IF i = 0 THEN 0 ELSE base * g[i - 1] + a[i]
    <3>1. \A i \in 0..m : g[i] = f[i] OBVIOUS
    <3>2. \A i \in 0..m : f[i] = IF i = 0 THEN 0 ELSE base * f[i - 1] + a[i] BY <2>1
    <3>3. g[m + 1] = base * g[m] + a[m + 1] OBVIOUS
    <3> HIDE DEF g
    <3>4. ASSUME NEW i \in 0..m PROVE g[i] = IF i = 0 THEN 0 ELSE base * g[i - 1] + a[i]
      <4>1. i # 0 => i - 1 \in 0..m OBVIOUS
      <4>2. i # 0 => g[i - 1] = f[i - 1] BY <3>1, <4>1, Zenon
      <4> QED BY <3>1, <3>2, <4>2, Zenon
    <3>5. m + 1 # 0 /\ (m + 1) - 1 = m OBVIOUS
    <3>6. \A i \in 0..(m + 1) : i \in 0..m \/ i = m + 1 OBVIOUS
    <3> QED BY <3>3, <3>4, <3>5, <3>6, Zenon
  <2>5. Loop(g, m + 1) BY <2>4
  <2> QED BY <2>3, <2>5
<1> HIDE DEF S
<1>3. n \in S BY <1>1, <1>2, SetInduction, Zenon
<1> QED BY <1>3 DEF S

\* InBase: what it returns is the last of the values the loop goes through.
LEMMA InBaseUnfolds ==
  ASSUME NEW base \in Int, NEW a \in Seq(Int)
  PROVE  \E f \in [0..Len(a) -> Int] :
           /\ f[0] = 0
           /\ \A i \in 1..Len(a) : f[i] = base * f[i - 1] + a[i]
           /\ InBase(base, a) = f[Len(a)]
<1> DEFINE n == Len(a)
           Loop(f) == f = [i \in 0..n |-> IF i = 0 THEN 0 ELSE base * f[i - 1] + a[i]]
           value == CHOOSE f : Loop(f)
<1>1. n \in Nat /\ \A i \in 1..n : a[i] \in Int OBVIOUS
<1>2. \E f \in [0..n -> Int] : Loop(f) BY <1>1, LoopHasValues
<1>3. Loop(value) BY <1>2, Zenon
<1>4. InBase(base, a) = value[n] BY DEF InBase
<1> HIDE DEF value
<1>5. value[0] = 0 /\ \A i \in 1..n : value[i] = base * value[i - 1] + a[i]
  <2>1. \A i \in 0..n : value[i] = IF i = 0 THEN 0 ELSE base * value[i - 1] + a[i]
    BY <1>3, Zenon
  <2>2. 0 \in 0..n /\ \A i \in 1..n : i \in 0..n /\ i # 0 BY <1>1
  <2> QED BY <2>1, <2>2, Zenon
<1>6. value \in [0..n -> Int]
  <2> DEFINE S == {i \in Nat : i <= n => value[i] \in Int}
  <2>1. 0 \in S BY <1>5
  <2>2. ASSUME NEW i \in Nat, i \in S PROVE i + 1 \in S
    <3>1. i + 1 <= n => value[i + 1] = base * value[i] + a[i + 1] /\ a[i + 1] \in Int BY <1>1, <1>5
    <3> QED BY <2>2, <3>1, <1>1
  <2> HIDE DEF S
  <2>3. Nat \subseteq S BY <2>1, <2>2, SetInduction, Zenon
  <2>4. \A i \in 0..n : value[i] \in Int BY <2>3 DEF S
  <2> QED BY <1>3, <2>4
<1> QED BY <1>4, <1>5, <1>6

\* The same for a running total, which is base 1.
LEMMA TotalUnfolds ==
  ASSUME NEW a \in Seq(Int)
  PROVE  \E f \in [0..Len(a) -> Int] :
           /\ f[0] = 0
           /\ \A i \in 1..Len(a) : f[i] = f[i - 1] + a[i]
           /\ Total(a) = f[Len(a)]
<1>0. 1 \in Int OBVIOUS
<1>1. PICK f \in [0..Len(a) -> Int] :
        /\ f[0] = 0
        /\ \A i \in 1..Len(a) : f[i] = 1 * f[i - 1] + a[i]
        /\ InBase(1, a) = f[Len(a)]
  BY <1>0, InBaseUnfolds, Zenon
<1>2. \A i \in 1..Len(a) : i - 1 \in 0..Len(a) /\ f[i - 1] \in Int
  OBVIOUS
<1>3. ASSUME NEW i \in 1..Len(a) PROVE f[i] = f[i - 1] + a[i]
  <2>1. f[i] = 1 * f[i - 1] + a[i] BY <1>1
  <2>2. f[i - 1] \in Int BY <1>2
  <2> QED BY <2>1, <2>2
<1>4. Total(a) = f[Len(a)] BY <1>1 DEF Total
<1> QED BY <1>1, <1>3, <1>4

\* A total moves by what one addend moves.
LEMMA TotalMoves ==
  ASSUME NEW a \in Seq(Int), NEW k \in 1..Len(a), NEW v \in Int
  PROVE  /\ Total(a) \in Int
         /\ Total([a EXCEPT ![k] = v]) = Total(a) + (v - a[k])
<1> DEFINE n == Len(a)
           b == [a EXCEPT ![k] = v]
<1>1. /\ n \in Nat /\ b \in Seq(Int) /\ Len(b) = n
      /\ \A i \in 1..n : a[i] \in Int /\ b[i] = IF i = k THEN v ELSE a[i]
  OBVIOUS
<1>2. PICK f \in [0..n -> Int] :
        f[0] = 0 /\ (\A i \in 1..n : f[i] = f[i - 1] + a[i]) /\ Total(a) = f[n]
  BY TotalUnfolds
<1> HIDE DEF b
<1>3. PICK g \in [0..n -> Int] :
        g[0] = 0 /\ (\A i \in 1..n : g[i] = g[i - 1] + b[i]) /\ Total(b) = g[n]
  BY <1>1, TotalUnfolds
<1> DEFINE S == {i \in Nat : i <= n => g[i] = f[i] + (IF k <= i THEN v - a[k] ELSE 0)}
<1>4. 0 \in S BY <1>2, <1>3
<1>5. ASSUME NEW i \in Nat, i \in S PROVE i + 1 \in S
  <2>0. i + 1 \in Nat OBVIOUS
  <2> SUFFICES ASSUME i + 1 <= n PROVE g[i + 1] = f[i + 1] + (IF k <= i + 1 THEN v - a[k] ELSE 0)
    BY <2>0, Zenon
  <2>1. g[i] = f[i] + (IF k <= i THEN v - a[k] ELSE 0) BY <1>1, <1>5
  <2>2. /\ f[i] \in Int /\ g[i] \in Int /\ i + 1 \in 1..n
        /\ f[i + 1] = f[i] + a[i + 1] /\ g[i + 1] = g[i] + b[i + 1]
    <3>1. i \in 0..n /\ i + 1 \in 1..n /\ (i + 1) - 1 = i BY <1>1
    <3> QED BY <1>2, <1>3, <3>1, Zenon
  <2>3. a[k] \in Int /\ a[i + 1] \in Int /\ b[i + 1] = IF i + 1 = k THEN v ELSE a[i + 1]
    BY <1>1, <2>2
  <2> DEFINE x == f[i]
             y == g[i]
             left == a[i + 1]
             right == b[i + 1]
             was == a[k]
  <2>4. /\ x \in Int /\ y \in Int /\ was \in Int /\ left \in Int
        /\ y = x + (IF k <= i THEN v - was ELSE 0)
        /\ right = IF i + 1 = k THEN v ELSE left
        /\ i + 1 = k => left = was
    BY <2>1, <2>2, <2>3, Zenon
  <2> HIDE DEF x, y, left, right, was
  <2>5. y + right = (x + left) + (IF k <= i + 1 THEN v - was ELSE 0)
    <3>1. CASE i + 1 = k
      <4>1. ~(k <= i) /\ k <= i + 1 BY <3>1
      <4> QED BY <2>4, <3>1, <4>1
    <3>2. CASE i + 1 # k
      <4>1. k <= i <=> k <= i + 1 BY <3>2
      <4> QED BY <2>4, <3>2, <4>1
    <3> QED BY <3>1, <3>2
  <2> QED BY <2>2, <2>5, Zenon DEF x, y, left, right, was
<1> HIDE DEF S
<1>6. n \in S BY <1>1, <1>4, <1>5, SetInduction, Zenon
<1>7. g[n] = f[n] + (v - a[k]) BY <1>1, <1>6 DEF S
<1>8. f[n] \in Int
  <2>1. n \in 0..n BY <1>1
  <2> QED BY <2>1
<1> QED BY <1>2, <1>3, <1>7, <1>8, Zenon DEF b

\* A function on 1..n is a sequence of that length.
LEMMA FunctionIsSequence ==
  ASSUME NEW S, NEW n \in Nat, NEW d \in [1..n -> S]
  PROVE  d \in Seq(S) /\ Len(d) = n
<1>1. d \in Seq(S) BY SeqDef
<1>2. Len(d) = n BY SMT
<1> QED BY <1>1, <1>2

-----------------------------------------------------------------------------
(* Signed documents *)

\* A case stays what it was chosen to be; only a list changes.
SignedCases ==
  /\ case.of = "envelope" => case \in EnvelopeCases
  /\ case.of = "credential" => case \in CredentialCases

LEMMA CasesStay == Spec => []SignedCases
<1>1. Init => SignedCases
  <2>1. case \in SerialCases => case.of = "serial" BY DEF SerialCases
  <2>2. case = ListCase(EmptyList(ListSize), {}) => case.of = "list" BY DEF ListCase
  <2>3. case \in SeriesCases => case.of \in {"leaves", "chain"} BY DEF SeriesCases
  <2>4. case \in LotCases => case.of = "lot" BY DEF LotCases
  <2>5. case \in ConsignmentCases => case.of = "consignment" BY DEF ConsignmentCases
  <2>6. case \in EnvelopeCases => case.of = "envelope" BY DEF EnvelopeCases
  <2>7. case \in CredentialCases => case.of = "credential" BY DEF CredentialCases
  <2>8. case \in RoleCases => case.of = "roles" BY DEF RoleCases
  <2> QED BY <2>1, <2>2, <2>3, <2>4, <2>5, <2>6, <2>7, <2>8 DEF Init, SignedCases
<1>2. SignedCases /\ [Next]_case => SignedCases'
  <2>1. ASSUME SignedCases, WriteBit PROVE SignedCases'
    <3>1. case'.of = "list" BY <2>1 DEF WriteBit, ListCase
    <3> QED BY <3>1 DEF SignedCases
  <2>2. ASSUME SignedCases, UNCHANGED case PROVE SignedCases'
    BY <2>2 DEF SignedCases
  <2> QED BY <2>1, <2>2 DEF Next, Computed
<1> QED BY <1>1, <1>2, PTL DEF Spec

\* A computed case stays what it was chosen to be.
ComputedCases ==
  /\ case.of = "serial" => case \in SerialCases
  /\ case.of \in {"leaves", "chain"} => case \in SeriesCases
  /\ case.of = "consignment" => case \in ConsignmentCases

LEMMA ComputedCasesStay == Spec => []ComputedCases
<1>1. Init => ComputedCases
  <2>1. case \in SerialCases => case.of = "serial" BY DEF SerialCases
  <2>2. case = ListCase(EmptyList(ListSize), {}) => case.of = "list" BY DEF ListCase
  <2>3. case \in SeriesCases => case.of \in {"leaves", "chain"} BY DEF SeriesCases
  <2>4. case \in LotCases => case.of = "lot" BY DEF LotCases
  <2>5. case \in ConsignmentCases => case.of = "consignment" BY DEF ConsignmentCases
  <2>6. case \in EnvelopeCases => case.of = "envelope" BY DEF EnvelopeCases
  <2>7. case \in CredentialCases => case.of = "credential" BY DEF CredentialCases
  <2>8. case \in RoleCases => case.of = "roles" BY DEF RoleCases
  <2> QED BY <2>1, <2>2, <2>3, <2>4, <2>5, <2>6, <2>7, <2>8 DEF Init, ComputedCases
<1>2. ComputedCases /\ [Next]_case => ComputedCases'
  <2>1. ASSUME ComputedCases, WriteBit PROVE ComputedCases'
    <3>1. case'.of = "list" BY <2>1 DEF WriteBit, ListCase
    <3> QED BY <3>1 DEF ComputedCases
  <2>2. ASSUME ComputedCases, UNCHANGED case PROVE ComputedCases'
    BY <2>2 DEF ComputedCases
  <2> QED BY <2>1, <2>2 DEF Next, Computed
<1> QED BY <1>1, <1>2, PTL DEF Spec

\* The bodies whose shape verify_envelope accepts.
Proper == Built \cup {Renamed(b) : b \in {d \in Built : d.type \notin EventResources}}

\* Of the bodies of a case, exactly the proper ones have version 1.0, one entry and, when the
\* event is one of this service, the resource of their event.
LEMMA ProperBodies ==
  ASSUME NEW body \in Bodies
  PROVE  body \in Proper
           <=> /\ body.version = "1.0" /\ body.bundle = "message" /\ body.entries = 1
               /\ body.type \in EventResources => body.resource = body.type
<1> DEFINE Form(b) ==
      /\ b.version = "1.0" /\ b.bundle = "message" /\ b.entries = 1
      /\ b.type \in EventResources => b.resource = b.type
<1>1. PICK b \in Built : body \in {b, Renamed(b), [b EXCEPT !.version = "0.9"], [b EXCEPT !.entries = 2]}
  BY DEF Bodies
<1>2. \A d \in Built : \E type \in EventTypes, content \in Contents :
        d = [version |-> "1.0", type |-> type, bundle |-> "message", entries |-> 1,
             resource |-> type, content |-> content]
  BY DEF Built, BuildEnvelope
<1>3. \A d \in Built : /\ d.type \in EventTypes /\ d.resource = d.type /\ Form(d)
                       /\ Renamed(d).type = d.type /\ Renamed(d).resource = "other"
                       /\ Renamed(d).version = "1.0" /\ Renamed(d).entries = 1
                       /\ Renamed(d).bundle = "message"
  BY <1>2 DEF Renamed
<1>4. \A d \in Proper : Form(d)
  BY <1>3 DEF Proper
<1>5. \A d \in Built : d.type # "other"
  BY <1>3 DEF EventTypes
<1>6. CASE body = b
  BY <1>6, <1>3, <1>4 DEF Proper
<1>7. CASE body = Renamed(b)
  <2>1. Form(body) => b.type \notin EventResources BY <1>7, <1>3, <1>5
  <2> QED BY <2>1, <1>7, <1>4 DEF Proper
<1>8. CASE body = [b EXCEPT !.version = "0.9"]
  <2>1. body.version = "0.9" BY <1>8, <1>2
  <2> QED BY <2>1, <1>4
<1>9. CASE body = [b EXCEPT !.entries = 2]
  <2>1. body.entries = 2 BY <1>9, <1>2
  <2> QED BY <2>1, <1>4
<1> QED BY <1>1, <1>6, <1>7, <1>8, <1>9

\* A JWS of a case verifies for a body exactly when it is the one that the directory's key of
\* its kid makes of that body.
LEMMA JwsIsSigned ==
  ASSUME NEW jws \in Jwss, NEW body \in Bodies
  PROVE  (jws # NoJws /\ JwsVerified(jws, Directory, body))
           <=> \E kid \in DOMAIN Directory : jws = JwsSign(kid, Directory[kid], body)
<1>1. ASSUME NEW kid \in DOMAIN Directory, jws = JwsSign(kid, Directory[kid], body)
      PROVE  jws # NoJws /\ JwsVerified(jws, Directory, body)
  <2>1. jws.signed = [alg |-> "EdDSA", kid |-> kid, payload |-> body]
        /\ jws.sig = Signature(Directory[kid], jws.signed)
    BY <1>1 DEF JwsSign
  <2>2. body.type \in EventTypes
    BY DEF Bodies, Built, Renamed, BuildEnvelope
  <2>3. NoJws.signed.payload.type = ""
    BY DEF NoJws, JwsSign, BuildEnvelope
  <2>4. jws # NoJws
    <3>1. jws.signed.payload = body BY <2>1
    <3>2. body.type # "" BY <2>2 DEF EventTypes
    <3> QED BY <3>1, <3>2, <2>3
  <2> QED BY <2>1, <2>4 DEF JwsVerified, PayloadMatches, Verifies
<1>2. ASSUME jws # NoJws, JwsVerified(jws, Directory, body)
      PROVE  \E kid \in DOMAIN Directory : jws = JwsSign(kid, Directory[kid], body)
  <2>1. PICK j \in Signed : jws = j \/ jws = [j EXCEPT !.signed.alg = "none"]
    BY <1>2 DEF Jwss
  <2>2. PICK kid \in Kids, key \in Keys, over \in Bodies : j = JwsSign(kid, key, over)
    BY <2>1 DEF Signed
  <2>3. j = [signed |-> [alg |-> "EdDSA", kid |-> kid, payload |-> over],
             sig |-> Signature(key, [alg |-> "EdDSA", kid |-> kid, payload |-> over])]
    BY <2>2 DEF JwsSign
  <2>4. jws.signed.alg = "EdDSA"
    BY <1>2 DEF JwsVerified
  <2>5. jws = j
    <3>1. [j EXCEPT !.signed.alg = "none"].signed.alg = "none" BY <2>3
    <3> QED BY <2>1, <2>4, <3>1
  <2>6. kid \in DOMAIN Directory /\ over = body /\ jws.sig = Signature(Directory[kid], jws.signed)
    BY <1>2, <2>3, <2>5 DEF JwsVerified, PayloadMatches, Verifies
  <2>7. jws = JwsSign(kid, Directory[kid], body)
    BY <2>3, <2>5, <2>6 DEF JwsSign
  <2> QED BY <2>6, <2>7
<1> QED BY <1>1, <1>2

\* OnlyTheSignedIsAccepted of the envelopes (verify_envelope).
LEMMA EnvelopesAreSigned ==
  ASSUME SignedCases, case.of = "envelope"
  PROVE  EnvelopeAccepted(case.envelope, Directory, case.expected)
           <=> /\ case.envelope.body \in Proper
               /\ case.expected \in {AnyType, case.envelope.body.type}
               /\ \E kid \in DOMAIN Directory :
                    case.envelope = SignEnvelope(case.envelope.body, kid, Directory[kid])
<1> DEFINE body == case.envelope.body
           jws == case.envelope.jws
<1>1. case.envelope = [body |-> body, jws |-> jws] /\ body \in Bodies /\ jws \in Jwss
  BY DEF SignedCases, EnvelopeCases
<1>2. \A kid : case.envelope = SignEnvelope(body, kid, Directory[kid])
                 <=> jws = JwsSign(kid, Directory[kid], body)
  BY <1>1 DEF SignEnvelope
<1> HIDE DEF body, jws
<1>3. body \in Proper <=> /\ body.version = "1.0" /\ body.bundle = "message" /\ body.entries = 1
                          /\ body.type \in EventResources => body.resource = body.type
  BY <1>1, ProperBodies
<1>4. (jws # NoJws /\ JwsVerified(jws, Directory, body))
        <=> \E kid \in DOMAIN Directory : jws = JwsSign(kid, Directory[kid], body)
  BY <1>1, JwsIsSigned
<1> QED BY <1>2, <1>3, <1>4 DEF EnvelopeAccepted, body, jws

\* OnlyTheSignedIsAccepted of the credentials (_credential_failures).
LEMMA CredentialsAreSigned ==
  ASSUME SignedCases, case.of = "credential"
  PROVE  CredentialFailures(case.credential, case.serial, Issuer, case.lists) = {}
           <=> /\ case.credential = IssueProof(case.credential.doc, Issuer)
               /\ \E i \in Indexes0 :
                    /\ case.credential.doc = BuildStampCredential(case.serial, i, Purposes0)
                    /\ \A p \in DOMAIN case.lists : i \notin case.lists[p]
<1> DEFINE c == case.credential
<1>1. PICK doc \in Docs, options \in Suites :
        c = [doc |-> doc, options |-> options, proof |-> c.proof]
  BY DEF SignedCases, CredentialCases, Credentials
<1>2. case.lists \in PublishedLists
  BY DEF SignedCases, CredentialCases
<1>3. PICK serial \in Contents, index \in Indexes0 : doc = BuildStampCredential(serial, index, Purposes0)
  BY <1>1 DEF Docs
<1>4. doc = [serial |-> serial, statuses |-> {[purpose |-> p, index |-> index] : p \in Purposes0}]
  BY <1>3 DEF BuildStampCredential
<1>5. PICK published \in SUBSET {"void", "suspect"} : case.lists \in [published -> SUBSET Indexes0]
  BY <1>2 DEF PublishedLists
<1> HIDE DEF c
<1>6. ~ProofFails(c, Issuer) <=> c = IssueProof(c.doc, Issuer)
  <2>1. ~ProofFails(c, Issuer) <=> /\ options = ProofOptions
                                   /\ c.proof = Signature(Issuer, <<options, doc>>)
    BY <1>1 DEF ProofFails, Verifies
  <2>2. IssueProof(c.doc, Issuer)
          = [doc |-> doc, options |-> ProofOptions, proof |-> Signature(Issuer, <<ProofOptions, doc>>)]
    BY <1>1 DEF IssueProof
  <2> QED BY <1>1, <2>1, <2>2
<1>7. FlaggedPurposes(c, case.lists) = {} <=> \A p \in DOMAIN case.lists : index \notin case.lists[p]
  <2>1. \A s \in c.doc.statuses : s.index = index /\ s.purpose \in Purposes0
    BY <1>1, <1>4
  <2>2. \A p \in Purposes0 : \E s \in c.doc.statuses : s.purpose = p
    <3>1. ASSUME NEW p \in Purposes0 PROVE [purpose |-> p, index |-> index] \in c.doc.statuses
      BY <1>1, <1>4
    <3> QED BY <3>1
  <2>3. DOMAIN case.lists \subseteq Purposes0
    BY <1>5 DEF Purposes0
  <2>4. FlaggedPurposes(c, case.lists) = {p \in DOMAIN case.lists : index \in case.lists[p]}
    BY <2>1, <2>2, <2>3 DEF FlaggedPurposes
  <2> QED BY <2>4
<1>8. CredentialFailures(c, case.serial, Issuer, case.lists) = {}
        <=> ~ProofFails(c, Issuer) /\ FlaggedPurposes(c, case.lists) = {} /\ serial = case.serial
  <2>1. c.doc.serial = serial BY <1>1, <1>4
  <2>2. \A P, Q : P \cup Q = {} <=> P = {} /\ Q = {} OBVIOUS
  <2>3. VerifyCredentialOffline(c, Issuer, case.lists) = {}
          <=> ~ProofFails(c, Issuer) /\ FlaggedPurposes(c, case.lists) = {}
    BY <2>2 DEF VerifyCredentialOffline
  <2> QED BY <2>1, <2>2, <2>3 DEF CredentialFailures, SerialDiffers
<1>9. ASSUME NEW i \in Indexes0
       PROVE  c.doc = BuildStampCredential(case.serial, i, Purposes0) <=> serial = case.serial /\ i = index
  <2> DEFINE Statuses(j) == {[purpose |-> p, index |-> j] : p \in Purposes0}
  <2>1. c.doc = [serial |-> serial, statuses |-> Statuses(index)] BY <1>1, <1>4
  <2>2. BuildStampCredential(case.serial, i, Purposes0) = [serial |-> case.serial, statuses |-> Statuses(i)]
    BY DEF BuildStampCredential
  <2>3. Statuses(i) = Statuses(index) => i = index
    <3>1. [purpose |-> "void", index |-> i] \in Statuses(i)
      BY DEF Purposes0
    <3>2. \A s \in Statuses(index) : s.index = index
      OBVIOUS
    <3>3. [purpose |-> "void", index |-> i].index = i
      OBVIOUS
    <3> QED BY <3>1, <3>2, <3>3
  <2> HIDE DEF Statuses
  <2>4. i = index => Statuses(i) = Statuses(index) OBVIOUS
  <2> QED BY <2>1, <2>2, <2>3, <2>4
<1> QED BY <1>6, <1>7, <1>8, <1>9 DEF c

\* What verify_envelope and the credential gate accept is, whole, what a known key signed, for
\* any keys, key ids, directory, contents and status-list indexes.
THEOREM AcceptedWasSigned == Spec => []OnlyTheSignedIsAccepted
<1>1. SignedCases => OnlyTheSignedIsAccepted
  BY EnvelopesAreSigned, CredentialsAreSigned DEF OnlyTheSignedIsAccepted, Proper
<1> QED BY <1>1, CasesStay, PTL

-----------------------------------------------------------------------------
(* Policy and money *)

\* require_policy: whoever has several roles may call what one of them may call by itself, and
\* without a role nothing; a combination of roles, also of roles unknown to the policy, opens
\* no route of its own.
THEOREM RolesAddUp ==
  ASSUME NEW roles
  PROVE  MayCall(roles) = UNION {MayCall({role}) : role \in roles}
<1>1. \A r \in Policies : Star \notin r.roles
  BY DEF Policies, Rule, Star
<1>2. ASSUME NEW permission
      PROVE  Allow(roles, permission) <=> \E role \in roles : Allow({role}, permission)
  <2>1. \A r \in Policies : r.roles \cap roles # {} <=> \E role \in roles : r.roles \cap {role} # {}
    OBVIOUS
  <2> QED BY <1>1, <2>1 DEF Allow, Matches
<1>3. \A some, route : route \in MayCall(some) <=> route \in DOMAIN Asked /\ Allow(some, Asked[route])
  BY DEF MayCall
<1>4. \A route : route \in UNION {MayCall({role}) : role \in roles}
                  <=> \E role \in roles : route \in MayCall({role})
  OBVIOUS
<1>5. \A route : route \in MayCall(roles) <=> \E role \in roles : route \in MayCall({role})
  BY <1>2, <1>3
<1> QED BY <1>4, <1>5

\* ad_valorem_kobo: for every value and rate the duty is the nearest kobo, the half rounded up.
THEOREM RoundedHalfUp ==
  ASSUME NEW value \in Nat, NEW bp \in Nat
  PROVE  AdValorem(value, bp) \in Nat /\ Nearest(AdValorem(value, bp), value * bp)
<1> DEFINE exact == value * bp
<1>1. exact \in Nat OBVIOUS
<1> HIDE DEF exact
<1>2. /\ (exact + 5000) \div 10000 \in Nat
      /\ exact < 10000 * ((exact + 5000) \div 10000) + 5000
      /\ 10000 * ((exact + 5000) \div 10000) <= exact + 5000
  BY <1>1
<1> QED BY <1>2, SMT DEF AdValorem, Nearest, exact

\* The prefixes of the tariff table, digit by digit.
LEMMA PrefixOfFour ==
  ASSUME NEW digits \in Seq(Nat), NEW a \in Nat, NEW b \in Nat, NEW c \in Nat, NEW d \in Nat
  PROVE  IsPrefix(<<a, b, c, d>>, digits)
           <=> /\ 4 <= Len(digits)
               /\ digits[1] = a /\ digits[2] = b /\ digits[3] = c /\ digits[4] = d
<1> DEFINE prefix == <<a, b, c, d>>
<1>1. /\ prefix \in Seq(Nat) /\ Len(prefix) = 4
      /\ prefix[1] = a /\ prefix[2] = b /\ prefix[3] = c /\ prefix[4] = d
  BY SMT
<1> HIDE DEF prefix
<1>2. SubSeq(prefix, 1, 4) = prefix
  BY <1>1, SMT
<1>3. ASSUME 4 <= Len(digits)
      PROVE  SubSeq(digits, 1, 4) \in Seq(Nat) /\ Len(SubSeq(digits, 1, 4)) = 4
             /\ \A i \in 1..4 : SubSeq(digits, 1, 4)[i] = digits[i]
  <2> DEFINE front == [i \in 1..4 |-> digits[i]]
  <2>1. SubSeq(digits, 1, 4) = front BY <1>3, SMT
  <2>2. front \in [1..4 -> Nat] /\ \A i \in 1..4 : front[i] = digits[i] BY <1>3
  <2> HIDE DEF front
  <2>3. front \in Seq(Nat) /\ Len(front) = 4
    <3>1. 4 \in Nat OBVIOUS
    <3>2. front \in [1..4 -> Nat] BY <2>2, Zenon
    <3> QED BY <3>1, <3>2, FunctionIsSequence, Zenon
  <2> QED BY <2>1, <2>2, <2>3
<1>4. ASSUME 4 <= Len(digits)
      PROVE  SubSeq(prefix, 1, 4) = SubSeq(digits, 1, 4) <=> \A i \in 1..4 : prefix[i] = digits[i]
  BY <1>1, <1>2, <1>3, <1>4, SeqEqual
<1>5. (\A i \in 1..4 : prefix[i] = digits[i])
        <=> digits[1] = a /\ digits[2] = b /\ digits[3] = c /\ digits[4] = d
  BY <1>1, SMT
<1>6. IsPrefix(prefix, digits) <=> 4 <= Len(digits) /\ SubSeq(prefix, 1, 4) = SubSeq(digits, 1, 4)
  BY <1>1 DEF IsPrefix
<1> QED BY <1>4, <1>5, <1>6 DEF prefix

LEMMA PrefixOfTwo ==
  ASSUME NEW digits \in Seq(Nat), NEW a \in Nat, NEW b \in Nat
  PROVE  IsPrefix(<<a, b>>, digits) <=> 2 <= Len(digits) /\ digits[1] = a /\ digits[2] = b
<1> DEFINE prefix == <<a, b>>
<1>1. prefix \in Seq(Nat) /\ Len(prefix) = 2 /\ prefix[1] = a /\ prefix[2] = b
  BY SMT
<1> HIDE DEF prefix
<1>2. SubSeq(prefix, 1, 2) = prefix
  BY <1>1, SMT
<1>3. ASSUME 2 <= Len(digits)
      PROVE  SubSeq(digits, 1, 2) \in Seq(Nat) /\ Len(SubSeq(digits, 1, 2)) = 2
             /\ \A i \in 1..2 : SubSeq(digits, 1, 2)[i] = digits[i]
  BY <1>3, SMT
<1>4. ASSUME 2 <= Len(digits)
      PROVE  SubSeq(prefix, 1, 2) = SubSeq(digits, 1, 2) <=> \A i \in 1..2 : prefix[i] = digits[i]
  BY <1>1, <1>2, <1>3, <1>4, SeqEqual
<1>5. (\A i \in 1..2 : prefix[i] = digits[i]) <=> digits[1] = a /\ digits[2] = b
  BY <1>1, SMT
<1>6. IsPrefix(prefix, digits) <=> 2 <= Len(digits) /\ SubSeq(prefix, 1, 2) = SubSeq(digits, 1, 2)
  BY <1>1 DEF IsPrefix
<1> QED BY <1>4, <1>5, <1>6 DEF prefix

\* rate_for: no day has two rates for a line, whatever its HS code, so that sorting the
\* candidates decides nothing and the line has one price.
THEOREM OneRateADay ==
  ASSUME NEW hs, Digits(hs) \in Seq(Nat), NEW on \in Nat,
         NEW r \in Candidates(hs, on), NEW o \in Candidates(hs, on)
  PROVE  r = o
<1> DEFINE digits == Digits(hs)
           tobacco1 == Rate(<<2, 4, 0, 2>>, "tobacco", 600, 0, 20230601, 20260630)
           tobacco2 == Rate(<<2, 4, 0, 2>>, "tobacco", 800, 0, 20260701, OpenEnded)
           beer1 == Rate(<<2, 2, 0, 3>>, "alcohol", 7200, 0, 20230601, 20260630)
           beer2 == Rate(<<2, 2, 0, 3>>, "alcohol", 8000, 0, 20260701, OpenEnded)
           spirits1 == Rate(<<2, 2, 0, 8>>, "alcohol", 6000, 2000, 20230601, 20260630)
           spirits2 == Rate(<<2, 2, 0, 8>>, "alcohol", 7500, 3000, 20260701, OpenEnded)
           drinks == Rate(<<2, 2, 0, 2>>, "beverages", 1000, 0, 20220601, OpenEnded)
           medicines == Rate(<<3, 0>>, "pharmaceuticals", 0, 0, 20200101, OpenEnded)
<1>1. /\ IsPrefix(r.prefix, digits) /\ r.from <= on /\ on <= r.to
      /\ IsPrefix(o.prefix, digits) /\ o.from <= on /\ on <= o.to
  BY SMT DEF Candidates, InForce
<1>2. /\ r \in {tobacco1, tobacco2, beer1, beer2, spirits1, spirits2, drinks, medicines}
      /\ o \in {tobacco1, tobacco2, beer1, beer2, spirits1, spirits2, drinks, medicines}
  BY SMTT(30) DEF Candidates, TariffTable
<1>3. /\ tobacco1.prefix = <<2, 4, 0, 2>> /\ tobacco1.to = 20260630
      /\ tobacco2.prefix = <<2, 4, 0, 2>> /\ tobacco2.from = 20260701
      /\ beer1.prefix = <<2, 2, 0, 3>> /\ beer1.to = 20260630
      /\ beer2.prefix = <<2, 2, 0, 3>> /\ beer2.from = 20260701
      /\ spirits1.prefix = <<2, 2, 0, 8>> /\ spirits1.to = 20260630
      /\ spirits2.prefix = <<2, 2, 0, 8>> /\ spirits2.from = 20260701
      /\ drinks.prefix = <<2, 2, 0, 2>> /\ medicines.prefix = <<3, 0>>
  BY SMT DEF Rate
<1> HIDE DEF digits, tobacco1, tobacco2, beer1, beer2, spirits1, spirits2, drinks, medicines
<1>4. digits \in Seq(Nat) BY DEF digits
<1>5. ASSUME NEW c \in Nat, NEW d \in Nat, IsPrefix(<<2, c, 0, d>>, digits)
      PROVE  digits[1] = 2 /\ digits[2] = c /\ digits[4] = d
  BY <1>4, <1>5, PrefixOfFour
<1>6. ASSUME IsPrefix(<<3, 0>>, digits) PROVE digits[1] = 3
  BY <1>4, <1>6, PrefixOfTwo
<1> DEFINE Fits(q) == IsPrefix(q.prefix, digits)
<1>7. /\ Fits(tobacco1) \/ Fits(tobacco2) => digits[1] = 2 /\ digits[2] = 4
      /\ Fits(beer1) \/ Fits(beer2) => digits[1] = 2 /\ digits[2] = 2 /\ digits[4] = 3
      /\ Fits(spirits1) \/ Fits(spirits2) => digits[1] = 2 /\ digits[2] = 2 /\ digits[4] = 8
      /\ Fits(drinks) => digits[1] = 2 /\ digits[2] = 2 /\ digits[4] = 2
      /\ Fits(medicines) => digits[1] = 3
  BY <1>3, <1>5, <1>6, SMT
<1>8. Fits(r) /\ Fits(o) BY <1>1
<1> HIDE DEF Fits
<1>9. CASE digits[1] = 3
  BY <1>2, <1>7, <1>8, <1>9, SMT
<1>10. CASE digits[1] # 3
  BY <1>1, <1>2, <1>3, <1>7, <1>8, <1>10, SMTT(30)
<1> QED BY <1>9, <1>10

Dates == {on \in 0..OpenEnded : IsDate(on)}

LEMMA DatesAreNumbers ==
  ASSUME NEW on \in Dates
  PROVE  on \in Nat /\ on <= OpenEnded
<1>1. on \in 0..OpenEnded BY Zenon DEF Dates
<1>2. OpenEnded \in Nat BY SMT DEF OpenEnded
<1> QED BY <1>1, <1>2

\* A heading that has had a rate has one on every later day: where a rate ends, the next begins.
LEMMA RatesMeet ==
  ASSUME NEW on \in Dates, NEW r \in TariffTable, r.from <= on
  PROVE  \E o \in TariffTable : o.prefix = r.prefix /\ InForce(o, on)
<1> DEFINE tobacco1 == Rate(<<2, 4, 0, 2>>, "tobacco", 600, 0, 20230601, 20260630)
           tobacco2 == Rate(<<2, 4, 0, 2>>, "tobacco", 800, 0, 20260701, OpenEnded)
           beer1 == Rate(<<2, 2, 0, 3>>, "alcohol", 7200, 0, 20230601, 20260630)
           beer2 == Rate(<<2, 2, 0, 3>>, "alcohol", 8000, 0, 20260701, OpenEnded)
           spirits1 == Rate(<<2, 2, 0, 8>>, "alcohol", 6000, 2000, 20230601, 20260630)
           spirits2 == Rate(<<2, 2, 0, 8>>, "alcohol", 7500, 3000, 20260701, OpenEnded)
           drinks == Rate(<<2, 2, 0, 2>>, "beverages", 1000, 0, 20220601, OpenEnded)
           medicines == Rate(<<3, 0>>, "pharmaceuticals", 0, 0, 20200101, OpenEnded)
<1>1. TariffTable = {tobacco1, tobacco2, beer1, beer2, spirits1, spirits2, drinks, medicines}
  BY SMTT(30) DEF TariffTable
<1>2. on \in Nat /\ on <= OpenEnded BY DatesAreNumbers
<1>3. /\ tobacco2.prefix = tobacco1.prefix /\ tobacco1.to = 20260630 /\ tobacco2.from = 20260701
      /\ beer2.prefix = beer1.prefix /\ beer1.to = 20260630 /\ beer2.from = 20260701
      /\ spirits2.prefix = spirits1.prefix /\ spirits1.to = 20260630 /\ spirits2.from = 20260701
      /\ \A o \in {tobacco2, beer2, spirits2, drinks, medicines} : o.to = OpenEnded
  BY SMT DEF Rate
<1> HIDE DEF tobacco1, tobacco2, beer1, beer2, spirits1, spirits2, drinks, medicines
<1>4. CASE r.to = OpenEnded
  BY <1>2, <1>4, SMT DEF InForce
<1>5. CASE r.to # OpenEnded
  <2>1. r \in {tobacco1, beer1, spirits1} BY <1>1, <1>3, <1>5, SMT
  <2>2. CASE on <= 20260630
    BY <1>3, <2>1, <2>2, SMT DEF InForce
  <2>3. CASE on >= 20260701
    BY <1>1, <1>2, <1>3, <2>1, <2>3, SMT DEF InForce
  <2>4. on <= 20260630 \/ on >= 20260701
    <3>1. on % 100 \in 1..31 /\ ((on \div 100) % 100 = 6 => on % 100 <= 30)
      BY SMT DEF Dates, IsDate
    <3> SUFFICES ASSUME 20260630 < on, on < 20260701 PROVE FALSE
      BY <1>2, SMT
    <3>2. CASE on = 20260700 BY <3>1, <3>2, SMT
    <3>3. CASE on # 20260700
      <4>1. on \div 100 = 202606 BY <1>2, <3>3, SMT
      <4>2. on % 100 <= 30 BY <3>1, <4>1, SMT
      <4>3. on % 100 = on - 20260600 BY <1>2, <3>3, SMT
      <4> QED BY <1>2, <4>2, <4>3, SMT
    <3> QED BY <3>2, <3>3, SMT
  <2> QED BY <2>2, <2>3, <2>4, SMT
<1> QED BY <1>4, <1>5


\* The category of a rate is the one its codes have.
LEMMA RatesHaveTheirCategory ==
  ASSUME NEW hs, Digits(hs) \in Seq(Nat), NEW r \in TariffTable, IsPrefix(r.prefix, Digits(hs))
  PROVE  r.category = CategoryForHs(hs)
<1> DEFINE digits == Digits(hs)
<1>1. \/ r.prefix = <<2, 4, 0, 2>> /\ r.category = "tobacco"
      \/ r.prefix = <<2, 2, 0, 3>> /\ r.category = "alcohol"
      \/ r.prefix = <<2, 2, 0, 8>> /\ r.category = "alcohol"
      \/ r.prefix = <<2, 2, 0, 2>> /\ r.category = "beverages"
      \/ r.prefix = <<3, 0>> /\ r.category = "pharmaceuticals"
  BY SMT DEF TariffTable, Rate
<1>2. CategoryForHs(hs) =
        CASE IsPrefix(<<2, 2, 0, 2>>, digits) -> "beverages"
          [] IsPrefix(<<2, 2>>, digits) /\ ~IsPrefix(<<2, 2, 0, 2>>, digits) -> "alcohol"
          [] IsPrefix(<<2, 4>>, digits) -> "tobacco"
          [] IsPrefix(<<3, 0>>, digits) -> "pharmaceuticals"
          [] OTHER -> "none"
  BY DEF CategoryForHs
<1> HIDE DEF digits
<1>3. digits \in Seq(Nat) BY DEF digits
<1>4. /\ IsPrefix(<<2, 2>>, digits) <=> 2 <= Len(digits) /\ digits[1] = 2 /\ digits[2] = 2
      /\ IsPrefix(<<2, 4>>, digits) <=> 2 <= Len(digits) /\ digits[1] = 2 /\ digits[2] = 4
      /\ IsPrefix(<<3, 0>>, digits) <=> 2 <= Len(digits) /\ digits[1] = 3 /\ digits[2] = 0
  BY <1>3, PrefixOfTwo
<1>5. /\ IsPrefix(<<2, 2, 0, 2>>, digits) <=> /\ 4 <= Len(digits) /\ digits[1] = 2 /\ digits[2] = 2
                                              /\ digits[3] = 0 /\ digits[4] = 2
      /\ IsPrefix(<<2, 2, 0, 3>>, digits) <=> /\ 4 <= Len(digits) /\ digits[1] = 2 /\ digits[2] = 2
                                              /\ digits[3] = 0 /\ digits[4] = 3
      /\ IsPrefix(<<2, 2, 0, 8>>, digits) <=> /\ 4 <= Len(digits) /\ digits[1] = 2 /\ digits[2] = 2
                                              /\ digits[3] = 0 /\ digits[4] = 8
      /\ IsPrefix(<<2, 4, 0, 2>>, digits) <=> /\ 4 <= Len(digits) /\ digits[1] = 2 /\ digits[2] = 4
                                              /\ digits[3] = 0 /\ digits[4] = 2
  BY <1>3, PrefixOfFour
<1>6. Len(digits) \in Nat BY <1>3
<1>7. CASE r.prefix = <<2, 4, 0, 2>> /\ r.category = "tobacco"
  <2>1. /\ IsPrefix(<<2, 4>>, digits) /\ ~IsPrefix(<<2, 2, 0, 2>>, digits)
        /\ ~IsPrefix(<<2, 2>>, digits) /\ ~IsPrefix(<<3, 0>>, digits)
    BY <1>4, <1>5, <1>6, <1>7 DEF digits
  <2> QED BY <1>2, <1>7, <2>1
<1>8. CASE r.prefix \in {<<2, 2, 0, 3>>, <<2, 2, 0, 8>>} /\ r.category = "alcohol"
  <2>0. IsPrefix(<<2, 2, 0, 3>>, digits) \/ IsPrefix(<<2, 2, 0, 8>>, digits)
    BY <1>8 DEF digits
  <2>1. /\ IsPrefix(<<2, 2>>, digits) /\ ~IsPrefix(<<2, 2, 0, 2>>, digits)
        /\ ~IsPrefix(<<2, 4>>, digits) /\ ~IsPrefix(<<3, 0>>, digits)
    BY <1>4, <1>5, <1>6, <2>0
  <2> QED BY <1>2, <1>8, <2>1
<1>9. CASE r.prefix = <<2, 2, 0, 2>> /\ r.category = "beverages"
  <2>1. /\ IsPrefix(<<2, 2, 0, 2>>, digits)
        /\ ~IsPrefix(<<2, 4>>, digits) /\ ~IsPrefix(<<3, 0>>, digits)
    BY <1>4, <1>5, <1>6, <1>9 DEF digits
  <2> QED BY <1>2, <1>9, <2>1
<1>10. CASE r.prefix = <<3, 0>> /\ r.category = "pharmaceuticals"
  <2>1. /\ IsPrefix(<<3, 0>>, digits) /\ ~IsPrefix(<<2, 2, 0, 2>>, digits)
        /\ ~IsPrefix(<<2, 2>>, digits) /\ ~IsPrefix(<<2, 4>>, digits)
    BY <1>4, <1>5, <1>6, <1>10 DEF digits
  <2> QED BY <1>2, <1>10, <2>1
<1> QED BY <1>1, <1>7, <1>8, <1>9, <1>10

\* rate_for and compute_line_duty: what PricedByTheRateOfTheDay says of each line, for any HS
\* code, date, quantity and value: one rate from the first day of the heading on, of the
\* category of the code, and a duty to the nearest kobo; and, once all rates have begun, a rate
\* exactly for the named headings and chapter 30.
THEOREM EveryLinePriced ==
  ASSUME NEW line, Digits(line.hs) \in Seq(Nat), line.quantity \in Nat, line.value \in Nat,
         NEW on \in Dates
  PROVE  LinePriced(line, on)
<1> DEFINE rates == Candidates(line.hs, on)
           Begun(r) == IsPrefix(r.prefix, Digits(line.hs)) /\ r.from <= on
<1>1. on \in Nat BY DatesAreNumbers
<1>2. \A r, o \in rates : r = o
  BY <1>1, OneRateADay
<1>3. \A r \in rates : r \in TariffTable /\ IsPrefix(r.prefix, Digits(line.hs)) /\ r.from <= on
  BY DEF Candidates, InForce
<1>4. (\E r \in TariffTable : Begun(r)) => rates # {}
  BY RatesMeet DEF Candidates
<1>5. \A r \in TariffTable : r.specific \in Nat /\ r.bp \in Nat
  BY SMT DEF TariffTable, Rate
<1>6. (\E r \in TariffTable : Begun(r)) <=> Cardinality(rates) = 1
  <2>1. CASE rates = {}
    <3>1. Cardinality(rates) = 0 BY <2>1, FS_EmptySet
    <3>2. ~\E r \in TariffTable : Begun(r) BY <1>4, <2>1
    <3> QED BY <3>1, <3>2
  <2>2. CASE rates # {}
    <3>1. PICK r : rates = {r} BY <1>2, <2>2
    <3>2. Cardinality(rates) = 1 BY <3>1, FS_Singleton
    <3>3. Begun(r) /\ r \in TariffTable BY <1>3, <3>1
    <3> QED BY <3>2, <3>3
  <2> QED BY <2>1, <2>2
<1>7. ASSUME NEW r \in rates
      PROVE  /\ r.category = CategoryForHs(line.hs)
             /\ Nearest(LineDuty(line, on) - r.specific * line.quantity, line.value * r.bp)
  <2>1. r.category = CategoryForHs(line.hs)
    BY <1>3, RatesHaveTheirCategory
  <2>2. Len(r.prefix) <= Len(r.prefix)
    <3>1. r.prefix \in {<<2, 4, 0, 2>>, <<2, 2, 0, 3>>, <<2, 2, 0, 8>>, <<2, 2, 0, 2>>, <<3, 0>>}
      BY <1>3, SMT DEF TariffTable, Rate
    <3>2. Len(r.prefix) \in Nat BY <3>1
    <3> QED BY <3>2
  <2>3. RateFor(line.hs, on) = r
    BY <1>2, <2>2 DEF RateFor
  <2>4. r.specific \in Nat /\ r.bp \in Nat BY <1>3, <1>5
  <2>5. AdValorem(line.value, r.bp) \in Nat /\ Nearest(AdValorem(line.value, r.bp), line.value * r.bp)
    BY <2>4, RoundedHalfUp
  <2>6. LineDuty(line, on) - r.specific * line.quantity = AdValorem(line.value, r.bp)
    <3> DEFINE fixed == r.specific * line.quantity
    <3>1. fixed \in Nat BY <2>4
    <3>2. LineDuty(line, on) = fixed + AdValorem(line.value, r.bp) BY <2>3 DEF LineDuty
    <3> HIDE DEF fixed
    <3>3. LineDuty(line, on) - fixed = AdValorem(line.value, r.bp) BY <2>5, <3>1, <3>2
    <3> QED BY <3>3 DEF fixed
  <2> QED BY <2>1, <2>5, <2>6
<1>8. ASSUME AllBegun <= on PROVE rates # {} <=> Named(line.hs)
  <2>1. \A r \in TariffTable : r.prefix \in Headings \cup {<<3, 0>>}
    BY SMTT(30) DEF TariffTable, Rate, Headings
  <2>2. \A p \in Headings \cup {<<3, 0>>} : \E r \in TariffTable : r.prefix = p /\ r.from <= AllBegun
    BY SMTT(30) DEF TariffTable, Rate, Headings, AllBegun
  <2>3. \A r \in rates : Named(line.hs) BY <1>3, <2>1 DEF Named
  <2>4. ASSUME Named(line.hs) PROVE rates # {}
    <3>1. PICK p \in Headings \cup {<<3, 0>>} : IsPrefix(p, Digits(line.hs)) BY <2>4 DEF Named
    <3>2. PICK r \in TariffTable : r.prefix = p /\ r.from <= AllBegun BY <2>2
    <3>3. r.from <= on
      <4>1. r.from \in Nat BY SMT DEF TariffTable, Rate
      <4>2. AllBegun \in Nat BY DEF AllBegun
      <4> QED BY <1>1, <1>8, <3>2, <4>1, <4>2
    <3>4. Begun(r) BY <3>1, <3>2, <3>3
    <3> QED BY <1>4, <3>4
  <2> QED BY <2>3, <2>4
<1> QED BY <1>6, <1>7, <1>8 DEF LinePriced

-----------------------------------------------------------------------------
(* Sampling plans *)

Row == 1..15

\* The tables of quality.py as functions of the row; no row samples less than the one before,
\* nor accepts more defectives than its sample holds.
LEMMA TableRows ==
  /\ DOMAIN Letters = Row
  /\ \A i \in Row : SampleSizes[i] \in Nat /\ Accepts[i] \in Nat /\ Accepts[i] < SampleSizes[i]
  /\ \A i, j \in Row : i <= j => SampleSizes[i] <= SampleSizes[j] /\ Accepts[i] <= Accepts[j]
<1>1. DOMAIN Letters = Row BY DEF Letters, Row
<1>2. /\ SampleSizes[1] = 2 /\ SampleSizes[2] = 3 /\ SampleSizes[3] = 5 /\ SampleSizes[4] = 8
      /\ SampleSizes[5] = 13 /\ SampleSizes[6] = 20 /\ SampleSizes[7] = 32 /\ SampleSizes[8] = 50
      /\ SampleSizes[9] = 80 /\ SampleSizes[10] = 125 /\ SampleSizes[11] = 200 /\ SampleSizes[12] = 315
      /\ SampleSizes[13] = 500 /\ SampleSizes[14] = 800 /\ SampleSizes[15] = 1250
  BY DEF SampleSizes
<1>3. /\ Accepts[1] = 0 /\ Accepts[2] = 0 /\ Accepts[3] = 0 /\ Accepts[4] = 0 /\ Accepts[5] = 0
      /\ Accepts[6] = 0 /\ Accepts[7] = 0 /\ Accepts[8] = 1 /\ Accepts[9] = 1 /\ Accepts[10] = 2
      /\ Accepts[11] = 3 /\ Accepts[12] = 5 /\ Accepts[13] = 7 /\ Accepts[14] = 10 /\ Accepts[15] = 14
  BY DEF Accepts
<1>4. \A i \in Row : i \in Int /\ (\/ i = 1 \/ i = 2 \/ i = 3 \/ i = 4 \/ i = 5 \/ i = 6 \/ i = 7 \/ i = 8
                              \/ i = 9 \/ i = 10 \/ i = 11 \/ i = 12 \/ i = 13 \/ i = 14 \/ i = 15)
  BY DEF Row
<1>5. \A i \in Row : SampleSizes[i] \in Nat /\ Accepts[i] \in Nat /\ Accepts[i] < SampleSizes[i]
  BY <1>2, <1>3, <1>4
<1>6. ASSUME NEW i \in Row, NEW j \in Row, i <= j
      PROVE  SampleSizes[i] <= SampleSizes[j]
  BY <1>2, <1>4, <1>6
<1>7. ASSUME NEW i \in Row, NEW j \in Row, i <= j
      PROVE  Accepts[i] <= Accepts[j]
  BY <1>3, <1>4, <1>7
<1> QED BY <1>1, <1>5, <1>6, <1>7

\* The rows meet without a gap: every lot has one, and a larger lot none further up.
LEMMA RowOfLot ==
  ASSUME NEW lot \in 1..MaxLot
  PROVE  LET row == CodeLetterFor(lot)
         IN  row \in Row /\ lot <= LotUpTo[row] /\ (row > 1 => lot > LotUpTo[row - 1])
<1>1. /\ LotUpTo[1] = 8 /\ LotUpTo[2] = 15 /\ LotUpTo[3] = 25 /\ LotUpTo[4] = 50 /\ LotUpTo[5] = 90
      /\ LotUpTo[6] = 150 /\ LotUpTo[7] = 280 /\ LotUpTo[8] = 500 /\ LotUpTo[9] = 1200
      /\ LotUpTo[10] = 3200 /\ LotUpTo[11] = 10000 /\ LotUpTo[12] = 35000 /\ LotUpTo[13] = 150000
      /\ LotUpTo[14] = 500000 /\ LotUpTo[15] = MaxLot
  BY SMT DEF LotUpTo
<1>2. \E row \in Row : lot <= LotUpTo[row] /\ (row > 1 => lot > LotUpTo[row - 1])
  <2> DEFINE Fits(row) == lot <= LotUpTo[row] /\ (row > 1 => lot > LotUpTo[row - 1])
  <2>1. \/ Fits(1) \/ Fits(2) \/ Fits(3) \/ Fits(4) \/ Fits(5) \/ Fits(6) \/ Fits(7) \/ Fits(8)
        \/ Fits(9) \/ Fits(10) \/ Fits(11) \/ Fits(12) \/ Fits(13) \/ Fits(14) \/ Fits(15)
    BY <1>1, MaxLotAssumption, SMT
  <2> HIDE DEF Fits
  <2>2. \E row \in Row : Fits(row) BY <2>1 DEF Row
  <2> QED BY <2>2 DEF Fits
<1> QED BY <1>2, TableRows DEF CodeLetterFor

LEMMA LargerLotsFurtherDown ==
  ASSUME NEW lot \in 1..MaxLot, NEW other \in 1..MaxLot, lot <= other
  PROVE  CodeLetterFor(lot) <= CodeLetterFor(other)
<1> DEFINE row == CodeLetterFor(lot)
           below == CodeLetterFor(other)
<1>1. /\ row \in Row /\ below \in Row
      /\ row > 1 => lot > LotUpTo[row - 1]
      /\ other <= LotUpTo[below]
  BY RowOfLot
<1> HIDE DEF row, below
<1>2. /\ LotUpTo[1] = 8 /\ LotUpTo[2] = 15 /\ LotUpTo[3] = 25 /\ LotUpTo[4] = 50 /\ LotUpTo[5] = 90
      /\ LotUpTo[6] = 150 /\ LotUpTo[7] = 280 /\ LotUpTo[8] = 500 /\ LotUpTo[9] = 1200
      /\ LotUpTo[10] = 3200 /\ LotUpTo[11] = 10000 /\ LotUpTo[12] = 35000 /\ LotUpTo[13] = 150000
      /\ LotUpTo[14] = 500000 /\ LotUpTo[15] = MaxLot
  BY SMT DEF LotUpTo
<1>3. \A i \in Row : i \in Int /\ (\/ i = 1 \/ i = 2 \/ i = 3 \/ i = 4 \/ i = 5 \/ i = 6 \/ i = 7 \/ i = 8
                              \/ i = 9 \/ i = 10 \/ i = 11 \/ i = 12 \/ i = 13 \/ i = 14 \/ i = 15)
  BY DEF Row
<1>4. ASSUME NEW i \in Row, NEW j \in Row, i <= j PROVE LotUpTo[i] <= LotUpTo[j] /\ LotUpTo[i] \in Nat
  BY <1>2, <1>3, <1>4, MaxLotAssumption, SMT
<1>5. SUFFICES ASSUME row > below PROVE FALSE
  BY <1>1, <1>3 DEF row, below
<1>6. row - 1 \in Row /\ below <= row - 1 /\ row > 1
  BY <1>1, <1>5 DEF Row
<1>7. LotUpTo[below] <= LotUpTo[row - 1] BY <1>1, <1>4, <1>6, SMT
<1>8. LotUpTo[below] \in Nat /\ LotUpTo[row - 1] \in Nat
  <2>1. below <= below /\ row - 1 <= row - 1 BY <1>1, <1>6, <1>3
  <2> QED BY <1>1, <1>4, <1>6, <2>1, SMT
<1> QED BY <1>1, <1>6, <1>7, <1>8, SMT

\* The plan of a lot is that of its row, by the arrow's for the first four, cut to the lot.
LEMMA PlanOfLot ==
  ASSUME NEW lot \in 1..MaxLot, lot # 1
  PROVE  LET p == PlanLetter(CodeLetterFor(lot))
             plan == PlanForLot(lot)
         IN  /\ p \in Row /\ CodeLetterFor(lot) \in Row
             /\ plan.sample = (IF SampleSizes[p] >= lot THEN lot ELSE SampleSizes[p])
             /\ plan.hundred = (SampleSizes[p] >= lot)
             /\ plan.accept = Accepts[p]
             /\ Accepts[p] < lot
<1> DEFINE row == CodeLetterFor(lot)
           p == PlanLetter(row)
<1>1. row \in Row /\ (row > 1 => lot > LotUpTo[row - 1])
  BY RowOfLot
<1>2. /\ PlanForLot(lot).sample = (IF SampleSizes[p] >= lot THEN lot ELSE SampleSizes[p])
      /\ PlanForLot(lot).hundred = (SampleSizes[p] >= lot)
      /\ PlanForLot(lot).accept = Accepts[p]
  BY DEF PlanForLot, Hundred
<1> HIDE DEF row
<1>3. p \in Row
  BY <1>1 DEF PlanLetter, ArrowTarget, Row
<1>4. Accepts[p] < lot
  <2>1. CASE row <= 7
    <3>1. p \in {5, 6, 7} BY <2>1, <1>1 DEF PlanLetter, ArrowTarget, Row
    <3>2. Accepts[5] = 0 /\ Accepts[6] = 0 /\ Accepts[7] = 0 BY DEF Accepts
    <3> QED BY <3>1, <3>2
  <2>2. CASE row > 7
    <3>1. p = row BY <2>2, <1>1 DEF PlanLetter, ArrowTarget, Row
    <3>2. Accepts[p] <= 14
      <4>1. Accepts[15] = 14 BY DEF Accepts
      <4>2. 15 \in Row /\ p <= 15 BY <1>3 DEF Row
      <4> QED BY <1>3, <4>1, <4>2, TableRows
    <3>3. \/ row = 8 \/ row = 9 \/ row = 10 \/ row = 11 \/ row = 12 \/ row = 13 \/ row = 14 \/ row = 15
      BY <2>2, <1>1 DEF Row
    <3>4. /\ LotUpTo[7] = 280 /\ LotUpTo[8] = 500 /\ LotUpTo[9] = 1200 /\ LotUpTo[10] = 3200
          /\ LotUpTo[11] = 10000 /\ LotUpTo[12] = 35000 /\ LotUpTo[13] = 150000 /\ LotUpTo[14] = 500000
      BY SMT DEF LotUpTo
    <3>5. lot > 14 BY <1>1, <2>2, <3>3, <3>4, SMT
    <3> QED BY <3>2, <3>5, <1>3, TableRows
  <2> QED BY <2>1, <2>2, <1>1 DEF Row
<1> QED BY <1>1, <1>2, <1>3, <1>4 DEF row

\* A case of a lot has a lot of the run.
LotCasesStay == case.of = "lot" => case.lot \in Lots

LEMMA LotsStay == Spec => []LotCasesStay
<1>1. Init => LotCasesStay
  BY DEF Init, LotCasesStay, SerialCases, ListCase, SeriesCases, LotCases, ConsignmentCases,
         EnvelopeCases, CredentialCases, RoleCases
<1>2. LotCasesStay /\ [Next]_case => LotCasesStay'
  <2>1. ASSUME LotCasesStay, WriteBit PROVE LotCasesStay'
    <3>1. case'.of = "list" BY <2>1 DEF WriteBit, ListCase
    <3> QED BY <3>1 DEF LotCasesStay
  <2>2. ASSUME LotCasesStay, UNCHANGED case PROVE LotCasesStay'
    BY <2>2 DEF LotCasesStay
  <2> QED BY <2>1, <2>2 DEF Next, Computed
<1> QED BY <1>1, <1>2, PTL DEF Spec

\* What EveryLotCanBeJudged says of one lot, and of two.
LEMMA OnePlan ==
  ASSUME NEW lot \in 1..MaxLot
  PROVE  LET plan == PlanForLot(lot) IN
         /\ plan.sample \in 1..lot /\ plan.accept \in Nat /\ plan.accept < plan.sample
         /\ plan.hundred <=> plan.sample = lot
<1>1. CASE lot = 1
  <2>1. PlanForLot(lot) = [letter |-> "A", sample |-> 1, accept |-> 0, reject |-> 1, hundred |-> TRUE]
    BY <1>1 DEF PlanForLot
  <2> QED BY <1>1, <2>1
<1>2. CASE lot # 1
  <2> DEFINE p == PlanLetter(CodeLetterFor(lot))
  <2>1. /\ p \in Row
        /\ PlanForLot(lot).sample = (IF SampleSizes[p] >= lot THEN lot ELSE SampleSizes[p])
        /\ PlanForLot(lot).hundred = (SampleSizes[p] >= lot)
        /\ PlanForLot(lot).accept = Accepts[p] /\ Accepts[p] < lot
    BY <1>2, PlanOfLot
  <2> HIDE DEF p
  <2>2. SampleSizes[p] \in Nat /\ Accepts[p] \in Nat /\ Accepts[p] < SampleSizes[p]
    BY <2>1, TableRows
  <2>3. lot \in Nat \ {0} /\ SampleSizes[p] > 0 BY <2>2, MaxLotAssumption, SMT
  <2>4. CASE SampleSizes[p] >= lot
    <3>1. PlanForLot(lot).sample = lot /\ PlanForLot(lot).hundred BY <2>1, <2>4
    <3>2. lot \in 1..lot BY <2>3, SMT
    <3> QED BY <2>1, <2>2, <3>1, <3>2
  <2>5. CASE ~(SampleSizes[p] >= lot)
    <3>1. PlanForLot(lot).sample = SampleSizes[p] /\ ~PlanForLot(lot).hundred BY <2>1, <2>5
    <3>2. SampleSizes[p] \in 1..lot /\ SampleSizes[p] # lot BY <2>2, <2>3, <2>5, SMT
    <3> QED BY <2>1, <2>2, <3>1, <3>2
  <2> QED BY <2>4, <2>5
<1> QED BY <1>1, <1>2

LEMMA TwoPlans ==
  ASSUME NEW lot \in 1..MaxLot, NEW other \in 1..MaxLot, lot <= other
  PROVE  /\ PlanForLot(lot).sample <= PlanForLot(other).sample
         /\ PlanForLot(lot).accept <= PlanForLot(other).accept
<1>1. CASE lot = 1
  <2>1. PlanForLot(lot).sample = 1 /\ PlanForLot(lot).accept = 0
    BY <1>1 DEF PlanForLot
  <2>2. PlanForLot(other).sample \in 1..other /\ PlanForLot(other).accept \in Nat
    BY OnePlan
  <2> QED BY <2>1, <2>2
<1>2. CASE lot # 1
  <2> DEFINE p == PlanLetter(CodeLetterFor(lot))
             q == PlanLetter(CodeLetterFor(other))
  <2>1. other # 1 BY <1>2
  <2>2. /\ p \in Row /\ CodeLetterFor(lot) \in Row
        /\ PlanForLot(lot).sample = (IF SampleSizes[p] >= lot THEN lot ELSE SampleSizes[p])
        /\ PlanForLot(lot).accept = Accepts[p]
    BY <1>2, PlanOfLot
  <2>3. /\ q \in Row /\ CodeLetterFor(other) \in Row
        /\ PlanForLot(other).sample = (IF SampleSizes[q] >= other THEN other ELSE SampleSizes[q])
        /\ PlanForLot(other).accept = Accepts[q]
    BY <2>1, PlanOfLot
  <2>4. p <= q
    BY <2>2, <2>3, LargerLotsFurtherDown DEF PlanLetter, ArrowTarget, Row
  <2> HIDE DEF p, q
  <2>5. /\ SampleSizes[p] \in Nat /\ SampleSizes[q] \in Nat /\ SampleSizes[p] <= SampleSizes[q]
        /\ Accepts[p] <= Accepts[q]
    BY <2>2, <2>3, <2>4, TableRows
  <2> QED BY <2>2, <2>3, <2>5
<1> QED BY <1>1, <1>2

\* plan_for_lot: every lot of the tables, not only those at their boundaries, can pass and can
\* fail, and larger lots are not sampled less.
THEOREM EveryLotJudged == Spec => []EveryLotCanBeJudged
<1>1. LotCasesStay => EveryLotCanBeJudged
  <2> SUFFICES ASSUME case.of = "lot", case.lot \in Lots PROVE EveryLotCanBeJudged
    BY DEF LotCasesStay, EveryLotCanBeJudged
  <2> DEFINE plan == PlanForLot(case.lot)
  <2>1. case.lot \in 1..MaxLot BY LotsAssumption
  <2>2. /\ plan.sample \in 1..case.lot /\ plan.accept \in Nat /\ plan.accept < plan.sample
        /\ plan.hundred <=> plan.sample = case.lot
    BY <2>1, OnePlan
  <2>3. {Passes(plan, d) : d \in 0..plan.sample} = BOOLEAN
    <3> HIDE DEF plan
    <3>1. 0 \in 0..plan.sample /\ plan.sample \in 0..plan.sample BY <2>2
    <3>2. Passes(plan, 0) = TRUE /\ Passes(plan, plan.sample) = FALSE BY <2>2 DEF Passes
    <3>3. \A d \in 0..plan.sample : Passes(plan, d) \in BOOLEAN BY DEF Passes
    <3> QED BY <3>1, <3>2, <3>3
  <2>4. \A other \in Lots : case.lot <= other =>
          plan.sample <= PlanForLot(other).sample /\ plan.accept <= PlanForLot(other).accept
    BY <2>1, TwoPlans, LotsAssumption
  <2> QED BY <2>2, <2>3, <2>4 DEF EveryLotCanBeJudged
<1> QED BY <1>1, LotsStay, PTL

-----------------------------------------------------------------------------
(* Segregation of duties *)

RoleCasesStay == case.of = "roles" => case.roles \subseteq Roles

LEMMA RolesStay == Spec => []RoleCasesStay
<1>1. Init => RoleCasesStay
  BY DEF Init, RoleCasesStay, SerialCases, ListCase, SeriesCases, LotCases, ConsignmentCases,
         EnvelopeCases, CredentialCases, RoleCases
<1>2. RoleCasesStay /\ [Next]_case => RoleCasesStay'
  <2>1. ASSUME RoleCasesStay, WriteBit PROVE RoleCasesStay'
    <3>1. case'.of = "list" BY <2>1 DEF WriteBit, ListCase
    <3> QED BY <3>1 DEF RoleCasesStay
  <2>2. ASSUME RoleCasesStay, UNCHANGED case PROVE RoleCasesStay'
    BY <2>2 DEF RoleCasesStay
  <2> QED BY <2>1, <2>2 DEF Next, Computed
<1> QED BY <1>1, <1>2, PTL DEF Spec

\* One role is permitted what the rules that name it cover.
Grants(rule, role, p) ==
  /\ role \in rule.roles
  /\ rule.resource \in {Star, p.resource} /\ rule.action \in {Star, p.action}
  /\ Star \in rule.classes \/ p.class \in rule.classes

LEMMA OneRole ==
  ASSUME NEW role, NEW p
  PROVE  Allow({role}, p) <=> \E rule \in Policies : Grants(rule, role, p)
<1>1. \A r \in Policies : Star \notin r.roles
  BY DEF Policies, Rule, Star
<1>2. \A r \in Policies : r.roles \cap {role} # {} <=> role \in r.roles
  OBVIOUS
<1> QED BY <1>1, <1>2 DEF Allow, Matches, Covers, Grants

\* The shipped policy read by route: which roles may call it.
LEMMA WhoMay ==
  ASSUME NEW role
  PROVE  /\ Allow({role}, Asked["create_assessment"]) <=> role \in {"excise-officer", "customs-officer"}
         /\ Allow({role}, Asked["decide"]) <=> role = "excise-approver"
         /\ Allow({role}, Asked["create_intent"]) <=> role \in {"excise-approver", "finance-officer"}
         /\ Allow({role}, Asked["record_receipt"]) <=> role = "finance-rail-callback"
         /\ Allow({role}, Asked["issue_batch"]) <=> role = "excise-officer"
         /\ Allow({role}, Asked["inspect_batch"]) <=> role = "quality-inspector"
<1>1. ASSUME NEW p
      PROVE  Allow({role}, p) <=>
        \/ Grants(Rule({"excise-officer", "customs-officer"}, "assessment", "create", {"INTERNAL", "CONFIDENTIAL"}), role, p)
        \/ Grants(Rule({"excise-approver"}, "assessment", "approve", {"INTERNAL", "CONFIDENTIAL"}), role, p)
        \/ Grants(Rule({"excise-approver", "finance-officer"}, "payment", "create", {"FIDUCIARY_SEGREGATED", "CONFIDENTIAL"}), role, p)
        \/ Grants(Rule({"finance-rail-callback"}, "payment", "settle", {"FIDUCIARY_SEGREGATED"}), role, p)
        \/ Grants(Rule({"excise-officer"}, "batch", "issue", {"CONFIDENTIAL"}), role, p)
        \/ Grants(Rule({"quality-inspector"}, "batch", "inspect", {"CONFIDENTIAL"}), role, p)
        \/ Grants(Rule({"excise-officer", "excise-approver"}, "batch", "activate", {"CONFIDENTIAL"}), role, p)
        \/ Grants(Rule({"excise-approver"}, "stamp", "void", {"CONFIDENTIAL"}), role, p)
        \/ Grants(Rule({"excise-officer", "excise-approver", "quality-inspector", "finance-officer", "auditor"}, Star, "read", {Star}), role, p)
        \/ Grants(Rule({"auditor"}, "ops", "read", {Star}), role, p)
  BY OneRole, Zenon DEF Policies
<1>2. /\ Asked["create_assessment"] = Permission("assessment", "create", "CONFIDENTIAL")
      /\ Asked["decide"] = Permission("assessment", "approve", "CONFIDENTIAL")
      /\ Asked["create_intent"] = Permission("payment", "create", "FIDUCIARY_SEGREGATED")
      /\ Asked["record_receipt"] = Permission("payment", "settle", "FIDUCIARY_SEGREGATED")
      /\ Asked["issue_batch"] = Permission("batch", "issue", "CONFIDENTIAL")
      /\ Asked["inspect_batch"] = Permission("batch", "inspect", "CONFIDENTIAL")
  BY DEF Asked
<1>3. Allow({role}, Permission("assessment", "create", "CONFIDENTIAL")) <=> role \in {"excise-officer", "customs-officer"}
  BY <1>1 DEF Grants, Rule, Permission, Star
<1>4. Allow({role}, Permission("assessment", "approve", "CONFIDENTIAL")) <=> role = "excise-approver"
  BY <1>1 DEF Grants, Rule, Permission, Star
<1>5. Allow({role}, Permission("payment", "create", "FIDUCIARY_SEGREGATED")) <=> role \in {"excise-approver", "finance-officer"}
  BY <1>1 DEF Grants, Rule, Permission, Star
<1>6. Allow({role}, Permission("payment", "settle", "FIDUCIARY_SEGREGATED")) <=> role = "finance-rail-callback"
  BY <1>1 DEF Grants, Rule, Permission, Star
<1>7. Allow({role}, Permission("batch", "issue", "CONFIDENTIAL")) <=> role = "excise-officer"
  BY <1>1 DEF Grants, Rule, Permission, Star
<1>8. Allow({role}, Permission("batch", "inspect", "CONFIDENTIAL")) <=> role = "quality-inspector"
  BY <1>1 DEF Grants, Rule, Permission, Star
<1> QED BY <1>2, <1>3, <1>4, <1>5, <1>6, <1>7, <1>8

\* The rule for readers and the one for operations are all that name the auditor.
LEMMA AuditorsRead ==
  ASSUME NEW p, Allow({"auditor"}, p)
  PROVE  p.action = "read"
<1>1. \A rule \in Policies : "auditor" \in rule.roles => rule.action = "read"
  BY DEF Policies, Rule
<1>2. PICK rule \in Policies : Grants(rule, "auditor", p)
  BY OneRole
<1> QED BY <1>1, <1>2 DEF Grants, Star

\* Every route is open to some role of the policy.
LEMMA EveryRouteIsOpen ==
  ASSUME NEW route \in DOMAIN Asked
  PROVE  Allow(Roles, Asked[route])
<1>1. \A rule \in Policies : rule.roles \subseteq Roles /\ rule.roles # {}
  <2>1. \A rule \in Policies : rule.roles \subseteq Roles BY Zenon DEF Roles
  <2>2. \A rule \in Policies : rule.roles # {} BY SMT DEF Policies, Rule
  <2> QED BY <2>1, <2>2, Zenon
<1>2. \E rule \in Policies : Covers(rule, Asked[route])
  <2>1. route \in {"create_declaration", "create_assessment", "get_assessment", "decide",
                   "create_intent", "record_receipt", "create_batch", "issue_batch",
                   "finalize_batch", "inspect_batch", "activate_batch", "get_stamp", "void_stamp"}
    BY DEF Asked
  <2> DEFINE Covered(p) == \E rule \in Policies : Covers(rule, p)
  <2>2. ASSUME NEW rule \in Policies, NEW p, rule.resource \in {Star, p.resource},
               rule.action = p.action, p.class \in rule.classes \/ Star \in rule.classes
        PROVE  Covered(p)
    BY <2>2 DEF Covers
  <2> HIDE DEF Covered
  <2> DEFINE r1 == Rule({"excise-officer", "customs-officer"}, "assessment", "create", {"INTERNAL", "CONFIDENTIAL"})
             r2 == Rule({"excise-approver"}, "assessment", "approve", {"INTERNAL", "CONFIDENTIAL"})
             r3 == Rule({"excise-approver", "finance-officer"}, "payment", "create", {"FIDUCIARY_SEGREGATED", "CONFIDENTIAL"})
             r4 == Rule({"finance-rail-callback"}, "payment", "settle", {"FIDUCIARY_SEGREGATED"})
             r5 == Rule({"excise-officer"}, "batch", "issue", {"CONFIDENTIAL"})
             r6 == Rule({"quality-inspector"}, "batch", "inspect", {"CONFIDENTIAL"})
             r7 == Rule({"excise-officer", "excise-approver"}, "batch", "activate", {"CONFIDENTIAL"})
             r8 == Rule({"excise-approver"}, "stamp", "void", {"CONFIDENTIAL"})
             r9 == Rule({"excise-officer", "excise-approver", "quality-inspector", "finance-officer", "auditor"}, Star, "read", {Star})
  <2>3. {r1, r2, r3, r4, r5, r6, r7, r8, r9} \subseteq Policies
    BY DEF Policies
  <2>4. /\ Covered(Permission("assessment", "create", "INTERNAL"))
        /\ Covered(Permission("assessment", "create", "CONFIDENTIAL"))
    BY <2>2, <2>3 DEF Rule, Permission
  <2>5. /\ Covered(Permission("assessment", "approve", "CONFIDENTIAL"))
        /\ Covered(Permission("payment", "create", "FIDUCIARY_SEGREGATED"))
        /\ Covered(Permission("payment", "settle", "FIDUCIARY_SEGREGATED"))
    BY <2>2, <2>3 DEF Rule, Permission
  <2>6. /\ Covered(Permission("batch", "issue", "CONFIDENTIAL"))
        /\ Covered(Permission("batch", "inspect", "CONFIDENTIAL"))
        /\ Covered(Permission("batch", "activate", "CONFIDENTIAL"))
        /\ Covered(Permission("stamp", "void", "CONFIDENTIAL"))
    BY <2>2, <2>3 DEF Rule, Permission
  <2>7. /\ Covered(Permission("assessment", "read", "CONFIDENTIAL"))
        /\ Covered(Permission("stamp", "read", "CONFIDENTIAL"))
    BY <2>2, <2>3 DEF Rule, Permission
  <2>8. Covered(Asked[route])
    BY <2>1, <2>4, <2>5, <2>6, <2>7 DEF Asked
  <2> QED BY <2>8 DEF Covered
<1>3. PICK rule \in Policies : Covers(rule, Asked[route])
  BY <1>2
<1>4. rule.roles \cap Roles # {}
  BY <1>1, <1>3
<1> QED BY <1>3, <1>4 DEF Allow, Matches

\* require_policy under the shipped rules: no role takes both sides of a duty, whatever the
\* combination of roles the case is about; an auditor only reads; no route is dead.
THEOREM DutiesSegregated == Spec => []DutiesAreSegregated
<1>1. RoleCasesStay => DutiesAreSegregated
  <2> SUFFICES ASSUME RoleCasesStay, case.of = "roles" PROVE DutiesAreSegregated
    BY DEF DutiesAreSegregated
  <2> DEFINE may == MayCall(case.roles)
             Both(a, b) == {a, b} \subseteq may
  <2>1. \A some, route : route \in MayCall(some) <=> route \in DOMAIN Asked /\ Allow(some, Asked[route])
    BY DEF MayCall
  <2>2. may = UNION {MayCall({role}) : role \in case.roles}
    BY RolesAddUp
  <2>3. case.roles = Roles => may = DOMAIN Asked
    BY <2>1, EveryRouteIsOpen
  <2>4. ASSUME Cardinality(case.roles) = 1
        PROVE  /\ ~Both("create_assessment", "decide")
               /\ ~Both("create_intent", "record_receipt")
               /\ ~Both("issue_batch", "inspect_batch")
    <3>1. IsFiniteSet(Roles)
      <4>1. Roles = {"excise-officer", "customs-officer", "excise-approver", "finance-officer",
                     "finance-rail-callback", "quality-inspector", "auditor"}
        BY DEF Roles, Policies, Rule
      <4>2. \A S, x : IsFiniteSet(S) => IsFiniteSet(S \cup {x})
        BY FS_AddElement
      <4>3. Roles = ((((((({} \cup {"excise-officer"}) \cup {"customs-officer"})
                        \cup {"excise-approver"}) \cup {"finance-officer"})
                        \cup {"finance-rail-callback"}) \cup {"quality-inspector"}) \cup {"auditor"})
        BY <4>1
      <4>4. IsFiniteSet({}) BY FS_EmptySet
      <4> QED BY <4>2, <4>3, <4>4, Zenon
    <3>2. IsFiniteSet(case.roles)
      BY <3>1, FS_Subset DEF RoleCasesStay
    <3>3. PICK role : case.roles = {role}
      BY <2>4, <3>2, FS_Singleton
    <3>4. \A route \in may : Allow({role}, Asked[route])
      BY <2>1, <3>3
    <3> HIDE DEF may
    <3> QED BY <3>4, WhoMay
  <2>5. case.roles = {"auditor"} => \A route \in may : Asked[route].action = "read"
    BY <2>1, AuditorsRead
  <2> QED BY <2>2, <2>3, <2>4, <2>5 DEF DutiesAreSegregated
<1> QED BY <1>1, RolesStay, PTL

-----------------------------------------------------------------------------
(* The bits of a status list *)

Bits == [0..7 -> 0..1]
Number(b) == b[0] + 2 * b[1] + 4 * b[2] + 8 * b[3] + 16 * b[4] + 32 * b[5] + 64 * b[6] + 128 * b[7]

LEMMA PowersOfTwo ==
  /\ 2^0 = 1 /\ 2^1 = 2 /\ 2^2 = 4 /\ 2^3 = 8
  /\ 2^4 = 16 /\ 2^5 = 32 /\ 2^6 = 64 /\ 2^7 = 128
  BY SMT

LEMMA BitsOfNumber ==
  ASSUME NEW b \in Bits
  PROVE  Number(b) \in 0..255 /\ \A p \in 0..7 : (Number(b) \div 2^p) % 2 = b[p]
<1>1. \A p \in 0..7 : b[p] \in 0..1 BY DEF Bits
<1> DEFINE v == Number(b)
<1>2. /\ b[0] \in 0..1 /\ b[1] \in 0..1 /\ b[2] \in 0..1 /\ b[3] \in 0..1
      /\ b[4] \in 0..1 /\ b[5] \in 0..1 /\ b[6] \in 0..1 /\ b[7] \in 0..1
  BY <1>1, SMT
<1>3. v = b[0] + 2 * b[1] + 4 * b[2] + 8 * b[3] + 16 * b[4] + 32 * b[5] + 64 * b[6] + 128 * b[7]
  BY DEF Number
<1> HIDE DEF v
<1>4. v \in 0..255 BY <1>2, <1>3, SMT
\* What is left of the byte above bit p, and what is below it.
<1> DEFINE w7 == b[7]
           w6 == b[6] + 2 * w7
           w5 == b[5] + 2 * w6
           w4 == b[4] + 2 * w5
           w3 == b[3] + 2 * w4
           w2 == b[2] + 2 * w3
           w1 == b[1] + 2 * w2
<1>5. /\ w1 \in 0..127 /\ w2 \in 0..63 /\ w3 \in 0..31 /\ w4 \in 0..15
      /\ w5 \in 0..7 /\ w6 \in 0..3 /\ w7 \in 0..1
  BY <1>2, SMT
<1>6. /\ w1 % 2 = b[1] /\ w2 % 2 = b[2] /\ w3 % 2 = b[3] /\ w4 % 2 = b[4]
      /\ w5 % 2 = b[5] /\ w6 % 2 = b[6] /\ w7 % 2 = b[7]
  <2>1. \A bit \in 0..1, above \in Nat : (bit + 2 * above) % 2 = bit
    BY SMT
  <2>2. w7 % 2 = b[7] BY <1>2, SMT
  <2> HIDE DEF w1, w2, w3, w4, w5, w6, w7
  <2>3. /\ w1 \in Nat /\ w2 \in Nat /\ w3 \in Nat /\ w4 \in Nat
        /\ w5 \in Nat /\ w6 \in Nat /\ w7 \in Nat
    BY <1>5, SMT
  <2> QED BY <1>2, <2>1, <2>2, <2>3 DEF w1, w2, w3, w4, w5, w6
<1>7. /\ v = b[0] + 2 * w1
      /\ v = b[0] + 2 * b[1] + 4 * w2
      /\ v = b[0] + 2 * b[1] + 4 * b[2] + 8 * w3
      /\ v = b[0] + 2 * b[1] + 4 * b[2] + 8 * b[3] + 16 * w4
      /\ v = b[0] + 2 * b[1] + 4 * b[2] + 8 * b[3] + 16 * b[4] + 32 * w5
      /\ v = b[0] + 2 * b[1] + 4 * b[2] + 8 * b[3] + 16 * b[4] + 32 * b[5] + 64 * w6
      /\ v = b[0] + 2 * b[1] + 4 * b[2] + 8 * b[3] + 16 * b[4] + 32 * b[5] + 64 * b[6] + 128 * w7
  BY <1>2, <1>3, SMT
<1> HIDE DEF w1, w2, w3, w4, w5, w6, w7
<1>7a. /\ w1 \in Nat /\ w2 \in Nat /\ w3 \in Nat /\ w4 \in Nat
       /\ w5 \in Nat /\ w6 \in Nat /\ w7 \in Nat
  BY <1>5, SMTT(30)
<1>8. /\ v \div 1 = v /\ v % 2 = b[0] /\ v \div 2 = w1 /\ v \div 4 = w2
      /\ v \div 8 = w3 /\ v \div 16 = w4
  <2>1. v \div 1 = v /\ v % 2 = b[0] /\ v \div 2 = w1
    <3>1. b[0] \in 0..1 /\ w1 \in Nat BY <1>2, <1>7a, Zenon
    <3>2. \A bit \in 0..1, above \in Nat :
            (bit + 2 * above) \div 2 = above /\ (bit + 2 * above) % 2 = bit
      BY SMT
    <3>3. v \div 1 = v BY <1>4, SMT
    <3> QED BY <1>7, <3>1, <3>2, <3>3
  <2>2. v \div 4 = w2
    <3> DEFINE low == b[0] + 2 * b[1]
    <3>1. low \in 0..3 BY <1>2, SMT
    <3>2. \A rest \in 0..3, above \in Nat : (rest + 4 * above) \div 4 = above BY SMT
    <3>3. w2 \in Nat BY <1>7a, Zenon
    <3>4. v = low + 4 * w2 BY <1>7, SMT
    <3> HIDE DEF low
    <3> QED BY <3>1, <3>2, <3>3, <3>4, SMT
  <2>3. v \div 8 = w3
    <3> DEFINE low == b[0] + 2 * b[1] + 4 * b[2]
    <3>1. low \in 0..7 BY <1>2, SMT
    <3>2. \A rest \in 0..7, above \in Nat : (rest + 8 * above) \div 8 = above BY SMT
    <3>3. w3 \in Nat BY <1>7a, Zenon
    <3>4. v = low + 8 * w3 BY <1>7, SMT
    <3> HIDE DEF low
    <3> QED BY <3>1, <3>2, <3>3, <3>4, SMT
  <2>4. v \div 16 = w4
    <3> DEFINE low == b[0] + 2 * b[1] + 4 * b[2] + 8 * b[3]
    <3>1. low \in 0..15 BY <1>2, SMT
    <3>2. \A rest \in 0..15, above \in Nat : (rest + 16 * above) \div 16 = above BY SMT
    <3>3. w4 \in Nat BY <1>7a, Zenon
    <3>4. v = low + 16 * w4 BY <1>7, SMT
    <3> HIDE DEF low
    <3> QED BY <3>1, <3>2, <3>3, <3>4, SMT
  <2> QED BY <2>1, <2>2, <2>3, <2>4
<1>9. v \div 32 = w5 /\ v \div 64 = w6 /\ v \div 128 = w7
  <2>1. v \div 32 = w5
    <3> DEFINE low == b[0] + 2 * b[1] + 4 * b[2] + 8 * b[3] + 16 * b[4]
    <3>1. low \in 0..31 BY <1>2, SMT
    <3>2. \A rest \in 0..31, above \in Nat : (rest + 32 * above) \div 32 = above BY SMT
    <3>3. w5 \in Nat BY <1>7a, Zenon
    <3>4. v = low + 32 * w5 BY <1>7, SMT
    <3> HIDE DEF low
    <3> QED BY <3>1, <3>2, <3>3, <3>4, SMT
  <2>2. v \div 64 = w6
    <3> DEFINE low == b[0] + 2 * b[1] + 4 * b[2] + 8 * b[3] + 16 * b[4] + 32 * b[5]
    <3>1. low \in 0..63 BY <1>2, SMT
    <3>2. \A rest \in 0..63, above \in Nat : (rest + 64 * above) \div 64 = above BY SMT
    <3>3. w6 \in Nat BY <1>7a, Zenon
    <3>4. v = low + 64 * w6 BY <1>7, SMT
    <3> HIDE DEF low
    <3> QED BY <3>1, <3>2, <3>3, <3>4, SMT
  <2>3. v \div 128 = w7
    <3> DEFINE low == b[0] + 2 * b[1] + 4 * b[2] + 8 * b[3] + 16 * b[4] + 32 * b[5] + 64 * b[6]
    <3>1. low \in 0..127 BY <1>2, SMT
    <3>2. \A rest \in 0..127, above \in Nat : (rest + 128 * above) \div 128 = above BY SMT
    <3>3. w7 \in Nat BY <1>7a, Zenon
    <3>4. v = low + 128 * w7 BY <1>7, SMT
    <3> HIDE DEF low
    <3> QED BY <3>1, <3>2, <3>3, <3>4, SMT
  <2> QED BY <2>1, <2>2, <2>3
<1> DEFINE Bit(p) == (v \div 2^p) % 2
<1>10. /\ Bit(0) = b[0] /\ Bit(1) = b[1] /\ Bit(2) = b[2] /\ Bit(3) = b[3]
       /\ Bit(4) = b[4] /\ Bit(5) = b[5] /\ Bit(6) = b[6] /\ Bit(7) = b[7]
  BY <1>6, <1>8, <1>9, PowersOfTwo
<1> HIDE DEF Bit
<1>11. \A p \in 0..7 : Bit(p) = b[p]
  BY <1>10, SMT
<1> QED BY <1>4, <1>11 DEF v, Bit

\* Every byte is the number of its bits.
LEMMA NumberOfBits ==
  ASSUME NEW v \in 0..255
  PROVE  \E b \in Bits : v = Number(b)
<1> DEFINE b == [p \in 0..7 |-> CASE p = 0 -> v % 2 [] p = 1 -> (v \div 2) % 2 [] p = 2 -> (v \div 4) % 2
                                [] p = 3 -> (v \div 8) % 2 [] p = 4 -> (v \div 16) % 2
                                [] p = 5 -> (v \div 32) % 2 [] p = 6 -> (v \div 64) % 2
                                [] p = 7 -> (v \div 128) % 2]
<1>1. /\ b[0] = v % 2 /\ b[1] = (v \div 2) % 2 /\ b[2] = (v \div 4) % 2 /\ b[3] = (v \div 8) % 2
      /\ b[4] = (v \div 16) % 2 /\ b[5] = (v \div 32) % 2 /\ b[6] = (v \div 64) % 2
      /\ b[7] = (v \div 128) % 2
      /\ b = [p \in 0..7 |-> b[p]]
  BY SMT
<1> HIDE DEF b
<1>2. \A p \in 0..7 : b[p] \in 0..1
  <2>1. ASSUME NEW p \in 0..7 PROVE b[p] \in 0..1
    <3>1. p \in {0, 1, 2, 3, 4, 5, 6, 7} BY SMT
    <3>2. /\ b[0] \in 0..1 /\ b[1] \in 0..1 /\ b[2] \in 0..1 /\ b[3] \in 0..1
          /\ b[4] \in 0..1 /\ b[5] \in 0..1 /\ b[6] \in 0..1 /\ b[7] \in 0..1
      BY <1>1, SMT
    <3> QED BY <3>1, <3>2
  <2> QED BY <2>1
<1>3. b \in Bits BY <1>1, <1>2, Zenon DEF Bits
<1>4. v = Number(b) BY <1>1, SMT DEF Number
<1> QED BY <1>3, <1>4

\* bytes[index // 8] |= 1 << position, or &= ~(1 << position): of the byte, that bit changes
\* and no other, without a carry or a borrow.
LEMMA OneBit ==
  ASSUME NEW v \in 0..255, NEW p \in 0..7,
         NEW w, (v \div 2^p) % 2 = 0 => w = v + 2^p, (v \div 2^p) % 2 # 0 => w = v - 2^p
  PROVE  /\ w \in 0..255
         /\ \A q \in 0..7 \ {p} : (w \div 2^q) % 2 = (v \div 2^q) % 2
         /\ (w \div 2^p) % 2 = 1 - ((v \div 2^p) % 2)
<1>1. PICK b \in Bits : v = Number(b) BY NumberOfBits
<1>2. \A q \in 0..7 : (v \div 2^q) % 2 = b[q] /\ b[q] \in 0..1
  BY <1>1, BitsOfNumber DEF Bits
<1> DEFINE c == [b EXCEPT ![p] = 1 - b[p]]
<1>3. 1 - b[p] \in 0..1 BY <1>2, SMT
<1>4. c \in Bits /\ \A q \in 0..7 : c[q] = IF q = p THEN 1 - b[p] ELSE b[q]
  BY <1>3 DEF Bits
<1> HIDE DEF c
<1>5. w = Number(c)
  <2>1. p \in {0, 1, 2, 3, 4, 5, 6, 7} BY SMT
  <2>2. /\ b[0] \in 0..1 /\ b[1] \in 0..1 /\ b[2] \in 0..1 /\ b[3] \in 0..1
        /\ b[4] \in 0..1 /\ b[5] \in 0..1 /\ b[6] \in 0..1 /\ b[7] \in 0..1
    BY <1>2, SMT
  <2>3. (b[p] = 0 => w = Number(b) + 2^p) /\ (b[p] = 1 => w = Number(b) - 2^p)
    <3> DEFINE bit == (v \div 2^p) % 2
    <3>1. (bit = 0 => w = v + 2^p) /\ (bit # 0 => w = v - 2^p) OBVIOUS
    <3>2. bit = b[p] BY <1>2
    <3> HIDE DEF bit
    <3>3. (b[p] = 0 => w = v + 2^p) /\ (b[p] # 0 => w = v - 2^p) BY <3>1, <3>2
    <3>4. b[p] = 1 => b[p] # 0 BY SMT
    <3> QED BY <1>1, <3>3, <3>4, Zenon
  <2>4. /\ c[0] = IF 0 = p THEN 1 - b[p] ELSE b[0]
        /\ c[1] = IF 1 = p THEN 1 - b[p] ELSE b[1]
        /\ c[2] = IF 2 = p THEN 1 - b[p] ELSE b[2]
        /\ c[3] = IF 3 = p THEN 1 - b[p] ELSE b[3]
        /\ c[4] = IF 4 = p THEN 1 - b[p] ELSE b[4]
        /\ c[5] = IF 5 = p THEN 1 - b[p] ELSE b[5]
        /\ c[6] = IF 6 = p THEN 1 - b[p] ELSE b[6]
        /\ c[7] = IF 7 = p THEN 1 - b[p] ELSE b[7]
    BY <1>4, SMT
  <2>5. CASE p = 0 BY <2>2, <2>3, <2>4, <2>5, PowersOfTwo, SMT DEF Number
  <2>6. CASE p = 1 BY <2>2, <2>3, <2>4, <2>6, PowersOfTwo, SMT DEF Number
  <2>7. CASE p = 2 BY <2>2, <2>3, <2>4, <2>7, PowersOfTwo, SMT DEF Number
  <2>8. CASE p = 3 BY <2>2, <2>3, <2>4, <2>8, PowersOfTwo, SMT DEF Number
  <2>9. CASE p = 4 BY <2>2, <2>3, <2>4, <2>9, PowersOfTwo, SMT DEF Number
  <2>10. CASE p = 5 BY <2>2, <2>3, <2>4, <2>10, PowersOfTwo, SMT DEF Number
  <2>11. CASE p = 6 BY <2>2, <2>3, <2>4, <2>11, PowersOfTwo, SMT DEF Number
  <2>12. CASE p = 7 BY <2>2, <2>3, <2>4, <2>12, PowersOfTwo, SMT DEF Number
  <2> QED BY <2>1, <2>5, <2>6, <2>7, <2>8, <2>9, <2>10, <2>11, <2>12
<1>6. w \in 0..255 /\ \A q \in 0..7 : (w \div 2^q) % 2 = c[q]
  BY <1>4, <1>5, BitsOfNumber
<1> DEFINE BitW(q) == (w \div 2^q) % 2
           BitV(q) == (v \div 2^q) % 2
<1>7. \A q \in 0..7 : BitW(q) = c[q] /\ BitV(q) = b[q]
  BY <1>2, <1>6
<1> HIDE DEF BitW, BitV
<1>8. (\A q \in 0..7 \ {p} : BitW(q) = BitV(q)) /\ BitW(p) = 1 - BitV(p)
  BY <1>4, <1>7
<1> QED BY <1>6, <1>8 DEF BitW, BitV

Bytes == [1..(ListSize \div 8) -> 0..255]

\* Where index i is: its byte and its bit, no other index being there.
LEMMA Places ==
  ASSUME NEW bytes \in Bytes
  PROVE  /\ Indexes(bytes) = 0..(8 * (ListSize \div 8) - 1)
         /\ \A i \in Indexes(bytes) : /\ i \div 8 + 1 \in 1..(ListSize \div 8)
                                      /\ Position(i) \in 0..7
         /\ \A i, j \in Indexes(bytes) :
              i \div 8 + 1 = j \div 8 + 1 /\ Position(i) = Position(j) => i = j
<1> DEFINE n == ListSize \div 8
<1>1. n \in Nat BY ListSizeAssumption, SMT
<1> HIDE DEF n
<1>2. bytes \in [1..n -> 0..255] BY DEF Bytes, n
<1>3. Len(bytes) = n BY <1>1, <1>2, SMT
<1>4. Indexes(bytes) = 0..(8 * n - 1) BY <1>3 DEF Indexes
<1>5. \A i \in 0..(8 * n - 1) : i \in Nat /\ i \div 8 + 1 \in 1..n /\ 7 - (i % 8) \in 0..7
  BY <1>1, SMT
<1>6. \A i, j \in Nat : i \div 8 + 1 = j \div 8 + 1 /\ 7 - (i % 8) = 7 - (j % 8) => i = j
  BY SMT
<1> QED BY <1>4, <1>5, <1>6 DEF Position, n

\* set: the flag is what was written, every other flag is what it was.
LEMMA SetBitSets ==
  ASSUME NEW bytes \in Bytes, NEW i \in Indexes(bytes), NEW value \in BOOLEAN
  PROVE  /\ SetBit(bytes, i, value) \in Bytes
         /\ Indexes(SetBit(bytes, i, value)) = Indexes(bytes)
         /\ \A j \in Indexes(bytes) :
              GetBit(SetBit(bytes, i, value), j) <=> IF j = i THEN value ELSE GetBit(bytes, j)
<1> DEFINE k == i \div 8 + 1
           p == Position(i)
           new == SetBit(bytes, i, value)
<1>1. k \in 1..(ListSize \div 8) /\ p \in 0..7 BY Places
<1>2. bytes[k] \in 0..255 BY <1>1 DEF Bytes
<1>3. \A some, j : GetBit(some, j) \in BOOLEAN BY DEF GetBit
<1>4. CASE GetBit(bytes, i) = value
  <2>1. new = bytes BY <1>4 DEF SetBit
  <2> QED BY <1>4, <2>1
<1>5. CASE GetBit(bytes, i) # value
  <2> DEFINE w == IF value THEN bytes[k] + 2^p ELSE bytes[k] - 2^p
             Bit(byte, q) == (byte \div 2^q) % 2
  <2>1. new = [bytes EXCEPT ![k] = w] BY <1>5 DEF SetBit
  <2>2. \A some, j : GetBit(some, j) <=> Bit(some[j \div 8 + 1], Position(j)) = 1
    BY DEF GetBit
  <2>3. Bit(bytes[k], p) \in 0..1
    <3>1. PICK b \in Bits : bytes[k] = Number(b) BY <1>2, NumberOfBits
    <3>2. Bit(bytes[k], p) = b[p] BY <1>1, <3>1, BitsOfNumber
    <3> QED BY <1>1, <3>2 DEF Bits
  <2> HIDE DEF Bit
  <2>4. (value => Bit(bytes[k], p) = 0) /\ (~value => Bit(bytes[k], p) = 1)
    <3>1. value # (Bit(bytes[k], p) = 1) BY <1>3, <1>5, <2>2
    <3>2. value <=> Bit(bytes[k], p) # 1 BY <3>1
    <3> QED BY <2>3, <3>2
  <2> HIDE DEF k, p
  <2>5. (Bit(bytes[k], p) = 0 => w = bytes[k] + 2^p) /\ (Bit(bytes[k], p) # 0 => w = bytes[k] - 2^p)
    <3>1. CASE value
      <4>1. Bit(bytes[k], p) = 0 BY <2>4, <3>1
      <4>2. w = bytes[k] + 2^p BY <3>1
      <4> QED BY <4>1, <4>2, Zenon
    <3>2. CASE ~value
      <4>1. Bit(bytes[k], p) # 0 BY <2>4, <3>2
      <4>2. w = bytes[k] - 2^p BY <3>2
      <4> QED BY <4>1, <4>2, Zenon
    <3> QED BY <3>1, <3>2
  <2> HIDE DEF w
  <2>6. /\ w \in 0..255
        /\ \A q \in 0..7 \ {p} : Bit(w, q) = Bit(bytes[k], q)
        /\ Bit(w, p) = 1 - Bit(bytes[k], p)
    <3> DEFINE old == bytes[k]
    <3>1. old \in 0..255 /\ p \in 0..7 BY <1>1, <1>2, Zenon
    <3>2. /\ (old \div 2^p) % 2 = 0 => w = old + 2^p
          /\ (old \div 2^p) % 2 # 0 => w = old - 2^p
      BY <2>5, Zenon DEF Bit
    <3> HIDE DEF old
    <3>3. /\ w \in 0..255
          /\ \A q \in 0..7 \ {p} : (w \div 2^q) % 2 = (old \div 2^q) % 2
          /\ (w \div 2^p) % 2 = 1 - ((old \div 2^p) % 2)
      BY <3>1, <3>2, OneBit, ZenonT(40)
    <3> QED BY <3>3, Zenon DEF Bit, old
  <2>7. new \in Bytes /\ new[k] = w /\ \A m \in 1..(ListSize \div 8) \ {k} : new[m] = bytes[m]
    BY <1>1, <2>1, <2>6 DEF Bytes
  <2> HIDE DEF new
  <2>8. Indexes(new) = Indexes(bytes) BY <2>7, Places
  <2>9. ASSUME NEW j \in Indexes(bytes)
        PROVE  GetBit(new, j) <=> IF j = i THEN value ELSE GetBit(bytes, j)
    <3>1. j \div 8 + 1 \in 1..(ListSize \div 8) /\ Position(j) \in 0..7 BY Places
    <3>2. CASE j = i
      <4>1. GetBit(new, j) <=> Bit(w, p) = 1 BY <2>2, <2>7, <3>2 DEF k, p
      <4>2. Bit(w, p) = 1 <=> value BY <2>4, <2>6
      <4> QED BY <3>2, <4>1, <4>2
    <3>3. CASE j # i /\ j \div 8 + 1 = k
      <4>1. Position(j) # p BY <3>3, Places DEF k, p
      <4>2. Bit(w, Position(j)) = Bit(bytes[k], Position(j)) BY <2>6, <3>1, <4>1
      <4>3. GetBit(new, j) <=> Bit(w, Position(j)) = 1 BY <2>2, <2>7, <3>3
      <4>4. GetBit(bytes, j) <=> Bit(bytes[k], Position(j)) = 1 BY <2>2, <3>3
      <4> QED BY <3>3, <4>2, <4>3, <4>4
    <3>4. CASE j # i /\ j \div 8 + 1 # k
      <4>1. new[j \div 8 + 1] = bytes[j \div 8 + 1] BY <2>7, <3>1, <3>4
      <4> QED BY <2>2, <3>4, <4>1
    <3> QED BY <3>2, <3>3, <3>4
  <2> QED BY <2>7, <2>8, <2>9 DEF new
<1> QED BY <1>4, <1>5

BytesInv == case.of = "list" => case.bytes \in Bytes /\ ReadsBack(case.bytes, case.flags)

\* After any writes, in any order, get reads exactly the flags that were last written TRUE.
LEMMA FlagsReadBack == Spec => []BytesInv
<1>1. Init => BytesInv
  <2>1. (case.of = "list" /\ Init) => case = ListCase(EmptyList(ListSize), {})
    BY DEF Init, SerialCases, ListCase, SeriesCases, LotCases, ConsignmentCases,
           EnvelopeCases, CredentialCases, RoleCases
  <2> SUFFICES ASSUME case = ListCase(EmptyList(ListSize), {}) PROVE BytesInv
    BY <2>1 DEF BytesInv
  <2>2. case.bytes = EmptyList(ListSize) /\ case.flags = {} BY DEF ListCase
  <2>3. case.bytes \in Bytes
    <3>1. 0 \in 0..255 BY SMT
    <3> QED BY <2>2, <3>1, ZenonT(40) DEF EmptyList, Bytes
  <2>4. ASSUME NEW i \in Indexes(case.bytes) PROVE ~GetBit(case.bytes, i)
    <3>1. i \div 8 + 1 \in 1..(ListSize \div 8) /\ Position(i) \in 0..7 BY <2>3, Places
    <3> DEFINE byte == case.bytes[i \div 8 + 1]
               Bit(p) == (0 \div 2^p) % 2
    <3>2. byte = 0 BY <2>2, <3>1, Zenon DEF EmptyList
    <3>3. /\ Bit(0) = 0 /\ Bit(1) = 0 /\ Bit(2) = 0 /\ Bit(3) = 0
          /\ Bit(4) = 0 /\ Bit(5) = 0 /\ Bit(6) = 0 /\ Bit(7) = 0
      BY PowersOfTwo, SMT
    <3> HIDE DEF Bit, byte
    <3>4. \A p \in 0..7 : Bit(p) = 0 BY <3>3, SMT
    <3>5. Bit(Position(i)) # 1 BY <3>1, <3>4
    <3>6. GetBit(case.bytes, i) <=> (byte \div 2^Position(i)) % 2 = 1 BY DEF GetBit, byte
    <3> QED BY <3>2, <3>5, <3>6, Zenon DEF Bit
  <2> QED BY <2>2, <2>3, <2>4 DEF BytesInv, ReadsBack
<1>2. BytesInv /\ [Next]_case => BytesInv'
  <2>1. ASSUME BytesInv, WriteBit PROVE BytesInv'
    <3>1. PICK i \in Indexes(case.bytes), value \in BOOLEAN :
            case' = ListCase(SetBit(case.bytes, i, value),
                             IF value THEN case.flags \cup {i} ELSE case.flags \ {i})
      BY <2>1 DEF WriteBit
    <3>2. case.bytes \in Bytes /\ ReadsBack(case.bytes, case.flags) BY <2>1 DEF WriteBit, BytesInv
    <3>3. /\ SetBit(case.bytes, i, value) \in Bytes
          /\ Indexes(SetBit(case.bytes, i, value)) = Indexes(case.bytes)
          /\ \A j \in Indexes(case.bytes) :
               GetBit(SetBit(case.bytes, i, value), j) <=> IF j = i THEN value ELSE GetBit(case.bytes, j)
      BY <3>2, SetBitSets
    <3>4. /\ case'.bytes = SetBit(case.bytes, i, value)
          /\ case'.flags = IF value THEN case.flags \cup {i} ELSE case.flags \ {i}
      BY <3>1 DEF ListCase
    <3>5. ReadsBack(case'.bytes, case'.flags)
      BY <3>2, <3>3, <3>4 DEF ReadsBack
    <3> QED BY <3>3, <3>4, <3>5 DEF BytesInv
  <2>2. ASSUME BytesInv, UNCHANGED case PROVE BytesInv'
    BY <2>2 DEF BytesInv
  <2> QED BY <2>1, <2>2 DEF Next, Computed
<1> QED BY <1>1, <1>2, PTL DEF Spec

Flag(flags, i) == IF i \in flags THEN 1 ELSE 0

\* The bits of a byte are the flags of its eight indexes, the first of them leftmost.
LEMMA BitsAreFlags ==
  ASSUME NEW bytes \in Bytes, NEW flags, ReadsBack(bytes, flags),
         NEW m \in Nat, m < ListSize \div 8
  PROVE  \E b \in Bits : /\ bytes[m + 1] = Number(b)
                         /\ \A j \in 0..7 : b[7 - j] = Flag(flags, 8 * m + j)
<1> DEFINE n == ListSize \div 8
<1>1. n \in Nat BY ListSizeAssumption, SMT
<1>2. Indexes(bytes) = 0..(8 * n - 1) BY Places, Zenon
<1>3. m < n OBVIOUS
<1> HIDE DEF n
<1>4. bytes[m + 1] \in 0..255
  <2>1. m + 1 \in 1..n BY <1>1, <1>3
  <2> QED BY <2>1, Zenon DEF Bytes, n
<1>5. PICK b \in Bits : bytes[m + 1] = Number(b) BY <1>4, NumberOfBits, Zenon
<1>6. ASSUME NEW j \in 0..7 PROVE b[7 - j] = Flag(flags, 8 * m + j)
  <2> DEFINE i == 8 * m + j
             p == 7 - j
  <2>1. i \in 0..(8 * n - 1) /\ i \div 8 = m /\ i % 8 = j BY <1>1, <1>3, SMT
  <2>2. p \in 0..7 OBVIOUS
  <2>3. Position(i) = p BY <2>1, Zenon DEF Position
  <2> HIDE DEF i, p
  <2>4. GetBit(bytes, i) <=> i \in flags BY <1>2, <2>1, Zenon DEF ReadsBack
  <2>5. GetBit(bytes, i) <=> (bytes[m + 1] \div 2^p) % 2 = 1 BY <2>1, <2>3, Zenon DEF GetBit
  <2>6. (bytes[m + 1] \div 2^p) % 2 = b[p] BY <1>5, <2>2, BitsOfNumber, Zenon
  <2>7. b[p] = 1 <=> i \in flags BY <2>4, <2>5, <2>6, Zenon
  <2>8. b[p] \in 0..1 BY <2>2, Zenon DEF Bits
  <2>9. b[p] = Flag(flags, i) BY <2>7, <2>8 DEF Flag
  <2> QED BY <2>9 DEF i, p
<1> QED BY <1>5, <1>6, Zenon

\* Eight steps of the loop over the bits, from f[k], and one of the loop over the bytes, from x.
EightSteps(f, k, b) ==
  /\ f[k + 1] = 2 * f[k] + b[7] /\ f[k + 2] = 2 * f[k + 1] + b[6]
  /\ f[k + 3] = 2 * f[k + 2] + b[5] /\ f[k + 4] = 2 * f[k + 3] + b[4]
  /\ f[k + 5] = 2 * f[k + 4] + b[3] /\ f[k + 6] = 2 * f[k + 5] + b[2]
  /\ f[k + 7] = 2 * f[k + 6] + b[1] /\ f[k + 8] = 2 * f[k + 7] + b[0]
Appended(x) == 256 * x

\* Horner's rule for the bits of a byte, leftmost first, from what came before it.
LEMMA Horner ==
  ASSUME NEW f, NEW k, f[k] \in Int, NEW b \in Bits, EightSteps(f, k, b)
  PROVE  f[k + 8] = Appended(f[k]) + Number(b)
<1> DEFINE x == f[k]
           x1 == f[k + 1]
           x2 == f[k + 2]
           x3 == f[k + 3]
           x4 == f[k + 4]
           x5 == f[k + 5]
           x6 == f[k + 6]
           x7 == f[k + 7]
           x8 == f[k + 8]
           b0 == b[0]
           b1 == b[1]
           b2 == b[2]
           b3 == b[3]
           b4 == b[4]
           b5 == b[5]
           b6 == b[6]
           b7 == b[7]
<1>1. /\ b0 \in Int /\ b1 \in Int /\ b2 \in Int /\ b3 \in Int
      /\ b4 \in Int /\ b5 \in Int /\ b6 \in Int /\ b7 \in Int
  BY SMT DEF Bits
<1>2. /\ x \in Int
      /\ x1 = 2 * x + b7 /\ x2 = 2 * x1 + b6 /\ x3 = 2 * x2 + b5 /\ x4 = 2 * x3 + b4
      /\ x5 = 2 * x4 + b3 /\ x6 = 2 * x5 + b2 /\ x7 = 2 * x6 + b1 /\ x8 = 2 * x7 + b0
  BY Zenon DEF EightSteps
<1>3. Number(b) = b0 + 2 * b1 + 4 * b2 + 8 * b3 + 16 * b4 + 32 * b5 + 64 * b6 + 128 * b7
  BY SMT DEF Number
<1> HIDE DEF x, x1, x2, x3, x4, x5, x6, x7, x8, b0, b1, b2, b3, b4, b5, b6, b7
\* Two bits at a time, then four, then the eight.
<1>4. \A z, c, d \in Int : 2 * z + c \in Int /\ 2 * (2 * z + c) + d = 4 * z + (2 * c + d)
  BY SMT
<1> DEFINE p3 == 2 * b7 + b6
           p2 == 2 * b5 + b4
           p1 == 2 * b3 + b2
           p0 == 2 * b1 + b0
<1>5. p3 \in Int /\ p2 \in Int /\ p1 \in Int /\ p0 \in Int BY <1>1
<1>6. x2 = 4 * x + p3
  <2>1. x \in Int /\ x1 = 2 * x + b7 /\ x2 = 2 * x1 + b6 BY <1>2, Zenon
  <2>2. b7 \in Int /\ b6 \in Int BY <1>1, Zenon
  <2> QED BY <1>4, <2>1, <2>2, Zenon
<1>7. x4 = 4 * x2 + p2
  <2>1. x2 \in Int BY <1>2, <1>5, <1>6 DEF p3
  <2>2. x3 = 2 * x2 + b5 /\ x4 = 2 * x3 + b4 BY <1>2, Zenon
  <2>3. b5 \in Int /\ b4 \in Int BY <1>1, Zenon
  <2> QED BY <1>4, <2>1, <2>2, <2>3, Zenon
<1> HIDE DEF p3, p2, p1, p0
<1>8. x \in Int /\ x2 \in Int /\ x4 \in Int
  <2>1. x \in Int BY <1>2, Zenon
  <2>2. x2 \in Int BY <1>5, <1>6, <2>1
  <2> QED BY <1>5, <1>7, <2>1, <2>2
<1>9. x6 = 4 * x4 + p1
  <2>1. x5 = 2 * x4 + b3 /\ x6 = 2 * x5 + b2 BY <1>2, Zenon
  <2>2. b3 \in Int /\ b2 \in Int BY <1>1, Zenon
  <2>3. x4 \in Int BY <1>8, Zenon
  <2> QED BY <1>4, <2>1, <2>2, <2>3, Zenon DEF p1
<1>10. x6 \in Int BY <1>5, <1>8, <1>9
<1>11. x8 = 4 * x6 + p0
  <2>1. x7 = 2 * x6 + b1 /\ x8 = 2 * x7 + b0 BY <1>2, Zenon
  <2>2. b1 \in Int /\ b0 \in Int BY <1>1, Zenon
  <2> QED BY <1>4, <1>10, <2>1, <2>2, Zenon DEF p0
<1> DEFINE q1 == 4 * p3 + p2
           q0 == 4 * p1 + p0
<1>12. q1 \in Int /\ q0 \in Int BY <1>5
<1>13. x4 = 16 * x + q1 BY <1>5, <1>6, <1>7, <1>8
<1>14. x8 = 16 * x4 + q0 BY <1>5, <1>8, <1>9, <1>11
<1> HIDE DEF q1, q0
<1>15. x8 = 256 * x + (16 * q1 + q0) BY <1>8, <1>12, <1>13, <1>14
<1>16. q1 = 8 * b7 + 4 * b6 + 2 * b5 + b4 BY <1>1 DEF q1, p3, p2
<1>17. q0 = 8 * b3 + 4 * b2 + 2 * b1 + b0 BY <1>1 DEF q0, p1, p0
<1>18. 16 * q1 + q0 = Number(b) BY <1>1, <1>3, <1>16, <1>17
<1>19. x8 = Appended(x) + Number(b) BY <1>15, <1>18, SMT DEF Appended
<1> QED BY <1>19, Zenon DEF x, x8

\* The values of the loop over n bits d.
Doubles(f, d, n) == \A i \in 1..n : f[i] = 2 * f[i - 1] + d[i]

\* The eight bits after the first k, leftmost first.
Octet(b, d, k) == \A j \in 0..7 : d[k + j + 1] = b[7 - j]

\* Eight steps of the loop over the bits are one step of the loop over the bytes.
LEMMA EightBitsAByte ==
  ASSUME NEW n \in Nat, NEW k \in Nat, k + 8 <= n, NEW f \in [0..n -> Int],
         NEW d, Doubles(f, d, n),
         NEW b \in Bits, Octet(b, d, k)
  PROVE  f[k + 8] = Appended(f[k]) + Number(b)
<1>1. ASSUME NEW j \in 0..7 PROVE k + j + 1 \in 1..n /\ (k + j + 1) - 1 = k + j
  <2>1. k + j + 1 \in 1..n BY SMT
  <2>2. (k + j + 1) - 1 = k + j BY SMT
  <2> QED BY <2>1, <2>2
<1>2. \A j \in 0..7 : f[k + j + 1] = 2 * f[k + j] + b[7 - j] BY <1>1, Zenon DEF Doubles, Octet
<1>3. EightSteps(f, k, b) BY <1>2, SMT DEF EightSteps
<1>4. f[k] \in Int
  <2>1. k \in 0..n OBVIOUS
  <2> QED BY <2>1
<1> QED BY <1>3, <1>4, Horner, Zenon

\* What get reads from the bytes is what their bitstring says.
LEMMA BytesAreTheBitstring ==
  ASSUME NEW bytes \in Bytes, NEW flags, ReadsBack(bytes, flags)
  PROVE  ValueOf(bytes) = Bitstring(flags, ListSize)
<1> DEFINE n == ListSize \div 8
           d == [i \in 1..ListSize |-> IF i - 1 \in flags THEN 1 ELSE 0]
<1>1. n \in Nat /\ ListSize = 8 * n /\ ListSize \in Nat BY ListSizeAssumption, SMT
<1> HIDE DEF n
<1>2. bytes \in Seq(Int) /\ Len(bytes) = n
  <2>0. \A v \in 0..255 : v \in Int OBVIOUS
  <2>1. bytes \in [1..n -> Int] BY <2>0, Zenon DEF Bytes, n
  <2> QED BY <1>1, <2>1, FunctionIsSequence, Zenon
<1>3. d \in Seq(Int) /\ Len(d) = ListSize
  <2>1. d \in [1..ListSize -> Int] OBVIOUS
  <2> HIDE DEF d
  <2> QED BY <1>1, <2>1, FunctionIsSequence, Zenon
<1>4. \A i \in 1..ListSize : d[i] = Flag(flags, i - 1) BY Zenon DEF Flag
<1>5. Bitstring(flags, ListSize) = InBase(2, d) BY DEF Bitstring
<1> HIDE DEF d
<1>6. PICK g \in [0..n -> Int] :
        g[0] = 0 /\ (\A i \in 1..n : g[i] = 256 * g[i - 1] + bytes[i]) /\ ValueOf(bytes) = g[n]
  <2>1. 256 \in Int OBVIOUS
  <2> QED BY <1>2, <2>1, InBaseUnfolds, ZenonT(40) DEF ValueOf
<1>7. PICK f \in [0..(8 * n) -> Int] :
        f[0] = 0 /\ Doubles(f, d, 8 * n) /\ InBase(2, d) = f[8 * n]
  <2>1. 2 \in Int OBVIOUS
  <2>2. Len(d) = 8 * n BY <1>1, <1>3
  <2>3. PICK f \in [0..Len(d) -> Int] :
          /\ f[0] = 0
          /\ \A i \in 1..Len(d) : f[i] = 2 * f[i - 1] + d[i]
          /\ InBase(2, d) = f[Len(d)]
    BY <1>3, <2>1, InBaseUnfolds, Zenon
  <2> QED BY <2>2, <2>3, Zenon DEF Doubles
<1> DEFINE S == {m \in Nat : m <= n => f[8 * m] = g[m]}
<1>8. 0 \in S
  <2>1. 8 * 0 = 0 /\ 0 \in Nat OBVIOUS
  <2> QED BY <1>6, <1>7, <2>1, Zenon
<1>9. ASSUME NEW m \in Nat, m \in S PROVE m + 1 \in S
  <2>0. m + 1 \in Nat OBVIOUS
  <2> SUFFICES ASSUME m + 1 <= n PROVE f[8 * (m + 1)] = g[m + 1]
    BY <2>0, Zenon
  <2>1. m < n /\ m <= n /\ m + 1 \in 1..n /\ (m + 1) - 1 = m BY <1>1
  <2>2. f[8 * m] = g[m] BY <1>9, <2>1
  <2>3. PICK b \in Bits : /\ bytes[m + 1] = Number(b)
                          /\ \A j \in 0..7 : b[7 - j] = Flag(flags, 8 * m + j)
    <3>1. m < ListSize \div 8 BY <2>1 DEF n
    <3> QED BY <3>1, BitsAreFlags
  <2>4. ASSUME NEW j \in 0..7 PROVE d[8 * m + j + 1] = b[7 - j]
    <3>1. 8 * m + j + 1 \in 1..ListSize /\ (8 * m + j + 1) - 1 = 8 * m + j BY <1>1, <2>1
    <3> QED BY <1>4, <2>3, <3>1, Zenon
  <2>5. f[8 * (m + 1)] = Appended(f[8 * m]) + Number(b)
    <3> DEFINE k == 8 * m
               bits == 8 * n
    <3>1. k \in Nat /\ bits \in Nat /\ k + 8 <= bits BY <1>1, <2>1
    <3>5. 8 * (m + 1) = k + 8 OBVIOUS
    <3>2. f \in [0..bits -> Int] /\ Doubles(f, d, bits) BY <1>7
    <3>3. Octet(b, d, k) BY <2>4 DEF Octet
    <3> HIDE DEF k, bits, S
    <3>4. f[k + 8] = Appended(f[k]) + Number(b) BY <3>1, <3>2, <3>3, EightBitsAByte, Zenon
    <3> QED BY <3>5, <3>4, Zenon DEF k
  <2>6. g[m + 1] = Appended(g[m]) + bytes[m + 1] BY <1>6, <2>1, ZenonT(40) DEF Appended
  <2> QED BY <2>2, <2>3, <2>5, <2>6, Zenon
<1> HIDE DEF S
<1>10. n \in S BY <1>1, <1>8, <1>9, SetInduction, Zenon
<1>11. f[8 * n] = g[n]
  <2>1. n <= n BY <1>1
  <2> QED BY <1>10, <2>1 DEF S
<1> QED BY <1>5, <1>6, <1>7, <1>11, Zenon

\* StatusList: after any writes, in any order, to a list of any size, the bytes are the bitstring
\* that the W3C specification defines for the flags last written TRUE, and get reads those.
THEOREM ListHoldsTheFlags == Spec => []BytesHoldTheFlags
<1>1. BytesInv => BytesHoldTheFlags
  BY BytesAreTheBitstring DEF BytesInv, BytesHoldTheFlags
<1> QED BY <1>1, FlagsReadBack, PTL

-----------------------------------------------------------------------------
(* Check characters *)

\* luhn_mod_n: a single character adds itself, a doubled one the sum of its two digits.
LEMMA Addends ==
  ASSUME NEW c \in 0..33
  PROVE  /\ Addend(c, 1) = c
         /\ Addend(c, 2) = (IF c < 17 THEN 2 * c ELSE 2 * c - 33)
<1>1. c \div 34 = 0 /\ c % 34 = c BY SMT
<1>2. CASE c < 17
  <2>1. (2 * c) \div 34 = 0 /\ (2 * c) % 34 = 2 * c BY <1>2, SMT
  <2> QED BY <1>1, <1>2, <2>1, SMT DEF Addend, N
<1>3. CASE ~(c < 17)
  <2>1. (2 * c) \div 34 = 1 /\ (2 * c) % 34 = 2 * c - 34 BY <1>3, SMT
  <2> QED BY <1>1, <1>3, <2>1, SMT DEF Addend, N
<1> QED BY <1>2, <1>3

\* The arithmetic behind SlipsAreRejected, over the whole alphabet: a wrong character moves the
\* sum by something that is not a multiple of 34, at a single and at a doubled place; so does the
\* exchange of two neighbours, but for the first and the last character of the alphabet, and a
\* doubled digit doubled wrong.
THEOREM SlipsShiftTheSum ==
  ASSUME NEW a \in 0..33, NEW b \in 0..33, a # b
  PROVE  /\ \A factor \in {1, 2} : (Addend(a, factor) - Addend(b, factor)) % N # 0
         /\ {a, b} # {0, 33} =>
              ((Addend(a, 1) + Addend(b, 2)) - (Addend(b, 1) + Addend(a, 2))) % N # 0
         /\ a \in CharDigits /\ b \in CharDigits =>
              ((Addend(a, 1) + Addend(a, 2)) - (Addend(b, 1) + Addend(b, 2))) % N # 0
<1>1. /\ Addend(a, 1) = a /\ Addend(a, 2) = (IF a < 17 THEN 2 * a ELSE 2 * a - 33)
      /\ Addend(b, 1) = b /\ Addend(b, 2) = (IF b < 17 THEN 2 * b ELSE 2 * b - 33)
  BY Addends
<1>2. ASSUME NEW d \in Int, -67 <= d, d <= 67, d # 0, d # 34, d # -34
      PROVE  d % N # 0
  <2>1. d % 34 # 0 BY <1>2, SMT
  <2> QED BY <2>1 DEF N
<1> DEFINE single == Addend(a, 1) - Addend(b, 1)
           double == Addend(a, 2) - Addend(b, 2)
           exchange == (Addend(a, 1) + Addend(b, 2)) - (Addend(b, 1) + Addend(a, 2))
           twins == (Addend(a, 1) + Addend(a, 2)) - (Addend(b, 1) + Addend(b, 2))
<1>3. single \in Int /\ -67 <= single /\ single <= 67 /\ single # 0 /\ single # 34 /\ single # -34
  BY <1>1, SMT
<1>4. double \in Int /\ -67 <= double /\ double <= 67 /\ double # 0 /\ double # 34 /\ double # -34
  BY <1>1, SMT
<1>5. exchange \in Int /\ -67 <= exchange /\ exchange <= 67
  BY <1>1, SMT
<1>6. {a, b} # {0, 33} => exchange # 0 /\ exchange # 34 /\ exchange # -34
  <2>1. {a, b} # {0, 33} => ~(a = 0 /\ b = 33) /\ ~(a = 33 /\ b = 0)
    OBVIOUS
  <2>2. ~(a = 0 /\ b = 33) /\ ~(a = 33 /\ b = 0) => exchange # 0 /\ exchange # 34 /\ exchange # -34
    BY <1>1, SMT
  <2> QED BY <2>1, <2>2
<1>7. ASSUME a \in CharDigits, b \in CharDigits
      PROVE  /\ twins \in Int /\ -67 <= twins /\ twins <= 67
             /\ twins # 0 /\ twins # 34 /\ twins # -34
  BY <1>1, <1>7, SMT DEF CharDigits
<1> HIDE DEF single, double, exchange, twins
<1>8. \A factor \in {1, 2} : (Addend(a, factor) - Addend(b, factor)) % N # 0
  <2>1. single % N # 0 /\ double % N # 0 BY <1>2, <1>3, <1>4
  <2> QED BY <2>1 DEF single, double
<1>9. {a, b} # {0, 33} => exchange % N # 0
  BY <1>2, <1>5, <1>6
<1>10. a \in CharDigits /\ b \in CharDigits => twins % N # 0
  BY <1>2, <1>7
<1> QED BY <1>8, <1>9, <1>10 DEF exchange, twins

\* A number without its last j digits.
Cut(n, j) == n \div 10^j

\* The powers of ten a number of ten digits is cut by.
LEMMA PowersOfTen ==
  \A j \in 0..9 : 10^j \in Nat \ {0} /\ (j < 9 => 10^(j + 1) = 10 * 10^j)
<1> DEFINE Good(j) == 10^j \in Nat \ {0} /\ (j < 9 => 10^(j + 1) = 10 * 10^j)
<1>1. /\ Good(0) /\ Good(1) /\ Good(2) /\ Good(3) /\ Good(4)
      /\ Good(5) /\ Good(6) /\ Good(7) /\ Good(8) /\ Good(9)
  BY SMT
<1> HIDE DEF Good
<1>2. \A j \in 0..9 : Good(j) BY <1>1, SMT
<1> QED BY <1>2 DEF Good

\* A number is its last digit and ten times the rest.
LEMMA LastDigit ==
  ASSUME NEW n \in Nat
  PROVE  n \div 10 \in Nat /\ n % 10 \in 0..9 /\ 10 * (n \div 10) + (n % 10) = n
<1>1. n \div 10 \in Nat BY SMT
<1>2. n % 10 \in 0..9 BY SMT
<1>3. 10 * (n \div 10) + (n % 10) = n BY SMT
<1> QED BY <1>1, <1>2, <1>3

\* Cutting digits off one at a time.
LEMMA CutByDigits ==
  ASSUME NEW n \in Nat
  PROVE  /\ Cut(n, 0) = n
         /\ \A j \in 0..9 : Cut(n, j) \in Nat
         /\ \A j \in 0..8 : Cut(n, j + 1) = Cut(n, j) \div 10
<1>1. \A m \in Nat \ {0} : n \div m \in Nat /\ n \div (10 * m) = (n \div m) \div 10
  BY SMT
<1>2. Cut(n, 0) = n BY SMT DEF Cut
<1>3. ASSUME NEW j \in 0..9
      PROVE  Cut(n, j) \in Nat /\ (j < 9 => Cut(n, j + 1) = Cut(n, j) \div 10)
  <2>1. 10^j \in Nat \ {0} /\ (j < 9 => 10^(j + 1) = 10 * 10^j) BY PowersOfTen
  <2> DEFINE m == 10^j
  <2>2. m \in Nat \ {0} /\ (j < 9 => 10^(j + 1) = 10 * m) BY <2>1
  <2> HIDE DEF m
  <2>3. n \div m \in Nat /\ n \div (10 * m) = (n \div m) \div 10 BY <1>1, <2>2
  <2>4. Cut(n, j) = n \div m BY DEF Cut, m
  <2>5. j < 9 => Cut(n, j + 1) = n \div (10 * m) BY <2>2, Zenon DEF Cut
  <2> QED BY <2>3, <2>4, <2>5
<1>4. \A j \in 0..8 : j \in 0..9 /\ j < 9 BY SMT
<1> QED BY <1>2, <1>3, <1>4, Zenon

\* f"{n:0kd}" consists of k digits.
LEMMA PaddedDigits ==
  ASSUME NEW n \in Nat, NEW k \in 1..10
  PROVE  Padded(n, k) \in [1..k -> 0..9]
<1>1. ASSUME NEW i \in 1..k PROVE Cut(n, k - i) % 10 \in 0..9
  <2>1. k - i \in 0..9 OBVIOUS
  <2> QED BY <2>1, CutByDigits, LastDigit
<1>2. Padded(n, k) = [i \in 1..k |-> Cut(n, k - i) % 10] BY DEF Padded, Cut
<1> QED BY <1>1, <1>2

\* int(f"{n:0kd}"): the number, when it has no more digits than that.
LEMMA PaddedReadsBack ==
  ASSUME NEW n \in Nat, NEW k \in 1..10, Cut(n, k - 1) < 10
  PROVE  NumberOf(Padded(n, k)) = n
<1> DEFINE d == Padded(n, k)
<1>1. k \in Nat /\ 10 \in Int BY SMT
<1>2. d \in [1..k -> 0..9] BY PaddedDigits
<1>3. \A i \in 1..k : d[i] = Cut(n, k - i) % 10 BY DEF Padded, Cut
<1>4. NumberOf(d) = InBase(10, d) BY DEF NumberOf
<1> HIDE DEF d
<1>5. d \in Seq(Int) /\ Len(d) = k
  <2>1. d \in [1..k -> Int] BY <1>2
  <2> QED BY <1>1, <2>1, FunctionIsSequence, Zenon
<1>6. PICK f \in [0..k -> Int] :
        f[0] = 0 /\ (\A i \in 1..k : f[i] = 10 * f[i - 1] + d[i]) /\ InBase(10, d) = f[k]
  BY <1>1, <1>5, InBaseUnfolds, Zenon
<1> DEFINE S == {i \in Nat : i \in 1..k => f[i] = Cut(n, k - i)}
<1>7. 0 \in S OBVIOUS
<1>8. ASSUME NEW i \in Nat, i \in S PROVE i + 1 \in S
  <2>0. i + 1 \in Nat OBVIOUS
  <2> SUFFICES ASSUME i + 1 \in 1..k PROVE f[i + 1] = Cut(n, k - (i + 1))
    BY <2>0, Zenon
  <2> DEFINE left == Cut(n, k - (i + 1))
  <2>1. /\ k - (i + 1) \in 0..9 /\ (i + 1) - 1 = i /\ (k - (i + 1)) + 1 = k - i
        /\ (i # 0 => k - (i + 1) \in 0..8 /\ i \in 1..k)
    OBVIOUS
  <2>2. left \in Nat /\ (i # 0 => Cut(n, k - i) = left \div 10)
    BY <2>1, CutByDigits, ZenonT(40)
  <2>3. f[i + 1] = 10 * f[i] + (left % 10) BY <1>3, <1>6, <2>1, Zenon
  <2>4. i # 0 => f[i] = Cut(n, k - i) BY <1>8, <2>1
  <2>5. i = 0 => f[i] = 0 /\ left < 10
    <3>1. i = 0 => k - (i + 1) = k - 1 OBVIOUS
    <3> QED BY <1>6, <3>1, Zenon
  <2> HIDE DEF left
  <2>6. left < 10 => left \div 10 = 0 BY <2>2
  <2>7. f[i] = left \div 10 BY <2>2, <2>4, <2>5, <2>6
  <2> QED BY <2>2, <2>3, <2>7, LastDigit DEF left
<1> HIDE DEF S
<1>9. k \in S BY <1>1, <1>7, <1>8, SetInduction, Zenon
<1>10. f[k] = Cut(n, 0)
  <2>1. k \in 1..k /\ k - k = 0 OBVIOUS
  <2> QED BY <1>9, <2>1, Zenon DEF S
<1> QED BY <1>4, <1>6, <1>10, CutByDigits, Zenon DEF d

\* An addend is a number, which TotalUnfolds needs to know.
LEMMA AddendIsNumber ==
  ASSUME NEW c \in 0..33, NEW factor \in {1, 2}
  PROVE  Addend(c, factor) \in Int
<1>1. c \in Int /\ 2 * c \in Int /\ 2 * c - 33 \in Int BY SMT
<1> QED BY <1>1, Addends

\* luhn_mod_n: the sum is a running total of the addends.
LEMMA LuhnAddends ==
  ASSUME NEW body \in Seq(0..33)
  PROVE  LET a == [i \in 1..Len(body) |-> Addend(body[i], Factor(body, i))] IN
         a \in Seq(Int) /\ Len(a) = Len(body) /\ LuhnTotal(body) = Total(a) /\ LuhnTotal(body) \in Int
<1> DEFINE a == [i \in 1..Len(body) |-> Addend(body[i], Factor(body, i))]
<1>1. Len(body) \in Nat /\ body \in [1..Len(body) -> 0..33] BY LenProperties, Zenon
<1>2. \A i \in 1..Len(body) : Factor(body, i) \in {1, 2} BY Zenon DEF Factor
<1>3. a \in [1..Len(body) -> Int] BY <1>1, <1>2, AddendIsNumber, Zenon
<1>4. LuhnTotal(body) = Total(a) BY DEF LuhnTotal
<1> HIDE DEF a
<1>5. a \in Seq(Int) /\ Len(a) = Len(body) BY <1>1, <1>3, FunctionIsSequence, Zenon
<1>6. Total(a) \in Int
  <2>1. PICK f \in [0..Len(a) -> Int] : Total(a) = f[Len(a)] BY <1>5, TotalUnfolds, Zenon
  <2>2. Len(a) \in 0..Len(a) BY <1>1, <1>5
  <2> QED BY <2>1, <2>2
<1> QED BY <1>4, <1>5, <1>6 DEF a

\* luhn_mod_n_check: the one character that makes the sum a multiple of 34.
LEMMA CheckCharacter ==
  ASSUME NEW body \in Seq(0..33)
  PROVE  /\ LuhnCheck(body) \in 0..33
         /\ \A c \in 0..33 : c = LuhnCheck(body) <=> (LuhnTotal(body) + c) % 34 = 0
<1> DEFINE total == LuhnTotal(body)
           r == total % 34
<1>1. total \in Int BY LuhnAddends, Zenon
<1>2. LuhnCheck(body) = (34 - r) % 34 BY DEF LuhnCheck, N
<1> HIDE DEF total
<1>3. r \in 0..33 /\ total \div 34 \in Int /\ total = 34 * (total \div 34) + r
  <2>1. \A t \in Int : t % 34 \in 0..33 /\ t \div 34 \in Int /\ t = 34 * (t \div 34) + (t % 34)
    BY SMT
  <2> QED BY <1>1, <2>1
<1> HIDE DEF r
<1>4. (34 - r) % 34 = IF r = 0 THEN 0 ELSE 34 - r
  <2>1. \A e \in 0..33 : (34 - e) % 34 = IF e = 0 THEN 0 ELSE 34 - e
    BY SMT
  <2> QED BY <1>3, <2>1, Zenon
<1>5. ASSUME NEW c \in 0..33
      PROVE  c = LuhnCheck(body) <=> (total + c) % 34 = 0
  <2> DEFINE m == total \div 34
  <2>1. \A t \in Int, e \in 0..67 : (34 * t + e) % 34 = 0 <=> e = 0 \/ e = 34
    BY SMT
  <2>2. m \in Int /\ total = 34 * m + r BY <1>3
  <2> HIDE DEF m
  <2>3. PICK e \in 0..67 : e = r + c /\ total + c = 34 * m + e BY <1>3, <2>2
  <2>4. (34 * m + e) % 34 = 0 <=> e = 0 \/ e = 34 BY <2>1, <2>2
  <2> DEFINE balanced == (total + c) % 34 = 0
  <2>5. balanced <=> r + c = 0 \/ r + c = 34 BY <2>3, <2>4
  <2>6. LuhnCheck(body) = IF r = 0 THEN 0 ELSE 34 - r BY <1>2, <1>4, Zenon
  <2> HIDE DEF balanced
  <2>7. c = LuhnCheck(body) <=> balanced BY <1>3, <2>5, <2>6
  <2> QED BY <2>7 DEF balanced
<1>6. LuhnCheck(body) \in 0..33 BY <1>2, <1>3, <1>4
<1> QED BY <1>5, <1>6 DEF total

\* The serial of a category, a year and a sequence number, part by part.
SerialOf(s, category, year, sequence) ==
  /\ s = BuildSerial(category, year, sequence)
  /\ SubSeq(s, 1, 3) = category
  /\ SubSeq(s, 4, 7) = Padded(year, 4)
  /\ SubSeq(s, 8, 17) = Padded(sequence, 10)
  /\ \A i \in 1..3 : s[i] = category[i]
  /\ \A i \in 4..17 : s[i] \in CharDigits
  /\ s[18] = LuhnCheck(Prefix \o SubSeq(s, 1, 17))

\* What build_serial makes: characters of the alphabet, digits where digits belong.
LEMMA BuiltSerial ==
  ASSUME NEW category \in CategoryCodes, NEW year \in Nat, NEW sequence \in Nat
  PROVE  \E s \in [1..18 -> 0..33] : SerialOf(s, category, year, sequence)
<1> DEFINE y == Padded(year, 4)
           q == Padded(sequence, 10)
           front == category \o y
           rest == front \o q
           check == LuhnCheck(Prefix \o rest)
           s == BuildSerial(category, year, sequence)
<1>1. y \in [1..4 -> 0..9] /\ q \in [1..10 -> 0..9] BY PaddedDigits, SMT
<1>2. category \in [1..3 -> 0..33] BY SMT DEF CategoryCodes
<1>3. s = Append(rest, check) BY DEF BuildSerial
<1> HIDE DEF y, q, s
<1>4. /\ category \in Seq(0..33) /\ Len(category) = 3
      /\ y \in Seq(0..33) /\ Len(y) = 4
      /\ q \in Seq(0..33) /\ Len(q) = 10
  <2>0. \A digit \in 0..9 : digit \in 0..33 OBVIOUS
  <2> DEFINE letters == 0..33
  <2>1. y \in [1..4 -> letters] /\ q \in [1..10 -> letters] BY <1>1, <2>0, Zenon
  <2>2. category \in [1..3 -> letters] BY <1>2
  <2> HIDE DEF letters
  <2>3. category \in Seq(letters) /\ Len(category) = 3
    <3>1. 3 \in Nat OBVIOUS
    <3> QED BY <2>2, <3>1, FunctionIsSequence, Zenon
  <2>4. y \in Seq(letters) /\ Len(y) = 4
    <3>1. 4 \in Nat OBVIOUS
    <3> QED BY <2>1, <3>1, FunctionIsSequence, Zenon
  <2>5. q \in Seq(letters) /\ Len(q) = 10
    <3>1. 10 \in Nat OBVIOUS
    <3> QED BY <2>1, <3>1, FunctionIsSequence, Zenon
  <2> QED BY <2>3, <2>4, <2>5, Zenon DEF letters
<1>5. /\ front \in Seq(0..33) /\ Len(front) = 7
      /\ \A i \in 1..7 : front[i] = IF i <= 3 THEN category[i] ELSE y[i - 3]
  <2>1. /\ front \in Seq(0..33) /\ Len(front) = Len(category) + Len(y)
        /\ \A i \in 1..(Len(category) + Len(y)) :
             front[i] = IF i <= Len(category) THEN category[i] ELSE y[i - Len(category)]
    BY <1>4, ConcatProperties, Zenon
  <2> HIDE DEF front
  <2> QED BY <1>4, <2>1, SMT
<1> HIDE DEF front
<1>6. /\ rest \in Seq(0..33) /\ Len(rest) = 17
      /\ \A i \in 1..17 : rest[i] = IF i <= 7 THEN front[i] ELSE q[i - 7]
  <2>1. /\ rest \in Seq(0..33) /\ Len(rest) = Len(front) + Len(q)
        /\ \A i \in 1..(Len(front) + Len(q)) :
             rest[i] = IF i <= Len(front) THEN front[i] ELSE q[i - Len(front)]
    BY <1>4, <1>5, ConcatProperties, Zenon
  <2> HIDE DEF rest
  <2> QED BY <1>4, <1>5, <2>1, SMT
<1> HIDE DEF rest
<1>7. check \in 0..33
  <2>1. Prefix \in Seq(0..33) BY SMT DEF Prefix
  <2>2. Prefix \o rest \in Seq(0..33) BY <1>6, <2>1, ConcatProperties
  <2> QED BY <2>2, CheckCharacter
<1> HIDE DEF check
<1>8. /\ s \in Seq(0..33) /\ Len(s) = 18 /\ s[18] = check
      /\ \A i \in 1..17 : s[i] = rest[i]
  <2>1. /\ s \in Seq(0..33) /\ Len(s) = Len(rest) + 1 /\ s[Len(rest) + 1] = check
        /\ \A i \in 1..Len(rest) : s[i] = rest[i]
    <3>1. s = Append(rest, check) /\ rest \in Seq(0..33) /\ check \in 0..33 BY <1>3, <1>6, <1>7
    <3> QED BY <3>1, AppendProperties
  <2> QED BY <1>6, <2>1, SMT
<1>9. s \in [1..18 -> 0..33] BY <1>8, LenProperties, Zenon
<1>10. SubSeq(s, 1, 17) = rest BY <1>6, <1>8, SMT
<1>11. \A i \in 1..17 : s[i] = IF i <= 3 THEN category[i] ELSE IF i <= 7 THEN y[i - 3] ELSE q[i - 7]
  <2>1. ASSUME NEW i \in 1..17
        PROVE  s[i] = IF i <= 3 THEN category[i] ELSE IF i <= 7 THEN y[i - 3] ELSE q[i - 7]
    <3>0. s[i] = rest[i] BY <1>8, Zenon
    <3>1. s[i] = IF i <= 7 THEN front[i] ELSE q[i - 7] BY <1>6, <3>0, Zenon
    <3>2. i <= 7 => front[i] = IF i <= 3 THEN category[i] ELSE y[i - 3] BY <1>5
    <3>3. i <= 3 => i <= 7 OBVIOUS
    <3> QED BY <3>1, <3>2, <3>3, Zenon
  <2> QED BY <2>1
<1>12. SubSeq(s, 1, 3) = category BY <1>2, <1>11, SMT
<1>13. SubSeq(s, 4, 7) = y
  <2>1. SubSeq(s, 4, 7) = [i \in 1..4 |-> s[i + 3]] BY <1>8, SMT
  <2>2. \A i \in 1..4 : s[i + 3] = y[i] BY <1>11, SMT
  <2> QED BY <1>1, <2>1, <2>2
<1>14. SubSeq(s, 8, 17) = q
  <2>1. SubSeq(s, 8, 17) = [i \in 1..10 |-> s[i + 7]] BY <1>8, SMT
  <2>2. \A i \in 1..10 : s[i + 7] = q[i] BY <1>11, SMT
  <2> QED BY <1>1, <2>1, <2>2
<1>15. \A i \in 1..3 : s[i] = category[i] BY <1>11, SMT
<1>16. \A i \in 4..17 : s[i] \in CharDigits
  <2>1. ASSUME NEW i \in 4..17 PROVE s[i] \in 0..9
    <3>1. CASE i <= 7
      <4>1. i - 3 \in 1..4 /\ i \in 1..17 /\ ~(i <= 3) BY <3>1
      <4> QED BY <1>1, <1>11, <3>1, <4>1
    <3>2. CASE ~(i <= 7)
      <4>1. i - 7 \in 1..10 /\ i \in 1..17 /\ ~(i <= 3) BY <3>2
      <4> QED BY <1>1, <1>11, <3>2, <4>1
    <3> QED BY <3>1, <3>2
  <2> QED BY <2>1 DEF CharDigits
<1>17. SerialOf(s, category, year, sequence)
  BY <1>8, <1>10, <1>12, <1>13, <1>14, <1>15, <1>16, Zenon DEF SerialOf, s, y, q, check
<1> QED BY <1>9, <1>17, Zenon

\* A whole serial under the weights of its check: with the check character, which counts once,
\* its total is a multiple of 34 exactly when the check is right.
Place(s, i) == IF i <= 2 THEN Prefix[i] ELSE s[i - 2]
Weight(i) == IF i % 2 = 1 THEN 2 ELSE 1
Weighed(s) == [i \in 1..20 |-> Addend(Place(s, i), Weight(i))]

Alphabetic == [1..18 -> 0..33]

\* The weighed serial is a sequence of numbers.
LEMMA WeighedIsSequence ==
  ASSUME NEW s \in Alphabetic
  PROVE  /\ \A i \in 1..20 : Place(s, i) \in 0..33 /\ Weight(i) \in {1, 2}
         /\ Weighed(s) \in [1..20 -> Int]
         /\ Weighed(s) \in Seq(Int) /\ Len(Weighed(s)) = 20
<1>1. Prefix[1] \in 0..33 /\ Prefix[2] \in 0..33 BY SMT DEF Prefix
<1>2. ASSUME NEW i \in 1..20 PROVE Place(s, i) \in 0..33 /\ Weight(i) \in {1, 2}
  <2>1. Weight(i) \in {1, 2} BY Zenon DEF Weight
  <2>2. CASE i <= 2
    <3>1. i = 1 \/ i = 2 BY <2>2
    <3>2. Place(s, i) = Prefix[i] BY <2>2, Zenon DEF Place
    <3> QED BY <1>1, <2>1, <3>1, <3>2
  <2>3. CASE ~(i <= 2)
    <3>1. i - 2 \in 1..18 BY <2>3
    <3>2. Place(s, i) = s[i - 2] BY <2>3, Zenon DEF Place
    <3> QED BY <2>1, <3>1, <3>2, Zenon DEF Alphabetic
  <2> QED BY <2>2, <2>3
<1>3. Weighed(s) \in [1..20 -> Int] BY <1>2, AddendIsNumber, ZenonT(40) DEF Weighed
<1>4. 20 \in Nat OBVIOUS
<1>5. Weighed(s) \in Seq(Int) /\ Len(Weighed(s)) = 20 BY <1>3, <1>4, FunctionIsSequence, ZenonT(40)
<1> QED BY <1>2, <1>3, <1>5, Zenon

\* What luhn_mod_n_check is given: the fixed letters and the serial up to its check.
LEMMA BodyPlaces ==
  ASSUME NEW S, Prefix \in Seq(S), NEW s \in [1..18 -> S]
  PROVE  LET body == Prefix \o SubSeq(s, 1, 17) IN
         body \in Seq(S) /\ Len(body) = 19 /\ \A i \in 1..19 : body[i] = Place(s, i)
<1> DEFINE body == Prefix \o SubSeq(s, 1, 17)
<1>1. /\ SubSeq(s, 1, 17) = [i \in 1..17 |-> s[i]]
      /\ SubSeq(s, 1, 17) \in Seq(S) /\ Len(SubSeq(s, 1, 17)) = 17
  <2>1. SubSeq(s, 1, 17) = [i \in 1..17 |-> s[i]] BY SMT
  <2>2. [i \in 1..17 |-> s[i]] \in [1..17 -> S] BY SMT
  <2>3. 17 \in Nat OBVIOUS
  <2>4. [i \in 1..17 |-> s[i]] \in Seq(S) /\ Len([i \in 1..17 |-> s[i]]) = 17
    BY <2>2, <2>3, FunctionIsSequence
  <2> QED BY <2>1, <2>4, Zenon
<1>2. Len(Prefix) = 2 BY SMT DEF Prefix
<1>3. /\ body \in Seq(S) /\ Len(body) = Len(Prefix) + Len(SubSeq(s, 1, 17))
      /\ \A i \in 1..(Len(Prefix) + Len(SubSeq(s, 1, 17))) :
           body[i] = IF i <= Len(Prefix) THEN Prefix[i] ELSE SubSeq(s, 1, 17)[i - Len(Prefix)]
  BY <1>1, ConcatProperties, ZenonT(40)
<1> HIDE DEF body
<1>4. body \in Seq(S) /\ Len(body) = 19 BY <1>1, <1>2, <1>3
<1>5. ASSUME NEW i \in 1..19 PROVE body[i] = Place(s, i)
  <2>0. i \in 1..(Len(Prefix) + Len(SubSeq(s, 1, 17))) BY <1>1, <1>2
  <2>1. body[i] = IF i <= 2 THEN Prefix[i] ELSE SubSeq(s, 1, 17)[i - 2]
    BY <1>2, <1>3, <2>0, Zenon
  <2>2. CASE i <= 2 BY <2>1, <2>2, Zenon DEF Place
  <2>3. CASE ~(i <= 2)
    <3>1. i - 2 \in 1..17 BY <2>3
    <3>2. SubSeq(s, 1, 17)[i - 2] = s[i - 2] BY <1>1, <3>1, Zenon
    <3> QED BY <2>1, <2>3, <3>2, Zenon DEF Place
  <2> QED BY <2>2, <2>3
<1> QED BY <1>4, <1>5 DEF body

\* The fixed letters are of the alphabet.
LEMMA PrefixIsAlphabetic == Prefix \in Seq(0..33) /\ Prefix \in Seq(Characters)
  BY SMT DEF Prefix, Characters

\* The weighed total is the sum of the body and the check character.
LEMMA WeighedTotal ==
  ASSUME NEW s \in Alphabetic
  PROVE  LET body == Prefix \o SubSeq(s, 1, 17) IN
         /\ body \in Seq(0..33)
         /\ Total(Weighed(s)) = LuhnTotal(body) + s[18]
<1> DEFINE body == Prefix \o SubSeq(s, 1, 17)
<1>1. s \in [1..18 -> 0..33] BY DEF Alphabetic
<1>3. /\ body \in Seq(0..33) /\ Len(body) = 19
      /\ \A i \in 1..19 : body[i] = Place(s, i)
  BY <1>1, PrefixIsAlphabetic, BodyPlaces, Zenon
<1> HIDE DEF body
<1> DEFINE a == [i \in 1..Len(body) |-> Addend(body[i], Factor(body, i))]
           w == Weighed(s)
<1>4. a \in Seq(Int) /\ Len(a) = 19 /\ LuhnTotal(body) = Total(a) BY <1>3, LuhnAddends, Zenon
<1>5. w \in Seq(Int) /\ Len(w) = 20 BY WeighedIsSequence, Zenon
<1>6. \A i \in 1..19 : a[i] = w[i]
  <2>1. ASSUME NEW i \in 1..19 PROVE a[i] = w[i]
    <3>1. i \in 1..Len(body) /\ i \in 1..20 BY <1>3
    <3>2. Factor(body, i) = Weight(i)
      <4>1. (19 - i) % 2 = 0 <=> i % 2 = 1 BY SMT
      <4> QED BY <1>3, <4>1, Zenon DEF Factor, Weight
    <3>3. a[i] = Addend(body[i], Factor(body, i)) BY <3>1, Zenon
    <3>4. w[i] = Addend(Place(s, i), Weight(i)) BY <3>1, Zenon DEF Weighed
    <3> QED BY <1>3, <3>2, <3>3, <3>4, Zenon
  <2> QED BY <2>1
<1>7. w[20] = s[18] /\ s[18] \in Int
  <2>1. s[18] \in 0..33 BY SMT DEF Alphabetic
  <2>2. Place(s, 20) = s[18] BY SMT DEF Place
  <2>3. Weight(20) = 1 BY SMT DEF Weight
  <2>4. 20 \in 1..20 OBVIOUS
  <2>5. w[20] = Addend(s[18], 1) BY <2>2, <2>3, <2>4, Zenon DEF Weighed
  <2> QED BY <2>1, <2>5, Addends
<1> HIDE DEF a, w
<1>8. PICK f \in [0..19 -> Int] :
        f[0] = 0 /\ (\A i \in 1..19 : f[i] = f[i - 1] + a[i]) /\ Total(a) = f[19]
  BY <1>4, TotalUnfolds, Zenon
<1>9. PICK g \in [0..20 -> Int] :
        g[0] = 0 /\ (\A i \in 1..20 : g[i] = g[i - 1] + w[i]) /\ Total(w) = g[20]
  BY <1>5, TotalUnfolds, Zenon
<1> DEFINE S == {i \in Nat : i <= 19 => f[i] = g[i]}
<1>10. 0 \in S BY <1>8, <1>9
<1>11. ASSUME NEW i \in Nat, i \in S PROVE i + 1 \in S
  <2>0. i + 1 \in Nat OBVIOUS
  <2> SUFFICES ASSUME i + 1 <= 19 PROVE f[i + 1] = g[i + 1]
    BY <2>0, Zenon
  <2>1. i + 1 \in 1..19 /\ i + 1 \in 1..20 /\ (i + 1) - 1 = i /\ i <= 19 OBVIOUS
  <2>2. f[i + 1] = f[i] + a[i + 1] BY <1>8, <2>1, Zenon
  <2>3. g[i + 1] = g[i] + w[i + 1] BY <1>9, <2>1, Zenon
  <2>4. f[i] = g[i] BY <1>11, <2>1
  <2> QED BY <1>6, <2>1, <2>2, <2>3, <2>4, Zenon
<1> HIDE DEF S
<1>12. 19 \in S BY <1>10, <1>11, SetInduction
<1>13. f[19] = g[19] BY <1>12 DEF S
<1>14. g[20] = g[19] + w[20]
  <2>1. 20 \in 1..20 /\ 20 - 1 = 19 OBVIOUS
  <2> QED BY <1>9, <2>1, Zenon
<1> QED BY <1>3, <1>4, <1>7, <1>8, <1>9, <1>13, <1>14, Zenon DEF body, w

\* One character replaced moves the total by what its addend moves.
LEMMA ReplacedMovesTotal ==
  ASSUME NEW s \in Alphabetic, NEW i \in 1..18, NEW c \in 0..33
  PROVE  /\ Replaced(s, i, c) \in Alphabetic
         /\ Total(Weighed(s)) \in Int
         /\ Total(Weighed(Replaced(s, i, c)))
              = Total(Weighed(s)) + (Addend(c, Weight(i)) - Addend(s[i], Weight(i)))
<1> DEFINE t == Replaced(s, i, c)
           k == i + 2
           v == Addend(c, Weight(i))
<1>1. /\ t \in Alphabetic
      /\ \A j \in 1..18 : t[j] = IF j = i THEN c ELSE s[j]
  BY DEF Alphabetic, Replaced
<1>2. k \in 1..20 /\ k - 2 = i /\ ~(k <= 2) OBVIOUS
<1>3. Weight(k) = Weight(i)
  <2>1. (i + 2) % 2 = i % 2 BY SMT
  <2> QED BY <2>1, Zenon DEF Weight
<1>4. Place(s, k) = s[i] BY <1>2, Zenon DEF Place
<1>5. ASSUME NEW j \in 1..20 PROVE Place(t, j) = IF j = k THEN c ELSE Place(s, j)
  <2>1. CASE j <= 2 BY <1>2, <2>1 DEF Place
  <2>2. CASE ~(j <= 2)
    <3>1. j - 2 \in 1..18 /\ (j - 2 = i <=> j = k) BY <2>2
    <3>2. t[j - 2] = IF j - 2 = i THEN c ELSE s[j - 2] BY <1>1, <3>1, Zenon
    <3>3. Place(t, j) = t[j - 2] /\ Place(s, j) = s[j - 2] BY <2>2, Zenon DEF Place
    <3> QED BY <3>1, <3>2, <3>3, Zenon
  <2> QED BY <2>1, <2>2
<1>6. v \in Int
  <2>1. i \in 1..20 OBVIOUS
  <2> QED BY <2>1, WeighedIsSequence, AddendIsNumber, Zenon
<1> HIDE DEF t, k
<1>7. Weighed(t) = [Weighed(s) EXCEPT ![k] = v]
  <2>1. ASSUME NEW j \in 1..20 PROVE Weighed(t)[j] = [Weighed(s) EXCEPT ![k] = v][j]
    <3>1. Weighed(t)[j] = Addend(Place(t, j), Weight(j)) BY Zenon DEF Weighed
    <3>2. Weighed(s)[j] = Addend(Place(s, j), Weight(j)) BY Zenon DEF Weighed
    <3>3. CASE j = k
      <4>1. Weighed(t)[j] = v BY <1>3, <1>5, <3>1, <3>3, Zenon
      <4>2. k \in DOMAIN Weighed(s) BY <1>2, Zenon DEF Weighed
      <4> QED BY <3>3, <4>1, <4>2, Zenon
    <3>4. CASE j # k
      <4>1. Weighed(t)[j] = Weighed(s)[j] BY <1>5, <3>1, <3>2, <3>4, Zenon
      <4>2. j \in DOMAIN Weighed(s) BY Zenon DEF Weighed
      <4> QED BY <3>4, <4>1, <4>2, Zenon
    <3> QED BY <3>3, <3>4
  <2>2. Weighed(t) = [j \in 1..20 |-> Weighed(t)[j]] BY Zenon DEF Weighed
  <2>3. [Weighed(s) EXCEPT ![k] = v] = [j \in 1..20 |-> [Weighed(s) EXCEPT ![k] = v][j]]
    BY Zenon DEF Weighed
  <2> QED BY <2>1, <2>2, <2>3, Zenon
<1>8. Weighed(s)[k] = Addend(s[i], Weight(i)) BY <1>2, <1>3, <1>4, Zenon DEF Weighed
<1>9. Weighed(s) \in Seq(Int) /\ k \in 1..Len(Weighed(s))
  BY <1>2, WeighedIsSequence, Zenon
<1>10. /\ Total(Weighed(s)) \in Int
       /\ Total([Weighed(s) EXCEPT ![k] = v]) = Total(Weighed(s)) + (v - Weighed(s)[k])
  BY <1>6, <1>9, TotalMoves, Zenon
<1> QED BY <1>1, <1>7, <1>8, <1>10, Zenon DEF t

\* A valid serial is one of the alphabet, of the pattern, whose weighed total is a multiple of 34.
LEMMA ValidIsBalanced ==
  ASSUME NEW s \in [1..18 -> Characters]
  PROVE  ValidSerial(s) <=> /\ s \in Alphabetic /\ MatchesPattern(s)
                            /\ Total(Weighed(s)) % 34 = 0
<1> DEFINE body == Prefix \o SubSeq(s, 1, 17)
<1>1. body \in Seq(Characters) /\ Len(body) = 19 /\ \A i \in 1..19 : body[i] = Place(s, i)
  BY PrefixIsAlphabetic, BodyPlaces, Zenon
<1>2. ValidSerial(s) <=> /\ MatchesPattern(s)
                         /\ \A i \in 1..Len(body) : body[i] < 34
                         /\ s[18] < 34 /\ s[18] = LuhnCheck(body)
  BY DEF ValidSerial, LuhnValid, N
<1> HIDE DEF body
<1>3. (\A i \in 1..Len(body) : body[i] < 34) /\ s[18] < 34 <=> s \in Alphabetic
  <2>1. ASSUME \A i \in 1..Len(body) : body[i] < 34, s[18] < 34 PROVE s \in Alphabetic
    <3>1. ASSUME NEW j \in 1..18 PROVE s[j] \in 0..33
      <4>1. s[j] \in 0..35 BY DEF Characters
      <4>2. CASE j = 18
        <5>1. s[j] < 34 BY <2>1, <4>2, Zenon
        <5> QED BY <4>1, <5>1
      <4>3. CASE j # 18
        <5>1. j + 2 \in 1..19 /\ (j + 2) - 2 = j /\ ~(j + 2 <= 2) BY <4>3
        <5>2. Place(s, j + 2) = s[j] BY <5>1, Zenon DEF Place
        <5>3. body[j + 2] < 34 BY <1>1, <2>1, <5>1, Zenon
        <5>4. s[j] < 34 BY <1>1, <5>1, <5>2, <5>3, Zenon
        <5> QED BY <4>1, <5>4
      <4> QED BY <4>2, <4>3
    <3> QED BY <3>1 DEF Alphabetic
  <2>2. ASSUME s \in Alphabetic PROVE (\A i \in 1..Len(body) : body[i] < 34) /\ s[18] < 34
    <3>1. \A i \in 1..19 : body[i] \in 0..33
      <4>1. \A i \in 1..19 : i \in 1..20 OBVIOUS
      <4> QED BY <1>1, <2>2, <4>1, WeighedIsSequence, Zenon
    <3>2. s[18] \in 0..33 BY <2>2, SMT DEF Alphabetic
    <3>3. \A c \in 0..33 : c < 34 OBVIOUS
    <3> QED BY <1>1, <3>1, <3>2, <3>3, Zenon
  <2> QED BY <2>1, <2>2
<1>4. ASSUME s \in Alphabetic
      PROVE  s[18] = LuhnCheck(body) <=> Total(Weighed(s)) % 34 = 0
  <2>1. body \in Seq(0..33) /\ Total(Weighed(s)) = LuhnTotal(body) + s[18]
    BY <1>4, WeighedTotal, Zenon DEF body
  <2>2. s[18] \in 0..33 BY <1>4, SMT DEF Alphabetic
  <2>3. s[18] = LuhnCheck(body) <=> (LuhnTotal(body) + s[18]) % 34 = 0
    BY <2>1, <2>2, CheckCharacter, Zenon
  <2> QED BY <2>1, <2>3, Zenon
<1> QED BY <1>2, <1>3, <1>4, Zenon

\* Two multiples of 34 differ by one.
LEMMA DifferenceBalances ==
  ASSUME NEW x \in Int, NEW d \in Int, x % 34 = 0, (x + d) % 34 = 0
  PROVE  d % 34 = 0
  BY SMT

\* One character wrong.
LEMMA WrongCharacter ==
  ASSUME NEW s \in Alphabetic, Total(Weighed(s)) % 34 = 0,
         NEW i \in 1..18, NEW c \in Characters, c # s[i]
  PROVE  ~ValidSerial(Replaced(s, i, c))
<1> DEFINE t == Replaced(s, i, c)
<1>1. s[i] \in 0..33 /\ t \in [1..18 -> Characters] /\ t[i] = c
  BY DEF Alphabetic, Characters, Replaced
<1> SUFFICES ASSUME ValidSerial(t) PROVE FALSE
  OBVIOUS
<1>2. t \in Alphabetic /\ Total(Weighed(t)) % 34 = 0 BY <1>1, ValidIsBalanced, Zenon
<1>3. c \in 0..33 BY <1>1, <1>2, Zenon DEF Alphabetic
<1> DEFINE d == Addend(c, Weight(i)) - Addend(s[i], Weight(i))
           total == Total(Weighed(s))
<1>4. Weight(i) \in {1, 2} BY Zenon DEF Weight
<1>5. d \in Int
  <2>1. Addend(c, Weight(i)) \in Int /\ Addend(s[i], Weight(i)) \in Int
    BY <1>1, <1>3, <1>4, AddendIsNumber, Zenon
  <2> QED BY <2>1
<1>6. d % 34 # 0 BY <1>1, <1>3, <1>4, SlipsShiftTheSum, Zenon DEF N
<1>7. total \in Int /\ Total(Weighed(t)) = total + d BY <1>3, ReplacedMovesTotal, Zenon
<1> HIDE DEF d, t
<1>8. total % 34 = 0 /\ (total + d) % 34 = 0 BY <1>2, <1>7, Zenon
<1> HIDE DEF total
<1> QED BY <1>5, <1>6, <1>7, <1>8, DifferenceBalances, Zenon

\* Two neighbours wrong: one of them counts double.
LEMMA WrongPair ==
  ASSUME NEW s \in Alphabetic, Total(Weighed(s)) % 34 = 0,
         NEW i \in 1..17, NEW c \in 0..33, NEW e \in 0..33,
         LET t == Replaced(Replaced(s, i, c), i + 1, e) IN ValidSerial(t)
  PROVE  \/ ((Addend(c, 1) + Addend(e, 2)) - (Addend(s[i], 1) + Addend(s[i + 1], 2))) % 34 = 0
         \/ ((Addend(e, 1) + Addend(c, 2)) - (Addend(s[i + 1], 1) + Addend(s[i], 2))) % 34 = 0
<1> DEFINE u == Replaced(s, i, c)
           t == Replaced(u, i + 1, e)
           a == s[i]
           b == s[i + 1]
           total == Total(Weighed(s))
<1>1. i \in 1..18 /\ i + 1 \in 1..18 /\ i + 1 # i OBVIOUS
<1>2. a \in 0..33 /\ b \in 0..33 BY <1>1, Zenon DEF Alphabetic
<1>3. /\ u \in Alphabetic /\ total \in Int
      /\ Total(Weighed(u)) = total + (Addend(c, Weight(i)) - Addend(a, Weight(i)))
  BY <1>1, ReplacedMovesTotal, Zenon
<1>4. u[i + 1] = b
  <2>1. i + 1 \in DOMAIN s BY <1>1, Zenon DEF Alphabetic
  <2> QED BY <1>1, <2>1, Zenon DEF Replaced
<1> HIDE DEF u
<1>5. /\ t \in Alphabetic
      /\ Total(Weighed(t)) = Total(Weighed(u)) + (Addend(e, Weight(i + 1)) - Addend(b, Weight(i + 1)))
  <2> DEFINE j == i + 1
  <2>1. j \in 1..18 /\ u \in Alphabetic /\ u[j] = b BY <1>1, <1>3, <1>4, Zenon
  <2> HIDE DEF j, b
  <2>2. /\ Replaced(u, j, e) \in Alphabetic
        /\ Total(Weighed(Replaced(u, j, e)))
             = Total(Weighed(u)) + (Addend(e, Weight(j)) - Addend(u[j], Weight(j)))
    BY <2>1, ReplacedMovesTotal, Zenon
  <2> QED BY <2>1, <2>2, Zenon DEF j
<1>6. Total(Weighed(t)) % 34 = 0
  <2>1. t \in [1..18 -> Characters] BY <1>5 DEF Alphabetic, Characters
  <2>2. ValidSerial(t) BY DEF u
  <2> QED BY <2>1, <2>2, ValidIsBalanced, Zenon
<1> HIDE DEF t, a, b, total
<1>7. /\ Addend(c, 1) \in Int /\ Addend(c, 2) \in Int /\ Addend(e, 1) \in Int /\ Addend(e, 2) \in Int
      /\ Addend(a, 1) \in Int /\ Addend(a, 2) \in Int /\ Addend(b, 1) \in Int /\ Addend(b, 2) \in Int
  BY <1>2, AddendIsNumber
<1>8. total % 34 = 0 BY DEF total
<1>9. CASE Weight(i) = 1 /\ Weight(i + 1) = 2
  <2> DEFINE d == (Addend(c, 1) + Addend(e, 2)) - (Addend(a, 1) + Addend(b, 2))
  <2>1. d \in Int /\ Total(Weighed(t)) = total + d BY <1>3, <1>5, <1>7, <1>9
  <2> HIDE DEF d
  <2>2. d % 34 = 0 BY <1>3, <1>6, <1>8, <2>1, DifferenceBalances
  <2> QED BY <2>2 DEF d, a, b
<1>10. CASE Weight(i) = 2 /\ Weight(i + 1) = 1
  <2> DEFINE d == (Addend(e, 1) + Addend(c, 2)) - (Addend(b, 1) + Addend(a, 2))
  <2>1. d \in Int /\ Total(Weighed(t)) = total + d BY <1>3, <1>5, <1>7, <1>10
  <2> HIDE DEF d
  <2>2. d % 34 = 0 BY <1>3, <1>6, <1>8, <2>1, DifferenceBalances
  <2> QED BY <2>2 DEF d, a, b
<1>11. \/ Weight(i) = 1 /\ Weight(i + 1) = 2
       \/ Weight(i) = 2 /\ Weight(i + 1) = 1
  <2>1. i % 2 = 1 <=> (i + 1) % 2 # 1 BY SMT
  <2> QED BY <2>1, Zenon DEF Weight
<1> QED BY <1>9, <1>10, <1>11

\* No category has a doubled letter, a digit, or the last character of the alphabet.
LEMMA CategoryLetters ==
  ASSUME NEW category \in CategoryCodes
  PROVE  /\ \A i \in 1..3 : category[i] \notin CharDigits /\ category[i] # 33
         /\ category[1] # category[2] /\ category[2] # category[3]
<1>1. /\ category[1] \in 10..32 /\ category[2] \in 10..32 /\ category[3] \in 10..32
      /\ category[1] # category[2] /\ category[2] # category[3]
  BY SMT DEF CategoryCodes
<1>2. \A i \in 1..3 : i = 1 \/ i = 2 \/ i = 3 OBVIOUS
<1>3. \A c \in 10..32 : c \notin CharDigits /\ c # 33 BY DEF CharDigits
<1> QED BY <1>1, <1>2, <1>3, Zenon

\* A built serial s, for the rest of this section.
ProperSerial(s) ==
  /\ s \in Alphabetic
  /\ Total(Weighed(s)) % 34 = 0
  /\ \A i \in 1..3 : s[i] \notin CharDigits /\ s[i] # 33
  /\ s[1] # s[2] /\ s[2] # s[3]
  /\ \A i \in 4..17 : s[i] \in CharDigits

\* What build_serial makes is such a serial, valid, and of the parts it was given.
LEMMA BuiltIsProper ==
  ASSUME NEW category \in CategoryCodes, NEW year \in Nat, NEW sequence \in Nat
  PROVE  LET s == BuildSerial(category, year, sequence) IN
         /\ ProperSerial(s) /\ ValidSerial(s)
         /\ SubSeq(s, 1, 3) = category
         /\ SubSeq(s, 4, 7) = Padded(year, 4)
         /\ SubSeq(s, 8, 17) = Padded(sequence, 10)
<1>0. PICK s \in [1..18 -> 0..33] : SerialOf(s, category, year, sequence)
  BY BuiltSerial, Zenon
<1>1. /\ s = BuildSerial(category, year, sequence)
      /\ SubSeq(s, 1, 3) = category
      /\ SubSeq(s, 4, 7) = Padded(year, 4)
      /\ SubSeq(s, 8, 17) = Padded(sequence, 10)
      /\ \A i \in 4..17 : s[i] \in CharDigits
      /\ s[18] = LuhnCheck(Prefix \o SubSeq(s, 1, 17))
  BY <1>0, Zenon DEF SerialOf
<1>2. s \in Alphabetic /\ s \in [1..18 -> Characters] BY DEF Alphabetic, Characters
<1> DEFINE body == Prefix \o SubSeq(s, 1, 17)
<1>3. body \in Seq(0..33) /\ Total(Weighed(s)) = LuhnTotal(body) + s[18]
  BY <1>2, WeighedTotal, Zenon
<1>4. Total(Weighed(s)) % 34 = 0
  <2>1. s[18] \in 0..33 /\ s[18] = LuhnCheck(body) BY <1>1, SMT
  <2> QED BY <1>3, <2>1, CheckCharacter, Zenon
<1>5. 1 \in 1..3 /\ 2 \in 1..3 /\ 3 \in 1..3 OBVIOUS
<1>6. ProperSerial(s)
  <2>0. \A i \in 1..3 : s[i] = category[i] BY <1>0, Zenon DEF SerialOf
  <2>1. \A i \in 1..3 : s[i] \notin CharDigits /\ s[i] # 33
    <3>1. \A i \in 1..3 : category[i] \notin CharDigits /\ category[i] # 33
      BY CategoryLetters, Zenon
    <3> QED BY <2>0, <3>1, Zenon
  <2>2. s[1] # s[2] /\ s[2] # s[3]
    <3>1. category[1] # category[2] /\ category[2] # category[3] BY CategoryLetters, Zenon
    <3>2. s[1] = category[1] /\ s[2] = category[2] /\ s[3] = category[3] BY <1>5, <2>0, Zenon
    <3> QED BY <3>1, <3>2, Zenon
  <2> QED BY <1>1, <1>2, <1>4, <2>1, <2>2, Zenon DEF ProperSerial
<1>7. MatchesPattern(s)
  <2>1. Len(s) = 18 BY SMT
  <2> QED BY <1>6, <2>1, Zenon DEF MatchesPattern, ProperSerial
<1>8. ValidSerial(s) BY <1>2, <1>4, <1>7, ValidIsBalanced, Zenon
<1> QED BY <1>1, <1>6, <1>8, Zenon

\* Two neighbours exchanged: the check sees it, or a digit has left its place.
LEMMA ExchangedNeighbours ==
  ASSUME NEW s, ProperSerial(s), NEW i \in 1..17, s[i] # s[i + 1]
  PROVE  ~ValidSerial(Replaced(Replaced(s, i, s[i + 1]), i + 1, s[i]))
<1> DEFINE a == s[i]
           b == s[i + 1]
           t == Replaced(Replaced(s, i, b), i + 1, a)
<1>1. i \in 1..18 /\ i + 1 \in 1..18 /\ i # i + 1 OBVIOUS
<1>2. a \in 0..33 /\ b \in 0..33 BY <1>1, Zenon DEF ProperSerial, Alphabetic
<1>3. t[i] = b
  <2>1. i \in DOMAIN s /\ i # i + 1 BY <1>1, Zenon DEF ProperSerial, Alphabetic
  <2> QED BY <2>1, Zenon DEF Replaced
<1> SUFFICES ASSUME ValidSerial(t) PROVE FALSE
  OBVIOUS
<1>4. {a, b} # {0, 33}
  <2> SUFFICES ASSUME {a, b} = {0, 33} PROVE FALSE
    OBVIOUS
  <2>1. a = 33 \/ b = 33 BY Zenon
  <2>2. ASSUME NEW j \in 1..18, s[j] = 33 PROVE j = 18
    <3>1. 33 \notin CharDigits BY DEF CharDigits
    <3>2. j \in 1..3 \/ j \in 4..17 \/ j = 18 OBVIOUS
    <3> QED BY <2>2, <3>1, <3>2, Zenon DEF ProperSerial
  <2>3. i = 17 /\ b = 33 BY <1>1, <2>1, <2>2
  <2>4. t[17] = 33 BY <1>3, <2>3, Zenon
  <2>5. 17 \in 4..17 /\ 33 \notin CharDigits BY DEF CharDigits
  <2> QED BY <2>4, <2>5, Zenon DEF ValidSerial, MatchesPattern
<1>5. \/ ((Addend(b, 1) + Addend(a, 2)) - (Addend(a, 1) + Addend(b, 2))) % 34 = 0
      \/ ((Addend(a, 1) + Addend(b, 2)) - (Addend(b, 1) + Addend(a, 2))) % 34 = 0
  BY <1>2, WrongPair, Zenon DEF ProperSerial
<1>6. {b, a} # {0, 33} BY <1>4
<1> HIDE DEF a, b, t
<1>7. a # b BY DEF a, b
<1> QED BY <1>2, <1>4, <1>5, <1>6, <1>7, SlipsShiftTheSum, Zenon DEF N

\* A doubled digit doubled wrong; nothing but digits, and the check beside one, is ever doubled.
LEMMA WrongDouble ==
  ASSUME NEW s, ProperSerial(s), NEW i \in 1..17, s[i] = s[i + 1], NEW c \in Characters, c # s[i]
  PROVE  ~ValidSerial(Replaced(Replaced(s, i, c), i + 1, c))
<1> DEFINE a == s[i]
           t == Replaced(Replaced(s, i, c), i + 1, c)
<1>1. i \in 1..18 /\ i + 1 \in 1..18 /\ i # i + 1 OBVIOUS
<1>2. i \in 4..17 /\ a \in CharDigits
  <2>1. i # 1 /\ i # 2 BY DEF ProperSerial
  <2>2. i # 3
    <3> SUFFICES ASSUME i = 3 PROVE FALSE OBVIOUS
    <3>1. i + 1 = 4 /\ 3 \in 1..3 /\ 4 \in 4..17 OBVIOUS
    <3> QED BY <3>1, Zenon DEF ProperSerial
  <2>3. i \in 4..17 BY <2>1, <2>2
  <2> QED BY <2>3, Zenon DEF ProperSerial
<1>3. t[i] = c
  <2>1. i \in DOMAIN s /\ i # i + 1 BY <1>1, Zenon DEF ProperSerial, Alphabetic
  <2> QED BY <2>1, Zenon DEF Replaced
<1> SUFFICES ASSUME ValidSerial(t) PROVE FALSE
  OBVIOUS
<1>4. c \in CharDigits BY <1>2, <1>3, Zenon DEF ValidSerial, MatchesPattern
<1>5. c \in 0..33 /\ a \in 0..33
  <2>1. \A e \in CharDigits : e \in 0..33 BY DEF CharDigits
  <2> QED BY <1>2, <1>4, <2>1, Zenon
<1>6. ((Addend(c, 1) + Addend(c, 2)) - (Addend(a, 1) + Addend(a, 2))) % 34 = 0
  <2>1. \/ ((Addend(c, 1) + Addend(c, 2)) - (Addend(a, 1) + Addend(s[i + 1], 2))) % 34 = 0
        \/ ((Addend(c, 1) + Addend(c, 2)) - (Addend(s[i + 1], 1) + Addend(a, 2))) % 34 = 0
    BY <1>5, WrongPair, ZenonT(40) DEF ProperSerial
  <2>2. s[i + 1] = a OBVIOUS
  <2> QED BY <2>1, <2>2, Zenon
<1> HIDE DEF t, a
<1>7. c # a BY DEF a
<1>8. ((Addend(c, 1) + Addend(c, 2)) - (Addend(a, 1) + Addend(a, 2))) % N # 0
  BY <1>2, <1>4, <1>5, <1>7, SlipsShiftTheSum, Zenon
<1> QED BY <1>6, <1>8, Zenon DEF N

\* The numbers of a serial fit the digits they have.
LEMMA NumbersFit ==
  ASSUME NEW year \in Years, NEW sequence \in Sequences
  PROVE  /\ year \in Nat /\ Cut(year, 3) < 10
         /\ sequence \in Nat /\ Cut(sequence, 9) < 10
<1>1. year \in 1900..9999 /\ sequence \in Nat /\ sequence \div 100000 < 100000
  BY SerialAssumption, SMTT(30)
<1>2. 10^3 = 1000 /\ 10^9 = 1000000000 BY SMT
<1>3. year \in Nat /\ year \div 1000 < 10 BY <1>1, SMT
<1>4. sequence \div 1000000000 < 10 BY <1>1, SMT
<1> QED BY <1>1, <1>2, <1>3, <1>4, SMT DEF Cut

\* Every usual slip in such a serial is rejected.
LEMMA SlipsFail ==
  ASSUME NEW s, ProperSerial(s), NEW t \in Slips(s), t # s
  PROVE  ~ValidSerial(t)
<1>1. s \in Alphabetic /\ Total(Weighed(s)) % 34 = 0 BY DEF ProperSerial
<1>2. s \in [1..18 -> 0..33] /\ DOMAIN s = 1..18 BY <1>1 DEF Alphabetic
<1>3. Len(s) = 18
  <2>1. 18 \in Nat OBVIOUS
  <2> QED BY <1>2, <2>1, FunctionIsSequence
<1>4. 1..(Len(s) - 1) = 1..17 /\ 1..Len(s) = 1..18 BY <1>3
<1>5. \/ \E i \in 1..18, c \in Characters : t = Replaced(s, i, c)
      \/ \E i \in 1..17 : t = Replaced(Replaced(s, i, s[i + 1]), i + 1, s[i])
      \/ \E i \in 1..17, c \in Characters : s[i] = s[i + 1] /\ t = Replaced(Replaced(s, i, c), i + 1, c)
  <2> DEFINE at == 1..Len(s)
             pairs == 1..(Len(s) - 1)
             doubles == {j \in pairs : s[j] = s[j + 1]}
  <2>1. t \in {Replaced(s, i, c) : i \in at, c \in Characters}
             \cup {Replaced(Replaced(s, i, s[i + 1]), i + 1, s[i]) : i \in pairs}
             \cup {Replaced(Replaced(s, i, c), i + 1, c) : i \in doubles, c \in Characters}
    BY DEF Slips
  <2>2. \A i \in doubles : i \in pairs /\ s[i] = s[i + 1] OBVIOUS
  <2>3. at = 1..18 /\ pairs = 1..17 BY <1>4
  <2> HIDE DEF at, pairs, doubles
  <2>4. \/ \E i \in at, c \in Characters : t = Replaced(s, i, c)
        \/ \E i \in pairs : t = Replaced(Replaced(s, i, s[i + 1]), i + 1, s[i])
        \/ \E i \in doubles, c \in Characters : t = Replaced(Replaced(s, i, c), i + 1, c)
    BY <2>1
  <2> QED BY <2>2, <2>3, <2>4, Zenon
<1>6. \A i \in 1..17 : i \in 1..18 /\ i + 1 \in 1..18 /\ i # i + 1 OBVIOUS
<1>7. \A i \in 1..18 : Replaced(s, i, s[i]) = s BY <1>2 DEF Replaced
<1>8. CASE \E i \in 1..18, c \in Characters : t = Replaced(s, i, c)
  BY <1>1, <1>7, <1>8, WrongCharacter, Zenon
<1>9. CASE \E i \in 1..17 : t = Replaced(Replaced(s, i, s[i + 1]), i + 1, s[i])
  <2>1. PICK i \in 1..17 : t = Replaced(Replaced(s, i, s[i + 1]), i + 1, s[i]) BY <1>9
  <2>2. s[i] # s[i + 1]
    <3> SUFFICES ASSUME s[i] = s[i + 1] PROVE FALSE OBVIOUS
    <3>1. Replaced(s, i, s[i + 1]) = s BY <1>6, <1>7, Zenon
    <3>2. t = Replaced(s, i + 1, s[i + 1]) BY <2>1, <3>1, Zenon
    <3> QED BY <1>6, <1>7, <3>2, Zenon
  <2> QED BY <2>1, <2>2, ExchangedNeighbours, Zenon
<1>10. CASE \E i \in 1..17, c \in Characters : s[i] = s[i + 1] /\ t = Replaced(Replaced(s, i, c), i + 1, c)
  <2>1. PICK i \in 1..17, c \in Characters :
          s[i] = s[i + 1] /\ t = Replaced(Replaced(s, i, c), i + 1, c)
    BY <1>10
  <2>2. c # s[i]
    <3> SUFFICES ASSUME c = s[i] PROVE FALSE OBVIOUS
    <3>1. Replaced(s, i, c) = s BY <1>6, <1>7, Zenon
    <3>2. t = Replaced(s, i + 1, s[i + 1]) BY <2>1, <3>1, Zenon
    <3> QED BY <1>6, <1>7, <3>2, Zenon
  <2> QED BY <2>1, <2>2, WrongDouble, Zenon
<1> QED BY <1>5, <1>8, <1>9, <1>10

\* parse_serial: what build_serial makes of any category, year and sequence is parsed back to
\* its parts, and no serial one usual slip away from it is accepted.
THEOREM SlipsRejected == Spec => []SlipsAreRejected
<1>1. ComputedCases => SlipsAreRejected
  <2> SUFFICES ASSUME case \in SerialCases
               PROVE  LET s == BuildSerial(case.category, case.year, case.sequence) IN
                      /\ ValidSerial(s)
                      /\ ParseSerial(s) = [category |-> case.category, year |-> case.year,
                                           sequence |-> case.sequence]
                      /\ \A t \in Slips(s) \ {s} : ~ValidSerial(t)
    BY DEF ComputedCases, SlipsAreRejected
  <2> DEFINE category == case.category
             year == case.year
             sequence == case.sequence
             s == BuildSerial(category, year, sequence)
  <2>1. category \in CategoryCodes /\ year \in Years /\ sequence \in Sequences
    BY DEF SerialCases
  <2> HIDE DEF category, year, sequence
  <2>2. year \in Nat /\ Cut(year, 3) < 10 /\ sequence \in Nat /\ Cut(sequence, 9) < 10
    BY <2>1, NumbersFit, Zenon
  <2>3. /\ ProperSerial(s) /\ ValidSerial(s)
        /\ SubSeq(s, 1, 3) = category
        /\ SubSeq(s, 4, 7) = Padded(year, 4)
        /\ SubSeq(s, 8, 17) = Padded(sequence, 10)
    BY <2>1, <2>2, BuiltIsProper, Zenon
  <2>4. NumberOf(Padded(year, 4)) = year /\ NumberOf(Padded(sequence, 10)) = sequence
    <3>1. 4 \in 1..10 /\ 10 \in 1..10 /\ 4 - 1 = 3 /\ 10 - 1 = 9 OBVIOUS
    <3> QED BY <2>2, <3>1, PaddedReadsBack
  <2>5. ParseSerial(s) = [category |-> category, year |-> year, sequence |-> sequence]
    BY <2>3, <2>4, Zenon DEF ParseSerial
  <2> HIDE DEF s
  <2>6. ASSUME NEW t \in Slips(s) \ {s} PROVE ~ValidSerial(t)
    BY <2>3, SlipsFail
  <2> QED BY <2>3, <2>5, <2>6 DEF s, category, year, sequence
<1> QED BY <1>1, ComputedCasesStay, PTL

-----------------------------------------------------------------------------
(* Merkle roots and audit chains *)

\* The loop of merkle_root, to the level m.
Levels(f, leaves, m) ==
  f = [k \in 0..m |->
        IF k = 0 THEN [i \in 1..Len(leaves) |-> LeafHash(leaves[i])]
        ELSE LET below == f[k - 1] IN IF Len(below) > 1 THEN NextLevel(below) ELSE below]

\* The loop has its levels.
LEMMA LevelsExist ==
  ASSUME NEW leaves, NEW n \in Nat
  PROVE  \E f : Levels(f, leaves, n)
<1> DEFINE S == {m \in Nat : \E f : Levels(f, leaves, m)}
           bottom == [i \in 1..Len(leaves) |-> LeafHash(leaves[i])]
           Up(below) == IF Len(below) > 1 THEN NextLevel(below) ELSE below
<1>1. \A f, m : Levels(f, leaves, m)
                  <=> f = [k \in 0..m |-> IF k = 0 THEN bottom ELSE Up(f[k - 1])]
  BY DEF Levels
<1> HIDE DEF bottom, Up
<1>2. 0 \in S
  <2> DEFINE f == [k \in 0..0 |-> bottom]
  <2>1. \A k \in 0..0 : k = 0 OBVIOUS
  <2>2. f = [k \in 0..0 |-> IF k = 0 THEN bottom ELSE Up(f[k - 1])] BY <2>1, Zenon
  <2>3. Levels(f, leaves, 0) BY <1>1, <2>2, Zenon
  <2>4. 0 \in Nat OBVIOUS
  <2> QED BY <2>3, <2>4, Zenon
<1>3. ASSUME NEW m \in Nat, m \in S PROVE m + 1 \in S
  <2>1. PICK f : Levels(f, leaves, m) BY <1>3
  <2> DEFINE g == [k \in 0..(m + 1) |-> IF k = m + 1 THEN Up(f[m]) ELSE f[k]]
  <2>2. f = [k \in 0..m |-> IF k = 0 THEN bottom ELSE Up(f[k - 1])] BY <1>1, <2>1, Zenon
  <2>3. \A k \in 0..m : f[k] = IF k = 0 THEN bottom ELSE Up(f[k - 1]) BY <2>2, Zenon
  <2>4. /\ \A k \in 0..m : k \in 0..(m + 1) /\ k # m + 1 /\ (k # 0 => k - 1 \in 0..m)
        /\ m + 1 # 0 /\ (m + 1) - 1 = m /\ m \in 0..m /\ m + 1 \in 0..(m + 1) /\ m + 1 \in Nat
        /\ \A k \in 0..(m + 1) : k \in 0..m \/ k = m + 1
    OBVIOUS
  <2>5. /\ \A k \in 0..m : g[k] = f[k]
        /\ g[m + 1] = Up(f[m])
    BY <2>4, Zenon
  <2>6. g = [k \in 0..(m + 1) |-> g[k]] BY Zenon
  <2> HIDE DEF g
  <2>7. ASSUME NEW k \in 0..(m + 1) PROVE g[k] = IF k = 0 THEN bottom ELSE Up(g[k - 1])
    <3>1. CASE k \in 0..m
      <4>1. CASE k = 0 BY <2>3, <2>5, <3>1, <4>1, Zenon
      <4>2. CASE k # 0
        <5>1. k - 1 \in 0..m BY <2>4, <3>1, <4>2, Zenon
        <5> QED BY <2>3, <2>5, <3>1, <4>2, <5>1, Zenon
      <4> QED BY <4>1, <4>2
    <3>2. CASE k = m + 1
      <4>1. g[k] = Up(g[k - 1]) /\ k # 0 BY <2>4, <2>5, <3>2, Zenon
      <4> QED BY <4>1, Zenon
    <3> QED BY <2>4, <3>1, <3>2, Zenon
  <2>8. g = [k \in 0..(m + 1) |-> IF k = 0 THEN bottom ELSE Up(g[k - 1])]
    BY <2>6, <2>7, Zenon
  <2>9. Levels(g, leaves, m + 1) BY <1>1, <2>8, Zenon
  <2> QED BY <2>4, <2>9, Zenon
<1> HIDE DEF S
<1>4. n \in S BY <1>2, <1>3, SetInduction, Zenon
<1> QED BY <1>4 DEF S

\* A level has L nodes.
Level(x, L) == L \in Nat \ {0} /\ x = [i \in 1..L |-> x[i]]

\* A level is a sequence of its nodes.
LEMMA LevelIsSequence ==
  ASSUME NEW x, NEW L, Level(x, L)
  PROVE  \E S : x \in Seq(S) /\ x \in [1..L -> S] /\ Len(x) = L
<1> DEFINE S == {x[i] : i \in 1..L}
<1>1. x \in [1..L -> S] BY Zenon DEF Level
<1> HIDE DEF S
<1>2. L \in Nat BY DEF Level
<1> QED BY <1>1, <1>2, FunctionIsSequence, Zenon

\* The nodes above L nodes.
Half(L) == (L + (L % 2)) \div 2

\* An odd level is evened by its last node.
LEMMA EvenedNodes ==
  ASSUME NEW x, NEW L, Level(x, L)
  PROVE  /\ Len(Evened(x)) = L + (L % 2)
         /\ \A i \in 1..L : Evened(x)[i] = x[i]
<1>1. PICK S : x \in Seq(S) /\ x \in [1..L -> S] /\ Len(x) = L BY LevelIsSequence, Zenon
<1>2. L \in Nat \ {0} BY DEF Level
<1>3. L % 2 \in 0..1 BY <1>2, SMT
<1>4. CASE L % 2 = 1
  <2>1. Evened(x) = Append(x, Last(x)) BY <1>1, <1>4, Zenon DEF Evened
  <2>2. Last(x) \in S
    <3>1. L \in 1..L BY <1>2
    <3> QED BY <1>1, <3>1, Zenon DEF Last
  <2>3. /\ Len(Append(x, Last(x))) = Len(x) + 1
        /\ \A i \in 1..Len(x) : Append(x, Last(x))[i] = x[i]
    BY <1>1, <2>2, AppendProperties
  <2> QED BY <1>1, <1>4, <2>1, <2>3, Zenon
<1>5. CASE L % 2 = 0
  <2>1. Evened(x) = x
    <3>1. 0 # 1 OBVIOUS
    <3> QED BY <1>1, <1>5, <3>1, Zenon DEF Evened
  <2>2. L + 0 = L BY <1>2
  <2> QED BY <1>1, <1>5, <2>1, <2>2, Zenon
<1> QED BY <1>3, <1>4, <1>5

\* A level above one of more than one node is shorter, and not empty.
LEMMA NextLevelNodes ==
  ASSUME NEW x, NEW L, Level(x, L), L > 1
  PROVE  /\ Level(NextLevel(x), Half(L)) /\ Half(L) < L
         /\ NextLevel(x) = [i \in 1..Half(L) |-> NodeHash(Evened(x)[2 * i - 1], Evened(x)[2 * i])]
<1>1. L \in Nat \ {0} BY DEF Level
<1>2. Half(L) \in Nat \ {0} /\ Half(L) < L BY <1>1, SMT DEF Half
<1>3. NextLevel(x) = [i \in 1..Half(L) |-> NodeHash(Evened(x)[2 * i - 1], Evened(x)[2 * i])]
  <2>1. Len(Evened(x)) \div 2 = Half(L) BY EvenedNodes, Zenon DEF Half
  <2> QED BY <2>1, Zenon DEF NextLevel
<1>4. NextLevel(x) = [i \in 1..Half(L) |-> NextLevel(x)[i]] BY <1>3, Zenon
<1> QED BY <1>2, <1>3, <1>4, Zenon DEF Level

\* Two levels of as many nodes have the same level above them only if they are the same.
LEMMA NextLevelBinds ==
  ASSUME NEW x, NEW y, NEW L, Level(x, L), Level(y, L), L > 1, NextLevel(x) = NextLevel(y)
  PROVE  x = y
<1>1. L \in Nat \ {0} BY DEF Level
<1>2. ASSUME NEW i \in 1..L PROVE x[i] = y[i]
  <2> DEFINE j == (i + 1) \div 2
             left == 2 * j - 1
             right == 2 * j
  <2>1. j \in 1..Half(L) /\ (i = left \/ i = right) BY <1>1, SMT DEF Half
  <2> HIDE DEF j
  <2>2. /\ NextLevel(x)[j] = NodeHash(Evened(x)[left], Evened(x)[right])
        /\ NextLevel(y)[j] = NodeHash(Evened(y)[left], Evened(y)[right])
    <3>1. /\ NextLevel(x) = [k \in 1..Half(L) |-> NodeHash(Evened(x)[2 * k - 1], Evened(x)[2 * k])]
          /\ NextLevel(y) = [k \in 1..Half(L) |-> NodeHash(Evened(y)[2 * k - 1], Evened(y)[2 * k])]
      BY NextLevelNodes, Zenon
    <3> QED BY <2>1, <3>1, Zenon
  <2> HIDE DEF left, right
  <2>4. Evened(x)[left] = Evened(y)[left] /\ Evened(x)[right] = Evened(y)[right]
    <3>1. NodeHash(Evened(x)[left], Evened(x)[right]) = NodeHash(Evened(y)[left], Evened(y)[right])
      BY <2>2, Zenon
    <3> DEFINE p == Evened(x)[left]
               q == Evened(x)[right]
               u == Evened(y)[left]
               v == Evened(y)[right]
    <3>2. NodeHash(p, q) = NodeHash(u, v) BY <3>1
    <3> HIDE DEF p, q, u, v
    <3>3. p = u /\ q = v BY <3>2 DEF NodeHash
    <3> QED BY <3>3 DEF p, q, u, v
  <2>5. Evened(x)[i] = Evened(y)[i] BY <2>1, <2>4, Zenon
  <2> QED BY <2>5, EvenedNodes, Zenon
<1> QED BY <1>2, Zenon DEF Level

\* merkle_root of two lists of n leaves: as long as a level is the same in both, so are they.
LEMMA LevelsBind ==
  ASSUME NEW a, NEW b, NEW n \in Nat \ {0}, NEW Q, a \in [1..n -> Q], b \in [1..n -> Q],
         NEW f, Levels(f, a, n), NEW g, Levels(g, b, n), f[n][1] = g[n][1]
  PROVE  a = b
<1> DEFINE Up(below) == IF Len(below) > 1 THEN NextLevel(below) ELSE below
           Alike(k, L) == /\ Level(f[k], L) /\ Level(g[k], L) /\ (L = 1 \/ L <= n - k)
                          /\ f[k] = g[k] => a = b
           S == {k \in Nat : k <= n => \E L \in Nat : Alike(k, L)}
<1>1. Len(a) = n /\ Len(b) = n
  <2>1. n \in Nat OBVIOUS
  <2> QED BY <2>1, FunctionIsSequence, Zenon
<1>2. /\ f[0] = [i \in 1..n |-> LeafHash(a[i])] /\ g[0] = [i \in 1..n |-> LeafHash(b[i])]
      /\ \A k \in 0..n : k # 0 => f[k] = Up(f[k - 1]) /\ g[k] = Up(g[k - 1])
  <2>1. 0 \in 0..n OBVIOUS
  <2> QED BY <1>1, <2>1, Zenon DEF Levels
<1> HIDE DEF Up
<1>3. 0 \in S
  <2>1. Level(f[0], n) /\ Level(g[0], n) BY <1>2, Zenon DEF Level
  <2>2. f[0] = g[0] => a = b
    <3>2. \A i \in 1..n : f[0][i] = LeafHash(a[i]) /\ g[0][i] = LeafHash(b[i]) BY <1>2, Zenon
    <3>3. ASSUME f[0] = g[0], NEW i \in 1..n PROVE a[i] = b[i]
      <4>1. LeafHash(a[i]) = LeafHash(b[i]) BY <3>2, <3>3, Zenon
      <4> QED BY <4>1 DEF LeafHash
    <3> QED BY <3>3
  <2>3. n <= n - 0 /\ 0 \in Nat /\ n \in Nat OBVIOUS
  <2> QED BY <2>1, <2>2, <2>3, Zenon
<1>4. ASSUME NEW k \in Nat, k \in S PROVE k + 1 \in S
  <2>0. k + 1 \in Nat OBVIOUS
  <2> SUFFICES ASSUME k + 1 <= n PROVE \E L \in Nat : Alike(k + 1, L)
    BY <2>0, Zenon
  <2>1. k <= n /\ k + 1 \in 0..n /\ k + 1 # 0 /\ (k + 1) - 1 = k OBVIOUS
  <2>2. PICK L \in Nat : Alike(k, L) BY <1>4, <2>1, Zenon
  <2>3. f[k + 1] = Up(f[k]) /\ g[k + 1] = Up(g[k]) BY <1>2, <2>1, Zenon
  <2>4. Len(f[k]) = L /\ Len(g[k]) = L BY <2>2, LevelIsSequence, Zenon
  <2>5. CASE L > 1
    <3>1. f[k + 1] = NextLevel(f[k]) /\ g[k + 1] = NextLevel(g[k]) BY <2>3, <2>4, <2>5, Zenon DEF Up
    <3>2. Level(f[k + 1], Half(L)) /\ Level(g[k + 1], Half(L)) /\ Half(L) < L
      <4>1. Level(NextLevel(f[k]), Half(L)) /\ Level(NextLevel(g[k]), Half(L)) /\ Half(L) < L
        BY <2>2, <2>5, NextLevelNodes, Zenon
      <4> HIDE DEF Alike, S
      <4> QED BY <3>1, <4>1
    <3>3. f[k + 1] = g[k + 1] => a = b BY <2>2, <2>5, <3>1, NextLevelBinds, Zenon
    <3>4. Half(L) \in Nat /\ Half(L) <= n - (k + 1)
      <4>1. Half(L) \in Nat BY <3>2 DEF Level
      <4>2. L <= n - k BY <2>2, <2>5
      <4> QED BY <3>2, <4>1, <4>2
    <3> QED BY <3>2, <3>3, <3>4, Zenon
  <2>6. CASE ~(L > 1)
    <3>1. f[k + 1] = f[k] /\ g[k + 1] = g[k] BY <2>3, <2>4, <2>6, Zenon DEF Up
    <3>2. L = 1
      <4>1. L \in Nat \ {0} BY <2>2 DEF Level
      <4> QED BY <2>6, <4>1
    <3> QED BY <2>2, <3>1, <3>2, Zenon
  <2> QED BY <2>5, <2>6
<1> HIDE DEF S
<1>5. n \in S
  <2>1. n \in Nat OBVIOUS
  <2> QED BY <1>3, <1>4, <2>1, SetInduction, Zenon
<1>6. PICK L \in Nat : Alike(n, L)
  <2>1. n <= n OBVIOUS
  <2> QED BY <1>5, <2>1, Zenon DEF S
<1>7. L = 1
  <2>1. L \in Nat \ {0} BY <1>6 DEF Level
  <2> QED BY <1>6, <2>1
<1>8. f[n] = g[n]
  <2>1. f[n] = [i \in 1..1 |-> f[n][i]] /\ g[n] = [i \in 1..1 |-> g[n][i]]
    BY <1>6, <1>7, Zenon DEF Level
  <2>2. \A i \in 1..1 : i = 1 OBVIOUS
  <2>3. \A i \in 1..1 : f[n][i] = g[n][i] BY <2>2, Zenon
  <2> QED BY <2>1, <2>3, Zenon
<1> QED BY <1>6, <1>8, Zenon

\* merkle_root is unambiguous for a fixed leaf count.
LEMMA RootBinds ==
  ASSUME NEW n \in Nat, NEW Q, NEW a \in [1..n -> Q], NEW b \in [1..n -> Q],
         MerkleRoot(a) = MerkleRoot(b)
  PROVE  a = b
<1>1. Len(a) = n /\ Len(b) = n BY FunctionIsSequence, Zenon
<1>2. CASE n = 0 BY <1>2
<1>3. CASE n # 0
  <2> DEFINE f == CHOOSE h : Levels(h, a, n)
             g == CHOOSE h : Levels(h, b, n)
  <2>1. Levels(f, a, n) /\ Levels(g, b, n) BY LevelsExist, Zenon
  <2>2. a # <<>> /\ b # <<>> BY <1>1, <1>3
  <2>3. MerkleRoot(a) = f[n][1] BY <1>1, <2>2, Zenon DEF MerkleRoot, Levels
  <2>4. MerkleRoot(b) = g[n][1] BY <1>1, <2>2, Zenon DEF MerkleRoot, Levels
  <2> HIDE DEF f, g
  <2>5. n \in Nat \ {0} BY <1>3
  <2> QED BY <2>1, <2>3, <2>4, <2>5, LevelsBind, Zenon
<1> QED BY <1>2, <1>3

\* The loop that records the contents one after the other, to the row m.
Recorded(f, contents, m) ==
  f = [k \in 0..m |-> IF k = 0 THEN <<>> ELSE Record(f[k - 1], contents[k])]

\* The loop has its tables.
LEMMA RecordsExist ==
  ASSUME NEW contents, NEW n \in Nat
  PROVE  \E f : Recorded(f, contents, n)
<1> DEFINE S == {m \in Nat : \E f : Recorded(f, contents, m)}
<1>1. 0 \in S
  <2> DEFINE f == [k \in 0..0 |-> <<>>]
  <2>1. \A k \in 0..0 : k = 0 OBVIOUS
  <2>2. f = [k \in 0..0 |-> IF k = 0 THEN <<>> ELSE Record(f[k - 1], contents[k])] BY <2>1, Zenon
  <2>3. 0 \in Nat OBVIOUS
  <2> HIDE DEF f
  <2>4. Recorded(f, contents, 0) BY <2>2 DEF Recorded
  <2> QED BY <2>3, <2>4, Zenon
<1>2. ASSUME NEW m \in Nat, m \in S PROVE m + 1 \in S
  <2>1. PICK f : Recorded(f, contents, m) BY <1>2
  <2> DEFINE new == Record(f[m], contents[m + 1])
             g == [k \in 0..(m + 1) |-> IF k = m + 1 THEN new ELSE f[k]]
  <2>2. new = Record(f[m], contents[m + 1]) OBVIOUS
  <2> HIDE DEF new
  <2>3. \A k \in 0..m : f[k] = IF k = 0 THEN <<>> ELSE Record(f[k - 1], contents[k])
    BY <2>1, Zenon DEF Recorded
  <2>4. /\ \A k \in 0..m : k \in 0..(m + 1) /\ k # m + 1 /\ (k # 0 => k - 1 \in 0..m)
        /\ m + 1 # 0 /\ (m + 1) - 1 = m /\ m \in 0..m /\ m + 1 \in 0..(m + 1) /\ m + 1 \in Nat
        /\ \A k \in 0..(m + 1) : k \in 0..m \/ k = m + 1
    OBVIOUS
  <2>5. (\A k \in 0..m : g[k] = f[k]) /\ g[m + 1] = new BY <2>4, Zenon
  <2>6. g = [k \in 0..(m + 1) |-> g[k]] BY Zenon
  <2> HIDE DEF g
  <2>7. ASSUME NEW k \in 0..(m + 1)
        PROVE  g[k] = IF k = 0 THEN <<>> ELSE Record(g[k - 1], contents[k])
    <3>1. CASE k \in 0..m
      <4>1. CASE k = 0 BY <2>3, <2>5, <3>1, <4>1, Zenon
      <4>2. CASE k # 0
        <5>1. k - 1 \in 0..m BY <2>4, <3>1, <4>2, Zenon
        <5> QED BY <2>3, <2>5, <3>1, <4>2, <5>1, Zenon
      <4> QED BY <4>1, <4>2
    <3>2. CASE k = m + 1
      <4>1. g[k] = Record(g[k - 1], contents[k]) /\ k # 0 BY <2>2, <2>4, <2>5, <3>2, Zenon
      <4> QED BY <4>1, Zenon
    <3> QED BY <2>4, <3>1, <3>2, Zenon
  <2>8. Recorded(g, contents, m + 1) BY <2>6, <2>7, Zenon DEF Recorded
  <2> QED BY <2>4, <2>8, Zenon
<1> HIDE DEF S
<1>3. n \in S BY <1>1, <1>2, SetInduction, Zenon
<1> QED BY <1>3 DEF S

\* The hash that row i of a table is to point back to.
PrevHash(rows, i) == IF i = 1 THEN Genesis ELSE rows[i - 1].hash

\* last_hash over the rows before i.
LEMMA LastHashBefore ==
  ASSUME NEW S, NEW rows \in Seq(S), NEW i \in 1..Len(rows)
  PROVE  LastHash(SubSeq(rows, 1, i - 1)) = PrevHash(rows, i)
<1>1. CASE i = 1
  <2>1. SubSeq(rows, 1, i - 1) = <<>> BY <1>1
  <2> QED BY <1>1, <2>1 DEF LastHash, PrevHash
<1>2. CASE i # 1
  <2> DEFINE before == SubSeq(rows, 1, i - 1)
  <2>1. Len(before) = i - 1 /\ before # <<>> /\ before[i - 1] = rows[i - 1] BY <1>2
  <2> HIDE DEF before
  <2> QED BY <1>2, <2>1 DEF LastHash, PrevHash, Last, before
<1> QED BY <1>1, <1>2

\* A row is bad when it does not point back to its predecessor, or is not as it was hashed.
LEMMA BadRows ==
  ASSUME NEW S, NEW rows \in Seq(S), NEW i \in 1..Len(rows)
  PROVE  BadRow(rows, i) <=> \/ rows[i].prev # PrevHash(rows, i)
                             \/ rows[i].hash # ChainHash(PrevHash(rows, i), rows[i].content)
  BY LastHashBefore, Zenon DEF BadRow

\* verify_chain returns 0 when no row is bad.
LEMMA NoBadRow ==
  ASSUME NEW rows, \A i \in 1..Len(rows) : ~BadRow(rows, i)
  PROVE  FirstBadId(rows) = 0
  BY DEF FirstBadId

\* verify_chain returns the id of the first bad row.
LEMMA FirstBadRow ==
  ASSUME NEW rows, Len(rows) \in Nat, NEW i \in 1..Len(rows), BadRow(rows, i),
         \A j \in 1..(i - 1) : ~BadRow(rows, j)
  PROVE  FirstBadId(rows) = rows[i].id
<1> DEFINE bad == {j \in 1..Len(rows) : BadRow(rows, j)}
           first == CHOOSE j \in bad : \A k \in bad : j <= k
<1>1. i \in bad /\ \A k \in bad : i <= k
  <2>1. ASSUME NEW k \in bad, k < i PROVE FALSE
    <3>1. k \in 1..(i - 1) /\ BadRow(rows, k) BY <2>1
    <3> QED BY <3>1
  <2>2. \A k \in bad : k \in Int /\ i \in Int OBVIOUS
  <2> QED BY <2>1, <2>2
<1>2. first \in bad /\ \A k \in bad : first <= k BY <1>1
<1>3. first = i
  <2>1. first <= i /\ i <= first BY <1>1, <1>2
  <2>2. first \in Int /\ i \in Int BY <1>2
  <2> QED BY <2>1, <2>2
<1>4. FirstBadId(rows) = IF bad = {} THEN 0 ELSE rows[first].id BY DEF FirstBadId
<1> HIDE DEF bad, first
<1> QED BY <1>1, <1>3, <1>4

\* A chain as it was recorded: every row has its number, its content and the hash before it.
Sound(rows, contents, n) ==
  /\ rows = [i \in 1..n |-> rows[i]]
  /\ \A i \in 1..n : rows[i] = AuditRow(i, PrevHash(rows, i), contents[i])

\* A table of n rows is a sequence.
LEMMA TableIsSequence ==
  ASSUME NEW n \in Nat, NEW rows, rows = [i \in 1..n |-> rows[i]]
  PROVE  \E S : rows \in Seq(S) /\ Len(rows) = n
<1> DEFINE S == {rows[i] : i \in 1..n}
<1>1. rows \in [1..n -> S] BY Zenon
<1> HIDE DEF S
<1> QED BY <1>1, FunctionIsSequence, Zenon

\* What record leaves behind is such a chain.
LEMMA ChainIsSound ==
  ASSUME NEW contents, NEW n \in Nat, Len(contents) = n
  PROVE  Sound(ChainOf(contents), contents, n)
<1> DEFINE f == CHOOSE h : Recorded(h, contents, n)
           S == {m \in Nat : m <= n => Sound(f[m], contents, m)}
<1>1. Recorded(f, contents, n) BY RecordsExist, Zenon
<1>2. ChainOf(contents) = f[n] BY Zenon DEF ChainOf, Recorded
<1> HIDE DEF f
<1>3. 0 \in S
  <2>1. 0 \in 0..n OBVIOUS
  <2>2. f[0] = <<>> BY <1>1, <2>1, Zenon DEF Recorded
  <2>3. Sound(<<>>, contents, 0) BY DEF Sound
  <2> QED BY <2>2, <2>3
<1>4. ASSUME NEW m \in Nat, m \in S PROVE m + 1 \in S
  <2>0. m + 1 \in Nat OBVIOUS
  <2> SUFFICES ASSUME m + 1 <= n PROVE Sound(f[m + 1], contents, m + 1)
    BY <2>0, Zenon
  <2>1. m <= n /\ m + 1 \in 0..n /\ m + 1 # 0 /\ (m + 1) - 1 = m OBVIOUS
  <2>2. Sound(f[m], contents, m) BY <1>4, <2>1
  <2>3. f[m + 1] = Record(f[m], contents[m + 1]) BY <1>1, <2>1, Zenon DEF Recorded
  <2> DEFINE before == f[m]
             after == f[m + 1]
             row == AuditRow(m + 1, LastHash(before), contents[m + 1])
  <2>4. PICK T : before \in Seq(T) /\ Len(before) = m BY <2>2, TableIsSequence, Zenon DEF Sound
  <2>5. after = Append(before, row) BY <2>3, <2>4, Zenon DEF Record
  <2> HIDE DEF before, after, row
  <2>6. /\ Len(after) = m + 1 /\ after = [i \in 1..(m + 1) |-> after[i]]
        /\ after[m + 1] = row /\ \A i \in 1..m : after[i] = before[i]
    <3> DEFINE U == T \cup {row}
    <3>1. before \in Seq(U) /\ row \in U BY <2>4
    <3> HIDE DEF U
    <3>2. after \in Seq(U) /\ Len(after) = m + 1 BY <2>4, <2>5, <3>1, AppendProperties
    <3>3. after = [i \in 1..(m + 1) |-> after[i]] BY <3>2
    <3> QED BY <2>4, <2>5, <3>1, <3>2, <3>3, AppendProperties
  <2>7. LastHash(before) = PrevHash(after, m + 1)
    <3>1. CASE m = 0
      <4>1. before = <<>> BY <2>4, <3>1
      <4>2. m + 1 = 1 BY <3>1
      <4> QED BY <4>1, <4>2, Zenon DEF LastHash, PrevHash
    <3>2. CASE m # 0
      <4>1. before # <<>> /\ m + 1 # 1 /\ m \in 1..m BY <2>4, <3>2
      <4>2. LastHash(before) = before[m].hash BY <2>4, <4>1, Zenon DEF LastHash, Last
      <4>3. PrevHash(after, m + 1) = after[m].hash BY <2>1, <4>1, Zenon DEF PrevHash
      <4> QED BY <2>6, <4>1, <4>2, <4>3, Zenon
    <3> QED BY <3>1, <3>2
  <2>8. ASSUME NEW i \in 1..(m + 1)
        PROVE  after[i] = AuditRow(i, PrevHash(after, i), contents[i])
    <3>1. CASE i = m + 1 BY <2>6, <2>7, <3>1, Zenon DEF row
    <3>2. CASE i # m + 1
      <4>1. i \in 1..m /\ (i # 1 => i - 1 \in 1..m) BY <3>2
      <4>2. PrevHash(after, i) = PrevHash(before, i) BY <2>6, <4>1, Zenon DEF PrevHash
      <4>3. before[i] = AuditRow(i, PrevHash(before, i), contents[i])
        BY <2>2, <4>1, Zenon DEF Sound, before
      <4> QED BY <2>6, <4>1, <4>2, <4>3, Zenon
    <3> QED BY <3>1, <3>2
  <2> QED BY <2>6, <2>8, Zenon DEF Sound, after
<1> HIDE DEF S
<1>5. n \in S BY <1>3, <1>4, SetInduction, Zenon
<1>6. n <= n OBVIOUS
<1> QED BY <1>2, <1>5, <1>6 DEF S

\* A recorded row, field by field.
LEMMA SoundRow ==
  ASSUME NEW rows, NEW contents, NEW n, Sound(rows, contents, n), NEW i \in 1..n
  PROVE  /\ rows[i].id = i /\ rows[i].prev = PrevHash(rows, i) /\ rows[i].content = contents[i]
         /\ rows[i].hash = ChainHash(PrevHash(rows, i), contents[i])
<1>1. rows[i] = AuditRow(i, PrevHash(rows, i), contents[i]) BY DEF Sound
<1> DEFINE p == PrevHash(rows, i)
<1>2. rows[i] = [id |-> i, prev |-> p, hash |-> ChainHash(p, contents[i]), content |-> contents[i]]
  BY <1>1 DEF AuditRow
<1> HIDE DEF p
<1>3. rows[i].id = i /\ rows[i].prev = p /\ rows[i].content = contents[i]
      /\ rows[i].hash = ChainHash(p, contents[i])
  BY <1>2
<1> QED BY <1>3 DEF p

\* No row has the hash of the row before it: a chain never returns to its beginning.
LEMMA HashesDiffer ==
  ASSUME NEW rows, NEW contents, NEW n \in Nat, Sound(rows, contents, n)
  PROVE  \A i \in 1..n : rows[i].hash # PrevHash(rows, i)
<1> DEFINE S == {m \in Nat : m \in 1..n => rows[m].hash # PrevHash(rows, m)}
<1>1. 0 \in S OBVIOUS
<1>2. ASSUME NEW m \in Nat, m \in S PROVE m + 1 \in S
  <2>0. m + 1 \in Nat OBVIOUS
  <2> SUFFICES ASSUME m + 1 \in 1..n, rows[m + 1].hash = PrevHash(rows, m + 1) PROVE FALSE
    BY <2>0, Zenon
  <2>1. rows[m + 1].hash = <<"row", PrevHash(rows, m + 1), contents[m + 1]>>
    BY SoundRow DEF ChainHash
  <2>2. CASE m = 0
    <3>1. PrevHash(rows, m + 1) = <<"genesis">>
      <4>1. m + 1 = 1 BY <2>2
      <4> QED BY <4>1, Zenon DEF PrevHash, Genesis
    <3> DEFINE p == PrevHash(rows, m + 1)
    <3>2. p = <<"genesis">> /\ p = <<"row", p, contents[m + 1]>> BY <2>1, <3>1
    <3> HIDE DEF p
    <3> QED BY <3>2
  <2>3. CASE m # 0
    <3>1. m \in 1..n /\ m + 1 # 1 /\ (m + 1) - 1 = m BY <2>3
    <3>2. PrevHash(rows, m + 1) = rows[m].hash BY <3>1, Zenon DEF PrevHash
    <3>3. rows[m].hash = <<"row", PrevHash(rows, m), contents[m]>>
      BY <3>1, SoundRow DEF ChainHash
    <3> DEFINE h == rows[m].hash
               p == PrevHash(rows, m)
    <3>4. h = <<"row", h, contents[m + 1]>> /\ h = <<"row", p, contents[m]>> BY <2>1, <3>2, <3>3, Zenon
    <3>5. h # p BY <1>2, <3>1
    <3> HIDE DEF h, p
    <3> QED BY <3>4, <3>5
  <2> QED BY <2>2, <2>3
<1> HIDE DEF S
<1>3. Nat \subseteq S BY <1>1, <1>2, SetInduction, Zenon
<1> QED BY <1>3 DEF S

\* The rows before the one that was tampered with stay good.
LEMMA EarlierRowsAreGood ==
  ASSUME NEW rows, NEW contents, NEW n \in Nat, Sound(rows, contents, n),
         NEW S, NEW other \in Seq(S), NEW m \in Nat, m <= n, m <= Len(other),
         \A j \in 1..m : other[j] = rows[j]
  PROVE  \A j \in 1..m : ~BadRow(other, j)
<1> SUFFICES ASSUME NEW j \in 1..m PROVE ~BadRow(other, j)
  OBVIOUS
<1>1. j \in 1..Len(other) /\ j \in 1..n /\ (j # 1 => j - 1 \in 1..m) OBVIOUS
<1>2. PrevHash(other, j) = PrevHash(rows, j) BY <1>1, Zenon DEF PrevHash
<1>3. /\ other[j].prev = PrevHash(other, j)
      /\ other[j].hash = ChainHash(PrevHash(other, j), other[j].content)
  BY <1>1, <1>2, SoundRow
<1> QED BY <1>1, <1>3, BadRows, Zenon

\* What verify_chain returns when the rows before i are as recorded and row i is bad.
LEMMA FirstTampered ==
  ASSUME NEW rows, NEW contents, NEW n \in Nat, Sound(rows, contents, n),
         NEW S, NEW other \in Seq(S), NEW i \in 1..Len(other), i <= n + 1,
         \A j \in 1..(i - 1) : other[j] = rows[j], BadRow(other, i)
  PROVE  FirstBadId(other) = other[i].id
<1>1. Len(other) \in Nat /\ i - 1 \in Nat /\ i - 1 <= n /\ i - 1 <= Len(other) OBVIOUS
<1>2. \A j \in 1..(i - 1) : ~BadRow(other, j) BY <1>1, EarlierRowsAreGood, Zenon
<1> QED BY <1>1, <1>2, FirstBadRow, Zenon

\* A row edited in place is the first bad row.
LEMMA EditedIsFound ==
  ASSUME NEW rows, NEW contents, NEW n \in Nat, Sound(rows, contents, n),
         NEW i \in 1..n, NEW c, c # contents[i]
  PROVE  FirstBadId(Edited(rows, i, c)) = i
<1> DEFINE e == Edited(rows, i, c)
<1>1. DOMAIN rows = 1..n BY Zenon DEF Sound
<1>2. rows[i] = [id |-> i, prev |-> PrevHash(rows, i),
                 hash |-> ChainHash(PrevHash(rows, i), contents[i]), content |-> contents[i]]
  BY Zenon DEF Sound, AuditRow
<1>3. e = [j \in 1..n |-> e[j]] /\ \A j \in 1..n : j # i => e[j] = rows[j]
  BY <1>1, Zenon DEF Edited
<1>4. e[i].id = i /\ e[i].content = c /\ e[i].hash = ChainHash(PrevHash(rows, i), contents[i])
  <2>1. e[i] = [rows[i] EXCEPT !.content = c] BY <1>1, Zenon DEF Edited
  <2> DEFINE p == PrevHash(rows, i)
             h == ChainHash(p, contents[i])
             r == rows[i]
  <2>2. r = [id |-> i, prev |-> p, hash |-> h, content |-> contents[i]] BY <1>2
  <2>3. e[i] = [r EXCEPT !.content = c] BY <2>1
  <2> HIDE DEF p, h, r, e
  <2>4. e[i].id = i /\ e[i].content = c /\ e[i].hash = h BY <2>2, <2>3
  <2> QED BY <2>4 DEF h, p
<1> HIDE DEF e
<1>5. PICK S : e \in Seq(S) /\ Len(e) = n BY <1>3, TableIsSequence, Zenon
<1>6. \A j \in 1..(i - 1) : e[j] = rows[j] BY <1>3
<1>7. PrevHash(e, i) = PrevHash(rows, i)
  <2>1. i # 1 => i - 1 \in 1..n /\ i - 1 # i OBVIOUS
  <2> QED BY <1>3, <2>1, Zenon DEF PrevHash
<1>8. BadRow(e, i)
  <2>1. \A p : ChainHash(p, contents[i]) # ChainHash(p, c) BY DEF ChainHash
  <2> QED BY <1>4, <1>5, <1>7, <2>1, BadRows, Zenon
<1>9. i \in 1..Len(e) /\ i <= n + 1 BY <1>5
<1>10. FirstBadId(e) = e[i].id BY <1>5, <1>6, <1>8, <1>9, FirstTampered
<1> QED BY <1>4, <1>10, Zenon DEF e

\* A row replaced whole, its hash recomputed, is betrayed by the next row, if there is one.
LEMMA RehashedIsFound ==
  ASSUME NEW rows, NEW contents, NEW n \in Nat, Sound(rows, contents, n),
         NEW i \in 1..n, NEW c, c # contents[i]
  PROVE  FirstBadId(Rehashed(rows, i, c)) = IF i = n THEN 0 ELSE i + 1
<1> DEFINE e == Rehashed(rows, i, c)
           p == PrevHash(rows, i)
<1>1. DOMAIN rows = 1..n BY Zenon DEF Sound
<1>2. rows[i].id = i /\ rows[i].prev = p BY SoundRow
<1>3. e = [j \in 1..n |-> e[j]] /\ \A j \in 1..n : j # i => e[j] = rows[j]
  BY <1>1, Zenon DEF Rehashed
<1>4. e[i] = [id |-> i, prev |-> p, hash |-> ChainHash(p, c), content |-> c]
  <2>1. e[i] = AuditRow(rows[i].id, rows[i].prev, c) BY <1>1, Zenon DEF Rehashed
  <2> QED BY <1>2, <2>1, Zenon DEF AuditRow
<1> HIDE DEF e
<1>5. PICK S : e \in Seq(S) /\ Len(e) = n BY <1>3, TableIsSequence, Zenon
<1>6. \A j \in 1..(i - 1) : e[j] = rows[j] BY <1>3
<1>7. PrevHash(e, i) = p
  <2>1. i # 1 => i - 1 \in 1..n /\ i - 1 # i OBVIOUS
  <2> QED BY <1>3, <2>1, Zenon DEF PrevHash
<1> HIDE DEF p
<1>8. e[i].prev = p /\ e[i].hash = ChainHash(p, c) /\ e[i].content = c BY <1>4
<1>9. ~BadRow(e, i) BY <1>5, <1>7, <1>8, BadRows, Zenon
<1>10. \A j \in 1..(i - 1) : ~BadRow(e, j)
  <2>1. i - 1 \in Nat /\ i - 1 <= n OBVIOUS
  <2> QED BY <1>5, <1>6, <2>1, EarlierRowsAreGood, Zenon
<1>11. CASE i = n
  <2>1. \A j \in 1..Len(e) : j \in 1..(i - 1) \/ j = i BY <1>5, <1>11
  <2>2. FirstBadId(e) = 0 BY <1>9, <1>10, <2>1, NoBadRow, Zenon
  <2> QED BY <1>11, <2>2 DEF e
<1>12. CASE i # n
  <2> DEFINE k == i + 1
  <2>1. k \in 1..n /\ k # i /\ k # 1 /\ k - 1 = i BY <1>12
  <2>2. \A j \in 1..(k - 1) : j \in 1..(i - 1) \/ j = i BY <2>1
  <2> HIDE DEF k
  <2>3. e[k] = rows[k] /\ PrevHash(e, k) = e[i].hash /\ PrevHash(rows, k) = rows[i].hash
    BY <1>3, <2>1, Zenon DEF PrevHash
  <2>4. e[k].prev = rows[i].hash /\ e[k].id = k BY <2>1, <2>3, SoundRow
  <2>5. rows[i].hash = ChainHash(p, contents[i]) BY SoundRow DEF p
  <2>6. rows[i].hash # e[i].hash
    <3>1. ChainHash(p, contents[i]) # ChainHash(p, c) BY DEF ChainHash
    <3> QED BY <1>8, <2>5, <3>1, Zenon
  <2>7. BadRow(e, k) BY <1>5, <2>1, <2>3, <2>4, <2>6, BadRows, Zenon
  <2>8. Len(e) \in Nat /\ k \in 1..Len(e) BY <1>5, <2>1
  <2>9. \A j \in 1..(k - 1) : ~BadRow(e, j) BY <1>9, <1>10, <2>2, Zenon
  <2>10. FirstBadId(e) = e[k].id BY <2>7, <2>8, <2>9, FirstBadRow, Zenon
  <2> QED BY <1>12, <2>4, <2>10, Zenon DEF e, k
<1> QED BY <1>11, <1>12

\* A row dropped is betrayed by the next row, if there is one.
LEMMA DroppedIsFound ==
  ASSUME NEW rows, NEW contents, NEW n \in Nat, Sound(rows, contents, n), NEW i \in 1..n
  PROVE  FirstBadId(Dropped(rows, i)) = IF i = n THEN 0 ELSE i + 1
<1> DEFINE e == Dropped(rows, i)
<1>1. PICK S : rows \in Seq(S) /\ Len(rows) = n BY TableIsSequence, Zenon DEF Sound
<1>2. /\ e \in Seq(S) /\ Len(e) = n - 1
      /\ \A j \in 1..(n - 1) : e[j] = IF j < i THEN rows[j] ELSE rows[j + 1]
  <2> DEFINE front == SubSeq(rows, 1, i - 1)
             back == SubSeq(rows, i + 1, n)
  <2>1. front \in Seq(S) /\ Len(front) = i - 1 /\ \A j \in 1..(i - 1) : front[j] = rows[j]
    BY <1>1, SMT
  <2>2. back \in Seq(S) /\ Len(back) = n - i /\ \A j \in 1..(n - i) : back[j] = rows[i + j]
    BY <1>1, SMT
  <2>3. e = front \o back BY <1>1, Zenon DEF Dropped, RemoveAt
  <2> HIDE DEF front, back, e
  <2>4. /\ e \in Seq(S) /\ Len(e) = Len(front) + Len(back)
        /\ \A j \in 1..(Len(front) + Len(back)) :
             e[j] = IF j <= Len(front) THEN front[j] ELSE back[j - Len(front)]
    BY <2>1, <2>2, <2>3, ConcatProperties, Zenon
  <2>5. Len(front) + Len(back) = n - 1 BY <2>1, <2>2
  <2>6. ASSUME NEW j \in 1..(n - 1) PROVE e[j] = IF j < i THEN rows[j] ELSE rows[j + 1]
    <3>1. e[j] = IF j <= i - 1 THEN front[j] ELSE back[j - (i - 1)] BY <2>1, <2>4, <2>5, Zenon
    <3>2. CASE j < i
      <4>1. j <= i - 1 /\ j \in 1..(i - 1) BY <3>2
      <4> QED BY <2>1, <3>1, <3>2, <4>1, Zenon
    <3>3. CASE ~(j < i)
      <4>1. ~(j <= i - 1) /\ j - (i - 1) \in 1..(n - i) /\ i + (j - (i - 1)) = j + 1 BY <3>3
      <4> QED BY <2>2, <3>1, <3>3, <4>1, Zenon
    <3> QED BY <3>2, <3>3
  <2> QED BY <2>4, <2>5, <2>6, Zenon
<1> HIDE DEF e
<1>3. \A j \in 1..(i - 1) : e[j] = rows[j] BY <1>2
<1>4. CASE i = n
  <2>1. i - 1 \in Nat /\ i - 1 <= n /\ i - 1 <= Len(e) BY <1>2, <1>4
  <2>2. \A j \in 1..(i - 1) : ~BadRow(e, j) BY <1>2, <1>3, <2>1, EarlierRowsAreGood, Zenon
  <2>3. Len(e) = i - 1 BY <1>2, <1>4
  <2>4. FirstBadId(e) = 0 BY <2>2, <2>3, NoBadRow, Zenon
  <2> QED BY <1>4, <2>4 DEF e
<1>5. CASE i # n
  <2>1. i \in 1..(n - 1) /\ i + 1 \in 1..n /\ ~(i < i) /\ i + 1 # 1 /\ (i + 1) - 1 = i
        /\ i \in 1..Len(e) /\ i <= n + 1
    BY <1>2, <1>5
  <2>2. e[i] = rows[i + 1] BY <1>2, <2>1, Zenon
  <2>3. PrevHash(e, i) = PrevHash(rows, i)
    <3>1. i # 1 => i - 1 \in 1..(i - 1) OBVIOUS
    <3> QED BY <1>3, <3>1, Zenon DEF PrevHash
  <2>4. rows[i + 1].prev = rows[i].hash /\ rows[i + 1].id = i + 1
    BY <2>1, SoundRow DEF PrevHash
  <2>5. BadRow(e, i) BY <1>2, <2>1, <2>2, <2>3, <2>4, HashesDiffer, BadRows
  <2>6. FirstBadId(e) = e[i].id BY <1>2, <1>3, <2>1, <2>5, FirstTampered
  <2> QED BY <1>5, <2>2, <2>4, <2>6, Zenon DEF e
<1> QED BY <1>4, <1>5

\* What CommitmentsBind says of the chain of some contents.
ChainBinds(contents) ==
  LET rows == ChainOf(contents)
      Successor(i) == IF i = Len(rows) THEN 0 ELSE i + 1
  IN
  /\ FirstBadId(rows) = 0
  /\ \A i \in DOMAIN rows : FirstBadId(Dropped(rows, i)) = Successor(i)
  /\ \A i \in DOMAIN rows : \A c \in Contents \ {contents[i]} :
       /\ FirstBadId(Edited(rows, i, c)) = i
       /\ FirstBadId(Rehashed(rows, i, c)) = Successor(i)

\* verify_chain of the chain of any contents, and of that chain tampered with in one row.
LEMMA ChainsBind ==
  ASSUME NEW n \in Nat, NEW contents \in [1..n -> Contents]
  PROVE  ChainBinds(contents)
<1> DEFINE rows == ChainOf(contents)
           Successor(i) == IF i = Len(rows) THEN 0 ELSE i + 1
<1>1. Len(contents) = n BY FunctionIsSequence, Zenon
<1>2. Sound(rows, contents, n) BY <1>1, ChainIsSound, Zenon
<1> HIDE DEF rows
<1>3. DOMAIN rows = 1..n BY <1>2, Zenon DEF Sound
<1>4. PICK S : rows \in Seq(S) /\ Len(rows) = n BY <1>2, TableIsSequence, Zenon DEF Sound
<1>5. FirstBadId(rows) = 0
  <2>1. n <= n /\ n <= Len(rows) BY <1>4
  <2>2. \A j \in 1..n : ~BadRow(rows, j) BY <1>2, <1>4, <2>1, EarlierRowsAreGood, Zenon
  <2> QED BY <1>4, <2>2, NoBadRow, Zenon
<1>6. ASSUME NEW i \in DOMAIN rows PROVE FirstBadId(Dropped(rows, i)) = Successor(i)
  BY <1>2, <1>3, <1>4, DroppedIsFound, Zenon
<1>7. ASSUME NEW i \in DOMAIN rows, NEW c \in Contents \ {contents[i]}
      PROVE  FirstBadId(Edited(rows, i, c)) = i /\ FirstBadId(Rehashed(rows, i, c)) = Successor(i)
  <2>1. c # contents[i] /\ i \in 1..n BY <1>3
  <2>2. FirstBadId(Edited(rows, i, c)) = i BY <1>2, <2>1, EditedIsFound
  <2>3. FirstBadId(Rehashed(rows, i, c)) = Successor(i) 
    <3>1. FirstBadId(Rehashed(rows, i, c)) = IF i = n THEN 0 ELSE i + 1
      BY <1>2, <2>1, RehashedIsFound
    <3> QED BY <1>4, <3>1, Zenon
  <2> QED BY <2>2, <2>3
<1> QED BY <1>5, <1>6, <1>7, Zenon DEF ChainBinds, rows

\* Merkle roots and audit chains of any length and any contents: a root has one list of leaves
\* of its length, and verify_chain finds the first row that is not as it was recorded, unless
\* it is the last one and was replaced or dropped whole.
THEOREM HashesBind == Spec => []CommitmentsBind
<1>1. ComputedCases => CommitmentsBind
  <2> SUFFICES ASSUME case \in SeriesCases PROVE CommitmentsBind
    BY DEF ComputedCases, CommitmentsBind
  <2>1. PICK n \in Nat : case.series \in [1..n -> Contents]
    <3>1. case.series \in Series BY DEF SeriesCases
    <3>2. PICK n \in 0..MaxRows : case.series \in [1..n -> Contents] BY <3>1, Zenon DEF Series
    <3>3. n \in Nat BY RowsAssumption
    <3> QED BY <3>2, <3>3
  <2> DEFINE series == case.series
  <2>2. series \in [1..n -> Contents] BY <2>1
  <2> HIDE DEF series
  <2>3. \A other \in [1..Len(series) -> Contents] :
           MerkleRoot(other) = MerkleRoot(series) => other = series
    <3>1. Len(series) = n BY <2>2, FunctionIsSequence, Zenon
    <3> QED BY <2>2, <3>1, RootBinds, Zenon
  <2>4. ChainBinds(series) BY <2>2, ChainsBind
  <2> QED BY <2>3, <2>4, Zenon DEF CommitmentsBind, ChainBinds, series
<1> QED BY <1>1, ComputedCasesStay, PTL

-----------------------------------------------------------------------------
(* Declarations priced *)

\* A total does not depend on the order of its addends.
LEMMA TotalReversed ==
  ASSUME NEW a \in Seq(Int)
  PROVE  /\ Reverse(a) \in Seq(Int) /\ Len(Reverse(a)) = Len(a)
         /\ Total(Reverse(a)) = Total(a)
<1> DEFINE n == Len(a)
           b == Reverse(a)
<1>1. n \in Nat /\ a \in [1..n -> Int] BY LenProperties, Zenon
<1>2. b = [i \in 1..n |-> a[(n - i) + 1]] BY DEF Reverse
<1> HIDE DEF b, n
<1>3. b \in Seq(Int) /\ Len(b) = n
  <2>1. \A i \in 1..n : (n - i) + 1 \in 1..n BY <1>1
  <2>2. b \in [1..n -> Int] BY <1>1, <1>2, <2>1, Zenon
  <2> QED BY <1>1, <2>2, FunctionIsSequence, Zenon
<1>4. PICK f \in [0..n -> Int] :
        f[0] = 0 /\ (\A i \in 1..n : f[i] = f[i - 1] + a[i]) /\ Total(a) = f[n]
  BY TotalUnfolds, Zenon DEF n
<1>5. PICK g \in [0..n -> Int] :
        g[0] = 0 /\ (\A i \in 1..n : g[i] = g[i - 1] + b[i]) /\ Total(b) = g[n]
  BY <1>3, TotalUnfolds, Zenon
<1> DEFINE S == {m \in Nat : m <= n => g[m] = f[n] - f[n - m]}
<1>6. 0 \in S
  <2>1. n - 0 = n /\ n \in 0..n BY <1>1
  <2>2. f[n] \in Int BY <2>1
  <2>3. f[n] - f[n - 0] = 0
    <3> DEFINE last == f[n]
    <3>1. last \in Int BY <2>2
    <3>2. f[n - 0] = last BY <2>1, Zenon
    <3> HIDE DEF last
    <3>3. last - last = 0 BY <3>1
    <3> QED BY <3>2, <3>3, Zenon DEF last
  <2> QED BY <1>5, <2>3
<1>7. ASSUME NEW m \in Nat, m \in S PROVE m + 1 \in S
  <2>0. m + 1 \in Nat OBVIOUS
  <2> SUFFICES ASSUME m + 1 <= n PROVE g[m + 1] = f[n] - f[n - (m + 1)]
    BY <2>0, Zenon
  <2> DEFINE k == n - m
  <2>1. /\ m <= n /\ m + 1 \in 1..n /\ (m + 1) - 1 = m
        /\ k \in 1..n /\ k - 1 = n - (m + 1) /\ (n - (m + 1)) + 1 = k /\ k \in 0..n /\ k - 1 \in 0..n
        /\ n \in 0..n
    BY <1>1
  <2>2. g[m] = f[n] - f[k] BY <1>7, <2>1
  <2> HIDE DEF k, S
  <2>3. g[m + 1] = g[m] + b[m + 1] BY <1>5, <2>1, Zenon
  <2>4. b[m + 1] = a[k] BY <1>2, <2>1, Zenon
  <2>5. f[k] = f[k - 1] + a[k] BY <1>4, <2>1, Zenon
  <2>6. f[n] \in Int /\ f[k] \in Int /\ f[k - 1] \in Int /\ a[k] \in Int BY <1>1, <2>1, Zenon
  <2> DEFINE p == f[n]
             q == f[k]
             r == f[k - 1]
             v == a[k]
             w == g[m + 1]
             u == g[m]
  <2>7. /\ p \in Int /\ q \in Int /\ r \in Int /\ v \in Int
        /\ w = u + v /\ u = p - q /\ q = r + v
    BY <2>2, <2>3, <2>4, <2>5, <2>6, Zenon
  <2>8. f[n - (m + 1)] = r BY <2>1, Zenon
  <2> HIDE DEF p, q, r, v, w, u
  <2>9. w = p - r BY <2>7
  <2> QED BY <2>8, <2>9, Zenon DEF p, w
<1> HIDE DEF S
<1>8. n \in S BY <1>1, <1>6, <1>7, SetInduction, Zenon
<1>9. g[n] = f[n] - f[n - n]
  <2>1. n <= n BY <1>1
  <2> QED BY <1>8, <2>1 DEF S
<1>10. g[n] = f[n]
  <2>1. n - n = 0 /\ n \in 0..n BY <1>1
  <2>2. g[n] = f[n] - 0 BY <1>4, <1>9, <2>1, Zenon
  <2>3. f[n] \in Int BY <2>1
  <2> QED BY <2>2, <2>3
<1> QED BY <1>3, <1>4, <1>5, <1>10, Zenon DEF n, b

\* A total is the total of all but the last addend, and the last.
LEMMA TotalOfFront ==
  ASSUME NEW n \in Nat, NEW a \in [1..(n + 1) -> Int], NEW b \in [1..n -> Int],
         \A i \in 1..n : b[i] = a[i]
  PROVE  /\ Total(b) \in Int /\ Total(a) = Total(b) + a[n + 1]
<1>1. a \in Seq(Int) /\ Len(a) = n + 1 /\ b \in Seq(Int) /\ Len(b) = n
  <2>1. n + 1 \in Nat OBVIOUS
  <2> QED BY <2>1, FunctionIsSequence, Zenon
<1>2. PICK f \in [0..(n + 1) -> Int] :
        f[0] = 0 /\ (\A i \in 1..(n + 1) : f[i] = f[i - 1] + a[i]) /\ Total(a) = f[n + 1]
  BY <1>1, TotalUnfolds, Zenon
<1>3. PICK g \in [0..n -> Int] :
        g[0] = 0 /\ (\A i \in 1..n : g[i] = g[i - 1] + b[i]) /\ Total(b) = g[n]
  BY <1>1, TotalUnfolds, Zenon
<1> DEFINE S == {m \in Nat : m <= n => g[m] = f[m]}
<1>4. 0 \in S
  <2>1. 0 \in Nat OBVIOUS
  <2> QED BY <1>2, <1>3, <2>1, Zenon
<1>5. ASSUME NEW m \in Nat, m \in S PROVE m + 1 \in S
  <2>0. m + 1 \in Nat OBVIOUS
  <2> SUFFICES ASSUME m + 1 <= n PROVE g[m + 1] = f[m + 1]
    BY <2>0, Zenon
  <2>1. m <= n /\ m + 1 \in 1..n /\ m + 1 \in 1..(n + 1) /\ (m + 1) - 1 = m OBVIOUS
  <2>2. g[m] = f[m] BY <1>5, <2>1
  <2>3. f[m + 1] = f[(m + 1) - 1] + a[m + 1] BY <1>2, <2>1, Zenon
  <2>4. g[m + 1] = g[(m + 1) - 1] + b[m + 1] BY <1>3, <2>1, Zenon
  <2>5. f[m + 1] = f[m] + a[m + 1] BY <2>1, <2>3
  <2>6. g[m + 1] = g[m] + b[m + 1] BY <2>1, <2>4
  <2>7. a[m + 1] = b[m + 1] BY <2>1
  <2> HIDE DEF S
  <2> QED BY <2>2, <2>5, <2>6, <2>7, Zenon
<1> HIDE DEF S
<1>6. n \in S BY <1>4, <1>5, SetInduction, Zenon
<1>7. g[n] = f[n]
  <2>1. n <= n OBVIOUS
  <2> QED BY <1>6, <2>1 DEF S
<1>8. n + 1 \in 1..(n + 1) /\ (n + 1) - 1 = n /\ n \in 0..n OBVIOUS
<1>9. f[n + 1] = f[n] + a[n + 1] BY <1>2, <1>8, Zenon
<1>10. g[n] \in Int BY <1>8
<1> QED BY <1>2, <1>3, <1>7, <1>9, <1>10, Zenon

\* The lines of some declaration of n lines that a rate covers, and what each line adds.
Bearing(lines, on) == {i \in DOMAIN lines : Candidates(lines[i].hs, on) # {}}
Duties(lines, on) ==
  [i \in DOMAIN lines |-> IF i \in Bearing(lines, on) THEN LineDuty(lines[i], on) ELSE 0]

LEMMA AssessedInParts ==
  ASSUME NEW lines, NEW on
  PROVE  Assessed(lines, on) =
           IF Bearing(lines, on) = {}
           THEN [error |-> NotStampBearing, duty |-> 0, lines |-> 0, approvals |-> 0]
           ELSE [error |-> "none", duty |-> Total(Duties(lines, on)),
                 lines |-> Cardinality(Bearing(lines, on)),
                 approvals |-> RiskTierFor(Total(Duties(lines, on))).approvals]
  BY DEF Assessed, Bearing, Duties

\* rate_for and compute_line_duty of a line that a rate covers: a natural number of kobo.
LEMMA DutyIsNatural ==
  ASSUME NEW line \in Line, NEW on \in Days, Candidates(line.hs, on) # {}
  PROVE  LineDuty(line, on) \in Nat
<1>1. line.hs \in HsCodes /\ line.quantity \in Amounts /\ line.value \in Amounts BY DEF Line
<1>2. Digits(line.hs) \in Seq(Nat) /\ line.quantity \in Nat /\ line.value \in Nat
  BY <1>1, ConsignmentAssumption, Zenon
<1>3. on \in Dates
  <2>1. IsDate(on) BY ConsignmentAssumption, Zenon
  <2> QED BY <2>1, Zenon DEF Dates, IsDate
<1>4. on \in Nat BY <1>3, DatesAreNumbers, Zenon
<1> DEFINE rates == Candidates(line.hs, on)
           rate == RateFor(line.hs, on)
<1>5. \A r, o \in rates : r = o BY <1>2, <1>4, OneRateADay
<1>6. \A r \in rates : r.specific \in Nat /\ r.bp \in Nat /\ Len(r.prefix) <= Len(r.prefix)
  <2>1. \A r \in TariffTable : r.specific \in Nat /\ r.bp \in Nat
    BY SMT DEF TariffTable, Rate
  <2>2. \A r \in TariffTable : r.prefix \in {<<2, 4, 0, 2>>, <<2, 2, 0, 3>>, <<2, 2, 0, 8>>, <<2, 2, 0, 2>>, <<3, 0>>}
    BY SMT DEF TariffTable, Rate
  <2>3. \A r \in TariffTable : Len(r.prefix) \in Nat BY <2>2
  <2>4. \A r \in TariffTable : Len(r.prefix) <= Len(r.prefix) BY <2>3
  <2>5. \A r \in rates : r \in TariffTable BY Zenon DEF Candidates
  <2> QED BY <2>1, <2>4, <2>5, Zenon
<1>7. rate \in rates
  <2>1. \E r \in rates : \A o \in rates : Len(o.prefix) <= Len(r.prefix) BY <1>5, <1>6, Zenon
  <2> QED BY <2>1 DEF RateFor
<1>8. LineDuty(line, on) = rate.specific * line.quantity + AdValorem(line.value, rate.bp)
  BY Zenon DEF LineDuty
<1> HIDE DEF rate, rates
<1>9. rate.specific \in Nat /\ rate.bp \in Nat BY <1>6, <1>7, Zenon
<1>10. AdValorem(line.value, rate.bp) \in Nat BY <1>2, <1>9, RoundedHalfUp, Zenon
<1>11. rate.specific * line.quantity \in Nat BY <1>2, <1>9
<1> QED BY <1>8, <1>10, <1>11

LEMMA DutiesAreNatural ==
  ASSUME NEW n \in Nat, NEW lines \in [1..n -> Line], NEW on \in Days
  PROVE  /\ Duties(lines, on) \in [1..n -> Nat]
         /\ Duties(lines, on) \in Seq(Int) /\ Len(Duties(lines, on)) = n
<1>1. DOMAIN lines = 1..n OBVIOUS
<1>2. ASSUME NEW i \in 1..n
      PROVE  (IF i \in Bearing(lines, on) THEN LineDuty(lines[i], on) ELSE 0) \in Nat
  <2>1. lines[i] \in Line OBVIOUS
  <2>2. i \in Bearing(lines, on) => LineDuty(lines[i], on) \in Nat
    BY <2>1, DutyIsNatural, Zenon DEF Bearing
  <2>3. 0 \in Nat OBVIOUS
  <2> QED BY <2>2, <2>3, Zenon
<1>3. Duties(lines, on) \in [1..n -> Nat] BY <1>1, <1>2, Zenon DEF Duties
<1>4. \A i \in Nat : i \in Int OBVIOUS
<1>5. Duties(lines, on) \in [1..n -> Int] BY <1>3, <1>4, Zenon
<1> QED BY <1>3, <1>5, FunctionIsSequence, Zenon

\* The assessment does not depend on the order of the lines.
LEMMA OrderDoesNotMatter ==
  ASSUME NEW n \in Nat, NEW lines \in [1..n -> Line], NEW on \in Days
  PROVE  Assessed(Reverse(lines), on) = Assessed(lines, on)
<1> DEFINE back == Reverse(lines)
           bearing == Bearing(lines, on)
           image == Bearing(back, on)
           Mirror(i) == (n - i) + 1
<1>1. Len(lines) = n /\ DOMAIN lines = 1..n BY FunctionIsSequence, Zenon
<1>2. \A i \in 1..n : Mirror(i) \in 1..n /\ Mirror(Mirror(i)) = i OBVIOUS
<1>3. back = [i \in 1..n |-> lines[Mirror(i)]] BY <1>1, Zenon DEF Reverse
<1>4. DOMAIN back = 1..n /\ \A i \in 1..n : back[i] = lines[Mirror(i)] BY <1>3, Zenon
<1> HIDE DEF back, Mirror
<1>5. /\ bearing \subseteq 1..n /\ image \subseteq 1..n
      /\ \A i \in 1..n : i \in image <=> Mirror(i) \in bearing
  BY <1>1, <1>2, <1>4, Zenon DEF Bearing
<1>6. Duties(back, on) = Reverse(Duties(lines, on))
  <2>1. DOMAIN Duties(back, on) = 1..n BY <1>4, Zenon DEF Duties
  <2>2. Len(Duties(lines, on)) = n BY DutiesAreNatural, Zenon
  <2>3. Reverse(Duties(lines, on)) = [i \in 1..n |-> Duties(lines, on)[Mirror(i)]]
    BY <2>2, Zenon DEF Reverse, Mirror
  <2>4. ASSUME NEW i \in 1..n PROVE Duties(back, on)[i] = Duties(lines, on)[Mirror(i)]
    <3>1. Mirror(i) \in 1..n /\ (i \in image <=> Mirror(i) \in bearing) BY <1>2, <1>5, Zenon
    <3>2. Duties(back, on)[i] = IF i \in image THEN LineDuty(back[i], on) ELSE 0
      BY <1>4, Zenon DEF Duties
    <3>3. Duties(lines, on)[Mirror(i)]
            = IF Mirror(i) \in bearing THEN LineDuty(lines[Mirror(i)], on) ELSE 0
      BY <1>1, <3>1, Zenon DEF Duties
    <3> QED BY <1>4, <3>1, <3>2, <3>3, Zenon
  <2>5. Duties(back, on) = [i \in 1..n |-> Duties(back, on)[i]] BY <1>4, Zenon DEF Duties
  <2> QED BY <2>3, <2>4, <2>5, Zenon
<1>7. Total(Duties(back, on)) = Total(Duties(lines, on))
  BY <1>6, DutiesAreNatural, TotalReversed, Zenon
<1> HIDE DEF bearing, image
<1>8. Cardinality(image) = Cardinality(bearing)
  <2>1. IsFiniteSet(bearing)
    <3>1. IsFiniteSet(1..n) BY FS_Interval
    <3> QED BY <1>5, <3>1, FS_Subset, Zenon
  <2> DEFINE M == [i \in bearing |-> Mirror(i)]
  <2>2. \A i \in bearing : i \in 1..n /\ Mirror(i) \in image BY <1>2, <1>5, Zenon
  <2>3. M \in [bearing -> image] BY <2>2, Zenon
  <2>4. \A i, j \in bearing : M[i] = M[j] => i = j BY <1>2, <2>2, Zenon
  <2>5. \A j \in image : \E i \in bearing : M[i] = j
    <3>1. ASSUME NEW j \in image PROVE Mirror(j) \in bearing /\ M[Mirror(j)] = j
      BY <1>2, <1>5, Zenon
    <3> QED BY <3>1, Zenon
  <2> HIDE DEF M
  <2>6. M \in Bijection(bearing, image)
    BY <2>3, <2>4, <2>5 DEF Bijection, Injection, Surjection, IsInjective
  <2>7. ExistsBijection(bearing, image) BY <2>6, Zenon DEF ExistsBijection
  <2> QED BY <2>1, <2>7, FS_Bijection, Zenon
<1>9. image = {} <=> bearing = {} BY <1>2, <1>5, Zenon
<1> QED BY <1>7, <1>8, <1>9, AssessedInParts, Zenon DEF back, bearing, image

\* No line of an assessment lowers the approvals it needs.
LEMMA LinesOnlyAddApprovals ==
  ASSUME NEW n \in Nat \ {0}, NEW lines \in [1..n -> Line], NEW on \in Days
  PROVE  Assessed(Front(lines), on).approvals <= Assessed(lines, on).approvals
<1> DEFINE m == n - 1
           front == Front(lines)
<1>1. m \in Nat /\ m + 1 = n /\ \A i \in 1..m : i \in 1..n OBVIOUS
<1>2. front \in [1..m -> Line] /\ \A i \in 1..m : front[i] = lines[i]
  <2>1. lines \in Seq(Line) /\ Len(lines) = n
    <3>1. n \in Nat OBVIOUS
    <3> QED BY <3>1, FunctionIsSequence, Zenon
  <2>2. front = [i \in 1..(n - 1) |-> lines[i]] BY <2>1 DEF Front
  <2> QED BY <1>1, <2>2
<1> HIDE DEF m, front
<1>3. DOMAIN lines = 1..n /\ DOMAIN front = 1..m BY <1>2
<1>4. /\ Bearing(front, on) \subseteq Bearing(lines, on)
      /\ \A i \in 1..m : i \in Bearing(front, on) <=> i \in Bearing(lines, on)
  BY <1>1, <1>2, <1>3, Zenon DEF Bearing
<1> DEFINE a == Duties(lines, on)
           b == Duties(front, on)
<1>5. a \in [1..n -> Nat] /\ b \in [1..m -> Nat]
  <2>1. n \in Nat OBVIOUS
  <2> QED BY <1>1, <1>2, <2>1, DutiesAreNatural, Zenon
<1>6. \A i \in 1..m : b[i] = a[i] BY <1>1, <1>2, <1>3, <1>4, Zenon DEF Duties
<1> HIDE DEF a, b
<1>7. Total(b) \in Int /\ Total(a) \in Int /\ Total(b) <= Total(a)
  <2>1. a \in [1..(m + 1) -> Int] /\ b \in [1..m -> Int] BY <1>1, <1>5
  <2>2. Total(b) \in Int /\ Total(a) = Total(b) + a[m + 1] BY <1>1, <1>6, <2>1, TotalOfFront, Zenon
  <2>3. a[m + 1] \in Nat
    <3>1. m + 1 \in 1..n BY <1>1
    <3> QED BY <1>5, <3>1
  <2> QED BY <2>2, <2>3
<1>8. /\ RiskTierFor(Total(b)).approvals <= RiskTierFor(Total(a)).approvals
      /\ 0 <= RiskTierFor(Total(a)).approvals
  BY <1>7, ThresholdAssumption, SMT DEF RiskTierFor
<1>9. CASE Bearing(lines, on) = {}
  <2>1. Bearing(front, on) = {} BY <1>4, <1>9
  <2>2. Assessed(front, on).approvals = 0 /\ Assessed(lines, on).approvals = 0
    BY <1>9, <2>1, AssessedInParts
  <2> QED BY <2>2 DEF front
<1>10. CASE Bearing(lines, on) # {}
  <2>1. Assessed(lines, on).approvals = RiskTierFor(Total(a)).approvals
    BY <1>10, AssessedInParts DEF a
  <2>2. CASE Bearing(front, on) = {}
    <3>1. Assessed(front, on).approvals = 0 BY <2>2, AssessedInParts
    <3> QED BY <1>8, <2>1, <3>1 DEF front
  <2>3. CASE Bearing(front, on) # {}
    <3>1. Assessed(front, on).approvals = RiskTierFor(Total(b)).approvals
      BY <2>3, AssessedInParts DEF b
    <3> QED BY <1>8, <2>1, <3>1 DEF front
  <2> QED BY <2>2, <2>3
<1> QED BY <1>9, <1>10

\* compute_line_duty prices every line of a declaration, and create_assessment the declaration,
\* whatever its lines and their order: by the one rate of the day and to the nearest kobo.
THEOREM PricedByTheRate == Spec => []PricedByTheRateOfTheDay
<1>1. ComputedCases => PricedByTheRateOfTheDay
  <2> SUFFICES ASSUME case \in ConsignmentCases PROVE PricedByTheRateOfTheDay
    BY DEF ComputedCases, PricedByTheRateOfTheDay
  <2> DEFINE lines == case.lines
             on == case.on
  <2>1. on \in Days /\ \E n \in 1..MaxLines : lines \in [1..n -> Line]
    <3>1. lines \in Consignments /\ on \in Days BY DEF ConsignmentCases
    <3> QED BY <3>1, Zenon DEF Consignments
  <2>2. PICK n \in Nat \ {0} : lines \in [1..n -> Line]
    <3>1. \A n \in 1..MaxLines : n \in Nat \ {0} BY RowsAssumption
    <3> QED BY <2>1, <3>1, Zenon
  <2> HIDE DEF lines, on
  <2>3. n \in Nat OBVIOUS
  <2>4. ASSUME NEW i \in DOMAIN lines PROVE LinePriced(lines[i], on)
    <3>1. lines[i] \in Line BY <2>2
    <3>2. lines[i].hs \in HsCodes /\ lines[i].quantity \in Amounts /\ lines[i].value \in Amounts
      BY <3>1 DEF Line
    <3>3. Digits(lines[i].hs) \in Seq(Nat) /\ lines[i].quantity \in Nat /\ lines[i].value \in Nat
      BY <3>2, ConsignmentAssumption, Zenon
    <3>4. IsDate(on) BY <2>1, ConsignmentAssumption, Zenon
    <3>5. on \in Dates BY <3>4, Zenon DEF Dates, IsDate
    <3> QED BY <3>3, <3>5, EveryLinePriced, Zenon
  <2>5. Assessed(lines, on) = Assessed(Reverse(lines), on)
    BY <2>1, <2>2, <2>3, OrderDoesNotMatter, Zenon
  <2>6. Assessed(lines, on).error = "none"
          <=> \E i \in DOMAIN lines : Candidates(lines[i].hs, on) # {}
    <3>1. Bearing(lines, on) # {} <=> \E i \in DOMAIN lines : Candidates(lines[i].hs, on) # {}
      BY Zenon DEF Bearing
    <3>2. Assessed(lines, on).error = IF Bearing(lines, on) = {} THEN NotStampBearing ELSE "none"
      BY AssessedInParts
    <3>3. NotStampBearing # "none" BY DEF NotStampBearing
    <3> QED BY <3>1, <3>2, <3>3, Zenon
  <2>7. Assessed(Front(lines), on).approvals <= Assessed(lines, on).approvals
    BY <2>1, <2>2, LinesOnlyAddApprovals, Zenon
  <2> QED BY <2>4, <2>5, <2>6, <2>7, Zenon DEF PricedByTheRateOfTheDay, lines, on
<1> QED BY <1>1, ComputedCasesStay, PTL

=============================================================================
