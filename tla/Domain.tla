------------------------------- MODULE Domain -------------------------------
(***************************************************************************)
(* The algorithms the services are built from, put to the test: a state is  *)
(* one case of one of them, and an invariant compares what the algorithm    *)
(* computes for the case with what it is for.  The bitstring is the only    *)
(* one with a state; it takes one write per step.                           *)
(***************************************************************************)
EXTENDS Serials, StatusBits, Commitments, Sampling, Tariff, Signatures, Access, FiniteSets

CONSTANTS
  Years, Sequences,         \* of serials
  ListSize, MaxFlags,       \* bits of a status list, bound on those set
  Contents, MaxRows,        \* leaves and audit records, bound on their number
  Lots,                     \* sizes of lots
  HsCodes, Days, Amounts,   \* of declaration lines
  MaxLines,                 \* bound on the lines of a declaration
  Keys, Kids, Directory,    \* signing keys, key ids, and the keys verifiers know
  Issuer,                   \* the signing key of this service
  Indexes0                  \* status-list indexes of stamps

\* StatusList refuses a length that does not fill its bytes.
ASSUME ListSizeAssumption == ListSize \in Nat \ {0} /\ ListSize % 8 = 0
ASSUME LotsAssumption == Lots \subseteq 1..MaxLot

\* build_serial refuses other years, and a sequence of more than ten digits.
ASSUME SerialAssumption ==
  /\ Years \subseteq 1900..9999
  /\ Sequences \subseteq Nat /\ \A n \in Sequences : n \div 100000 < 100000

ASSUME RowsAssumption == MaxRows \in Nat /\ MaxLines \in Nat

\* The numbers yyyymmdd that dates have; four months end after thirty days.
IsDate(on) ==
  /\ on \in 0..OpenEnded
  /\ on % 100 \in 1..31
  /\ (on \div 100) % 100 \in {4, 6, 9, 11} => on % 100 <= 30

\* The schemas put no pattern on an HS code; they refuse negative quantities and values.
ASSUME ConsignmentAssumption ==
  /\ \A hs \in HsCodes : Digits(hs) \in Seq(Nat)
  /\ \A on \in Days : IsDate(on)
  /\ Amounts \subseteq Nat

VARIABLE case

SerialCases == [of: {"serial"}, category: CategoryCodes, year: Years, sequence: Sequences]

ListCase(bytes, flags) == [of |-> "list", bytes |-> bytes, flags |-> flags]

Series == UNION {[1..n -> Contents] : n \in 0..MaxRows}
SeriesCases == [of: {"leaves", "chain"}, series: Series]

LotCases == [of: {"lot"}, lot: Lots]

Line == [hs: HsCodes, quantity: Amounts, value: Amounts]
Consignments == UNION {[1..n -> Line] : n \in 1..MaxLines}
ConsignmentCases == [of: {"consignment"}, lines: Consignments, on: Days]

\* Envelopes as producers build them, and some that are not built so; each with a signature
\* over any of them, or with none.
EventTypes == {"stamps.issued.v1", "declarations.submitted.v1"}
Built == {BuildEnvelope(type, content) : type \in EventTypes, content \in Contents}
Renamed(b) == [b EXCEPT !.resource = "other"]
Bodies == UNION {{b, Renamed(b), [b EXCEPT !.version = "0.9"], [b EXCEPT !.entries = 2]} : b \in Built}
Signed == {JwsSign(kid, key, body) : kid \in Kids, key \in Keys, body \in Bodies}
Jwss == {NoJws} \cup Signed \cup {[j EXCEPT !.signed.alg = "none"] : j \in Signed}
EnvelopeCases == [of: {"envelope"}, envelope: [body: Bodies, jws: Jwss],
                  expected: EventTypes \cup {AnyType}]

\* Credentials whose document may be another one than the one that was signed.
Purposes0 == {"void", "expired", "suspect"}
Docs == {BuildStampCredential(serial, index, Purposes0) : serial \in Contents, index \in Indexes0}
Suites == {ProofOptions, [ProofOptions EXCEPT !.suite = "other"]}
Credentials == [doc: Docs, options: Suites,
                proof: {IssueProof(signed, key).proof : signed \in Docs, key \in Keys}]
PublishedLists == UNION {[purposes -> SUBSET Indexes0] : purposes \in SUBSET {"void", "suspect"}}
CredentialCases == [of: {"credential"}, credential: Credentials, serial: Contents, lists: PublishedLists]

RoleCases == [of: {"roles"}, roles: SUBSET Roles]

Init ==
  \/ case \in SerialCases
  \/ case = ListCase(EmptyList(ListSize), {})
  \/ case \in SeriesCases
  \/ case \in LotCases
  \/ case \in ConsignmentCases
  \/ case \in EnvelopeCases
  \/ case \in CredentialCases
  \/ case \in RoleCases

WriteBit ==
  /\ case.of = "list"
  /\ \E i \in Indexes(case.bytes), value \in BOOLEAN :
       LET flags == IF value THEN case.flags \cup {i} ELSE case.flags \ {i} IN
       /\ Cardinality(flags) <= MaxFlags
       /\ case' = ListCase(SetBit(case.bytes, i, value), flags)

Computed == case.of # "list" /\ UNCHANGED case

Next == WriteBit \/ Computed

Spec == Init /\ [][Next]_case

-----------------------------------------------------------------------------
(* Properties *)

\* parse_serial, which stands before the lookup of a scan: what build_serial makes is parsed
\* back to its parts, and every usual slip in it is rejected.
SlipsAreRejected ==
  case.of = "serial" =>
    LET s == BuildSerial(case.category, case.year, case.sequence) IN
    /\ ValidSerial(s)
    /\ ParseSerial(s) = [category |-> case.category, year |-> case.year, sequence |-> case.sequence]
    /\ \A t \in Slips(s) \ {s} : ~ValidSerial(t)

ReadsBack(bytes, flags) == \A i \in Indexes(bytes) : GetBit(bytes, i) <=> i \in flags

\* StatusList: after any writes the bytes are the bitstring the W3C specification defines for
\* the flags that were last written TRUE, and get reads exactly those.
BytesHoldTheFlags ==
  case.of = "list" =>
    /\ ValueOf(case.bytes) = Bitstring(case.flags, ListSize)
    /\ ReadsBack(case.bytes, case.flags)

\* merkle_root "is unambiguous for a fixed leaf count"; verify_chain finds the first row
\* that is not as it was recorded, unless it is the last one and was replaced or dropped whole.
CommitmentsBind ==
  /\ case.of = "leaves" =>
       \A other \in [1..Len(case.series) -> Contents] :
         MerkleRoot(other) = MerkleRoot(case.series) => other = case.series
  /\ case.of = "chain" =>
       LET rows == ChainOf(case.series)
           Successor(i) == IF i = Len(rows) THEN 0 ELSE i + 1
       IN
       /\ FirstBadId(rows) = 0
       /\ \A i \in DOMAIN rows : FirstBadId(Dropped(rows, i)) = Successor(i)
       /\ \A i \in DOMAIN rows : \A c \in Contents \ {case.series[i]} :
            /\ FirstBadId(Edited(rows, i, c)) = i
            /\ FirstBadId(Rehashed(rows, i, c)) = Successor(i)

\* plan_for_lot: every lot has a plan under which it can pass and can fail, of a sample it can
\* yield and that is the whole lot exactly at 100 % inspection; a larger lot is never sampled
\* less nor held to fewer defectives.
EveryLotCanBeJudged ==
  case.of = "lot" =>
    LET plan == PlanForLot(case.lot) IN
    /\ plan.sample \in 1..case.lot
    /\ plan.hundred <=> plan.sample = case.lot
    /\ {Passes(plan, d) : d \in 0..plan.sample} = BOOLEAN
    /\ \A other \in Lots :
         case.lot <= other => /\ plan.sample <= PlanForLot(other).sample
                              /\ plan.accept <= PlanForLot(other).accept

\* kobo is the nearest number of kobo to exact, which is in hundredths of a percent of one.
Nearest(kobo, exact) == exact < 10000 * kobo + 5000 /\ 10000 * kobo <= exact + 5000

\* The first day of the last prefix of the tariff table to get a rate.
AllBegun == 20230601

\* Of a heading the category table names, or of chapter 30.
Named(hs) == \E p \in Headings \cup {<<3, 0>>} : IsPrefix(p, Digits(hs))

LinePriced(line, on) ==
  LET rates == Candidates(line.hs, on)
      Begun(r) == IsPrefix(r.prefix, Digits(line.hs)) /\ r.from <= on
  IN
  /\ (\E r \in TariffTable : Begun(r)) <=> Cardinality(rates) = 1
  /\ AllBegun <= on => (rates # {} <=> Named(line.hs))
  /\ \A r \in rates : /\ r.category = CategoryForHs(line.hs)
                      /\ Nearest(LineDuty(line, on) - r.specific * line.quantity, line.value * r.bp)

\* rate_for and compute_line_duty: from the first day of its heading on, a line has exactly one
\* rate a day, of the category of its code, and is priced to the nearest kobo, half up; once all
\* rates have begun, the lines that have one are those of the named headings and of chapter 30.
\* That is less than category_for_hs calls stamp-bearing and the repository's README promises:
\* the rest of chapters 22 and 24, wine among it, has a category and no rate, and is passed over.
\* An assessment is priced when one line has a rate, whatever the order of the lines, and
\* further lines never reduce the approvals it needs (create_assessment).
PricedByTheRateOfTheDay ==
  case.of = "consignment" =>
    LET lines == case.lines
        on == case.on
        priced == Assessed(lines, on)
    IN
    /\ \A i \in DOMAIN lines : LinePriced(lines[i], on)
    /\ priced = Assessed(Reverse(lines), on)
    /\ priced.error = "none" <=> \E i \in DOMAIN lines : Candidates(lines[i].hs, on) # {}
    /\ Assessed(Front(lines), on).approvals <= priced.approvals

\* verify_envelope: an envelope is accepted exactly if it is well formed, of the expected event
\* and, unchanged, what the key its kid has in the directory signed.  The credential
\* gate opens exactly for the document the issuer signed, of the serial presented, whose index
\* no published list flags: what module Verification calls credible.
OnlyTheSignedIsAccepted ==
  /\ case.of = "envelope" =>
       LET e == case.envelope
           proper == Built \cup {Renamed(b) : b \in {d \in Built : d.type \notin EventResources}}
       IN
       EnvelopeAccepted(e, Directory, case.expected)
         <=> /\ e.body \in proper
             /\ case.expected \in {AnyType, e.body.type}
             /\ \E kid \in DOMAIN Directory : e = SignEnvelope(e.body, kid, Directory[kid])
  /\ case.of = "credential" =>
       LET c == case.credential IN
       CredentialFailures(c, case.serial, Issuer, case.lists) = {}
         <=> /\ c = IssueProof(c.doc, Issuer)
             /\ \E i \in Indexes0 :
                  /\ c.doc = BuildStampCredential(case.serial, i, Purposes0)
                  /\ \A p \in DOMAIN case.lists : i \notin case.lists[p]

\* The shipped policy under the permissions the routes ask for: several roles permit what each
\* of them permits, none permits nothing; every route is open to some role; and no one role
\* takes both sides: submit and approve, request a payment and report it, issue and inspect.
DutiesAreSegregated ==
  case.of = "roles" =>
    LET may == MayCall(case.roles)
        Both(a, b) == {a, b} \subseteq may
    IN
    /\ may = UNION {MayCall({role}) : role \in case.roles}
    /\ case.roles = Roles => may = DOMAIN Asked
    /\ Cardinality(case.roles) = 1 =>
         /\ ~Both("create_assessment", "decide")
         /\ ~Both("create_intent", "record_receipt")
         /\ ~Both("issue_batch", "inspect_batch")
    /\ case.roles = {"auditor"} => \A route \in may : Asked[route].action = "read"

=============================================================================
