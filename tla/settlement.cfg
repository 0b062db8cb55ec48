CONSTANTS
  a1 = a1
  a2 = a2
  p1 = p1
  p2 = p2
  p3 = p3
  h1 = h1
  h2 = h2
  x1 = x1
  x2 = x2
  USD = USD
  NGN = NGN
  NoAssessment = NoAssessment
  Nobody = Nobody
  NoReference = NoReference
  Assessments = {a1, a2}
  Principals = {p1, p2, p3}
  Handlers = {h1, h2}
  References = {x1, x2}
  Currencies = {NGN, USD}
  Duty <- MCDuty
  Amounts = {1, 2}
  LowThreshold = 2
  StandardThreshold = 3
  OneRemittance = TRUE
SPECIFICATION Spec
SYMMETRY Symmetry
INVARIANTS
  TypeOK
  MakerIsNotChecker
  StatusFollowsDecisions
  PaidByExactReceipt
  BooksMatchReceipts
  AppliedOnce
PROPERTY FollowsLifecycle
