CONSTANTS
  r1 = r1
  r2 = r2
  r3 = r3
  s1 = s1
  s2 = s2
  d1 = d1
  d2 = d2
  n1 = n1
  Stamps = {s1, s2}
  Unknown = Unknown
  Malformed = Malformed
  Devices = {d1, d2}
  Public = Public
  Nobody = Nobody
  VelocityDevices = 2
  Requests = {r1, r2, r3}
  Nonces = {n1}
  NoNonce = NoNonce
  Limit = 2
  Life = 1
  MaxMinute = 1
  MaxLost = 1
SPECIFICATION FieldSpec
SYMMETRY Symmetry
INVARIANTS
  FieldTypeOK
  FirstScanWins
  FlagsAreTrue
  EveryFlagHasItsVersion
  EventsMatchStamps
  NeverStuck
  NonceIsSingleUse
  RateIsExact
PROPERTY FollowsLifecycle
