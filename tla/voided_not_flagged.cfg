CONSTANTS
  r1 = r1
  r2 = r2
  r3 = r3
  s1 = s1
  s2 = s2
  d1 = d1
  d2 = d2
  Stamps = {s1, s2}
  Unknown = Unknown
  Malformed = Malformed
  Devices = {d1, d2}
  Public = Public
  Nobody = Nobody
  VelocityDevices = 2
  Requests = {r1, r2}
SPECIFICATION Spec
INVARIANT VoidedStampIsFlagged
