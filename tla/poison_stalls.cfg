CONSTANTS
  e1 = e1
  e2 = e2
  e3 = e3
  d1 = d1
  d2 = d2
  alice = alice
  bob = bob
  k1 = k1
  k2 = k2
  q1 = q1
  q2 = q2
  q3 = q3
  q4 = q4
  c1 = c1
  c2 = c2
  r1 = r1
  r2 = r2
  NoKey = NoKey
  Nobody = Nobody
  NoOffset = NoOffset
  FirstOffset = 0
  Consumers = {c1}
  Topic <- StallTopic
  Calls = {}
  Call <- NoCall
  StampBearing = {d1, d2}
  MaxFailures = 0
  Publishers = {}
  BatchSize = 2
  MaxRestarts = 0
SPECIFICATION IntakeSpec
CHECK_DEADLOCK FALSE
PROPERTY NoMessageStalls
