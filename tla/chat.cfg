SPECIFICATION FairSpec
CONSTANTS
  m1 = m1
  m2 = m2
  c1 = c1
  c2 = c2
  Messages = {m1, m2}
  Clients = {c1, c2}
  Author <- BothWrite
  i1 = i1
  i2 = i2
  Routes <- ThreeRoutes
  Instances = {i1, i2}
  Away = Away
  Never = Never
  Grain = 2
  Limit = 1
  MaxTime = 1
  MaxFaults = 1
INVARIANTS
  TypeOK OnlyOvertakenMissed SameOrder
PROPERTIES SentIsReceived
CHECK_DEADLOCK FALSE
