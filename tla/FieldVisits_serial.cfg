SPECIFICATION Spec
CONSTANTS
  s1 = s1  s2 = s2  m1 = m1  m2 = m2  v1 = v1  v2 = v2
  u1 = u1  h1 = h1  k1 = k1  k2 = k2  j1 = j1  j2 = j2
  None = None
  Slots = {s1}
  Missions = {m1, m2}
  Visits = {v1}
  Users = {u1, h1}
  Keys = {k1}
  Jtis = {j1}
  Positions = {0, 2, 3}
  MissionRows <- SerialRows
  Commands <- SerialCommands
  StrictRadius = 1
  RelaxedRadius = 2
  MaxDelay = 1
  MaxDistance = 1
  MaxTime = 2
  JwtTtl = 1
  Retention = 1
  ReplyFirst = FALSE
INVARIANTS TypeOK EvidenceIsTimely
PROPERTY LifecycleRefined
