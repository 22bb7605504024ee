SPECIFICATION Spec
CONSTANTS
  s1 = s1  s2 = s2  m1 = m1  m2 = m2  v1 = v1  v2 = v2
  u1 = u1  h1 = h1  k1 = k1  k2 = k2  j1 = j1  j2 = j2
  None = None
  Slots = {s1, s2}
  Missions = {m1}
  Visits = {v1}
  Users = {u1, h1}
  Keys = {k1, k2}
  Jtis = {j1, j2, j3}
  Positions = {0}
  MissionRows <- TokenRows
  Commands <- TokenCommands
  StrictRadius = 1
  RelaxedRadius = 2
  MaxDelay = 0
  MaxDistance = 1
  MaxTime = 1
  JwtTtl = 1
  Retention = 0
  ReplyFirst = TRUE
SYMMETRY TokenSymmetry
INVARIANTS TokensMatchEvents EffectsBoundedByKeys
