SPECIFICATION Spec
CONSTANTS
    s1 = s1
    s2 = s2
    x1 = x1
    x2 = x2
    a1 = a1
    m1 = m1
    m2 = m2
    None = None
    Slots = {s1, s2}
    Ids = {x1, x2}
    Names = {1, 2}
    Centres = {1}
    Radii = {10, 20}
    Users = {a1}
    MissionIds = {m1, m2}
    Missions = {m1}
    Limit = 1
    MaxWrites = 3
SYMMETRY Symmetries
INVARIANTS OneGeometryPerVersion WalkMissesNothing
PROPERTIES OnlyWhatWasAsked AuditTellsTheStatus
