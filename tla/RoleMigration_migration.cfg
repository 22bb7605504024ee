SPECIFICATION Spec
CONSTANTS
    Users = {u1, u2}
    Roles = {"SUPER_ADMIN", "INSPECTOR", "HOST"}
    Procs = {p1, p2, p3}
    Dialects = {"postgresql", "sqlite"}
    NoRole = NoRole
    MaxFaults = 1
SYMMETRY Symmetric
INVARIANTS
    RolesSurvive
    MigrationIsFinished
PROPERTY
    ChangesSurvive
