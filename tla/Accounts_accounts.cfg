SPECIFICATION Spec
CONSTANTS
    s1 = s1
    s2 = s2
    b1 = b1
    u1 = u1
    u2 = u2
    u3 = u3
    t1 = t1
    t2 = t2
    None = None
    Slots = {s1, s2}
    Browsers = {b1}
    Ids = {u1, u2, u3}
    Tokens = {t1, t2}
    Emails = {"national", "inspector", "inspector.1"}
    Registrations <- McRegistrations
    Edits <- McEdits
    Passwords = {"p1", "p2"}
    NewPasswords = {"p2"}
    Roles = {"NATIONAL_ADMIN", "INSPECTOR"}
    AdminRoles = {"NATIONAL_ADMIN"}
    Registrars = {"NATIONAL_ADMIN"}
    RoleManagers = {"NATIONAL_ADMIN"}
    DemoRoles <- McDemoRoles
    DemoEmails <- McDemoEmails
    DemoPhones <- McDemoPhones
    DemoPassword = "p1"
    AccessLife = 1
    ResetLife = 1
    MaxTime = 1
    MaxWrites = 3
SYMMETRY Symmetries
INVARIANTS IdentitiesAreUnique MailsFollowCommits
PROPERTIES OnlyWhatWasAsked AuthorityIsRecent SpentOnceUnlessOverlapped NoSecondDemoAccount
CHECK_DEADLOCK FALSE
