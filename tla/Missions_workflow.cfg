SPECIFICATION Spec
CONSTANTS
  s1 = s1  s2 = s2  m1 = m1  m2 = m2  m3 = m3  anne = anne  paul = paul
  None = None
  Slots = {s1, s2}
  Ids = {m1, m2}
  Inspectors = {anne, paul}
  EditStatuses = {None, "planned", "completed", "cancelled"}
  MaxSaid = 1
SYMMETRY Symmetries
INVARIANTS MissionsTypeOK OneOutcome PlannedWasApproved CancelledIsExplained
PROPERTIES LineageIsFixed FinalUnlessOverlapped
