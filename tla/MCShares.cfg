SPECIFICATION Spec
CONSTANTS
  Users = {alice, bob, carol}
  Enrolments = {e1, e2}
  Keys = {k1}
  MaxNodes = 2
  ShareIds = {g1, g2}
  ClientOps = {c1}
  Quota = 1
  None = None
INVARIANTS OneIncarnation
PROPERTIES EndedShareStays NothingAdmittedAfterEnd
CHECK_DEADLOCK FALSE
SYMMETRY Symmetry
