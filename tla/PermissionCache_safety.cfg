SPECIFICATION CacheSpec
CONSTANTS
  Replica = {r1, r2}
  User = {"ada", "otto"}
  Role = {"admin", "officer"}
  Permission = {"admin.access", "roles.read", "roles.manage"}
  Toggled <- MCToggled
  RolesOf <- MCRolesOf
  TTL = 2
  MaxLoad = 1
  MaxLoads = 2
  MaxEdits = 2
  None = None
SYMMETRY Symmetry
INVARIANTS
  ChangesApply
  NotifiedIsFresh
  AdminsMayEdit
CHECK_DEADLOCK FALSE
