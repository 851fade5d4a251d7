SPECIFICATION CacheSpec
CONSTANTS
  Replica = {r1}
  User = {"ada", "otto"}
  Role = {"admin", "officer"}
  Permission = {"admin.access", "roles.read", "roles.manage"}
  Toggled <- MCToggled
  RolesOf <- MCRolesOf
  TTL = 2
  MaxLoad = 1
  MaxLoads = 1
  MaxEdits = 2
  None = None
INVARIANT MatrixInReach
CHECK_DEADLOCK FALSE
