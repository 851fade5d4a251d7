SPECIFICATION FairSpec
CONSTANTS
  Key = {directory, user1, user2}
  Directory = directory
  Request = {r1, r2}
  Capacity = 2
  AttemptCap = 1
  MaxChanges <- MCMaxChanges
  MaxFaults = 1
  Healthy = {user1}
  None = None
INVARIANTS
  TypeOK
  NoChangeForgotten
  RestartSucceeds
PROPERTIES
  NotedIsSynced
CHECK_DEADLOCK FALSE
