SPECIFICATION FairSpec
CONSTANTS
  Event = {e1, e2}
  Worker = {w1}
  MaxAttempts = 2
  MaxFaults = 1
  MaxRetries = 0
  NoJob = NoJob
PROPERTIES
  EveryEventSettles
CHECK_DEADLOCK FALSE
