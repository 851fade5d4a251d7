SPECIFICATION Spec
CONSTANTS
  Event = {e1}
  Worker = {w1}
  MaxAttempts = 3
  MaxFaults = 1
  MaxRetries = 0
  NoJob = NoJob
INVARIANTS
  CompletionDelivers
CHECK_DEADLOCK FALSE
