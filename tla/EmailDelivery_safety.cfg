SPECIFICATION Spec
CONSTANTS
  Event = {e1}
  Worker = {w1, w2}
  MaxAttempts = 3
  MaxFaults = 2
  MaxRetries = 1
  NoJob = NoJob
SYMMETRY Symmetry
INVARIANTS
  TypeOK
  OneExternalOperation
  MailedIsCurrent
  OwedIsNotCompleted
  CallsAreBounded
PROPERTIES
  DeliveredIsFinal
  UsedAccountsAreKept
  StaleWorkersAreHarmless
  KeepsThePromise
CHECK_DEADLOCK FALSE
