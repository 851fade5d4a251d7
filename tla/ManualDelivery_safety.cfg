SPECIFICATION Spec
CONSTANTS
  Event = {e1}
  Handler = {h1, h2, h3}
  MaxReveals = 4
  MaxFaults = 2
  MaxStalls = 1
  NoJob = NoJob
SYMMETRY Symmetry
INVARIANTS
  TypeOK
  ConfirmedIsCurrent
PROPERTIES
  ReplacedRevealsAreHarmless
  UsedAccountsAreKept
  KeepsThePromise
CHECK_DEADLOCK FALSE
