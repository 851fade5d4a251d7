SPECIFICATION Spec
CONSTANTS
  Signup = {s1, s2}
  User = {x1, x2}
  Name = {n1, n2, n3}
  Handler = {h1, h2}
  Disposable = {s1, s2, x1, x2}
  NoOne = NoOne
  NoName = NoName
  NoJob = NoJob
SYMMETRY Symmetry
INVARIANTS
  TypeOK
  ClaimsAreExact
  AccountIsReserved
  OneFounder
PROPERTY KeepsRegistry
CHECK_DEADLOCK FALSE
