SPECIFICATION Spec
CONSTANTS
  Signup = {s1}
  User = {x1, x2}
  Name = {n1, n2}
  Handler = {h1}
  Disposable = {}
  NoOne = NoOne
  NoName = NoName
  NoJob = NoJob
INVARIANT FirstUserIsAdmin
CHECK_DEADLOCK FALSE
