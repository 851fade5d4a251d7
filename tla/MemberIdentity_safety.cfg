SPECIFICATION Spec
CONSTANTS
  ann = ann
  bob = bob
  ann0 = ann0
  bob0 = bob0
  Member = {ann, bob}
  New = {ann}
  Name = {ann0, bob0, x, y}
  SignupName <- MCSignupName
  Handler = {h1, h2}
  MaxLate = 1
  None = None
SYMMETRY Symmetry
INVARIANTS
  RejectionsAreSafe
  ActivationsAreAccounted
  NamesAgree
PROPERTIES
  OwnAccountOnly
CHECK_DEADLOCK FALSE
