SPECIFICATION Spec
CONSTANTS
  Officer = {o1, o2}
  FirstForm <- MCFirstForm
  MaxVersions = 3
  MaxTouches = 2
  Absent = Absent
  Person = {p1, p2, p3}
  Discord = {d1, d2}
  Nobody = Nobody
SYMMETRY Symmetry
INVARIANTS
  PublishedIsServed
  AnswersFitTheirSchema
  OneHolder
  AccountsAgree
CHECK_DEADLOCK FALSE
