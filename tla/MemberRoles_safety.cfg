SPECIFICATION Spec
CONSTANTS
  User = {ann, bob}
  Role = {"admin", "sig_leader", "alumni"}
  Sig = {web}
  Given <- MCGiven
  Managing = {"admin", "alumni"}
  Graduated = {bob}
  MaxToggles = 2
  None = None
INVARIANTS
  AdminRemains
  LeadersHoldRole
PROPERTIES
  SavesWhatWasClicked
CHECK_DEADLOCK FALSE
