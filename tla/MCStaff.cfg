SPECIFICATION Spec
CONSTANTS
  Accounts = {ann, bob}
  Codes = {c1}
  RequestRole <- MCRequestRole
  Frontends = {"operator", "staff"}
  ApiRoles = {"operator"}
  Workers = {w1, w2}
  MaxAttempts = 1
  MaxTries = 2
SYMMETRY Symmetry
INVARIANTS TypeOK CodeBindsOnce MadeAgainAfterMerge
PROPERTY AccountsStay
CHECK_DEADLOCK FALSE
