SPECIFICATION Spec
CONSTANTS
  Requests = {r1, r2}
  Workers = {w1}
  Visitors = {v1, v2}
  Operator = operator
  MaxAttempts = 2
  MaxAccounts = 1
  MaxSessions = 1
  MaxSlips = 1
  None = None
SYMMETRY ResetSymmetry
CHECK_DEADLOCK FALSE
INVARIANTS TypeOK PasswordByLink ResetEndsSessions
PROPERTIES ImplementsCredentials
