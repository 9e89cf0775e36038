SPECIFICATION FairSpec
CONSTANTS
  Requests = {r1}
  Workers = {w1, w2}
  Visitors = {v1}
  Operator = operator
  MaxAttempts = 2
  MaxAccounts = 2
  MaxSessions = 1
  MaxSlips = 1
  None = None
CHECK_DEADLOCK FALSE
INVARIANTS ClosedMeansMailed
PROPERTIES RequestsAreServed
