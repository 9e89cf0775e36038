SPECIFICATION Spec
CONSTANTS
  Tabs = {t1, t2}
  Operators = {o1, o2}
  Deleters = {o1}
  MaxUsers = 2
  MaxCustomers = 2
  MaxSessions = 1
  MaxRounds = 2
  MaxSlips = 1
SYMMETRY TabSymmetry
CHECK_DEADLOCK FALSE
INVARIANTS TypeOK OrphansHaveJobs StoredCustomerLives
PROPERTIES JobsLastUntilCleanup SuccessMeansGone
