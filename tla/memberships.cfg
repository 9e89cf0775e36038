SPECIFICATION Spec
CONSTANTS
  Emails = {ann, boss}
  Owners = {boss}
  Referrals = {r1}
  Tokens = {k1}
  Clients = {c1, c2}
  FreeLimit = 0
  ProLimit = 1
  Limits = {1}
  MaxCodes = 2
  MaxEdits = 1
  None = None
SYMMETRY ClientSymmetry
INVARIANTS TypeOK
PROPERTIES GrantsNeedTheCode ServedWithinPlan
