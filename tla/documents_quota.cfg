SPECIFICATION FairSpec
CONSTANTS
  u1 = u1  u2 = u2  b1 = b1  t1 = t1  t2 = t2
  Users = {u1}
  Browsers = {b1}
  Tokens = {t1}
  AccountOf <- OneAccount
  PublicIds = {d1, d2, d3}
  Passages = {}
  MaxBody = 0
  AccountStates <- FreeAndPro
  CreateAttempts = 2
  WriteAttempts = 2
  Operations <- Filling
  MaxVersion = 3
  OwnerActorKey = owner
  None = None
PROPERTIES CreateWithinLimit RequestsEnd
