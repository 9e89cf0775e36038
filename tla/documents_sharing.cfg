SPECIFICATION Spec
CONSTANTS
  u1 = u1  u2 = u2  b1 = b1  t1 = t1  t2 = t2
  Users = {u1, u2}
  Browsers = {b1}
  Tokens = {t1, t2}
  AccountOf <- TwoAccounts
  PublicIds = {d1}
  Passages = {}
  MaxBody = 0
  AccountStates <- FreeAndPro
  CreateAttempts = 1
  WriteAttempts = 2
  Operations <- Organising
  MaxVersion = 3
  OwnerActorKey = owner
  None = None
INVARIANTS ArchivedIsPrivate WritersAreContributors
PROPERTIES ImplementsLibrary
