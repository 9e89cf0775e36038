SPECIFICATION Spec
CONSTANTS
  u1 = u1  u2 = u2  b1 = b1  t1 = t1  t2 = t2
  Users = {u1}
  Browsers = {b1}
  Tokens = {t1}
  AccountOf <- OneAccount
  PublicIds = {d1}
  Passages = {p, q}
  MaxBody = 2
  AccountStates <- ProOnly
  CreateAttempts = 1
  WriteAttempts = 2
  Operations <- WriterAndAgent
  MaxVersion = 4
  OwnerActorKey = owner
  None = None
SYMMETRY PassageSymmetry
INVARIANTS TypeOK VersionNamesBody
PROPERTIES NoBlindOverwrite AgentChangesStoredText NotFoundMeansGone ConflictShowsNewerText
