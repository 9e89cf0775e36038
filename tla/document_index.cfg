SPECIFICATION FairSpec
CONSTANTS
  ann = ann
  bob = bob
  None = None
  Users = {ann, bob}
  Docs = {1, 2, 3, 4}
  Owner <- MCOwner
  Limit = 1
  MaxSaved = 3
  Wanted = 2
  MaxStamp = 1
  MaxMoves = 2
  MaxTurns = 1
  MaxCalls = 2
INVARIANTS
  TypeOK
  CompleteIndexMissesNothing
  ListedOnce
  NoForeignDocuments
PROPERTIES
  WalkSettles
CHECK_DEADLOCK FALSE
