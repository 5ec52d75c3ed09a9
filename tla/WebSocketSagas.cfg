\* The request core, with two failures of the connection.
SPECIFICATION FairSpec
CONSTANTS
  pool = pool
  machine = machine
  Model <- MCModel
  MayFail <- MCMayFail
  FollowUps <- MCFollowUps
  MaxDispatches = 2
  MaxDrops = 2
INVARIANTS
  TypeOK
  CacheCoherent
  FetchedOnce
  BusyHasRequest
  ChainOnce
PROPERTIES
  ImplementsListService
  ListArrives
CHECK_DEADLOCK FALSE
