SPECIFICATION FairSpec
CONSTANTS
  Initial = 1
  MaxChanges = 2
  MaxCalls = 2
  batchSize = 1
  MaxDrops = 1
INVARIANTS
  TypeOK
  ListConsistent
  Synced
  RegionKnowsActive
PROPERTY
  LoadEnds
CHECK_DEADLOCK FALSE
