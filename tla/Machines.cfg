\* Machines come, change and go while the list is fetched, also across a lost
\* connection.
SPECIFICATION FairSpec
CONSTANTS
  Initial = 2
  MaxChanges = 2
  FirstLimit = 1
  SubsequentLimit = 1
  MaxGets = 1
  MaxErrors = 1
  MaxDrops = 1
INVARIANTS
  RowsConsistent
  Synced
PROPERTY
  ImplementsMachineList
  FetchCompletes
CHECK_DEADLOCK FALSE
