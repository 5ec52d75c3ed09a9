\* Machines go while the list is fetched.
SPECIFICATION Spec
CONSTANTS
  Initial = 3
  MaxChanges = 1
  FirstLimit = 1
  SubsequentLimit = 2
  MaxGets = 0
  MaxErrors = 0
  MaxDrops = 0
INVARIANT
  ShowsAll
CHECK_DEADLOCK FALSE
