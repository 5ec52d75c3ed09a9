SPECIFICATION Spec
CONSTANTS
  Machines <- MCMachines
  MaxNics = 4
  MaxLinks = 2
  MaxClicks = 3
  MaxRequests = 2
INVARIANTS TypeOK
PROPERTIES RequestsSound OwnAnswerCloses
CHECK_DEADLOCK FALSE
