SPECIFICATION Spec
CONSTANTS
  n1 = n1
  n2 = n2
  Nodes = {n1, n2}
  MaxRequests = 3
  MaxToggles = 3
  MaxOthers = 1
  MaxRenders = 1
  MaxDrops = 1
INVARIANTS TypeOK StatusTracksRequests
PROPERTIES SuccessIsReal DoneCloses
CHECK_DEADLOCK FALSE
