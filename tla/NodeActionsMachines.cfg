SPECIFICATION Spec
CONSTANTS
  n1 = n1
  n2 = n2
  Nodes = {n1, n2}
  MaxRequests = 2
  MaxToggles = 2
  MaxOthers = 0
  MaxRenders = 0
  MaxDrops = 0
PROPERTY OpensOnSelection
CHECK_DEADLOCK FALSE
