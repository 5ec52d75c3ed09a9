\* Pings, requests and losses of the connection over two mounts.
SPECIFICATION FairSpec
CONSTANTS
  maxMissedPings = 2
  maxPatience = 3
  MaxId = 4
  MaxMounts = 2
  MaxDrops = 2
INVARIANTS
  TypeOK
  Watched
  MissedOnWire
PROPERTIES
  Reconnects
  ConnectSettles
  DropsOnlySilent
CHECK_DEADLOCK FALSE
