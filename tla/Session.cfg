SPECIFICATION FairSpec
CONSTANTS
  MaxMounts = 2
  MaxLogins = 2
  MaxErrors = 1
  MaxDrops = 2
INVARIANTS
  TypeOK
  OneSocket
  ConnectedIffOpen
PROPERTY
  PagesShown
CHECK_DEADLOCK FALSE
