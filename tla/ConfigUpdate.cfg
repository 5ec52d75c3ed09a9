SPECIFICATION FairSpec
CONSTANTS
  Name <- MCName
  Forms <- MCForms
  MaxUpdates = 2
  MaxOthers = 1
  MaxDrops = 1
INVARIANTS
  TypeOK
  SavingAnswered
  ItemsSynced
PROPERTIES
  NeverOlder
  UpdateEnds
CHECK_DEADLOCK FALSE
