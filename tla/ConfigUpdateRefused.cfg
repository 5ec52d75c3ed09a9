SPECIFICATION Spec
CONSTANTS
  Name <- MCName
  Forms <- MCForms
  MaxUpdates = 2
  MaxOthers = 0
  MaxDrops = 0
PROPERTY
  InOrder
CHECK_DEADLOCK FALSE
