SPECIFICATION FairSpec
CONSTANTS
  Kinds <- MCKinds
  Chosen <- MCChosen
  MaxLosses = 1
INVARIANTS
  TypeOK
  Based
  NothingLeft
PROPERTIES
  Placing
  Teardown
CHECK_DEADLOCK FALSE
