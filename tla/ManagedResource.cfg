SPECIFICATION Spec
CONSTANTS
  Kinds <- MCKinds
  Instances <- MCInstances
  Restless <- MCRestless
  Lossy <- MCLossy
  MaxObjects = 2
  MaxTrouble = 1
  MaxEdits = 1
INVARIANTS TypeOK OneObject NoOrphans
PROPERTIES
  Settles
  Applied
  Goes
CHECK_DEADLOCK FALSE
