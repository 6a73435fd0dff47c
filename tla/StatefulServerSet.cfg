SPECIFICATION FairSpec
CONSTANTS
  v1 = v1
  l1 = l1
  MaxReplicas = 2
  Volumes = {v1}
  Lans = {l1}
  RemovePending = TRUE
  Editable <- Everything
  MaxEdits = 1
  MaxTrouble = 1
INVARIANTS TypeOK StorageFirst OwnServer ReadyMeansAttached
PROPERTIES Converges
CHECK_DEADLOCK FALSE
