SPECIFICATION FairSpec
CONSTANTS
  v1 = v1
  l1 = l1
  MaxReplicas = 2
  Volumes = {v1}
  Lans = {l1}
  RemovePending = TRUE
  Editable = {"replicas"}
  MaxEdits = 1
  MaxTrouble = 0
PROPERTIES ReplicasCreated
CHECK_DEADLOCK FALSE
