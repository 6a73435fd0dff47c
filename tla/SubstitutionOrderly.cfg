SPECIFICATION Spec
CONSTANTS
  s1 = s1
  s2 = s2
  Sets = {s1}
  MaxReplicas = 3
  Substs <- TwoKeys
  Orderly = TRUE
  Scale = TRUE
  LoseServers = FALSE
  MaxVersion = 2
  MaxErrors = 1
  MaxMapErrors = 0
  MaxRestarts = 1
  MaxLosses = 1
INVARIANTS TypeOK UniqueValues MapAgrees OnlyAddresses
PROPERTIES ImplementsBook
