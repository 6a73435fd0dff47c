SPECIFICATION Spec
CONSTANTS
  s1 = s1
  s2 = s2
  Sets = {s1}
  MaxReplicas = 2
  Substs <- TwoKeys
  Orderly = FALSE
  Scale = FALSE
  LoseServers = FALSE
  MaxVersion = 0
  MaxErrors = 1
  MaxMapErrors = 0
  MaxRestarts = 1
  MaxLosses = 0
INVARIANTS UniqueValues
