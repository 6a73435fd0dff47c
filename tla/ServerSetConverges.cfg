SPECIFICATION FairSpec
CONSTANTS
  MaxReplicas = 2
  Images = {i1, i2}
  Sizes = {z1}
  Cores = {c1, c2}
  Strategies = {"createBeforeDestroyBootVolume", "createAllBeforeDestroy"}
  HotPlug = FALSE
  UseIdentity = TRUE
  Scale = TRUE
  MaxEdits = 2
  MaxCrashes = 0
  MaxErrors = 0
  MaxRejects = 0
PROPERTIES ImplementsRolling MasterLast Converges
