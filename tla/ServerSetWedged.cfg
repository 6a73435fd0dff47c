SPECIFICATION FairSpec
CONSTANTS
  MaxReplicas = 1
  Images = {i1, i2}
  Sizes = {z1}
  Cores = {c1}
  Strategies = {"createBeforeDestroyBootVolume"}
  HotPlug = TRUE
  UseIdentity = FALSE
  Scale = FALSE
  MaxEdits = 1
  MaxCrashes = 0
  MaxErrors = 1
  MaxRejects = 0
PROPERTIES Converges
