SPECIFICATION Spec
CONSTANTS
  MaxReplicas = 2
  Images = {i1, i2}
  Sizes = {z1, z2}
  Cores = {c1, c2}
  Strategies = {"createBeforeDestroyBootVolume", "createAllBeforeDestroy"}
  HotPlug = TRUE
  UseIdentity = FALSE
  Scale = FALSE
  MaxEdits = 1
  MaxCrashes = 1
  MaxErrors = 1
  MaxRejects = 1
SYMMETRY Symmetry
INVARIANTS TypeOK FullInv OneReplacement ExistsIsExact
PROPERTIES ServedStable
