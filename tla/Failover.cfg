SPECIFICATION FairSpec
CONSTANTS
  r0 = r0
  r1 = r1
  r2 = r2
  none = none
  Replicas = {r0, r1}
  NoReplica = none
  HotPlug = TRUE
  Strategies = {"createBeforeDestroyBootVolume", "createAllBeforeDestroy"}
  MaxEdits = 2
  MaxTrouble = 2
INVARIANTS TypeOK OneDown
PROPERTIES HaltOnError Converges
CHECK_DEADLOCK FALSE
