SPECIFICATION FairSpec
CONSTANTS
  r1 = r1
  r2 = r2
  a1 = a1
  a2 = a2
  a3 = a3
  b1 = b1
  b2 = b2
  Resources = {r1, r2}
  IPs = {a1, a2, b1}
  Addresses <- Plan
  Rate = 10
  LanMayGo = TRUE
  LoseStatus = TRUE
  MaxEdits = 1
  MaxErrors = 1
CHECK_DEADLOCK FALSE
INVARIANTS IPInv AvailableIsListed OneEntryEach NoOrphans
PROPERTIES OthersKept BecomesAvailable DeletedTogetherGo
