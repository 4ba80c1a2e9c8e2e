SPECIFICATION FairSpec
CONSTANTS
  Instances = {i1, i2}
  Keys = {k1, k2}
  MaxCalls = 2
  MaxExpire = 1
  MaxLost = 1
CHECK_DEADLOCK FALSE
INVARIANTS
  TypeOK
  FreshMap
PROPERTY
  UpdatesStored
