SPECIFICATION Spec
CONSTANTS
  Instances = {i1, i2}
  Keys = {k1, k2}
  MaxCalls = 2
  MaxExpire = 0
  MaxLost = 0
CHECK_DEADLOCK FALSE
PROPERTY
  KeepsOthers
