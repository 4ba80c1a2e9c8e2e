SPECIFICATION FairRSpec
CONSTANTS
  MaxMsg = 3
  MaxFail = 1
  PageSize <- MCPageSize
  Nums = {0, 2}
  MaxOthers = 1
CHECK_DEADLOCK FALSE
INVARIANTS
  TypeOK
  LastEntryExists
  IdsFollowTime
  StreamFaithful
  
  RecomputedInOrder
  RecomputedOnce
  CrashOnlyIfEmpty
PROPERTY ReplayReturns
