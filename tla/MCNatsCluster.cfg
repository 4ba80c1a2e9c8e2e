SPECIFICATION FairSpec
CONSTANTS
  Instances <- MCInstances
  Callers <- MCCallers
  Keys <- MCKeys
  MaxCalls = 3
  MaxCrash = 1
INVARIANTS
  TypeOK
  
  
PROPERTIES
  MessagesHandled
CHECK_DEADLOCK FALSE
