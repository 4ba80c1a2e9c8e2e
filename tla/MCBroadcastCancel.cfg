SPECIFICATION FairSpec
CONSTANTS
  Clients = {c1}
  Producers = {p1}
  MaxMsg = 1
CHECK_DEADLOCK FALSE
PROPERTY
  CancelReturns
