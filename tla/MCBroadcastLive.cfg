SPECIFICATION FairSpec
CONSTANTS
  Clients = {c1, c2}
  Producers = {p1}
  MaxMsg = 1
CHECK_DEADLOCK FALSE
PROPERTIES
  CallsServed
  CloseEndsReaders
