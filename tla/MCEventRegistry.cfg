SPECIFICATION FairSpec
CONSTANTS
  Callers = {c1, c2}
  Keys = {k1, k2}
  MaxEpd = 2
CHECK_DEADLOCK FALSE
INVARIANTS
  TypeOK
  RegisteredIsOpen
  OpenIsRegistered
  OneRecording
PROPERTY
  StaleRemoved
