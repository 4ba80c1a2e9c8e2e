SPECIFICATION Spec
CONSTANTS
  Callers = {c1}
  Keys = {k1}
  MaxEpd = 2
CHECK_DEADLOCK FALSE
PROPERTY
  RemovesOnlyStale
