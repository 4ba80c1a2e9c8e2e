SPECIFICATION Spec
CONSTANTS
  Cars = {c1}
  Drivers = {d1, d2}
  OutThreshold = 1
  MaxTime = 8
SYMMETRY Symmetry
CHECK_DEADLOCK FALSE
INVARIANTS TypeOK EntriesExist  NothingForgotten  
PROPERTY OutConfirmed
