SPECIFICATION Spec
CONSTANTS
  Clients = {c1, c2}
  Producers = {p1, p2}
  MaxMsg = 3
SYMMETRY Symmetry
CHECK_DEADLOCK FALSE
INVARIANTS
  TypeOK
  NoPanic
  InOrder
  Accounted
PROPERTY
  ImplementsAbs
