SPECIFICATION CommandSpec
CONSTANTS
  Order <- MCOrder
  PageLimit <- MCPageLimit
  Advances = FALSE
  MaxOut = 8
  MaxErrors = 0
CHECK_DEADLOCK FALSE
INVARIANT EachOnce
