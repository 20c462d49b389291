SPECIFICATION Spec
CONSTANTS
  Netifs = {n1, n2}
  Networks = {a, b}
  NULL = NULL
INVARIANTS RouteMatches
CHECK_DEADLOCK FALSE
