SPECIFICATION Spec
CONSTANTS
  POOL = 3
  KEEPALIVES = 2
INVARIANTS SentIsUnacked
CHECK_DEADLOCK FALSE
