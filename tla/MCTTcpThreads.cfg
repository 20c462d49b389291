SPECIFICATION Spec
CONSTANTS
  POOL = 3
  KEEPALIVES = 2
INVARIANTS TypeOK PbufsExact HandshakeAckOwed FaultOnlyWhileSending
CHECK_DEADLOCK FALSE
