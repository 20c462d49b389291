SPECIFICATION Spec
CONSTANTS
  b1 = b1  b2 = b2  b3 = b3
  m1 = m1  m2 = m2  m3 = m3
  NULL = NULL
  Pbufs <- MCPbufs
  Msgs <- MCMsgs
  MboxCap = 2
  T_MEMP_NUM_TCP_PCB = 2
INVARIANTS TypeOK OneOwner NoLeak
PROPERTIES FifoSpec PoolRecovers
CHECK_DEADLOCK FALSE
