SPECIFICATION Spec
CONSTANTS
  p1 = p1
  p2 = p2
  p3 = p3
  NULL = NULL
  any = any  ours = ours
  Addrs <- MCAddrs
  ANY = any
  Dsts = {ours}
  Pcbs <- MCPcbs
  Ports = {3}
  PortSpace = 4
  RANGE_START = 3
  MaxCount = 2
SYMMETRY Symmetry
INVARIANTS TypeOK ListExact NotMissed NullCallOnlyIfTakenAway
CHECK_DEADLOCK FALSE
