SPECIFICATION Spec
CONSTANTS
  p1 = p1  p2 = p2  p3 = p3  p4 = p4
  NULL = NULL
  Pcbs <- MCPcbs
INVARIANTS TypeOK ListExact SearchFinds
PROPERTIES SearchEnds
CHECK_DEADLOCK FALSE
