SPECIFICATION Spec
CONSTANTS
  msg = msg
  seg = seg
  NULL = NULL
  Types <- MCTypes
  Num <- MCNum
INVARIANTS TypeOK FreeListExact
PROPERTY PoolSpec
