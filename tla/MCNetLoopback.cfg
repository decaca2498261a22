CONSTANTS
  k1 = k1
  k2 = k2
  v1 = v1
  v2 = v2
  p1 = p1
  p2 = p2
  NULL = NULL
  Idents <- TwoKeys
  Vals <- TwoValues
  SizeOf <- MCSizeOf
  Parts <- MCParts
  Sizes <- MCSizes
  Hash <- MCCollidingHash
  MaxMems <- MCMaxMems
  default_table_size = 2
  Clients <- TwoProcesses
  MaxCalls <- TwoAndOne
  StartMem = 5
  bufsize = 2
  LLONG_MAX = 5
  Loopback = TRUE
SPECIFICATION Spec
INVARIANTS
  EveryConnectionOnce
  OwnOrder
  ShortSetsStay
  NoInventedValue
  StopsOnlyFor
PROPERTIES
  MemsizeKeepsValues
CHECK_DEADLOCK FALSE
