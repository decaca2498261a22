CONSTANTS
  k1 = k1
  v1 = v1
  v2 = v2
  p1 = p1
  p2 = p2
  NULL = NULL
  Idents <- OneKey
  Vals <- TwoValues
  SizeOf <- MCSizeOf
  Parts <- MCParts
  Sizes <- MCSizes
  Hash <- MCHash
  MaxMems <- NoMaxMems
  default_table_size = 2
  Clients <- TwoProcesses
  MaxCalls <- OneEach
  StartMem = 3
  bufsize = 2
  LLONG_MAX = 4
  Loopback = FALSE
  Mortal <- SecondProcess
  Lossy <- SecondProcess
SPECIFICATION FaultSpec
INVARIANTS
  EveryConnectionOnce
  StopsOnlyFor
PROPERTIES
  RequestsServed
  OthersReturn
CHECK_DEADLOCK FALSE
