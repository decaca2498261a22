CONSTANTS
  k1 = k1
  k2 = k2
  v1 = v1
  p1 = p1
  p2 = p2
  NULL = NULL
  Idents <- TwoKeys
  Vals <- OneValue
  SizeOf <- MCSizeOf
  Parts <- MCParts
  Sizes <- MCSizes
  Hash <- MCHash
  MaxMems <- NoMaxMems
  default_table_size = 2
  Clients <- TwoProcesses
  MaxCalls <- TwoEach
  StartMem = 3
  bufsize = 2
  LLONG_MAX = 4
  Loopback = TRUE
SPECIFICATION DeferredSpec
INVARIANTS
  NoCrossedAnswers
CHECK_DEADLOCK FALSE
