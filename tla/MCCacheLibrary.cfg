CONSTANTS
  a = a
  b = b
  c = c
  d = d
  empty = empty
  small = small
  other = other
  full = full
  huge = huge
  NULL = NULL
  Idents <- MCKeys
  Vals <- MCVals
  SizeOf <- MCSizeOf
  Sizes <- MCSizes
  Hash <- MCHash
  MaxMems <- MCMaxMems
  default_table_size = 2
SPECIFICATION Spec
INVARIANTS
  TypeOK
  TableMatchesPolicy
  SpaceInv
  NeverAborts
  LoadFactor
PROPERTY
  ImplementsLruCache
