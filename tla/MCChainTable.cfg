CONSTANTS
  a = a
  b1 = b1
  c1 = c1
  d = d
  n1 = n1
  n2 = n2
  n3 = n3
  n4 = n4
  n5 = n5
  empty = empty
  huge = huge
  large = large
  NULL = NULL
  Idents <- MCKeys
  Links <- MCLinks
  Vals <- MCVals
  SizeOf <- MCSizeOf
  Sizes <- MCSizes
  Hash <- MCHash
  MaxMems <- MCMaxMems
  default_table_size = 2
SPECIFICATION Spec
SYMMETRY Symmetric
INVARIANTS
  ChainsInv
  NoLinkLeaks
PROPERTY
  ImplementsHashCache
