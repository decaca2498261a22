CONSTANTS
  n1 = n1
  n2 = n2
  n3 = n3
  n4 = n4
  a = a
  b = b
  c = c
  d = d
  NULL = NULL
  Nodes <- MCNodes
  Idents <- MCIdents
  Sizes <- MCSizes
  MaxMems <- MCMaxMems
SPECIFICATION Spec
INVARIANTS
  TypeOK
  ListInv
  NoLeak
  UsedMemInv
PROPERTY
  ImplementsPolicy
SYMMETRY AddressSymmetry
