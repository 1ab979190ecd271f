SPECIFICATION MCSpec
CONSTANTS
  Nodes = {1, 2, 3, 4, 5, 6, 7, 8, 9}
  Nil = 0
  Null = NULL
  NoTree = NoTree
  KeysOf <- MCKeys
  Asked = {0, 1, 2, 3}
  ArraySizes = {0, 2, 5}
  CallocFails = {FALSE, TRUE}
  Lines <- MCLines
INVARIANTS
  TypeOK
  HoldsMembers
  ValidTree
  MenuRight
PROPERTIES
  ImplementsMultiset
