SPECIFICATION MCSpec
CONSTANTS
  Nodes = {1, 2, 3, 4, 5, 6, 7, 8, 9, 10, 11, 12}
  Nil = 0
  Wanted = {2, 4}
  SizesOf <- MCSizes
INVARIANTS
  TypeOK
  HoldsMembers
  Balanced
  Ordered
  FindsBestFit
