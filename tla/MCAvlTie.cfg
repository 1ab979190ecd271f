SPECIFICATION MCSpec
CONSTANTS
  Nodes = {1, 2, 3}
  Nil = 0
  Wanted = {}
  SizesOf <- MCSizes
PROPERTY
  EqualGoesLeft
