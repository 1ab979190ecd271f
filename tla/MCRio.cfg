SPECIFICATION Spec
CONSTANTS
  Total = 8
  Newlines = {2, 5, 7}
  WriteSizes = {0, 1, 4}
  Reads = {1, 4}
  Lines = {2, 4, 6}
  Capacity = 3
  BufSize = 3
INVARIANTS
  InOrder
  ShortOnlyAtEnd
PROPERTIES
  ImplementsChannel
  StreamEnds
