SPECIFICATION Spec
CONSTANTS
  a = a
  b = b
  c = c
  Ids = {a, b}
  Requests = {8, 20, 40}
  MaxHeap = 14
  ChunkSize = 4
  SegBounds <- MCSegBounds
  Bumped <- MCBumped
PROPERTY
  FreeMergesNeighbours
