SPECIFICATION Spec
CONSTANTS
  a = a
  b = b
  c = c
  Ids = {a, b, c}
  Requests = {0, 8, 20, 32, 40}
  MaxHeap = 14
  ChunkSize = 4
  SegBounds <- MCSegBounds
  Bumped <- MCBumped
INVARIANTS
  TypeOK
  HeapTiled
  FreeIndexExact
  OwnedOnce
  DataKept
PROPERTY
  ImplementsAllocator
