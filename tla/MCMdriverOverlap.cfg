SPECIFICATION Spec
CONSTANTS
  Traces <- MCGrows
  NumTraces = 1
  HeapMax = 4
  Alignment = 2
  ByteBits = 2
  Replays = 1
  RunLibc = FALSE
INVARIANT
  NoOverlap
CHECK_DEADLOCK FALSE
