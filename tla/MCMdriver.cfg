SPECIFICATION Spec
CONSTANTS
  Traces <- MCTraces
  NumTraces = 2
  HeapMax = 4
  Alignment = 2
  ByteBits = 2
  Replays = 2
  RunLibc = TRUE
INVARIANTS
  CallsAreLegal
  RangesRight
  GoodIsAccepted
  BooksRight
CHECK_DEADLOCK FALSE
