SPECIFICATION MCSpec
CONSTANTS
  Ks = {1, 2}
  Maxima = {0, 1, 4}
  Sizes = {2, 5}
  Blocks = {2, 4}
  IntSize = 2
  Counted = {1, 2}
  CompCounted <- MCCompCounted
  EpsNum = 1
  EpsDen = 10
  NULL = NULL
  Word = 4
  TickCosts = {2, 3}
  Steps = {1}
  Uptime = 12
  CycleHorizon = 25
  NEvent = 1
  Threshold = 2
  RecordThresh = 1
  Million = 3
  MaxEtime = 2
  Ns = {1, 2}
  RunCosts = {0, 1, 2, 4}
  Starts = {0, 2}
  TimeHorizon = 14
INVARIANTS
  MeasuresElapsed
  TimersRight
  SamplesRight
  ReadsTheBuffer
PROPERTIES
  FcycReturns
CHECK_DEADLOCK FALSE
