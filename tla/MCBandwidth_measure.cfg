SPECIFICATION FairSpec
CONSTANTS
  a = a
  b = b
  Targets <- BothTargets
  Streams = {a, b}
  StreamBytes = 2
  Chunk = 3
  Bodies = {1, 3}
  Warmup = 1
  Timeout = 3
  Capacity = 1
  Window = 3
INVARIANTS
  TypeOK
  PaidFor
  FigureIsOfTheLink
  SteadyWithinCapacity
  NoBodyLeftOpen
PROPERTIES
  SampleReturns
