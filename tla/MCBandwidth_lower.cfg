SPECIFICATION Spec
CONSTANTS
  a = a
  b = b
  Targets <- OneTarget
  Streams = {a, b}
  StreamBytes = 3
  Chunk = 2
  Bodies = {4}
  Warmup = 2
  Timeout = 3
  Capacity = 1
  Window = 2
INVARIANT
  LowerBoundIsLower
