SPECIFICATION Spec
CONSTANTS
  p1 = p1
  p2 = p2
  p3 = p3
  Providers = {p1, p2}
  Batches <- JustTwo
  MaxBatch = 2
  Concurrency = 2
  CacheTTL = 0
  Wired <- All
  Lossy = FALSE
  MaxTime = 0
INVARIANTS
  EveryAttemptRecorded
