SPECIFICATION FairSpec
CONSTANTS
  p1 = p1
  p2 = p2
  p3 = p3
  Providers = {p1, p2, p3}
  Batches <- JustThree
  MaxBatch = 3
  Concurrency = 2
  CacheTTL = 1
  Wired = {"Attempts"}
  Lossy = FALSE
  MaxTime = 0
INVARIANTS
  TunnelsWithinLimit
  NothingOutlivesRun
  ReportedOnce
PROPERTIES
  RunReturns
  SignalEndsThePass
