SPECIFICATION Spec
CONSTANTS
  p1 = p1
  p2 = p2
  p3 = p3
  Providers = {p1, p2}
  Batches <- TwoAndOne
  MaxBatch = 2
  Concurrency = 0
  CacheTTL = 2
  Wired <- All
  Lossy = TRUE
  MaxTime = 2
INVARIANTS
  TypeOK
  SummaryIsExact
  PruneChangesNoDecision
  NoProbeWithinTTL
  FailedIsRetried
  AttemptRowsAreTrue
PROPERTIES
  NothingRecordedOnceCut
  ImplementsPassSpec
  RunAsMainTakesIt
