SPECIFICATION FairSpec
CONSTANTS
  doh = doh
  gen204 = gen204
  cdn = cdn
  shop = shop
  Table = {doh, gen204, cdn, shop}
  Class <- ClassOf
  Contract <- ContractOf
  SampleSize <- OneEach
  ProbeTimeout = 5
  Modes = {TRUE, FALSE}
  DefaultConcurrency = 2
  AllConcurrency = 3
INVARIANTS
  NobodyCutByBudget
  SampleCostsOneProbeTimeout
PROPERTIES
  RunReturns
