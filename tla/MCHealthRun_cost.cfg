SPECIFICATION Spec
CONSTANTS
  doh = doh
  gen204 = gen204
  cdn = cdn
  shop = shop
  Table = {doh, gen204, cdn}
  Class <- OneClass
  Contract <- ContractOf
  SampleSize <- OneEach
  ProbeTimeout = 2
  Modes = {TRUE}
  DefaultConcurrency = 1
  AllConcurrency = 2
INVARIANTS
  OneProbeTimeout
