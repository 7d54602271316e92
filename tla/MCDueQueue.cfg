SPECIFICATION DueSpec
CONSTANTS
  p1 = p1
  p2 = p2
  p3 = p3
  l1 = l1
  ipinfo = ipinfo
  Providers = {p1, p2, p3}
  Locations = {l1}
  At <- Nowhere
  SourceHosts = {ipinfo}
  OtherHosts = {}
  ProbeHosts = {ipinfo}
  Configs <- Daemons
  MinTimeout = 2
  CacheTTL = 0
  RefreshInterval = 1
  Limit = 2
  Backoff = 1
  Stale = 2
  Lost = {p3}
  MaxLosses = 1
  MaxCrashes = 1
PROPERTIES
  NobodyIsStarved
