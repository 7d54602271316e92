SPECIFICATION Spec
CONSTANTS
  p1 = p1
  p2 = p2
  l1 = l1
  l2 = l2
  ipinfo = ipinfo
  apple = apple
  cloudflare = cloudflare
  Providers = {p1, p2}
  Locations = {l1, l2}
  At <- Overlapping
  SourceHosts = {ipinfo}
  OtherHosts = {}
  ProbeHosts = {ipinfo}
  Configs <- One
  MinTimeout = 2
  CacheTTL = 2
  RefreshInterval = 1
INVARIANTS
  ExitZeroMeansFetched
