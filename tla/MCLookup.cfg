SPECIFICATION MCSpec
CONSTANTS
  ipinfo = ipinfo
  freeipapi = freeipapi
  cdn = cdn
  leaf1 = leaf1
  leaf2 = leaf2
  ca1 = ca1
  ca2 = ca2
  SourceHosts = {ipinfo, freeipapi}
  ExtraHosts = {cdn}
  Leaves = {leaf1, leaf2}
  Issuers = {ca1, ca2}
  Stranger = stranger
  MinSources = 2
  PerSource = 1
  MaxChanges = 2
INVARIANTS
  AnswersArePinned
  RefusedForCause
PROPERTIES
  ProbeLeavesNothing
