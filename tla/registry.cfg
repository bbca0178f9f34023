CONSTANTS
  c1 = c1
  c2 = c2
  k1 = k1
  k2 = k2
  k3 = k3
  Collectors = {c1, c2}
  Monitored = {}
  NumIPs = 2
  Keys = {k1, k2, k3}
  MaxRequests = 2
  MaxTokens = 2
  MaxFaults = 1
  NoKey = NoKey
SPECIFICATION Spec
INVARIANTS TypeOK
PROPERTIES PoolPartsOnlyByOutdated TunnelIsKept
CHECK_DEADLOCK FALSE
