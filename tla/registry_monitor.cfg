CONSTANTS
  c1 = c1
  c2 = c2
  k1 = k1
  k2 = k2
  k3 = k3
  Collectors = {c1}
  Monitored = {c1}
  NumIPs = 1
  Keys = {k1}
  MaxRequests = 2
  MaxTokens = 1
  MaxFaults = 2
  NoKey = NoKey
SPECIFICATION FairSpec
PROPERTIES SilenceIsAlarmed RecoveryIsNoticed
CHECK_DEADLOCK FALSE
