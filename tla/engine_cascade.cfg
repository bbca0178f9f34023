CONSTANTS
  NumRules = 2
  DownRule = 1
  Devices = {d1}
  NumSlots = 2
  DurationGate <- NoGate
  StableGate <- UnitGate
  RenotifyAfter <- UnitGateOnSecond
  EscalateAfter <- UnitGateOnSecond
  NotifyOnResolve <- Always
  ApiOps = {}
  MaxRequests = 1
  Changing <- AllFPs
  MaintDevices = {}
  MaxFaults = 1
  Crowded = FALSE
  History = {}
  d1 = d1
  NoAlert = NoAlert
  GoneAlert = GoneAlert
SPECIFICATION FairSpec
PROPERTIES NoStrandedSuppression ClearedIsResolved
