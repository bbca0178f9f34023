CONSTANTS
  NumRules = 2
  DownRule = 1
  Devices = {d1}
  NumSlots = 2
  DurationGate <- UnitGate
  StableGate <- UnitGate
  RenotifyAfter <- NoGate
  EscalateAfter <- NoGate
  NotifyOnResolve <- Always
  ApiOps = {"acknowledge", "resolve"}
  MaxRequests = 2
  Changing <- FPsOfSecond
  MaintDevices = {d1}
  MaxFaults = 1
  Crowded = FALSE
  History = {"observed"}
  d1 = d1
  NoAlert = NoAlert
  GoneAlert = GoneAlert
SPECIFICATION FairSpec
INVARIANTS UniqueIncident
PROPERTIES AutoResolveOnlyAfterStable ClearedIsResolved BreachIsAlerted
