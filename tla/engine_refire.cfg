CONSTANTS
  NumRules = 2
  DownRule = 1
  Devices = {d1}
  NumSlots = 2
  DurationGate <- NoGate
  StableGate <- UnitGate
  RenotifyAfter <- NoGate
  EscalateAfter <- NoGate
  NotifyOnResolve <- Always
  ApiOps = {"resolve"}
  MaxRequests = 1
  Changing <- AllFPs
  MaintDevices = {}
  MaxFaults = 0
  Crowded = FALSE
  History = {"observed"}
  d1 = d1
  NoAlert = NoAlert
  GoneAlert = GoneAlert
SPECIFICATION Spec
PROPERTIES RefireOnlyAfterClear
