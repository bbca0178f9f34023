CONSTANTS
  NumRules = 2
  DownRule = 1
  Devices = {d1}
  NumSlots = 2
  DurationGate <- NoGate
  StableGate <- UnitGate
  RenotifyAfter <- NoGate
  EscalateAfter <- NoGate
  NotifyOnResolve <- Always
  ApiOps = {"acknowledge", "resolve"}
  MaxRequests = 1
  Changing <- AllFPs
  MaintDevices = {}
  MaxFaults = 0
  Crowded = TRUE
  History = {"told"}
  d1 = d1
  NoAlert = NoAlert
  GoneAlert = GoneAlert
SPECIFICATION Spec
INVARIANTS TypeOK SessionAgrees MuteHasOwner NoUnheraldedResolve
PROPERTIES ServesIncidents AckSurvivesCycle
