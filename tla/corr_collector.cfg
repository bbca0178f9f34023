CONSTANTS
  a = a
  b = b
  c = c
  Devices = {a, b}
  Links <- Pair
  Ports <- OneEnd
  Members = {b}
  Leader = b
  RuleOrder <- DownFirst
  NoAlert = NoAlert
  GoneAlert = GoneAlert
SPECIFICATION FairSpec
INVARIANTS TypeOK
PROPERTIES OutageSurfaces SuppressionIsCurrent SuppressionSettles BlameIsGrounded IslandSurfacesOnce
