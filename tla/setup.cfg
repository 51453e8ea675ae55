SPECIFICATION Spec
CONSTANTS
  p1 = p1
  p2 = p2
  Subnets = {s1, s2}
  Clusters = {c1, c2}
  ServiceNets = {v1, v2}
  Modes <- BothModes
  Pods = {p1, p2}
  None = None
  Partial = Partial
  MaxCrashes = 2
  MaxEdits = 2
  UpdateFails = TRUE
INVARIANTS TypeOK VersionMeansSetUp SetUpForThisStart PodsRestored
PROPERTIES EventuallyReady
