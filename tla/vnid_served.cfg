SPECIFICATION FairSpec
CONSTANTS
  sys = sys
  a = a
  b = b
  c = c
  Namespaces = {sys, a, b}
  AdminNamespaces = {sys}
  VNIDs = {10, 11}
  AdminEdits <- EditsOfA
  EtcdFaults = {"createFailed", "updateFailed"}
  MayRestart = FALSE
  MaxEdits = 1
INVARIANTS NoVNIDLeaked RecordIffKnown
PROPERTIES EventuallyAssigned EventuallyRevoked
