SPECIFICATION Spec
CONSTANTS
  sys = sys
  a = a
  b = b
  c = c
  Namespaces = {sys, a, b}
  AdminNamespaces = {sys}
  VNIDs = {10, 11}
  AdminEdits <- AllEdits
  EtcdFaults = {}
  MayRestart = TRUE
  MaxEdits = 1
INVARIANTS TypeOK EtcdAgrees HeldVNIDsReserved
PROPERTY Promise
