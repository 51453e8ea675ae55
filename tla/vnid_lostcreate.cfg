SPECIFICATION Spec
CONSTANTS
  sys = sys
  a = a
  b = b
  c = c
  Namespaces = {a, b}
  AdminNamespaces = {}
  VNIDs = {10, 11}
  AdminEdits <- NoEdits
  EtcdFaults = {"createLost"}
  MayRestart = FALSE
  MaxEdits = 0
INVARIANT TenantsApart
