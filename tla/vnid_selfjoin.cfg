SPECIFICATION Spec
CONSTANTS
  sys = sys
  a = a
  b = b
  c = c
  Namespaces = {a, b}
  AdminNamespaces = {}
  VNIDs = {10, 11}
  AdminEdits <- SelfJoin
  EtcdFaults = {}
  MayRestart = FALSE
  MaxEdits = 1
INVARIANT TenantsApart
