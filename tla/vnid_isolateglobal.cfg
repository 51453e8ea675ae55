SPECIFICATION Spec
CONSTANTS
  sys = sys
  a = a
  b = b
  c = c
  Namespaces = {sys, a}
  AdminNamespaces = {sys}
  VNIDs = {10, 11}
  AdminEdits <- SysEdits
  EtcdFaults = {}
  MayRestart = FALSE
  MaxEdits = 1
PROPERTY IsolateServed
