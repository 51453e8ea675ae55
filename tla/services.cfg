SPECIFICATION FairSpec
CONSTANTS
  ns1 = ns1
  s1 = s1
  A = A
  B = B
  NoVNID = NoVNID
  NoService = NoService
  NoPorts = NoPorts
  Namespaces = {ns1}
  NetIDs = {0, 1}
  GlobalVNID = 0
  Services = {s1}
  UIDs = {1, 2}
  Ports = {A, B}
  NamespaceOf <- InNs1
  PortsOf <- Changing
  MayRevert = FALSE
  Faults = {}
  MaxRestarts = 1
INVARIANTS TypeOK NodeMapsAgree
PROPERTIES RulesExact ServiceReachable
