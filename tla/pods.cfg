SPECIFICATION FairSpec
CONSTANTS
  p1 = p1
  p2 = p2
  ns1 = ns1
  ns2 = ns2
  ip1 = ip1
  ip2 = ip2
  NoVNID = NoVNID
  NoIP = NoIP
  Everyone = Everyone
  NoPod = NoPod
  Pods = {p1, p2}
  Namespaces = {ns1}
  NamespaceOf <- OneNamespace
  IPs = {ip1, ip2}
  NetIDs = {0, 1}
  GlobalVNID = 0
  QueueCap = 2
  Faults = {"setup", "gone"}
INVARIANTS TypeOK AddressesExact FlowsOfOneVNID
PROPERTIES PodsTagged EveryRequestAnswered
