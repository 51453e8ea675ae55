SPECIFICATION FairSpec
CONSTANTS
  h1 = h1
  h2 = h2
  h3 = h3
  ip1 = ip1
  ip2 = ip2
  NoRecord = NoRecord
  NoData = NoData
  NoIP = NoIP
  NoNode = NoNode
  NoSubnet = NoSubnet
  Malformed = Malformed
  Elsewhere = Elsewhere
  Hosts = {h1, h2}
  IPs = {ip1}
  UIDs = {1, 2}
  AddressesOf <- SameIP
  NumSubnets = 1
  Requests <- NoRequests
  MaxRequests = 1
  EtcdFaults = {"failed"}
  MayRestart = FALSE
  NodesLeave = FALSE
  Window = 1
PROPERTY EveryNodeServed
