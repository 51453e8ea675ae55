SPECIFICATION FairSpec
CONSTANTS
  h1 = h1
  h2 = h2
  h3 = h3
  ip1 = ip1
  ip2 = ip2
  NoRecord = NoRecord
  NoData = NoData
  NoIP = NoIP
  NoNode = NoNode
  NoSubnet = NoSubnet
  Malformed = Malformed
  Elsewhere = Elsewhere
  Hosts = {h2}
  IPs = {ip2}
  UIDs = {1}
  AddressesOf <- NoNodes
  NumSubnets = 2
  Requests <- ServerRequest
  MaxRequests = 1
  EtcdFaults = {"failed"}
  MayRestart = FALSE
  NodesLeave = FALSE
  Window = 1
PROPERTY RequestsServed
