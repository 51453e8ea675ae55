SPECIFICATION NodeSpec
CONSTANTS
  h1 = h1
  h2 = h2
  ip1 = ip1
  ip2 = ip2
  p1 = p1
  p2 = p2
  s1 = s1
  s2 = s2
  Keys = {ip1, ip2}
  Names = {h1, h2}
  NamesOf <- OwnHost
  KeyPath <- FullPath
  Data <- AllData
  NoData = NoData
  NoRecord = NoRecord
  Malformed = Malformed
  Elsewhere = Elsewhere
  Window = 2
  MayBeMalformed = FALSE
  IPs = {ip1, ip2}
  Subnets = {s1, s2}
  LocalIP = ip0
  DataOf <- HostData
  OvsFails = FALSE
  MaxRestarts = 1
  NoSubnet = NoSubnet
  NoIP = NoIP
INVARIANTS NodeTypeOK CopyCurrent Announced
PROPERTY TunnelsArrive
