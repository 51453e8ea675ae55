SPECIFICATION Spec
CONSTANTS
  n1 = n1
  n2 = n2
  n3 = n3
  Nodes = {n1, n2, n3}
  Nobody = Nobody
  MaxFaults = 2
  MayLag = FALSE
  MaxCalls = 2
INVARIANT TypeOK
PROPERTIES HolderSettles SomeMaster
