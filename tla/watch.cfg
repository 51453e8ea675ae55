\* EtcdWatch by itself, with records whose name is their key.  Three more
\* properties have counterexamples: NamesArrive with MayBeMalformed = TRUE, and
\* with Window = 1 ChangesArrive and RemovalsArrive.
SPECIFICATION FairSpec
CONSTANTS
  k1 = k1
  k2 = k2
  p1 = p1
  p2 = p2
  Keys = {k1, k2}
  Names = {k1, k2}
  NamesOf <- OwnName
  KeyPath <- FullPath
  Data = {10, 11}
  NoData = NoData
  NoRecord = NoRecord
  Malformed = Malformed
  Elsewhere = Elsewhere
  Window = 2
  MayBeMalformed = FALSE
INVARIANTS TypeOK CopyCurrent Announced
PROPERTIES NamesArrive EventsArrive
