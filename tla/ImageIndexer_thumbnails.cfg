SPECIFICATION Spec
CONSTANTS
  Asset = {asset}
  Collection = {collection}
  Worker = {w1, w2}
  Capacity = 1
  MaxVersion = 1
  MaxFaults = 1
INVARIANTS
  ThumbnailIsKept
  OrphansAreFaults
PROPERTIES
  AssetsAreSettled
  ShutdownEnds
CHECK_DEADLOCK FALSE
