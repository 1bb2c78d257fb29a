SPECIFICATION Spec
CONSTANTS
  Contents <- OneTransfer
  MaxLevels = 3
  MaxFaults = 1
  MaxDrops = 1
  MaxCrashes = 1
INVARIANTS
  NoSilentLoss
  AcceptedInOrder
CHECK_DEADLOCK FALSE
