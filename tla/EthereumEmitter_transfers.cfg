SPECIFICATION Spec
CONSTANTS
  Contents <- TransferBlocks
  MaxBlocks = 2
  MaxFaults = 1
  MaxDrops = 1
  MaxCrashes = 1
INVARIANTS
  StoredWasHandled
  NoSilentLoss
  AcceptedInOrder
PROPERTIES
  DeliveredOrLost
CHECK_DEADLOCK FALSE
