SPECIFICATION Spec
CONSTANTS
  Owner = {minter, collector, burn}
  Minter = minter
  BurnAddress = burn
  Processor = processor
  Process = {p1}
  Refresher = {processor}
  Margin = 1
  MaxTransfers = 2
  MaxRefreshes = 0
  MaxFaults = 0
  MaxRestarts = 0
PROPERTIES BurnIsCaptured
CHECK_DEADLOCK FALSE
