SPECIFICATION Spec
CONSTANTS
  p1 = p1
  p2 = p2
  b1 = b1
  b2 = b2
  NoEvent = NoEvent
  Body <- MCBody
  Event <- OneMint
  Process <- OneProcess
  MaxPushes = 1
  MaxInFlight = 1
  MaxFaults = 0
PROPERTIES
  MintsSettle
CHECK_DEADLOCK FALSE
