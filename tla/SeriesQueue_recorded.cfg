SPECIFICATION Spec
CONSTANTS
  p1 = p1
  p2 = p2
  NoRow = NoRow
  Event <- OneUpdate
  Process <- OneProcess
  MaxConnections = 4
  MaxPushes = 1
  MaxInFlight = 1
  MaxFaults = 0
PROPERTIES
  FailuresAreRecorded
CHECK_DEADLOCK FALSE
