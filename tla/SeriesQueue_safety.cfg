SPECIFICATION Spec
CONSTANTS
  p1 = p1
  p2 = p2
  NoRow = NoRow
  Event <- TwoUpdatesAndDelete
  Process <- TwoProcesses
  MaxConnections = 4
  MaxPushes = 2
  MaxInFlight = 2
  MaxFaults = 1
INVARIANTS
  RowsAreHeldOnce
  ProcessedRan
PROPERTIES
  EventsAreTried
CHECK_DEADLOCK FALSE
