SPECIFICATION Spec
CONSTANTS
  p1 = p1
  p2 = p2
  b1 = b1
  b2 = b2
  NoEvent = NoEvent
  Body <- MCBody
  Event <- OneOfEach
  Process <- TwoProcesses
  MaxPushes = 2
  MaxInFlight = 1
  MaxFaults = 1
INVARIANTS
  TransactionsHoldTheirRow
  StagesRanInOrder
PROPERTIES
  LeavesComplete
  NoOvertaking
  EventsSettle
  ImplementsPipeline
CHECK_DEADLOCK FALSE
