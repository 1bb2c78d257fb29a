SPECIFICATION FungibleSpec
CONSTANTS
  Holder = {f, g}
  Issuer = f
  Nobody = nobody
  Supply = 1
  Caller = {processor, api}
  StageTwo = processor
  Background = background
  Indexer = {i1}
  PageSize = 2
  AccountMargin = 1
  Day = 1
  MaxMoves = 1
  MaxJobs = 1
  MaxRunning = 1
  MaxStops = 0
PROPERTIES SkipsInSync
CHECK_DEADLOCK FALSE
