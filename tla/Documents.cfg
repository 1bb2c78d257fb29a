SPECIFICATION MCSpec
CONSTANTS
  Owner = {minter, collector, burn}
  Minter = minter
  BurnAddress = burn
  Processor = processor
  Process = {p1, p2}
  Refresher = {processor, api}
  Margin = 1
  MaxTransfers = 2
  MaxRefreshes = 1
  MaxFaults = 1
  MaxRestarts = 1
  Holder = {f, g, h}
  Issuer = f
  Nobody = nobody
  Supply = 2
  Caller = {processor, api}
  StageTwo = processor
  Background = background
  Indexer = {i1}
  PageSize = 1
  AccountMargin = 1
  Day = 1
  MaxMoves = 2
  MaxJobs = 1
  MaxRunning = 2
  MaxStops = 1
  a = a
  b = b
  x = x
  y = y
  Server = {p1, p2}
  Series = {s}
  Token = {a, b}
  Artist = {x, y}
  None = None
  TokenData = {{a}}
  ArtistData = {{y}}
  Registered <- MCRegistered
  Burnable = {a}
  MaxEvents = 3
  MaxFailures = 1
INVARIANTS
  
  
  NoOrphans
  AtRestInSync
PROPERTIES
  WorkersAdvance
  RefreshRepairs
  TokensStay
SYMMETRY Symmetry
CHECK_DEADLOCK FALSE
