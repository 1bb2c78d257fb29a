SPECIFICATION Spec
CONSTANTS
  Worker = {w1, w2}
  Swapper = {s1}
  alice = alice
  bob = bob
  x = x
  y = y
  z = z
  ff = ff
  gx = gx
  gy = gy
  u1 = u1
  u2 = u2
  Account = {alice, bob}
  Token = {x, y, z}
  Asset = {ff, gx, gy}
  URL = {u1, u2}
  None = None
  FeralFile = "feralfile"
  AssetSource <- MCSource
  Updates <- MCUpdates
  Swaps <- MCSwaps
  MaxCalls = 4
  QueryPageSize = 2
  BatchSize = 2
  MaxSize = 3
INVARIANTS
  Consistent
  SourcePagesExact
  PagingMissesNothing
  
PROPERTIES
  FeralFileStays
  SwapKeepsHolders
CHECK_DEADLOCK FALSE
