SPECIFICATION MCSpec
CONSTANTS
  Workflow = {w1, w2}
  a = a
  b = b
  e = e
  Token = {a, b, e}
  Excluded = {e}
  NFTs <- MCNFTs
  PageSize = 1
  Margin = 1
  MaxTries = 1
  Moves = {{a, b}, {e}}
  BlockTimes = {1, 3}
  MaxResets = 1
  t1 = t1
  t2 = t2
  t3 = t3
  Tx = {t1, t2, t3}
  buyer = buyer
  market = market
  proxy = proxy
  seller = seller
  fees = fees
  wallet = wallet
  Address = {buyer, market, proxy, seller, fees, wallet}
  none = none
  NoOne = none
  Published = {a, b}
  Marketplace = {market}
  TreasuryProxy = proxy
  FeeWallet = {fees}
  OldFeeWallet = wallet
  Batch = 1
  Chain <- MCChain
  MaxStarts = 1
  MaxFaults = 1
  Pair = {"ETH-USD", "XTZ-USD"}
  Pairs <- MCPairs
  Window = 2
  ChunkSize = 3
  MaxTime = 5
  MaxFailures = 1
INVARIANTS
  BehindIsWritten
  SharesAddUp
  SoldOnce
  ScanComplete
  NoGapWithoutFailure
  ClosestRate
PROPERTIES
  DoneMeansIndexed
  WorkflowEnds
CHECK_DEADLOCK FALSE
