CONSTANTS
  ann = ann
  bob = bob
  eve = eve
  Users = {ann, bob, eve}
  LeaderboardSize = 2
  Genesis <- MCGenesis
  Precision = 4
  ToleranceBps = 10
  ConcentrationLimit = 10000
  MaxPositionPerAsset = 8000
  MaxPositionPerUser = 12000
  SwapsPerHour <- MCSwapsPerHour
  LpOpsPerDay <- MCLpOpsPerDay
  MintAmounts <- MCMintAmounts
  SwapAmounts <- MCSwapAmounts
  Deposits <- MCDeposits
  Burns <- MCBurns
  Prices <- MCPrices
  PoolLevels <- MCPoolLevels
  SlippageLimits <- MCSlippageLimits
  Batches <- MCBatches
  TimeSteps <- MCTimeSteps
  MaxTime = 86400
  MaxCalls = 4
SPECIFICATION ExchangeSpec
INVARIANTS PortfolioSound
PROPERTIES PoolValueKept ValueConserved
CHECK_DEADLOCK FALSE
