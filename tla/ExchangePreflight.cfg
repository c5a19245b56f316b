CONSTANTS
  ann = ann
  bob = bob
  eve = eve
  Users = {ann, bob, eve}
  LeaderboardSize = 2
  Genesis <- MCGenesis
  Precision = 4
  ToleranceBps = 10
  ConcentrationLimit = 5000
  MaxPositionPerAsset = 100000000
  MaxPositionPerUser = 100000000
  SwapsPerHour <- MCSwapsPerHour
  LpOpsPerDay <- MCLpOpsPerDay
  MintAmounts <- MCMintAmounts
  SwapAmounts <- MCSwapAmounts
  Deposits <- MCDeposits
  Burns <- MCBurns
  Prices <- MCPrices
  PoolLevels <- MCPoolLevels
  SlippageLimits <- MCSlippageLimits
  Batches <- MCBatches
  TimeSteps <- MCTimeSteps
  MaxTime = 86400
  MaxCalls = 4
SPECIFICATION ExchangeSpec
INVARIANTS PreflightHonest
CHECK_DEADLOCK FALSE
