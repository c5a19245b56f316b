CONSTANTS
  Tokens = {1, 2, 3}
  Users = {ann, bob}
  FeeTiers = {30}
  SeedAmounts = {2, 5}
  Amounts = {0, 1, 3}
  MinLPTokens = 1
  MaxPools = 2
  MaxReserve = 6
  MaxU128 = 1000000
SPECIFICATION PoolSpec
INVARIANTS PoolSound QuoteHonoured
PROPERTIES NobodyDiluted
CHECK_DEADLOCK FALSE
