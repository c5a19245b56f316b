CONSTANTS
  Tokens = {1, 2, 3}
  Users = {ann}
  FeeTiers = {30}
  SeedAmounts = {6}
  Amounts = {0, 3}
  MinLPTokens = 100
  MaxPools = 3
  MaxReserve = 10
  MaxU128 = 1000000
SPECIFICATION MultiHopSpec
INVARIANTS DiscoveredRouteRuns
CHECK_DEADLOCK FALSE
