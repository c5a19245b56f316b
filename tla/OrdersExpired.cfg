CONSTANTS
  Addresses = {"ann", "bob"}
  InitialAdmin = "ann"
  TimeSteps = {1}
  MaxTime = 2
  SensitiveLimit = 1
  SensitiveWindow = 2
  Makers = {"ann", "bob"}
  Pairs = {"XLM/USDC"}
  OrderPrices = {1, 2}
  Expiries = {1}
  NoTime = NoTime
  MaxOrders = 2
  MaxStory = 4
SPECIFICATION OrdersSpec
INVARIANTS ExpiredUnfilled
CHECK_DEADLOCK FALSE
