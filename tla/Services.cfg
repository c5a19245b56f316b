CONSTANTS
  Addresses = {"ann", "bob", "cy"}
  InitialAdmin = "ann"
  TimeSteps <- MCTimeSteps
  MaxTime = 2
  SensitiveLimit = 1
  SensitiveWindow = 2
  Makers = {"ann"}
  Pairs = {"XLM/USDC"}
  OrderPrices <- MCOrderPrices
  Expiries <- MCExpiries
  NoTime = NoTime
  MaxOrders = 2
  MaxStory = 4
  SwapFees <- MCFees
  NoOne = NoOne
  MaxVolume = 20100
  FeedPrices <- MCFeedPrices
  FirstPrice = 100
  FeedConfigs <- MCFeedConfigs
  DefaultFeed <- MCDefaultFeed
  U32 = 65536
  Inactive = Inactive
  NoPrice = NoPrice
  Owners = {"ann", "bob"}
  AlertKinds <- MCAlertKinds
  AlertEvents <- MCAlertEvents
  AlertExpiries = {0, 1}
  MaxAlerts = 2
  Traders = {"ann", "bob"}
  TraderBadgeAt = 2
  BatchSize = 2
  MaxTrades = 2
  MaxDeposits = 1
  MaxBuffer = 2
  Earners = {"ann"}
  FirstDay = 2
  StreakDays = 2
  AchievementTerm = 1
  VolumeGoal = 50000
  TradeVolumes = {0, 50000}
  Losses <- MCLosses
  NoLoss = NoLoss
  Bonuses <- MCBonuses
  MaxStreak = 4
  MaxAchievements = 4
  Metrics <- MCMetrics
  FeeConfigs <- MCFeeConfigs
  FirstConfigs <- MCFirstFees
  FeeWord = 65536
  ManualFees <- MCManualFees
  Operators = {op}
  RecoveryTimeout = 2
  HistoryCap = 2
  RetentionPeriods <- MCRetentionPeriods
  Never = Never
  FeeTimeSteps <- MCFeeTimeSteps
  MaxFeeTime = 3
SPECIFICATION ServicesSpec
INVARIANTS OrdersFollowStory ReferralSound FeedSound AlertsSound BadgesSound DiscountsSound FeesSound
PROPERTIES OverrideKept
CHECK_DEADLOCK FALSE
