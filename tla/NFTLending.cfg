CONSTANTS
  Addresses = {ann, bea, cat}
  InitialAdmin = ann
  TimeSteps <- MCTwoDays
  SensitiveLimit = 1
  SensitiveWindow = 1
  NoUser = NoUser
  DefaultFee = 250
  MaxRoyalty = 1000
  Royalties <- MCRoyalties
  MinShares = 2
  MaxShares = 4
  DefaultListingDuration = 1
  MaxListingDuration = 2
  DefaultOfferDuration = 1
  MaxOfferDuration = 2
  MinLoanDuration = 1
  MaxLoanDuration = 2
  MaxRate = 100
  GracePeriod = 1
  InterestPrecision = 1000000
  TriggerLTV = 7000
  PartialLTV = 10000
  MaxU32 = 1048575
  BatchSizes <- MCOne
  MaxCollections = 1
  ShareCounts <- MCShareCounts
  LoanAmounts <- MCLoanAmounts
  LoanRates <- MCRates
  LoanDurations <- MCLoanDurations
  PlatformFees <- MCNone
  MaxSupplies <- MCOne
  Standards <- MC721
  Units <- MCOne
  MaxTokens = 1
  Freezable <- MCNone
  Creators = {ann}
  Switches <- MCNone
  Prices <- MCOne
  Durations <- MCOne
  Bids <- MCOne
  Auctions <- MCSales
  MaxListings = 1
  MaxOffers = 1
  ShareLots <- MCLots
  Values <- MCValues
  LiquidationBids <- MCBids
  MaxQueue = 1
  MaxLoans = 1
  MaxTime = 4
  MaxTrades = 1
SPECIFICATION NFTSpec
INVARIANTS ExclusiveUse LendingSound
PROPERTIES MovesOnRecord
SYMMETRY MCTraders
CONSTRAINT MCBound
CHECK_DEADLOCK FALSE
