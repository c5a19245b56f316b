CONSTANTS
  Addresses = {ann, bea, cat}
  InitialAdmin = ann
  TimeSteps <- MCTwoDays
  SensitiveLimit = 1
  SensitiveWindow = 1
  NoUser = NoUser
  DefaultFee = 250
  MaxRoyalty = 1000
  Royalties <- MCRoyalties
  MinShares = 2
  MaxShares = 4
  DefaultListingDuration = 1
  MaxListingDuration = 2
  DefaultOfferDuration = 1
  MaxOfferDuration = 2
  MinLoanDuration = 1
  MaxLoanDuration = 2
  MaxRate = 100
  GracePeriod = 1
  InterestPrecision = 1000000
  TriggerLTV = 7000
  PartialLTV = 10000
  MaxU32 = 1048575
  BatchSizes <- MCBatches
  MaxCollections = 1
  ShareCounts <- MCNone
  LoanAmounts <- MCLoanAmounts
  LoanRates <- MCRates
  LoanDurations <- MCLoanDurations
  PlatformFees <- MCFees
  MaxSupplies <- MCUnits
  Standards <- MC1155
  Units <- MCTwo
  MaxTokens = 2
  Freezable = {bea}
  Creators = {ann}
  Switches <- MCOn
  Prices <- MCPrice
  Durations <- MCOne
  Bids <- MCAuctionBids
  Auctions <- MCKinds
  MaxListings = 2
  MaxOffers = 1
  ShareLots <- MCNone
  Values <- MCNone
  LiquidationBids <- MCNone
  MaxQueue = 1
  MaxLoans = 0
  MaxTime = 2
  MaxTrades = 2
SPECIFICATION NFTSpec
INVARIANTS RegistriesAgree
PROPERTY SalesUseCommitments
CONSTRAINT MCBound
CHECK_DEADLOCK FALSE
