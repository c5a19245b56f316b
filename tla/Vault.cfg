CONSTANTS
  Addresses = {gov, heir}
  InitialAdmin = gov
  TimeSteps <- MCTimeSteps
  MaxTime = 60
  SensitiveLimit = 1
  SensitiveWindow = 1
  DepositAmounts <- MCDepositAmounts
  WithdrawAmounts <- MCWithdrawAmounts
  TimelockChoices <- MCTimelockChoices
  DefaultTimelock = 2
  MaxRequests = 2
  MaxI128 = 60
  MaxTopUp = 85
  Users = {u1, u2}
  StakeAmounts <- MCStakeAmounts
  DurationChoices <- MCDurationChoices
  MaxStakes = 2
  MaxDistributions = 2
SYMMETRY MCStakers
CONSTRAINT MCBound
SPECIFICATION VaultSpec
INVARIANTS LedgerExact StakingSound VaultConserved
PROPERTIES RecordsOnlyAge ImplementsTimelock
CHECK_DEADLOCK FALSE
