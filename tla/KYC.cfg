CONSTANTS
  Addresses = {gov, user}
  InitialAdmin = gov
  TimeSteps = {1}
  MaxTime = 3
  SensitiveLimit = 2
  SensitiveWindow = 1
  NoOne = NoOne
  MaxOperators = 1
  MinTimelockDuration = 1
  DefaultTimelockDuration = 1
  MinPendingExpiry = 1
  DefaultPendingExpiry = 2
  DurationChoices = {0, 2}
  MaxOverrides = 2
CONSTRAINT KYCBound
SPECIFICATION KYCSpec
INVARIANTS FinalizedIffTerminal
PROPERTIES ReviewsSound TerminalOnlyByOverride OverridesTimelocked
CHECK_DEADLOCK FALSE
