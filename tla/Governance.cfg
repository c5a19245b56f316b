\* Two accounts, one proposal, one parameter update, three days.
CONSTANTS
  Addresses = {"ann", "bob"}
  InitialAdmin = "ann"
  TimeSteps <- MCTimeSteps
  MaxTime = 2
  SensitiveLimit = 1
  SensitiveWindow = 10
  Params <- MCParams
  ParamValues <- MCParamValues
  ValidParam <- MCValid
  Unset = Unset
  ParamDelays <- MCParamDelays
  MinParamDelay = 1
  DefaultParamDelay = 2
  MaxUpdates = 1
  ProposalActions <- MCActions
  Periods <- MCPeriods
  Configs <- MCPrompt
  DefaultConfig <- MCDefault
  StakeAmounts <- MCStakes
  U32 = 65536
  MaxPower = 1
  MaxProposals = 1
  Guardians = {g1, g2, g3}
  MultisigThreshold = 2
  MultisigTotal = 3
  SecsPerMonth = 1
  TimelockDelay = 3
  Fees <- MCFees
  InitialFee = 30
  Sizes <- MCSizes
  InitialSize = 5
  CouncilTimeSteps <- MCCouncilTimeSteps
  MaxCouncilTime = 12
  MaxOps = 1
  MaxCouncilProposals = 1
  MaxLog = 4
  Voters = {v1, v2, v3}
  Quorums <- MCQuorums
  Deadlines <- MCDeadlines
  BallotTimeSteps <- MCTimeSteps
  MaxBallots = 1
  MaxBallotTime = 3
CONSTRAINT MCBound
SPECIFICATION GovernanceSpec
INVARIANTS CommittedWasAnnounced VotesDecide LogJustifies
PROPERTIES ParamsTimelocked PowerMovesProperly PhasesReported
CHECK_DEADLOCK FALSE
