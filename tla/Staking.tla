------------------------------- MODULE Staking -------------------------------
(***************************************************************************)
(* The staking bonus manager (src/staking_bonus.rs) on top of the treasury *)
(* that receives its early-unstake penalties.  The clock counts days.      *)
(*                                                                         *)
(* Staking is bookkeeping: no operation of the manager touches the user's  *)
(* portfolio, so what a call returns to the user is recorded here in the   *)
(* history variable returned.                                              *)
(***************************************************************************)
EXTENDS Treasury

CONSTANTS
  Users,              \* accounts that stake
  StakeAmounts,       \* amounts offered to stake
  DurationChoices,    \* values of duration_days offered to stake
  MaxStakes,          \* bound on the stakes of all users together
  MaxDistributions    \* bound on executed distributions

ASSUME StakingAssumption ==
  /\ IsFiniteSet(Users)
  /\ StakeAmounts \subseteq Int
  /\ DurationChoices \subseteq Nat
  /\ MaxStakes \in Nat
  /\ MaxDistributions \in Nat

VARIABLES
  stakes,             \* UserStakes: the records of each user, stake id n at n + 1
  userTotalStaked,    \* UserTotalStaked
  userEarned,         \* UserEarnedBonuses, written by the distribution only
  userClaimed,        \* UserClaimedBonuses
  totalStaked,        \* TotalStaked
  totalDistributed,   \* TotalBonusesDistributed
  registry,           \* StakerRegistry
  distributions,      \* DistributionRecords
  lastDistribution,   \* LastDistributionTime
  returned            \* history: principal handed back so far

stakeVars == << stakes, userTotalStaked, totalStaked, registry, returned >>
bonusVars == << userClaimed, totalDistributed >>
distributionVars == << userEarned, distributions, lastDistribution >>
stakingOwnVars == << stakeVars, bonusVars, distributionVars >>
stakingVars == << stakingOwnVars, treasuryVars >>

-----------------------------------------------------------------------------
(* Tiers and stake records *)

HoldingPeriod == 30        \* BONUS_HOLDING_PERIOD_SECS
DistributionPeriod == 7    \* DISTRIBUTION_PERIOD_SECS

BonusBps == [d \in {30, 60, 90, 365} |->
               CASE d = 30 -> 500 [] d = 60 -> 1200 [] d = 90 -> 2000 [] d = 365 -> 5000]

\* StakeRecord.  unlock_at, claimable_at and bonus_amount are stored by the
\* code; they are computed once from the fields kept here and never change.
StakeRecord ==
  [amount : Nat \ {0}, duration : DOMAIN BonusBps, staked_at : Nat,
   bonus_claimed : BOOLEAN, is_active : BOOLEAN]

UnlockAt(s) == s.staked_at + s.duration
ClaimableAt(s) == s.staked_at + HoldingPeriod
BonusAmount(s) == (s.amount * BonusBps[s.duration]) \div 10000
Penalty(s) == (s.amount * 10) \div 100

StakingInit ==
  /\ TreasuryInit
  /\ stakes = [u \in Users |-> << >>]
  /\ userTotalStaked = [u \in Users |-> 0]
  /\ userEarned = [u \in Users |-> 0]
  /\ userClaimed = [u \in Users |-> 0]
  /\ totalStaked = 0
  /\ totalDistributed = 0
  /\ registry = << >>
  /\ distributions = << >>
  /\ lastDistribution = 0
  /\ returned = 0

-----------------------------------------------------------------------------
(* Operations *)

Enrol(u) == IF stakes[u] = << >> THEN Append(registry, u) ELSE registry

Stake(u, amount, duration) ==
  /\ SumFunction([v \in Users |-> Len(stakes[v])]) < MaxStakes
  /\ amount > 0
  /\ duration \in DOMAIN BonusBps
  /\ stakes' = [stakes EXCEPT ![u] =
                  Append(@, [amount |-> amount, duration |-> duration, staked_at |-> now,
                             bonus_claimed |-> FALSE, is_active |-> TRUE])]
  /\ registry' = Enrol(u)
  /\ userTotalStaked' = [userTotalStaked EXCEPT ![u] = @ + amount]
  /\ totalStaked' = totalStaked + amount
  /\ UNCHANGED << returned, bonusVars, distributionVars, treasuryVars >>

\* What unstake_early and claim_stake do to the record and to both totals.
Deactivate(u, id) ==
  /\ stakes[u][id].is_active
  /\ stakes' = [stakes EXCEPT ![u][id].is_active = FALSE]
  /\ userTotalStaked' = [userTotalStaked EXCEPT ![u] = @ - stakes[u][id].amount]
  /\ totalStaked' = totalStaked - stakes[u][id].amount

\* Available at any time, also after the lock has run out.  A penalty that
\* rounds down to nothing is not deposited.
UnstakeEarly(u, id) ==
  LET s == stakes[u][id] IN
  /\ Deactivate(u, id)
  /\ returned' = returned + (s.amount - Penalty(s))
  /\ IF Penalty(s) > 0 THEN Credit(Penalty(s)) ELSE UNCHANGED << balance, totalDeposited >>
  /\ UNCHANGED << registry, bonusVars, distributionVars,
                  adminVars, totalWithdrawn, timelock, requests >>

\* Mutant: the lock is not looked at.
UnlockedAnyTime(s) == TRUE
Unlocked(s) == now >= UnlockAt(s)

ClaimStake(u, id) ==
  /\ Unlocked(stakes[u][id])
  /\ Deactivate(u, id)
  /\ returned' = returned + stakes[u][id].amount
  /\ UNCHANGED << registry, bonusVars, distributionVars, treasuryVars >>

\* Mutant: a claimed bonus is paid again.
ClaimableTwice(s) == s.is_active /\ now >= ClaimableAt(s) /\ BonusAmount(s) > 0
Claimable(s) ==
  /\ ~ s.bonus_claimed
  /\ s.is_active
  /\ now >= ClaimableAt(s)
  /\ BonusAmount(s) > 0

\* Sum of the values of op over those of a user's stakes that satisfy P.
StakeSum(recs, op(_), P(_)) ==
  SumFunction([i \in DOMAIN recs |-> IF P(recs[i]) THEN op(recs[i]) ELSE 0])

\* All claimable bonuses at once; the call fails when there is none.
ClaimBonuses(u) ==
  LET total == StakeSum(stakes[u], BonusAmount, Claimable) IN
  /\ total > 0
  /\ stakes' = [stakes EXCEPT ![u] =
                  [i \in DOMAIN @ |->
                     IF Claimable(@[i]) THEN [@[i] EXCEPT !.bonus_claimed = TRUE] ELSE @[i]]]
  /\ userClaimed' = [userClaimed EXCEPT ![u] = @ + total]
  /\ totalDistributed' = totalDistributed + total
  /\ UNCHANGED << userTotalStaked, totalStaked, registry, returned,
                  distributionVars, treasuryVars >>

DistributionDue == now >= lastDistribution + DistributionPeriod

Accrued(u) == StakeSum(stakes[u], BonusAmount, LAMBDA s : s.is_active /\ ~ s.bonus_claimed)

\* The pass over the registry: each entry is credited the whole bonus of the
\* staker's active, unclaimed stakes, also when an earlier pass did so.
ExecuteDistribution ==
  LET Entries(u) == {i \in DOMAIN registry : registry[i] = u}
      Share(i) == Accrued(registry[i])
      paid == {i \in DOMAIN registry : Share(i) > 0}
  IN
  /\ Len(distributions) < MaxDistributions
  /\ DistributionDue
  /\ userEarned' = [u \in Users |-> userEarned[u] + Cardinality(Entries(u)) * Accrued(u)]
  /\ distributions' = Append(distributions,
                        [at |-> now, total |-> SumFunction([i \in paid |-> Share(i)]),
                         recipients |-> Cardinality(paid)])
  /\ lastDistribution' = now
  /\ UNCHANGED << stakeVars, bonusVars, treasuryVars >>

StakingNext ==
  \/ \E u \in Users, amount \in StakeAmounts, d \in DurationChoices : Stake(u, amount, d)
  \/ \E u \in Users : \E id \in DOMAIN stakes[u] : UnstakeEarly(u, id)
  \/ \E u \in Users : \E id \in DOMAIN stakes[u] : ClaimStake(u, id)
  \/ \E u \in Users : ClaimBonuses(u)
  \/ ExecuteDistribution
  \/ \E dt \in TimeSteps : AdvanceTime(dt) /\ UNCHANGED << stakingOwnVars, treasuryOwnVars >>

StakingSpec == StakingInit /\ [][StakingNext]_stakingVars

-----------------------------------------------------------------------------
(* Properties *)

\* The type invariant.  The totals are signed in the code and never negative.
StakingTypeOK ==
  /\ TreasuryTypeOK
  /\ stakes \in [Users -> Seq(StakeRecord)]
  /\ userTotalStaked \in [Users -> Nat]
  /\ totalStaked \in Nat
  /\ userEarned \in [Users -> Nat]
  /\ userClaimed \in [Users -> Nat]
  /\ totalDistributed \in Nat
  /\ registry \in Seq(Users)
  /\ distributions \in Seq([at : Nat, total : Nat, recipients : Nat])
  /\ lastDistribution \in Nat
  /\ returned \in Nat

AmountField(s) == s.amount
AnyStake(s) == TRUE
ActiveStake(s) == s.is_active
ClaimedStake(s) == s.bonus_claimed

\* The stored totals, updated separately by stake, unstake_early and
\* claim_stake, stay equal to what the individual records add up to.
StakeTotalsAgree ==
  /\ \A u \in Users : userTotalStaked[u] = StakeSum(stakes[u], AmountField, ActiveStake)
  /\ totalStaked = SumFunction(userTotalStaked)

\* The claimed-bonus counters equal the bonuses of the records marked claimed:
\* no sequence of claims, exits and new stakes pays a bonus a second time.
BonusTotalsAgree ==
  /\ \A u \in Users : userClaimed[u] = StakeSum(stakes[u], BonusAmount, ClaimedStake)
  /\ totalDistributed = SumFunction(userClaimed)

\* The registry the distribution iterates over lists each user who ever staked
\* exactly once, so that one distribution visits nobody twice.
RegistryExact ==
  /\ \A i, j \in DOMAIN registry : registry[i] = registry[j] => i = j
  /\ \A u \in Users : stakes[u] # << >> <=> \E i \in DOMAIN registry : registry[i] = u

\* Distributions are at least a period apart, also across idle stretches.
DistributionsSpaced ==
  \A i \in DOMAIN distributions :
    /\ distributions[i].at <= lastDistribution
    /\ i + 1 \in DOMAIN distributions =>
         distributions[i + 1].at >= distributions[i].at + DistributionPeriod

\* A bonus is only ever marked claimed once its holding period is over.
BonusHeld ==
  \A u \in Users : \A i \in DOMAIN stakes[u] :
    stakes[u][i].bonus_claimed => now >= ClaimableAt(stakes[u][i])

\* A stake's record is written once.  Later steps only set its two flags, never
\* clear them; it stops being active before its unlock time only if the 10%
\* penalty reaches the treasury in the same step; and its bonus is only
\* claimed while it is active.
RecordsOnlyAge ==
  [][\A u \in Users : \A i \in DOMAIN stakes[u] :
       LET s == stakes[u][i]
           t == stakes'[u][i]
       IN
       /\ i \in DOMAIN stakes'[u]
       /\ t = [s EXCEPT !.bonus_claimed = t.bonus_claimed, !.is_active = t.is_active]
       /\ s.bonus_claimed => t.bonus_claimed
       /\ t.is_active => s.is_active
       /\ s.is_active /\ ~ t.is_active /\ now < UnlockAt(s) =>
            totalDeposited' = SaturatingAdd(totalDeposited, Penalty(s))
       /\ t.bonus_claimed /\ ~ s.bonus_claimed => s.is_active]_stakingVars

=============================================================================
