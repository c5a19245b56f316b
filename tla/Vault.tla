-------------------------------- MODULE Vault --------------------------------
(***************************************************************************)
(* Staking and the treasury as the contract runs them together: stakers    *)
(* come and go, outsiders top the treasury up, the administrators request  *)
(* and execute withdrawals of what the penalties brought in, change the    *)
(* timelock and hand the administration on.                                *)
(***************************************************************************)
EXTENDS Staking

CONSTANT MaxTopUp   \* bound on what treasury_deposit brings in altogether

VARIABLE toppedUp   \* history: what treasury_deposit brought in

vaultVars == << stakingVars, toppedUp >>

VaultInit == StakingInit /\ toppedUp = 0

\* treasury_deposit is open to everybody.
TopUp(amount) ==
  /\ toppedUp + amount <= MaxTopUp
  /\ Deposit(amount)
  /\ toppedUp' = toppedUp + amount
  /\ UNCHANGED stakingOwnVars

\* treasury_withdraw selects its phase by a symbol; both need the administrator.
TreasuryWithdraw(caller) ==
  /\ \/ \E amount \in WithdrawAmounts : RequestWithdraw(caller, amount)
     \/ \E id \in 1 .. Len(requests) : ExecuteWithdraw(caller, id)
  /\ UNCHANGED << stakingOwnVars, toppedUp >>

VaultNext ==
  \/ StakingNext /\ UNCHANGED toppedUp
  \/ \E duration \in TimelockChoices :
        SetTimelockDuration(duration) /\ UNCHANGED << stakingOwnVars, toppedUp >>
  \/ \E caller, newAdmin \in Addresses :
        SetAdmin(caller, newAdmin) /\ UNCHANGED << treasuryOwnVars, stakingOwnVars, toppedUp >>
  \/ \E amount \in DepositAmounts : TopUp(amount)
  \/ \E caller \in Addresses : TreasuryWithdraw(caller)

VaultSpec == VaultInit /\ [][VaultNext]_vaultVars

\* Stakers' principal and the treasury never mix: every unit that was staked or
\* topped up is still staked, was returned to its staker, sits in the treasury,
\* or left it through an executed request, and none through two.
VaultConserved ==
  totalDeposited < MaxI128 =>
    /\ WithdrawnIsExecuted
    /\ SumFunction([u \in Users |-> StakeSum(stakes[u], AmountField, AnyStake)]) + toppedUp
         = totalStaked + returned + balance + totalWithdrawn

(* What the staking manager keeps twice agrees, in whatever order stakes are *)
(* opened, left early, claimed and passed over by distributions: totals and  *)
(* records, claimed counters and claimed records, registry and stakers; no   *)
(* bonus is claimed inside its holding period, and no distribution comes     *)
(* before its time (staking_bonus.rs).                                       *)
StakingSound ==
  /\ StakingTypeOK
  /\ StakeTotalsAgree
  /\ BonusTotalsAgree
  /\ BonusHeld
  /\ RegistryExact
  /\ DistributionsSpaced
=============================================================================
