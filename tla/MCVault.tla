------------------------------- MODULE MCVault -------------------------------
(* Two stakers, two accounts that may hand the administration to each other, *)
(* a deposit of 10 and withdrawals of 15, which neither the deposit nor a    *)
(* small penalty covers.  15 units earn no bonus on the 30 day tier and 1 on *)
(* the 60 day tier, 200 earn 10 and 24; the penalties are 1 and 20.          *)
(* Deposits of 25 reach the top of the counters.  The clock counts days.     *)
EXTENDS Vault, TLC

MCTimeSteps == {30}
MCStakeAmounts == {15, 200}
MCDurationChoices == {7, 30, 60}
MCDepositAmounts == {-1, 10, 25}
MCWithdrawAmounts == {0, 15, 25}
MCTimelockChoices == {0, 30}
MCStakers == Permutations(Users)

\* Bound: once there is a stake or a distribution, one administrator with the
\* first timelock makes one request of 15 against one deposit of 10.
MCBound ==
  \/ distributions = << >> /\ \A u \in Users : stakes[u] = << >>
  \/ /\ admin = InitialAdmin /\ timelock = DefaultTimelock /\ toppedUp <= 10
     /\ Len(requests) <= 1 /\ \A i \in DOMAIN requests : requests[i].amount = 15
     /\ \A a \in Addresses : sensitiveUsage[a] = 0
=============================================================================
