------------------------------- MODULE Referral -------------------------------
(***************************************************************************)
(* Referrals and their commissions (src/referral_system.rs): a trader's    *)
(* swap fee earns its referrer, and the referrer's referrer, a share by    *)
(* the tier of the trader.  Withdrawals draw on the limiter that set_admin *)
(* draws on.                                                               *)
(***************************************************************************)
EXTENDS AdminControl, FiniteSets, Functions

CONSTANTS
  SwapFees,       \* fees taken by swaps
  NoOne,          \* no referrer
  MaxVolume       \* bound on the fees paid altogether

ASSUME ReferralAssumption ==
  /\ IsFiniteSet(Addresses)
  /\ SwapFees \subseteq Nat \ {0} /\ NoOne \notin Addresses /\ MaxVolume \in Nat

VARIABLES
  referrer,       \* DataKey::Referrer
  directs,        \* ReferralStats.direct_referrals
  earned,         \* ReferralStats.total_commission_earned
  commission,     \* DataKey::CommissionBalance
  feeVolume,      \* DataKey::TradingVolume: the fees paid so far
  withdrawn       \* history: what withdraw_commission returned

referralVars == << referrer, directs, earned, commission, feeVolume, withdrawn >>

ReferralInit ==
  /\ referrer = [a \in Addresses |-> NoOne]
  /\ directs = [a \in Addresses |-> 0]
  /\ earned = [a \in Addresses |-> 0]
  /\ commission = [a \in Addresses |-> 0]
  /\ feeVolume = [a \in Addresses |-> 0]
  /\ withdrawn = [a \in Addresses |-> 0]

ReferrerOf(a) == IF a = NoOne THEN NoOne ELSE referrer[a]

\* Mutant: only the referrer's own referrer is looked at.
IsCircularOneLevel(by, a) == ReferrerOf(by) = a

\* is_circular_referral looks two referrers up from the new one.
IsCircular(by, a) == ReferrerOf(by) = a \/ ReferrerOf(ReferrerOf(by)) = a

RegisterReferral(by, a) ==
  /\ by # a
  /\ referrer[a] = NoOne
  /\ ~IsCircular(by, a)
  /\ referrer' = [referrer EXCEPT ![a] = by]
  /\ directs' = [directs EXCEPT ![by] = @ + 1]
  /\ UNCHANGED << earned, commission, feeVolume, withdrawn >>

\* get_tier_for_volume, as << direct, indirect >> basis points.
TierFor(volume) ==
  IF volume >= 50000 THEN << 100, 40 >>
  ELSE IF volume >= 10000 THEN << 75, 30 >>
  ELSE << 50, 20 >>

\* What account a gets of a fee: as the direct referrer, and as the direct
\* referrer's own.
Commission(a, trader, fee) ==
  LET tier == TierFor(feeVolume[trader]) IN
  (IF a = referrer[trader] THEN (fee * tier[1]) \div 10000 ELSE 0)
    + (IF a = ReferrerOf(referrer[trader]) THEN (fee * tier[2]) \div 10000 ELSE 0)

\* calculate_and_distribute_commission, called by swap: the tier is that of the
\* volume before this fee.
PayFee(trader, fee) ==
  /\ SumFunction(feeVolume) + fee <= MaxVolume
  /\ feeVolume' = [feeVolume EXCEPT ![trader] = @ + fee]
  /\ commission' = [a \in Addresses |-> commission[a] + Commission(a, trader, fee)]
  /\ earned' = [a \in Addresses |-> earned[a] + Commission(a, trader, fee)]
  /\ UNCHANGED << referrer, directs, withdrawn >>

Reset(a) == commission' = [commission EXCEPT ![a] = 0]

\* withdraw_commission: an empty withdrawal counts against the limiter as well.
WithdrawCommission(a) ==
  /\ RecordSensitive(a)
  /\ Reset(a)
  /\ withdrawn' = [withdrawn EXCEPT ![a] = @ + commission[a]]
  /\ UNCHANGED << now, admin, referrer, directs, earned, feeVolume >>

ReferralNext ==
  \/ \E a, b \in Addresses : RegisterReferral(a, b) /\ UNCHANGED adminVars
  \/ \E a \in Addresses, fee \in SwapFees : PayFee(a, fee) /\ UNCHANGED adminVars
  \/ \E a \in Addresses : WithdrawCommission(a)
  \/ \E a, b \in Addresses : SetAdmin(a, b) /\ UNCHANGED referralVars

ReferralTypeOK ==
  /\ referrer \in [Addresses -> Addresses \union {NoOne}]
  /\ directs \in [Addresses -> Nat] /\ earned \in [Addresses -> Nat]
  /\ commission \in [Addresses -> Nat] /\ withdrawn \in [Addresses -> Nat]
  /\ feeVolume \in [Addresses -> 0 .. MaxVolume]

(* Nobody is its own referrer within three steps, so a fee never returns to  *)
(* the trader who paid it, as direct or as indirect commission, whatever     *)
(* the order of the registrations (is_circular_referral).                    *)
NoShortCircle ==
  \A a \in Addresses :
    a \notin {referrer[a], ReferrerOf(referrer[a]), ReferrerOf(ReferrerOf(referrer[a]))}

(* What was earned is still in the balance or was withdrawn.                 *)
CommissionsAccounted == \A a \in Addresses : earned[a] = commission[a] + withdrawn[a]

(* The count of direct referrals is the number of accounts that name the     *)
(* referrer.                                                                 *)
DirectsCounted ==
  \A a \in Addresses : directs[a] = Cardinality({b \in Addresses : referrer[b] = a})

(* All commissions stay within the top tier's shares of the fees paid.       *)
WithinTopTier == 10000 * SumFunction(earned) <= (100 + 40) * SumFunction(feeVolume)

(* What circles of referrals and withdrawals in any order must leave true.   *)
ReferralSound ==
  ReferralTypeOK /\ NoShortCircle /\ CommissionsAccounted /\ DirectsCounted /\ WithinTopTier
=============================================================================
