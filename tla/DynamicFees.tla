----------------------------- MODULE DynamicFees -----------------------------
(***************************************************************************)
(* The trading fee that follows the congestion of the network: the manager *)
(* (src/fee_adjustment_manager.rs) over the congestion score               *)
(* (src/network_congestion.rs), the fee formula                            *)
(* (src/dynamic_fee_adjustment.rs), the emergency override                 *)
(* (src/emergency_override.rs) and the history (src/fee_history.rs).  The  *)
(* manager is initialized once; its Err leaves the state as it is.         *)
(***************************************************************************)
EXTENDS Integers, SeqFilter

CONSTANTS
  Metrics,          \* network metrics reported
  FeeConfigs,       \* configurations set
  FirstConfigs,     \* configurations initialize may be called with
  FeeWord,          \* 2^32, the width of a fee and a multiplier
  ManualFees,       \* fees set by hand
  Operators,        \* accounts that may be authorized for overrides
  RecoveryTimeout,  \* AUTO_RECOVERY_TIMEOUT
  HistoryCap,       \* MAX_HISTORY_ENTRIES
  RetentionPeriods, \* retentions asked for
  Never,            \* None, for a time and for metrics
  FeeTimeSteps,     \* how far the clock moves at once
  MaxFeeTime        \* bound: the clock stops here

NetworkMetrics == [gas : Nat, tps : Nat, pending : Nat, capacity : Nat]
FeeNumbers == 0 .. FeeWord - 1
FeeConfig ==
  [base : FeeNumbers, multiplier : [1 .. 5 -> FeeNumbers], max : FeeNumbers, min : FeeNumbers, trend : BOOLEAN,
   percent : FeeNumbers, cooldown : Nat, override : BOOLEAN, cap : FeeNumbers]

\* update_config's validation: nothing is asked of the multipliers, and nothing
\* at all of the configuration initialize stores.
ValidFeeConfig(c) == c.min <= c.base /\ c.base <= c.max /\ c.max <= 1000

ASSUME FeesAssumption ==
  /\ FeeWord \in Nat \ {0}
  /\ Metrics \subseteq NetworkMetrics
  /\ FeeConfigs \subseteq FeeConfig /\ FirstConfigs \subseteq FeeConfig
  /\ ManualFees \subseteq FeeNumbers /\ RecoveryTimeout \in Nat \ {0} /\ HistoryCap \in Nat \ {0}
  /\ RetentionPeriods \subseteq Nat /\ Never \notin Nat
  /\ FeeTimeSteps \subseteq Nat \ {0} /\ MaxFeeTime \in Nat

VARIABLES
  clock,            \* ledger timestamp
  feeConfig,        \* FEE_CONFIG_KEY
  fee, feeBefore,   \* CURRENT_FEE_KEY, PREVIOUS_FEE_KEY
  metricsBefore,    \* PREVIOUS_METRICS_KEY
  lastUpdate,       \* "lstupd"
  override,         \* EmergencyOverrideState
  authorized,       \* AUTHORIZED_ADMINS_KEY
  feeHistory        \* HISTORY_LOG_KEY

feeVars ==
  << clock, feeConfig, fee, feeBefore, metricsBefore, lastUpdate, override, authorized, feeHistory >>

---------------------------------------------------------------------------
\* The congestion score.

\* calculate_gas_factor: from MIN_GAS_PRICE to CRITICAL_GAS_PRICE.
GasFactor(gas) ==
  IF gas <= 100 THEN 0 ELSE IF gas >= 5000 THEN 100 ELSE ((gas - 100) * 100) \div 4900

\* calculate_volume_factor and calculate_pending_factor.
LoadFactor(n, most) == IF n >= most THEN 100 ELSE (n * 100) \div most

\* The weighted score: gas, volume, pending transactions and capacity, weighed.
Score(m) ==
  (GasFactor(m.gas) * 30 + LoadFactor(m.tps, 1000) * 25
     + LoadFactor(m.pending, 10000) * 25 + LoadFactor(m.capacity, 100) * 20) \div 100

\* get_current_congestion_level: 1 is VeryLow, 5 is Critical.
LevelOf(score) ==
  CASE score <= 20 -> 1 [] score \in 21 .. 40 -> 2 [] score \in 41 .. 60 -> 3
    [] score \in 61 .. 80 -> 4 [] score > 80 -> 5

level == [m \in Metrics |-> LevelOf(Score(m))]

\* calculate_trend: rising, falling or neither; metrics never reported are level.
Trend(m, before) ==
  IF before = Never \/ level[m] = level[before] THEN "Stable"
  ELSE IF level[m] > level[before] THEN "Increasing" ELSE "Decreasing"

AtLeast(low, n) == IF n < low THEN low ELSE n
AtMost(high, n) == IF n > high THEN high ELSE n

\* The fee formula.

\* What a trend adds to the multiplier and to the fee; decreases count half.
TrendEffect(c, trend) ==
  LET step == (c.base * AtMost(50, c.percent)) \div 100 IN
  IF ~c.trend \/ trend = "Stable" THEN [points |-> 0, bps |-> 0]
  ELSE IF trend = "Increasing" THEN [points |-> 5, bps |-> step]
  ELSE [points |-> -3, bps |-> -(step \div 2)]

\* saturating_add and saturating_sub.
Saturated(n) == AtMost(FeeWord - 1, AtLeast(0, n))

\* apply_multiplier: computed in 64 bits and cut to 32.
Multiplied(base, multiplier) == ((base * multiplier) \div 100) % FeeWord

\* calculate_adjusted_fee.
AdjustedFee(c, m, before, overridden) ==
  LET effect == TrendEffect(c, Trend(m, before))
      multiplied == Multiplied(c.base, Saturated(c.multiplier[level[m]] + effect.points))
      trended == Saturated(multiplied + effect.bps)
      capped == IF overridden /\ c.override THEN AtMost(c.cap, trended) ELSE trended
  IN  AtMost(c.max, AtLeast(c.min, capped))

---------------------------------------------------------------------------
\* The override.

NoOverride == [active |-> FALSE, until |-> Never]

\* should_auto_trigger: two indicators, or one that is extreme.
Triggers(m) ==
  \/ m.capacity >= 98 \/ m.gas >= 7000 \/ m.pending >= 20000
  \/ m.capacity >= 95 /\ m.gas >= 5000
  \/ m.capacity >= 95 /\ m.pending >= 15000
  \/ m.gas >= 5000 /\ m.pending >= 15000

\* activate_manual, activate_automatic.  The reason, the count of activations
\* and the cap of the override's own, which no fee is computed from, are left out.
Activated(o) == [o EXCEPT !.active = TRUE, !.until = clock + RecoveryTimeout]

Deactivated == NoOverride

\* Mutant: the timeout waits for the network to calm down.
OverrideAfterCalm(m) ==
  IF Triggers(m) /\ ~override.active THEN Activated(override)
  ELSE IF override.active /\ ~Triggers(m) /\ clock >= override.until THEN Deactivated
  ELSE override

\* What an automatic update makes of the override: one that runs out ends even
\* if the network is as congested as ever, and starts again at the next update.
OverrideAfter(m) ==
  IF Triggers(m) /\ ~override.active THEN Activated(override)
  ELSE IF override.active /\ override.until # Never /\ clock >= override.until
       THEN Deactivated
  ELSE override

---------------------------------------------------------------------------
\* The manager.

Keep(s, n) == IF Len(s) > n THEN SubSeq(s, Len(s) - n + 1, Len(s)) ELSE s

\* Mutant: an entry names the fee before last.
RecordedStale(new) ==
  feeHistory' = Keep(Append(feeHistory, [fee |-> new, before |-> feeBefore, at |-> clock]),
                     HistoryCap)

\* record_fee_adjustment.
Recorded(new) ==
  feeHistory' = Keep(Append(feeHistory, [fee |-> new, before |-> fee, at |-> clock]),
                     HistoryCap)

SetFee(new) ==
  /\ fee' = new /\ feeBefore' = fee
  /\ Recorded(new)

FeesInit ==
  /\ clock = 0
  /\ feeConfig \in FirstConfigs
  /\ fee = feeConfig.base /\ feeBefore = feeConfig.base
  /\ metricsBefore = Never
  /\ lastUpdate = 0
  /\ override = NoOverride
  /\ authorized = {}
  /\ feeHistory = << [fee |-> feeConfig.base, before |-> feeConfig.base, at |-> 0] >>

\* update_fees_for_congestion.
UpdateFees(m) ==
  /\ clock - lastUpdate >= feeConfig.cooldown
  /\ override' = OverrideAfter(m)
  /\ LET new == AdjustedFee(feeConfig, m, metricsBefore, override'.active) IN
     IF new # fee THEN SetFee(new) ELSE UNCHANGED << fee, feeBefore, feeHistory >>
  /\ metricsBefore' = m
  /\ lastUpdate' = clock
  /\ UNCHANGED << clock, feeConfig, authorized >>

Admissible(new) == feeConfig.min <= new /\ new <= feeConfig.max

\* update_fees_manual: neither the override nor the cooldown is asked.
UpdateFeesManual(new) ==
  /\ Admissible(new) /\ new # fee
  /\ SetFee(new)
  /\ UNCHANGED << clock, feeConfig, metricsBefore, lastUpdate, override, authorized >>

\* update_config: the fee in force is left as it is.
UpdateFeeConfig(c) ==
  /\ ValidFeeConfig(c)
  /\ feeConfig' = c
  /\ UNCHANGED << clock, fee, feeBefore, metricsBefore, lastUpdate, override, authorized, feeHistory >>

ActivateOverride(a) ==
  /\ a \in authorized /\ ~override.active
  /\ override' = Activated(override)
  /\ UNCHANGED << clock, feeConfig, fee, feeBefore, metricsBefore, lastUpdate, authorized, feeHistory >>

DeactivateOverride(a) ==
  /\ override.active /\ a \in authorized
  /\ override' = Deactivated
  /\ UNCHANGED << clock, feeConfig, fee, feeBefore, metricsBefore, lastUpdate, authorized, feeHistory >>

SetAuthorized(a, yes) ==
  /\ authorized' = IF yes THEN authorized \union {a} ELSE authorized \ {a}
  /\ UNCHANGED << clock, feeConfig, fee, feeBefore, metricsBefore, lastUpdate, override, feeHistory >>

CleanupOldHistory(retention) ==
  /\ feeHistory' = Only(feeHistory, {e \in Range(feeHistory) : e.at >= AtLeast(0, clock - retention)})
  /\ UNCHANGED << clock, feeConfig, fee, feeBefore, metricsBefore, lastUpdate, override, authorized >>

FeeTimePasses(dt) ==
  /\ clock + dt <= MaxFeeTime
  /\ clock' = clock + dt
  /\ UNCHANGED << feeConfig, fee, feeBefore, metricsBefore, lastUpdate, override, authorized, feeHistory >>

FeesNext ==
  \/ \E m \in Metrics : UpdateFees(m)
  \/ \E new \in ManualFees : UpdateFeesManual(new)
  \/ \E c \in FeeConfigs : UpdateFeeConfig(c)
  \/ \E a \in Operators :
       \/ ActivateOverride(a)
       \/ DeactivateOverride(a)
       \/ \E yes \in BOOLEAN : SetAuthorized(a, yes)
  \/ \E retention \in RetentionPeriods : CleanupOldHistory(retention)
  \/ \E dt \in FeeTimeSteps : FeeTimePasses(dt)

FeesSpec == FeesInit /\ [][FeesNext]_feeVars

FeesTypeOK ==
  /\ clock \in 0 .. MaxFeeTime /\ lastUpdate \in 0 .. clock
  /\ feeConfig \in FeeConfig
  /\ fee \in FeeNumbers /\ feeBefore \in FeeNumbers
  /\ override \in [active : BOOLEAN, until : Nat \union {Never}]
  /\ authorized \subseteq Operators
  /\ Len(feeHistory) <= HistoryCap

(* The history is the story of the fee: each entry starts from the fee the   *)
(* one before it set, in the order of time, and the last one, while it is    *)
(* kept, set the fee and the previous fee on record, however manual and      *)
(* automatic changes alternate and whatever was trimmed (fee_history.rs).    *)
FeeStoryKept ==
  /\ \A k \in 1 .. Len(feeHistory) - 1 :
       feeHistory[k + 1].before = feeHistory[k].fee /\ feeHistory[k].at <= feeHistory[k + 1].at
  /\ feeHistory # << >> =>
       Last(feeHistory).fee = fee /\ Last(feeHistory).before = feeBefore

\* Pairs of metrics of which the second is at least as high in every respect.
Busier ==
  {pair \in Metrics \X Metrics :
     pair[1] # pair[2] /\ \A x \in {"gas", "tps", "pending", "capacity"} : pair[1][x] <= pair[2][x]}

\* What update_config does not check: multipliers that rise with the congestion,
\* and a product that still fits 32 bits when the highest is raised by a trend.
Rising(c) ==
  /\ \A i \in 1 .. 4 : c.multiplier[i] <= c.multiplier[i + 1]
  /\ (c.base * (c.multiplier[5] + 5)) \div 100 < FeeWord

(* A network that is no busier is never charged more: in whatever state the  *)
(* manager is, as long as the configuration in force rises with the          *)
(* congestion and its products fit, the fee it would set does not fall when  *)
(* any of the reported metrics rises, through scores, trends, rounding, cap  *)
(* and bounds, whether or not the configuration passed update_config.        *)
DearerWhenBusier ==
  Rising(feeConfig) =>
  \A pair \in Busier, active \in BOOLEAN :
    AdjustedFee(feeConfig, pair[1], metricsBefore, active)
      <= AdjustedFee(feeConfig, pair[2], metricsBefore, active)

(* Fee and history agree in every state, and under multipliers that rise the *)
(* fee that would come next never favours the busier network.                *)
FeesSound == FeesTypeOK /\ FeeStoryKept /\ DearerWhenBusier

(* An automatic update never leaves an override in force that has run out,   *)
(* although nothing else looks at the timeout, and while one is in force the *)
(* update keeps the fee under the configured cap or at the floor.            *)
OverrideKept ==
  [][<< lastUpdate, metricsBefore >>' # << lastUpdate, metricsBefore >> /\ override'.active =>
       /\ clock < override'.until
       /\ feeConfig.override => fee' <= AtLeast(feeConfig.min, feeConfig.cap)]_feeVars
=============================================================================
