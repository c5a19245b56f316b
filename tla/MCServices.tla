------------------------------ MODULE MCServices ------------------------------
(* Two orders on one pair; three accounts, enough for a circle; a price feed *)
(* that jumps by a half and comes back in small steps; three alerts of two   *)
(* owners, with and without expiry; batches of two operations; achievements  *)
(* of one trader with a term of one day and a streak of two; a quiet, a busy *)
(* and a critical network and one with a single extreme indicator, under a   *)
(* cooldown of one and a recovery timeout of two units of time.  The first   *)
(* configuration is the code's or one update_config would refuse; of those   *)
(* set later, one is flatter, one does not rise with the congestion and one  *)
(* has a product beyond 32 bits.                                             *)
EXTENDS Services, TLC

MCTimeSteps == {1}
MCOrderPrices == {1, 2}
MCExpiries == {1}
MCFees == {5050, 10050}
MCFeedPrices == {0, 100, 105, 108, 150}
MCDefaultFeed == [stale |-> 1, threshold |-> 1000, window |-> 2, active |-> TRUE]
MCFeedConfigs == {[MCDefaultFeed EXCEPT !.window = 0], [MCDefaultFeed EXCEPT !.window = 1],
                  [MCDefaultFeed EXCEPT !.threshold = 6000, !.window = 3]}
MCAlertKinds ==
  {[on |-> "price", token |-> "XLM", target |-> 2, above |-> TRUE],
   [on |-> "change", threshold |-> 500],
   [on |-> "market", signal |-> "VolatilitySpike"]}
MCAlertEvents ==
  {[on |-> "price", token |-> "XLM", price |-> 3], [on |-> "price", token |-> "USDC", price |-> 3],
   [on |-> "portfolio", user |-> "ann", value |-> 94, reference |-> 100],
   [on |-> "market", signal |-> "VolatilitySpike"]}
MCLosses == {0, 6}
MCBonuses ==
  {[category |-> "Community", bps |-> 5, term |-> 2, active |-> TRUE],
   [category |-> "Volume", bps |-> 4, term |-> 1, active |-> FALSE],
   [category |-> "RiskManagement", bps |-> 3, term |-> 1, active |-> TRUE]}

Quiet    == [gas |-> 100,  tps |-> 100, pending |-> 500,   capacity |-> 15]
Busy     == [gas |-> 3000, tps |-> 700, pending |-> 6000,  capacity |-> 65]
Extreme  == [gas |-> 3000, tps |-> 700, pending |-> 6000,  capacity |-> 99]
Critical == [gas |-> 7000, tps |-> 900, pending |-> 20000, capacity |-> 100]
MCMetrics == {Quiet, Busy, Extreme, Critical}

MCFees0 == [base |-> 50, multiplier |-> << 80, 90, 100, 150, 250 >>, max |-> 500, min |-> 10,
            trend |-> TRUE, percent |-> 20, cooldown |-> 1, override |-> TRUE, cap |-> 60]
MCFirstFees == {MCFees0, [MCFees0 EXCEPT !.max = 40, !.min = 45, !.cooldown = 0]}
MCFeeConfigs ==
  {[MCFees0 EXCEPT !.max = 1200],
   [MCFees0 EXCEPT !.min = 30, !.cap = 40, !.multiplier = << 98, 99, 100, 101, 102 >>],
   [MCFees0 EXCEPT !.multiplier = << 80, 90, 100, 250, 150 >>],
   [MCFees0 EXCEPT !.base = 200, !.multiplier = << 80, 90, 100, 150, 40000 >>]}
MCManualFees == {70, 1500}
MCFeeTimeSteps == {1}
MCRetentionPeriods == {1}
=============================================================================
