------------------------------ MODULE Exchange ------------------------------
(***************************************************************************)
(* The trading entry points of the counter contract (src/lib.rs) over the  *)
(* portfolio: swap and safe_swap (trading.rs), the two batch executors     *)
(* (batch.rs), the two-sided pool with its LP tokens, the posted prices    *)
(* (oracle.rs), the tier rate limits (rate_limit.rs) and the risk checks   *)
(* (risk_management).  An invocation runs alone and leaves no trace when   *)
(* it panics or returns an error, so each entry point is one action.       *)
(*                                                                         *)
(* Every user has passed KYC and nobody was referred.  The circuit breaker *)
(* is not tripped: no entry point trips it.                                *)
(***************************************************************************)
EXTENDS Portfolio, SequencesExt

CONSTANTS
  Genesis,              \* the mints that fund the accounts, in order
  Precision,            \* PRECISION of trading.rs
  ToleranceBps,         \* price update tolerance
  ConcentrationLimit,   \* RiskConfig.concentration_limit_threshold
  MaxPositionPerAsset,  \* RiskConfig.max_position_per_asset
  MaxPositionPerUser,   \* RiskConfig.max_position_per_user
  SwapsPerHour,         \* RateLimitConfig by tier, Whale unlimited
  LpOpsPerDay,          \* RateLimitConfig by tier, Expert and Whale unlimited
  MintAmounts, SwapAmounts, Deposits, Burns,    \* arguments of the calls
  Prices, PoolLevels, SlippageLimits, Batches,
  TimeSteps,            \* by how much the ledger time advances at once
  MaxTime,              \* bound on the ledger time
  MaxCalls              \* bound on the number of calls

\* Operations of a batch; no mint takes a negative amount, nor does a withdrawal
\* that is to pay one out.
BatchOperation ==
  [kind : {"swap"}, user : Users, token : Assets, amount : Int]
    \cup [kind : {"mint"}, user : Users, token : Assets, amount : Nat]
    \cup [kind : {"add"}, user : Users, amounts : [Assets -> Int]]
    \cup [kind : {"remove"}, user : Users, amounts : [Assets -> Nat]]

\* mint refuses negative amounts; prices and slippage are unsigned.
\* set_pool_liquidity takes any level, but a negative one is no amount of tokens.
ASSUME ArgumentAssumption ==
  /\ Genesis \in Seq([user : Users, token : Assets, amount : Nat])
  /\ MintAmounts \subseteq Nat /\ PoolLevels \subseteq Nat
  /\ SwapAmounts \subseteq Int /\ Burns \subseteq Int /\ Deposits \subseteq [Assets -> Int]
  /\ Prices \subseteq Nat /\ SlippageLimits \subseteq Nat
  /\ Batches \subseteq Seq(BatchOperation)

ASSUME ExchangeAssumption ==
  /\ Precision \in Nat \ {0}
  /\ ToleranceBps \in Nat /\ ConcentrationLimit \in Nat
  /\ MaxPositionPerAsset \in Nat /\ MaxPositionPerUser \in Nat
  /\ SwapsPerHour \in [Tiers -> Nat] /\ LpOpsPerDay \in [Tiers -> Nat]
  /\ MaxTime \in Nat /\ MaxCalls \in Nat /\ TimeSteps \subseteq Nat \ {0}

VARIABLES
  pf,            \* the stored portfolio
  prices,        \* stored price of the pair (from, Other(from)), by from
  maxSlip,       \* MAX_SLIP
  swapsUsed,     \* swaps recorded in this hour, by user
  lpUsed,        \* LP operations recorded on this day, by user
  now,           \* ledger time
  calls          \* bound: calls made so far

exchangeVars == << pf, prices, maxSlip, swapsUsed, lpUsed, now, calls >>

NoPrice == [value |-> 0, at |-> -1]
StaleThreshold == 600
LpFeeBps == 30
Hour == 3600
Day == 86400

\* A new portfolio after these mints.
FundedBy(mints) ==
  FoldLeft(LAMBDA p, m : Minted(p, m.token, m.user, m.amount), NewPortfolio, mints)

ExchangeInit ==
  /\ pf = FundedBy(Genesis)
  /\ prices = [t \in Assets |-> NoPrice]
  /\ maxSlip = 10000
  /\ swapsUsed = [u \in Users |-> 0] /\ lpUsed = [u \in Users |-> 0]
  /\ now = 0
  /\ calls = 0

Called == calls < MaxCalls /\ calls' = calls + 1
OnlyPortfolio == UNCHANGED << prices, maxSlip, swapsUsed, lpUsed, now >>

-----------------------------------------------------------------------------
(* Guards shared by the entry points *)

CheckSwapLimit(p, u) ==
  TierOf(p, u) = "Whale" \/ swapsUsed[u] < SwapsPerHour[TierOf(p, u)]

CheckLpLimit(p, u) ==
  TierOf(p, u) \in {"Expert", "Whale"} \/ lpUsed[u] < LpOpsPerDay[TierOf(p, u)]

Wealth(p, u) == p.balances[u]["XLM"] + p.balances[u]["USDCSIM"]

\* check_concentration_limit: TRUE blocks the trade.
Concentrated(p, u) ==
  LET largest == Max({p.balances[u][t] : t \in Assets}) IN
  Wealth(p, u) # 0 /\ (largest * 10000) \div Wealth(p, u) >= ConcentrationLimit

TierShare == [Novice |-> 10, Trader |-> 4, Expert |-> 2, Whale |-> 1]

WithinPositionLimits(p, u, t, additional) ==
  LET share == TierShare[TierOf(p, u)] IN
  /\ p.balances[u][t] + additional <= MaxPositionPerAsset \div share
  /\ Wealth(p, u) + additional <= MaxPositionPerUser \div share

-----------------------------------------------------------------------------
(* perform_swap *)

Pooled(p) == \A t \in Assets : p.pool[t] > 0

Fresh(quote) == now - quote.at <= StaleThreshold

\* get_price_with_staleness_check does not make the swap panic.
PriceUsable(from) ==
  IF prices[from] # NoPrice THEN Fresh(prices[from])
  ELSE prices[Other(from)] # NoPrice =>
         Fresh(prices[Other(from)]) /\ prices[Other(from)].value # 0

PriceOf(from) ==
  IF prices[from] # NoPrice THEN prices[from].value
  ELSE IF prices[Other(from)] # NoPrice THEN (Precision * Precision) \div prices[Other(from)].value
  ELSE Precision

AfterFee(amount) == (amount * (10000 - LpFeeBps)) \div 10000
FeeOn(amount) == (amount * LpFeeBps) \div 10000

Curve(p, from, amount) == (p.pool[Other(from)] * amount) \div (p.pool[from] + amount)

ActualOut(p, from, amount) ==
  IF Pooled(p) THEN Curve(p, from, AfterFee(amount)) ELSE (amount * PriceOf(from)) \div Precision

TheoreticalOut(p, from, amount) == IF Pooled(p) THEN Curve(p, from, amount) ELSE amount

\* The unsigned subtraction panics when the trader would get more than in theory.
SlippageOK(p, from, amount) ==
  LET theory == TheoreticalOut(p, from, amount)
      actual == ActualOut(p, from, amount)
  IN theory > 0 => theory >= actual /\ ((theory - actual) * 10000) \div theory <= maxSlip

\* The funds cover transfer_asset and the debit that follows it.
CoversSwap(p, u, from, amount) ==
  CanDebit(p, from, u, amount) /\ CanDebit(Debited(p, from, u, amount), from, u, amount)

CanPerformSwap(p, u, from, amount) ==
  /\ amount > 0
  /\ PriceUsable(from)
  /\ ActualOut(p, from, amount) > 0
  /\ SlippageOK(p, from, amount)
  /\ CoversSwap(p, u, from, amount)

ReservesAfter(p, from, amount, out) ==
  [p.pool EXCEPT ![from] = @ + (amount - FeeOn(amount)), ![Other(from)] = @ - out]

PerformSwap(p, u, from, amount) ==
  LET out == ActualOut(p, from, amount)
      transferred == Transferred(p, from, Other(from), u, amount)
      paid == Credited(Debited(transferred, from, u, amount), Other(from), u, out)
  IN [paid EXCEPT
        !.pool = IF Pooled(p) THEN ReservesAfter(p, from, amount, out) ELSE @,
        !.lp_fees_accumulated = @ + FeeOn(amount)]

-----------------------------------------------------------------------------
(* Trading entry points *)

TierFee(p, u, amount) == (amount * EffectiveFeeBps[TierOf(p, u)]) \div 10000

FeeTaken(p, u, from, amount) ==
  IF TierFee(p, u, amount) = 0 THEN p
  ELSE [Debited(p, from, u, TierFee(p, u, amount)) EXCEPT
          !.total_fees_collected = @ + TierFee(p, u, amount)]

\* What swap checks before it touches anything.
SwapAdmitted(u, from, amount) ==
  /\ CheckSwapLimit(pf, u)
  /\ ~Concentrated(pf, u)
  /\ WithinPositionLimits(pf, u, Other(from), amount)

\* No panic on the way either.
SwapGoesThrough(u, from, amount) ==
  LET fee == TierFee(pf, u, amount) IN
  /\ SwapAdmitted(u, from, amount)
  /\ fee > 0 => CanDebit(pf, from, u, fee)
  /\ CanPerformSwap(FeeTaken(pf, u, from, amount), u, from, amount - fee)

\* The hourly counter is compared with the limit and not raised.
Swap(u, from, amount) ==
  /\ Called
  /\ SwapGoesThrough(u, from, amount)
  /\ pf' = TradeRecorded(PerformSwap(FeeTaken(pf, u, from, amount), u, from,
                                     amount - TierFee(pf, u, amount)), u)
  /\ OnlyPortfolio

\* No limit and no risk check, and no tier fee.
SafeSwap(u, from, amount) ==
  /\ Called
  /\ CanPerformSwap(pf, u, from, amount)
  /\ pf' = TradeRecorded(PerformSwap(pf, u, from, amount), u)
  /\ OnlyPortfolio

\* An entry point of its own, open to anyone.
RecordTrade(u) == Called /\ pf' = TradeRecorded(pf, u) /\ OnlyPortfolio

Mint(t, u, amount) == Called /\ pf' = Minted(pf, t, u, amount) /\ OnlyPortfolio

\* The checklist of preflight_swap, all of it green.
PreflightGreen(u, from, amount) ==
  LET actual == Curve(pf, from, AfterFee(amount))
      theory == Curve(pf, from, amount)
  IN
  /\ pf.balances[u][from] >= amount
  /\ CheckSwapLimit(pf, u)
  /\ amount > 0                                \* makes oracle_fresh_ok true
  /\ pf.pool[Other(from)] >= amount
  /\ Pooled(pf) /\ theory > 0 => ((theory - actual) * 10000) \div theory <= maxSlip

-----------------------------------------------------------------------------
(* The two-sided pool *)

\* The Babylonian loop of add_liquidity: at most 100 rounds down from the
\* product.  It stops at a guess that stands still, which later rounds repeat.
Babylonian(product) ==
  LET guess[n \in 0 .. 100] ==
        IF n = 0 THEN product
        ELSE LET g == guess[n - 1] IN (g + product \div g) \div 2
  IN guess[100]

\* Mutant: the larger of the two shares.
SharesLarger(p, d) ==
  Max({IF p.pool[t] > 0 THEN (d[t] * p.total_lp_tokens) \div p.pool[t] ELSE 0 : t \in Assets})
Shares(p, d) ==
  Min({IF p.pool[t] > 0 THEN (d[t] * p.total_lp_tokens) \div p.pool[t] ELSE 0 : t \in Assets})

LPTokens(p, d) ==
  IF p.total_lp_tokens = 0 THEN Babylonian(d["XLM"] * d["USDCSIM"]) ELSE Shares(p, d)

\* Mutant: a second deposit replaces the position.
PositionReplaced(pos, d, lp) == [deposited |-> d, lp_tokens_minted |-> lp]
PositionGrown(pos, d, lp) ==
  [deposited |-> [t \in Assets |-> pos.deposited[t] + d[t]],
   lp_tokens_minted |-> pos.lp_tokens_minted + lp]

PositionShrunk(pos, out, lp) ==
  [deposited |-> [t \in Assets |-> pos.deposited[t] - out[t]],
   lp_tokens_minted |-> pos.lp_tokens_minted - lp]

LpOpRecorded(u) == lpUsed' = [lpUsed EXCEPT ![u] = @ + 1]

AddLiquidity(u, d) ==
  LET lp == LPTokens(pf, d)
      paid == Debited(Debited(pf, "XLM", u, d["XLM"]), "USDCSIM", u, d["USDCSIM"])
  IN
  /\ Called
  /\ \A t \in Assets : d[t] > 0 /\ pf.balances[u][t] >= d[t]
  /\ CheckLpLimit(pf, u)
  /\ lp > 0
  /\ pf' = [paid EXCEPT
              !.pool = [t \in Assets |-> @[t] + d[t]],
              !.lp_positions[u] = PositionGrown(@, d, lp),
              !.total_lp_tokens = @ + lp]
  /\ LpOpRecorded(u)
  /\ UNCHANGED << prices, maxSlip, swapsUsed, now >>

\* What lp of the pool's tokens stand for.
ShareOf(p, lp) == [t \in Assets |-> (lp * p.pool[t]) \div p.total_lp_tokens]

\* Mutant: the reserves keep what was paid out.
PoolKept(p, out) == p.pool
PoolReduced(p, out) == [t \in Assets |-> p.pool[t] - out[t]]

RemoveLiquidity(u, lp) ==
  LET pos == pf.lp_positions[u]
      out == ShareOf(pf, lp)
      reduced == [pf EXCEPT !.pool = PoolReduced(pf, out)]
      repaid == Minted(Minted(reduced, "XLM", u, out["XLM"]), "USDCSIM", u, out["USDCSIM"])
  IN
  /\ Called
  /\ 0 < lp /\ lp <= pos.lp_tokens_minted
  /\ pf.total_lp_tokens > 0
  /\ \A t \in Assets : out[t] > 0 /\ out[t] <= (pos.deposited[t] * 101) \div 100
  /\ pf' = [repaid EXCEPT
              !.lp_positions[u] = PositionShrunk(pos, out, lp),
              !.total_lp_tokens = Max({@ - lp, 0})]
  /\ LpOpRecorded(u)
  /\ UNCHANGED << prices, maxSlip, swapsUsed, now >>

-----------------------------------------------------------------------------
(* Batches: sequences of at most 10 operations, each a record with a kind *)

OpValid(op) ==
  \/ op.kind \in {"swap", "mint"}
  \/ op.kind = "add" /\ \A t \in Assets : op.amounts[t] > 0
  \/ op.kind = "remove" /\ \E t \in Assets : op.amounts[t] > 0

\* execute_single_operation does not return an error.
OpFunded(p, op) ==
  \/ op.kind \in {"remove", "mint"}
  \/ op.kind = "swap" /\ p.balances[op.user][op.token] >= op.amount
  \/ op.kind = "add" /\ \A t \in Assets : p.balances[op.user][t] >= op.amounts[t]

OpPanics(p, op) == op.kind = "swap" /\ ~CanPerformSwap(p, op.user, op.token, op.amount)

\* add only raises the reserves, remove only mints.
OpDone(p, op) ==
  CASE op.kind = "swap" -> TradeRecorded(PerformSwap(p, op.user, op.token, op.amount), op.user)
    [] op.kind = "add" -> [p EXCEPT !.pool = [t \in Assets |-> @[t] + op.amounts[t]]]
    [] op.kind = "remove" -> Minted(Minted(p, "XLM", op.user, op.amounts["XLM"]),
                                    "USDCSIM", op.user, op.amounts["USDCSIM"])
    [] op.kind = "mint" -> Minted(p, op.token, op.user, op.amount)

\* The portfolio after the operations, how many succeeded, and whether one panicked.
BatchRun(p, ops) ==
  FoldLeft(LAMBDA run, op :
             IF run.panicked \/ ~OpFunded(run.pf, op) THEN run
             ELSE IF OpPanics(run.pf, op) THEN [run EXCEPT !.panicked = TRUE]
             ELSE [run EXCEPT !.pf = OpDone(@, op), !.executed = @ + 1],
           [pf |-> p, executed |-> 0, panicked |-> FALSE], ops)

HasSwap(ops) == \E i \in DOMAIN ops : ops[i].kind = "swap"

\* The user of the first operation; a batch that begins with a mint has none.
MeteredCaller(ops) == IF Head(ops).kind # "mint" /\ HasSwap(ops) THEN {Head(ops).user} ELSE {}

\* The call reaches its write of the portfolio.
Stores(ops, atomic) ==
  LET run == BatchRun(pf, ops) IN
  ~run.panicked /\ (atomic => run.executed = Len(ops))

ExecuteBatch(ops, atomic) ==
  LET run == BatchRun(pf, ops) IN
  /\ Called
  /\ ops # << >> /\ Len(ops) <= 10 /\ \A i \in DOMAIN ops : OpValid(ops[i])
  /\ \A u \in MeteredCaller(ops) : CheckSwapLimit(pf, u)
  /\ Stores(ops, atomic)
  /\ pf' = run.pf
  /\ swapsUsed' = [u \in Users |->
                     swapsUsed[u] + IF u \in MeteredCaller(ops) THEN run.executed ELSE 0]
  /\ UNCHANGED << prices, maxSlip, lpUsed, now >>

-----------------------------------------------------------------------------
(* Settings and time *)

\* set_stored_price: a price within the tolerance of the last one is dropped,
\* its time too.
SetPrice(from, price) ==
  LET last == prices[from]
      moved == Max({price, last.value}) - Min({price, last.value})
      persists == last = NoPrice \/ last.value = 0
                  \/ moved > (last.value * ToleranceBps) \div 10000
  IN
  /\ Called
  /\ prices' = IF persists THEN [prices EXCEPT ![from] = [value |-> price, at |-> now]] ELSE prices
  /\ UNCHANGED << pf, maxSlip, swapsUsed, lpUsed, now >>

SetPoolLiquidity(t, amount) == Called /\ pf' = [pf EXCEPT !.pool[t] = amount] /\ OnlyPortfolio

SetMaxSlippageBps(bps) ==
  /\ Called
  /\ maxSlip' = bps
  /\ UNCHANGED << pf, prices, swapsUsed, lpUsed, now >>

\* A counter belongs to the window its time falls in: the next window starts at 0.
InWindow(used, length, t) ==
  IF now \div length = t \div length THEN used ELSE [u \in Users |-> 0]

Tick(d) ==
  /\ now + d <= MaxTime
  /\ now' = now + d
  /\ swapsUsed' = InWindow(swapsUsed, Hour, now + d)
  /\ lpUsed' = InWindow(lpUsed, Day, now + d)
  /\ UNCHANGED << pf, prices, maxSlip, calls >>

ExchangeNext ==
  \/ \E u \in Users, t \in Assets, amount \in SwapAmounts : Swap(u, t, amount)
  \/ \E u \in Users, t \in Assets, amount \in SwapAmounts : SafeSwap(u, t, amount)
  \/ \E u \in Users : RecordTrade(u)
  \/ \E u \in Users, t \in Assets, amount \in MintAmounts : Mint(t, u, amount)
  \/ \E u \in Users, d \in Deposits : AddLiquidity(u, d)
  \/ \E u \in Users, lp \in Burns : RemoveLiquidity(u, lp)
  \/ \E ops \in Batches, atomic \in BOOLEAN : ExecuteBatch(ops, atomic)
  \/ \E t \in Assets, price \in Prices : SetPrice(t, price)
  \/ \E t \in Assets, amount \in PoolLevels : SetPoolLiquidity(t, amount)
  \/ \E bps \in SlippageLimits : SetMaxSlippageBps(bps)
  \/ \E d \in TimeSteps : Tick(d)

ExchangeSpec == ExchangeInit /\ [][ExchangeNext]_exchangeVars

-----------------------------------------------------------------------------
(* The checks of invariants.rs, which no call makes but the tests do *)

\* verify_contract_invariants, but for the metrics.
VerifyContract(p) ==
  /\ \A t \in Assets : p.pool[t] >= 0
  /\ p.total_lp_tokens >= 0
  /\ p.lp_fees_accumulated >= 0 /\ p.total_fees_collected >= 0
  /\ Cardinality(p.active_users) <= p.total_users

\* verify_add_liquidity_invariants, the deposits read off the reserves.
VerifyAddLiquidity(p, q) ==
  /\ q.total_lp_tokens > p.total_lp_tokens
  /\ \A t \in Assets : q.pool[t] > p.pool[t]

\* verify_remove_liquidity_invariants
VerifyRemoveLiquidity(p, q) ==
  /\ q.total_lp_tokens < p.total_lp_tokens /\ q.total_lp_tokens >= 0
  /\ \A t \in Assets : q.pool[t] < p.pool[t]

\* invariant_fee_bounds: at most 1%.
FeeBounds(amount, fee) == 0 <= fee /\ fee <= (amount * 100) \div 10000

\* The tier fee on the input, and the pool's fee on what is left of it.
FeesWithin(p, q, amount) ==
  LET tierFee == q.total_fees_collected - p.total_fees_collected IN
  /\ FeeBounds(amount, tierFee)
  /\ FeeBounds(amount - tierFee, q.lp_fees_accumulated - p.lp_fees_accumulated)

-----------------------------------------------------------------------------
(* Properties *)

\* The type invariant.  No balance and no reserve is ever negative, though a
\* swap debits twice and pays from the reserves.
ExchangeTypeOK ==
  /\ pf \in PortfolioRecord
  /\ \A t \in Assets : pf.pool[t] >= 0 /\ \A u \in Users : pf.balances[u][t] >= 0
  /\ prices \in [Assets -> [value : Nat, at : Int]]
  /\ maxSlip \in Nat /\ now \in Nat
  /\ {swapsUsed, lpUsed} \subseteq [Users -> Nat]

\* LP token conservation (SECURITY.md): the total is the sum of the positions,
\* through deposits, partial withdrawals and batches that bypass both.
LPTokensAccounted ==
  pf.total_lp_tokens = SumFunction([u \in Users |-> pf.lp_positions[u].lp_tokens_minted])

\* No rounding in the pool works against those who stay in it: a swap never
\* lowers the product of the reserves, and a deposit or a withdrawal never
\* lowers what one LP token stands for.
PoolValueKept ==
  [][ /\ pf'.trades # pf.trades =>
           pf'.pool["XLM"] * pf'.pool["USDCSIM"] >= pf.pool["XLM"] * pf.pool["USDCSIM"]
      /\ pf'.total_lp_tokens # pf.total_lp_tokens /\ pf.total_lp_tokens > 0 =>
           \A t \in Assets : pf'.pool[t] * pf.total_lp_tokens >= pf.pool[t] * pf'.total_lp_tokens
    ]_exchangeVars

Holdings(p) ==
  Total(p, "XLM") + Total(p, "USDCSIM") + p.lp_fees_accumulated + p.total_fees_collected

\* Nothing comes from nowhere.  What a deposit or a withdrawal takes on one side
\* of an asset it gives on the other, and the checks the code keeps for both
\* calls pass; and a trade against the pool keeps the sum of both assets and
\* both fee pots, although transfer_asset credits the input at par, the input is
\* debited a second time and the fee never reaches the pool; each of its fees
\* is within the bounds the code states.
ValueConserved ==
  [][ /\ pf'.lp_positions # pf.lp_positions =>
           /\ \A t \in Assets : Total(pf', t) = Total(pf, t)
           /\ VerifyAddLiquidity(pf, pf') \/ VerifyRemoveLiquidity(pf, pf')
      /\ \A u \in Users, from \in Assets, amount \in SwapAmounts :
           Pooled(pf) /\ (Swap(u, from, amount) \/ SafeSwap(u, from, amount))
             => /\ Holdings(pf') = Holdings(pf)
                /\ FeesWithin(pf, pf', amount)
    ]_exchangeVars

\* The count of users and the list of active users agree: every path that
\* trades for a user also records the trade that tells first-timers apart.
ActiveUsersCounted == pf.total_users = Cardinality(pf.active_users)

\* The leaderboard is in order, names nobody twice and, refreshed by mints
\* only, never understates the pnl of a user it names.
LeaderboardSound ==
  LET board == pf.top_traders IN
  /\ \A i, j \in DOMAIN board : i < j => board[i].pnl >= board[j].pnl /\ board[i].user # board[j].user
  /\ \A i \in DOMAIN board : board[i].pnl >= pf.pnl[board[i].user]

\* What the portfolio keeps twice agrees, whichever of swaps, mints, deposits,
\* withdrawals and batches wrote it: LP tokens and positions, users and active
\* users, leaderboard and pnl; no balance was overdrawn on the way, and the
\* checks of verify_contract_invariants pass after every call.
PortfolioSound ==
  /\ ExchangeTypeOK /\ VerifyContract(pf)
  /\ LPTokensAccounted /\ ActiveUsersCounted /\ LeaderboardSound

\* preflight_swap: "A fully-green SwapChecklist means the swap should succeed".
PreflightHonest ==
  \A u \in Users, from \in Assets, amount \in SwapAmounts :
    PreflightGreen(u, from, amount) => SwapGoesThrough(u, from, amount)
=============================================================================
