---------------------------- MODULE LiquidityPool ----------------------------
(***************************************************************************)
(* The multi-token pool registry (src/liquidity_pool.rs and the pool_*     *)
(* entry points of src/lib.rs): constant-product pools, several of which   *)
(* may trade the same pair, the LP tokens of each provider, and routes of  *)
(* one or two hops.  The registry is bookkeeping of its own: no operation  *)
(* touches the balances of a portfolio.                                    *)
(*                                                                         *)
(* Providers and traders are accounts that pass require_verified_user; the *)
(* entry points refuse everybody else before the registry is read.         *)
(***************************************************************************)
EXTENDS Integers, Sequences, FiniteSetsExt

CONSTANTS
  Tokens,          \* token symbols, as numbers in the order of the symbols
  Users,           \* verified accounts
  FeeTiers,        \* fee_tier values offered to register_pool, in basis points
  SeedAmounts,     \* initial reserves offered to register_pool
  Amounts,         \* amounts offered to pool_add_liquidity and pool_swap
  MinLPTokens,     \* MIN_LP_TOKENS
  MaxPools,        \* bound on registered pools
  MaxReserve,      \* bound on a pool's reserves
  MaxU128          \* where checked_mul fails

ASSUME PoolAssumption ==
  /\ Tokens \subseteq Nat
  /\ IsFiniteSet(Users)
  /\ FeeTiers \subseteq Nat
  /\ SeedAmounts \subseteq Int
  /\ Amounts \subseteq Int
  /\ MinLPTokens \in Nat
  /\ MaxPools \in Nat
  /\ MaxReserve \in Nat
  /\ MaxU128 \in Nat

VARIABLES
  pools,        \* the LiquidityPool with pool_id n is at position n
  lpBalances,   \* lp_balances: LP tokens of each provider, pool by pool
  seeded        \* history: the LP tokens each pool was registered with

poolVars == << pools, lpBalances, seeded >>

PoolRecord ==
  [token_a : Tokens, token_b : Tokens, reserve_a : Int, reserve_b : Int,
   total_lp_tokens : Int, fee_tier : Nat]

PoolInit ==
  /\ pools = << >>
  /\ lpBalances = << >>
  /\ seeded = << >>

PoolIds == 1 .. Len(pools)

-----------------------------------------------------------------------------
(* Arithmetic *)

\* PoolRegistry::sqrt: Newton's steps from above, until one does not descend.
Isqrt(y) ==
  LET descend[z \in 1 .. y] ==
        LET x == (y \div z + z) \div 2 IN IF x < z THEN descend[x] ELSE z
  IN IF y < 4 THEN (IF y = 0 THEN 0 ELSE 1) ELSE descend[y \div 2 + 1]

\* checked_mul on u128
Fits(x) == x <= MaxU128

AfterFee(pool, amount) == (amount * (10000 - pool.fee_tier)) \div 10000

ReserveIn(pool, token) == IF token = pool.token_a THEN pool.reserve_a ELSE pool.reserve_b
ReserveOut(pool, token) == IF token = pool.token_a THEN pool.reserve_b ELSE pool.reserve_a

\* Mutant: the input is priced against the reserve before it is added.
AmountOutSpot(pool, token, amount) ==
  (ReserveOut(pool, token) * AfterFee(pool, amount)) \div ReserveIn(pool, token)

\* The output of swap and of calculate_output.
AmountOut(pool, token, amount) ==
  (ReserveOut(pool, token) * AfterFee(pool, amount))
    \div (ReserveIn(pool, token) + AfterFee(pool, amount))

SwapFits(pool, token, amount) ==
  /\ Fits(amount * (10000 - pool.fee_tier))
  /\ Fits(ReserveOut(pool, token) * AfterFee(pool, amount))

-----------------------------------------------------------------------------
(* Operations *)

\* Anyone may register a pool.  The LP tokens of the first reserves are counted
\* in the total and credited to nobody.
RegisterPool(token_a, token_b, initial_a, initial_b, fee_tier) ==
  LET lp == Isqrt(initial_a * initial_b) IN
  /\ Len(pools) < MaxPools
  /\ fee_tier \in {1, 5, 30}
  /\ token_a # token_b
  /\ initial_a > 0
  /\ initial_b > 0
  /\ Fits(initial_a * initial_b)
  /\ pools' = Append(pools,
       IF token_a < token_b
       THEN [token_a |-> token_a, token_b |-> token_b, reserve_a |-> initial_a,
             reserve_b |-> initial_b, total_lp_tokens |-> lp, fee_tier |-> fee_tier]
       ELSE [token_a |-> token_b, token_b |-> token_a, reserve_a |-> initial_b,
             reserve_b |-> initial_a, total_lp_tokens |-> lp, fee_tier |-> fee_tier])
  /\ lpBalances' = Append(lpBalances, [u \in Users |-> 0])
  /\ seeded' = Append(seeded, lp)

\* LP tokens for a deposit: the worse side counts.
LPTokens(pool, a, b) ==
  LET lp_a == (a * pool.total_lp_tokens) \div pool.reserve_a
      lp_b == (b * pool.total_lp_tokens) \div pool.reserve_b
  IN  IF pool.total_lp_tokens = 0 THEN Isqrt(a * b)
      ELSE IF lp_a < lp_b THEN lp_a ELSE lp_b

\* Mutant: a later deposit overwrites what the provider already holds.
HoldingOverwritten(held, lp) == lp
Holding(held, lp) == held + lp

AddLiquidity(id, a, b, provider) ==
  LET pool == pools[id]
      lp == LPTokens(pool, a, b)
  IN
  /\ a > 0
  /\ b > 0
  /\ pool.reserve_a # 0
  /\ pool.reserve_b # 0
  /\ Fits(a * pool.total_lp_tokens)
  /\ Fits(b * pool.total_lp_tokens)
  /\ lp > 0
  /\ lp >= MinLPTokens
  /\ pool.reserve_a + a <= MaxReserve
  /\ pool.reserve_b + b <= MaxReserve
  /\ pools' = [pools EXCEPT ![id].reserve_a = @ + a,
                            ![id].reserve_b = @ + b,
                            ![id].total_lp_tokens = @ + lp]
  /\ lpBalances' = [lpBalances EXCEPT ![id][provider] = Holding(@, lp)]
  /\ UNCHANGED seeded

Owns(id, lp, provider) == lp <= lpBalances[id][provider]

\* What lp tokens stand for on one side, rounded down.
Share(lp, reserve, total) == (lp * reserve) \div total

\* Every registered pool keeps a positive total, so the division is defined
\* (PoolTypeOK).
RemoveLiquidity(id, lp, provider) ==
  LET pool == pools[id] IN
  /\ Owns(id, lp, provider)
  /\ Fits(lp * pool.reserve_a)
  /\ Fits(lp * pool.reserve_b)
  /\ pools' = [pools EXCEPT
                 ![id].reserve_a = @ - Share(lp, pool.reserve_a, pool.total_lp_tokens),
                 ![id].reserve_b = @ - Share(lp, pool.reserve_b, pool.total_lp_tokens),
                 ![id].total_lp_tokens = @ - lp]
  /\ lpBalances' = [lpBalances EXCEPT ![id][provider] = @ - lp]
  /\ UNCHANGED seeded

\* A pool after amount of token went in and out came out.
Traded(pool, token, amount, out) ==
  IF token = pool.token_a
  THEN [pool EXCEPT !.reserve_a = @ + amount, !.reserve_b = @ - out]
  ELSE [pool EXCEPT !.reserve_b = @ + amount, !.reserve_a = @ - out]

\* The checks of PoolRegistry::swap against a registry reg.
SwapAllowed(reg, id, token, amount, min_out) ==
  /\ id \in DOMAIN reg
  /\ amount > 0
  /\ token \in {reg[id].token_a, reg[id].token_b}
  /\ SwapFits(reg[id], token, amount)
  /\ AmountOut(reg[id], token, amount) >= min_out

Swapped(reg, id, token, amount) ==
  [reg EXCEPT ![id] = Traded(@, token, amount, AmountOut(@, token, amount))]

Swap(id, token, amount, min_out) ==
  /\ SwapAllowed(pools, id, token, amount, min_out)
  /\ ReserveIn(pools[id], token) + amount <= MaxReserve
  /\ pools' = Swapped(pools, id, token, amount)
  /\ UNCHANGED << lpBalances, seeded >>

-----------------------------------------------------------------------------
(* Routes *)

Trades(pool, x, y) == {pool.token_a, pool.token_b} = {x, y}
OtherToken(pool, token) == IF token = pool.token_a THEN pool.token_b ELSE pool.token_a

\* Mutant: the second leg is quoted on the amount put into the first.
HopQuoteStale(p1, p2, token, amount) ==
  AmountOut(pools[p2], OtherToken(pools[p1], token), amount)

HopQuote(p1, p2, token, amount) ==
  AmountOut(pools[p2], OtherToken(pools[p1], token), AmountOut(pools[p1], token, amount))

\* The candidates find_best_route looks at, with the output each would give.
Candidates(token_in, token_out, amount) ==
  { [pools |-> << p >>, tokens |-> << token_in, token_out >>,
     expected_output |-> AmountOut(pools[p], token_in, amount)] :
      p \in {p \in PoolIds : Trades(pools[p], token_in, token_out)} }
  \cup
  { [pools |-> h, tokens |-> << token_in, OtherToken(pools[h[1]], token_in), token_out >>,
     expected_output |-> HopQuote(h[1], h[2], token_in, amount)] :
      h \in {h \in PoolIds \X PoolIds :
               /\ token_in \in {pools[h[1]].token_a, pools[h[1]].token_b}
               /\ OtherToken(pools[h[1]], token_in) # token_out
               /\ Trades(pools[h[2]], OtherToken(pools[h[1]], token_in), token_out)} }

\* find_best_route returns the first candidate of the highest positive output;
\* which of several equal ones comes first is left open.
BestRoutes(token_in, token_out, amount) ==
  LET all == Candidates(token_in, token_out, amount) IN
  {r \in all : /\ r.expected_output > 0
               /\ \A s \in all : s.expected_output <= r.expected_output}

\* The registry and the amount in hand after the first n hops of a route, each
\* executed by pool_swap on what the hop before it paid out.
AfterHops(route, amount, n) ==
  LET hop[k \in 0 .. n] ==
        IF k = 0 THEN [reg |-> pools, amount |-> amount]
        ELSE LET id == route.pools[k]
                 token == route.tokens[k]
                 in == hop[k - 1].amount
                 reg == hop[k - 1].reg
             IN  [reg |-> Swapped(reg, id, token, in), amount |-> AmountOut(reg[id], token, in)]
  IN hop[n]

-----------------------------------------------------------------------------
PoolNext ==
  \/ \E a, b \in Tokens, x, y \in SeedAmounts, f \in FeeTiers : RegisterPool(a, b, x, y, f)
  \/ \E id \in PoolIds, x, y \in Amounts, u \in Users : AddLiquidity(id, x, y, u)
  \/ \E id \in PoolIds, u \in Users : \E lp \in 0 .. pools[id].total_lp_tokens :
        RemoveLiquidity(id, lp, u)
  \/ \E id \in PoolIds, t \in Tokens, x, min_out \in Amounts : Swap(id, t, x, min_out)

PoolSpec == PoolInit /\ [][PoolNext]_poolVars

-----------------------------------------------------------------------------
(* Properties *)

\* No sequence of deposits, withdrawals and swaps empties a pool: reserves and
\* total stay positive, so no division of the code meets a zero and the branch
\* of add_liquidity for an empty pool is never taken.
PoolTypeOK ==
  /\ pools \in Seq(PoolRecord)
  /\ lpBalances \in [PoolIds -> [Users -> Nat]]
  /\ \A id \in PoolIds :
       /\ pools[id].token_a < pools[id].token_b
       /\ pools[id].reserve_a > 0
       /\ pools[id].reserve_b > 0
       /\ pools[id].total_lp_tokens > 0

\* total_lp_tokens is what the providers hold together plus what the pool was
\* registered with, which nobody owns and nobody can withdraw.
SharesAccounted ==
  \A id \in PoolIds :
    pools[id].total_lp_tokens =
      seeded[id] + SumFunction(lpBalances[id])

\* What the registry keeps of a pool holds together through every sequence of
\* deposits, trades and withdrawals.
PoolSound == PoolTypeOK /\ SharesAccounted

\* Rounding always works for the pool, so no interleaving of deposits, trades
\* and withdrawals by several users dilutes those who stay: the product of the
\* reserves per square of the LP tokens never falls, and a deposit or withdrawal
\* lowers neither reserve per LP token.
NobodyDiluted ==
  [][\A id \in PoolIds :
       LET p == pools[id]
           q == pools'[id]
       IN
       /\ p.reserve_a * p.reserve_b * q.total_lp_tokens * q.total_lp_tokens
            <= q.reserve_a * q.reserve_b * p.total_lp_tokens * p.total_lp_tokens
       /\ p.total_lp_tokens # q.total_lp_tokens =>
            /\ p.reserve_a * q.total_lp_tokens <= q.reserve_a * p.total_lp_tokens
            /\ p.reserve_b * q.total_lp_tokens <= q.reserve_b * p.total_lp_tokens]_poolVars

\* A quote of find_best_route between different tokens is honest: executing its
\* hops one after the other pays exactly the quoted output.
QuoteHonoured ==
  \A x, y \in Tokens, amount \in Amounts :
    x # y /\ amount > 0 =>
      \A r \in BestRoutes(x, y, amount) :
        AfterHops(r, amount, Len(r.pools)).amount = r.expected_output
=============================================================================
