----------------------------- MODULE MCExchange -----------------------------
(* ann holds both assets; bob only one, which makes him wholly concentrated;  *)
(* eve holds little and finds the leaderboard full.  A swap of 400 costs a    *)
(* fee of 1, one of 40 none.  Deposits of 400 make a pool that one swap can   *)
(* move by half.                                                              *)
EXTENDS Exchange

CONSTANTS ann, bob, eve

\* The loop of add_liquidity does not always settle on the floor of the root: it
\* swings between the floor and its successor when the product is one below a
\* square, and stops where round 100 finds it.
ASSUME BabylonianIsNear ==
  \A y \in 1 .. 300 :
    LET g == Babylonian(y) IN
    \/ g * g <= y /\ y < (g + 1) * (g + 1)
    \/ y + 1 = g * g

MCGenesis ==
  << [user |-> ann, token |-> "XLM", amount |-> 1600],
     [user |-> ann, token |-> "USDCSIM", amount |-> 900],
     [user |-> bob, token |-> "USDCSIM", amount |-> 1000],
     [user |-> eve, token |-> "XLM", amount |-> 40] >>

MCSwapsPerHour == [Novice |-> 1, Trader |-> 2, Expert |-> 3, Whale |-> 4]
MCLpOpsPerDay == [Novice |-> 1, Trader |-> 2, Expert |-> 3, Whale |-> 3]

MCMintAmounts == {100}
MCSwapAmounts == {40, 400}
MCDeposits == {[XLM |-> 400, USDCSIM |-> 400], [XLM |-> 200, USDCSIM |-> 401]}
MCBurns == {100, 300}
MCPrices == {2, 4}
MCPoolLevels == {0, 300}
MCSlippageLimits == {100}
MCTimeSteps == {86400}

SwapOp(u, t, n) == [kind |-> "swap", user |-> u, token |-> t, amount |-> n]
MintOp(u, t, n) == [kind |-> "mint", user |-> u, token |-> t, amount |-> n]
AddOp(u, x, y) == [kind |-> "add", user |-> u, amounts |-> [XLM |-> x, USDCSIM |-> y]]
RemoveOp(u, x, y) == [kind |-> "remove", user |-> u, amounts |-> [XLM |-> x, USDCSIM |-> y]]

\* Two swaps there and back; a pair of liquidity operations; a swap only the
\* mint before it can pay for, after one that cannot be paid for.
MCBatches ==
  { << SwapOp(ann, "XLM", 400), SwapOp(ann, "USDCSIM", 40) >>,
    << AddOp(ann, 50, 50), RemoveOp(ann, 0, 30) >>,
    << SwapOp(bob, "XLM", 40), MintOp(bob, "XLM", 80), SwapOp(bob, "XLM", 40) >> }
=============================================================================
