------------------------------ MODULE Portfolio ------------------------------
(***************************************************************************)
(* The portfolio of the counter contract (portfolio.rs) as a value: one    *)
(* record, loaded at the start of an invocation, changed by helpers and    *)
(* stored at its end.  Each helper of the code is an operator from         *)
(* portfolio to portfolio here, its assertions an operator of their own.   *)
(*                                                                         *)
(* Left out: counters nothing reads back (metrics, trading volume,         *)
(* badges, the daily values) and tokens other than the two that trade.     *)
(***************************************************************************)
EXTENDS Integers, Sequences, FiniteSetsExt

CONSTANTS
  Users,             \* accounts that hold a portfolio
  LeaderboardSize    \* entries update_top_traders keeps

ASSUME PortfolioAssumption ==
  /\ IsFiniteSet(Users)
  /\ LeaderboardSize \in Nat \ {0}

Assets == {"XLM", "USDCSIM"}
Other(asset) == IF asset = "XLM" THEN "USDCSIM" ELSE "XLM"

Position == [deposited : [Assets -> Int], lp_tokens_minted : Int]
NoPosition == [deposited |-> [t \in Assets |-> 0], lp_tokens_minted |-> 0]

PortfolioRecord ==
  [balances : [Users -> [Assets -> Int]], pnl : [Users -> Int], trades : [Users -> Nat],
   total_users : Nat, active_users : SUBSET Users, top_traders : Seq([user : Users, pnl : Int]),
   pool : [Assets -> Int], lp_positions : [Users -> Position], total_lp_tokens : Int,
   lp_fees_accumulated : Int, total_fees_collected : Int]

NewPortfolio ==
  [balances |-> [u \in Users |-> [t \in Assets |-> 0]], pnl |-> [u \in Users |-> 0],
   trades |-> [u \in Users |-> 0], total_users |-> 0, active_users |-> {}, top_traders |-> << >>,
   pool |-> [t \in Assets |-> 0], lp_positions |-> [u \in Users |-> NoPosition],
   total_lp_tokens |-> 0, lp_fees_accumulated |-> 0, total_fees_collected |-> 0]

-----------------------------------------------------------------------------
(* The leaderboard *)

\* sort_top_traders, a stable sort by descending pnl.
InOrder(s) ==
  LET Above(i) == {j \in DOMAIN s : s[j].pnl > s[i].pnl \/ (s[j].pnl = s[i].pnl /\ j < i)}
  IN  [k \in DOMAIN s |-> s[CHOOSE i \in DOMAIN s : Cardinality(Above(i)) = k - 1]]

\* update_top_traders: refresh the user's entry, add one, or replace the last.
Ranked(p, u) ==
  LET board == p.top_traders
      entry == [user |-> u, pnl |-> p.pnl[u]]
      Mine == {i \in DOMAIN board : board[i].user = u}
  IN [p EXCEPT !.top_traders = InOrder(
        IF Mine # {} THEN [i \in DOMAIN board |-> IF i = Min(Mine) THEN entry ELSE board[i]]
        ELSE IF Len(board) < LeaderboardSize THEN Append(board, entry)
        ELSE IF entry.pnl > board[LeaderboardSize].pnl
        THEN [board EXCEPT ![LeaderboardSize] = entry]
        ELSE board)]

-----------------------------------------------------------------------------
(* Balances *)

CanDebit(p, t, u, amount) == amount > 0 /\ p.balances[u][t] >= amount

Debited(p, t, u, amount) ==
  [p EXCEPT !.balances[u][t] = @ - amount, !.pnl[u] = @ - amount]

Credited(p, t, u, amount) == [p EXCEPT !.balances[u][t] = @ + amount]

Minted(p, t, u, amount) ==
  Ranked([p EXCEPT !.balances[u][t] = @ + amount, !.pnl[u] = @ + amount], u)

\* update_stats_on_trade
StatsUpdated(p, u) ==
  IF p.trades[u] = 0
  THEN [p EXCEPT !.total_users = @ + 1, !.active_users = @ \cup {u}]
  ELSE p

\* transfer_asset moves the amount from one asset to the other, one for one.
Transferred(p, from, to, u, amount) ==
  StatsUpdated(Credited(Debited(p, from, u, amount), to, u, amount), u)

TradeRecorded(p, u) == [p EXCEPT !.trades[u] = @ + 1]

Total(p, t) == SumFunction([u \in Users |-> p.balances[u][t]]) + p.pool[t]

-----------------------------------------------------------------------------
(* Tiers: calculate_user_tier over trades and, as the volume, the pnl *)

Tiers == {"Novice", "Trader", "Expert", "Whale"}

TierOf(p, u) ==
  IF p.trades[u] >= 200 /\ p.pnl[u] >= 10000 THEN "Whale"
  ELSE IF p.trades[u] >= 50 /\ p.pnl[u] >= 1000 THEN "Expert"
  ELSE IF p.trades[u] >= 10 \/ p.pnl[u] >= 100 THEN "Trader"
  ELSE "Novice"

EffectiveFeeBps == [Novice |-> 30, Trader |-> 25, Expert |-> 20, Whale |-> 15]
=============================================================================
