------------------------------ MODULE MarketData ------------------------------
(***************************************************************************)
(* The market data service: the WebSocket server, the connection manager,  *)
(* an order book kept from the feed and the history with its replays.      *)
(* They run on one runtime but share no state, so `part` names the one     *)
(* whose tasks are explored.                                               *)
(***************************************************************************)
EXTENDS FeedServer, FeedConnections, OrderBookFeed, FeedHistory

VARIABLE part

marketVars == << feedVars, linkVars, bookVars, historyVars, part >>

MarketInit ==
  /\ FeedInit /\ LinksInit /\ BookInit /\ HistoryInit
  /\ part \in {"Server", "Connections", "Book", "History"}

MarketNext ==
  /\ UNCHANGED part
  /\ \/ part = "Server" /\ FeedNext /\ UNCHANGED << linkVars, bookVars, historyVars >>
     \/ part = "Connections" /\ LinksNext /\ UNCHANGED << feedVars, bookVars, historyVars >>
     \/ part = "Book" /\ BookNext /\ UNCHANGED << feedVars, linkVars, historyVars >>
     \/ part = "History" /\ HistoryNext /\ UNCHANGED << feedVars, linkVars, bookVars >>

MarketSpec == MarketInit /\ [][MarketNext]_marketVars /\ FeedFairness /\ LinksFairness

MarketTypeOK == FeedTypeOK /\ metrics.active \in 0 .. CounterWrap - 1 /\ lastUpdateId \in Nat

(* Both sides of a bookkeeping split over several locks agree: subscriptions *)
(* with their index, and connections with their metrics.                    *)
BookkeepingAgrees == MarketTypeOK /\ IndexAgrees /\ MetricsAccount

---------------------------------------------------------------------------
(* The instance that is model checked: requests of no symbol, of all of them *)
(* and of one twice; six book updates with removals, two words on one price  *)
(* and quantities that round to nothing; two history requests cached under   *)
(* the same days.                                                            *)
MCLists == LET all == SetToSeq(Symbols) IN { << >>, all, << all[2], all[2] >> }

\* Ten fractions to a unit.
MCBookUpdates ==
  LET Level(p, q) == [price |-> p, quantity |-> q] IN
  << [bids |-> << Level(10, 50), Level(9, 44) >>, asks |-> << Level(11, 10) >>],
     [bids |-> << Level(10, 0), Level(8, 25) >>, asks |-> << Level(12, 30), Level(11, 24) >>],
     [bids |-> << Level(7, 10), Level(9, 25), Level(9, 31) >>, asks |-> << Level(11, 0), Level(13, 30) >>],
     [bids |-> << Level(10, 4) >>, asks |-> << Level(10, 12), Level(10, 0) >>],
     [bids |-> << >>, asks |-> << Level(12, 5), Level(14, 12) >>],
     [bids |-> << Level(8, 10), Level(10, 0) >>, asks |-> << Level(9, 3), Level(12, 0), Level(11, 2) >>] >>

MCHistoryRequests ==
  {[from |-> 1, to |-> 2, days |-> << 0, 0 >>, limit |-> 1],
   [from |-> 2, to |-> 3, days |-> << 0, 0 >>, limit |-> 2]}
=============================================================================
