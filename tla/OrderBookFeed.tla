---------------------------- MODULE OrderBookFeed ----------------------------
(***************************************************************************)
(* One order book of the market data feed                                  *)
(* (market-data-streaming/src/orderbook.rs).  The exchange numbers its     *)
(* updates; the network may lose, repeat and reorder them.  Prices are     *)
(* those the aggregator rounds to; quantities of updates are in fractions  *)
(* of the unit it rounds quantities to, Fractions of them to a unit.       *)
(***************************************************************************)
EXTENDS Integers, Sequences, SequencesExt, FiniteSets, FiniteSetsExt

CONSTANTS
  BookUpdates,   \* the updates of the exchange, by last_update_id
  Fractions,     \* of a unit, in which the exchange gives quantities
  MaxDepth       \* OrderBookAggregator.max_depth

\* A PriceLevelUpdate; quantity 0 stands for Remove as well.
LevelUpdate == [price : Nat, quantity : Nat]

ASSUME BookAssumption ==
  /\ DOMAIN BookUpdates \subseteq Nat \ {0}
  /\ \A id \in DOMAIN BookUpdates :
       BookUpdates[id] \in [bids : Seq(LevelUpdate), asks : Seq(LevelUpdate)]
  /\ Fractions \in Nat \ {0} /\ MaxDepth \in Nat \ {0}

VARIABLES
  bids, asks,    \* quantity by price, in units
  lastUpdateId,  \* OrderBook.last_update_id
  accepted       \* history: the updates taken in

bookVars == << bids, asks, lastUpdateId, accepted >>

Empty == [price \in {} |-> 0]

\* round_quantity: to the nearest unit, half a unit up.
RoundQuantity(q) == (2 * q + Fractions) \div (2 * Fractions)

\* update_price_level: the quantity is looked at before it is rounded, so a level
\* may be shown with none.
LevelSet(side, u) ==
  [p \in IF u.quantity > 0 THEN DOMAIN side \union {u.price} ELSE DOMAIN side \ {u.price} |->
     IF p = u.price THEN RoundQuantity(u.quantity) ELSE side[p]]

\* The levels with fewer than MaxDepth better ones; better is higher for bids.
Kept(side, Better(_, _)) ==
  [p \in {q \in DOMAIN side : Cardinality({r \in DOMAIN side : Better(r, q)}) < MaxDepth} |-> side[p]]

\* maintain_depth.
KeptBids(side) == Kept(side, LAMBDA r, q : r > q)
KeptAsks(side) == Kept(side, LAMBDA r, q : r < q)

BookInit == bids = Empty /\ asks = Empty /\ lastUpdateId = 0 /\ accepted = {}

\* Mutant: only a repetition of the last update is stale.
FreshUnlessRepeated(id) == id # lastUpdateId

Fresh(id) == id > lastUpdateId

\* OrderBook::update; a stale update is refused.  A gap in the numbers is not noticed.
UpdateBook(id) ==
  /\ Fresh(id)
  /\ bids' = KeptBids(FoldLeft(LevelSet, bids, BookUpdates[id].bids))
  /\ asks' = KeptAsks(FoldLeft(LevelSet, asks, BookUpdates[id].asks))
  /\ lastUpdateId' = id
  /\ accepted' = accepted \union {id}

\* Whatever update the network delivers next.
BookNext == \E id \in DOMAIN BookUpdates : UpdateBook(id)

BookSpec == BookInit /\ [][BookNext]_bookVars

---------------------------------------------------------------------------

\* The updates taken in that name a price, and the last word of an update on it.
Naming(side(_), p) == {id \in accepted : \E k \in DOMAIN side(id) : side(id)[k].price = p}
LastWord(seq, p) == SelectLastInSeq(seq, LAMBDA u : u.price = p)

\* A book against one side of the updates: every level, and every level left out.
Shows(book, side(_), Better(_, _)) ==
  /\ Cardinality(DOMAIN book) <= MaxDepth
  /\ \A p \in DOMAIN book :
       /\ Naming(side, p) # {}
       /\ LET id == Max(Naming(side, p))
              u == side(id)[LastWord(side(id), p)]
          IN  u.quantity > 0 /\ book[p] = RoundQuantity(u.quantity)
  /\ accepted # {} => \A k \in DOMAIN side(lastUpdateId) :
       LET u == side(lastUpdateId)[k] IN
       /\ u.quantity > 0
       /\ LastWord(side(lastUpdateId), u.price) = k
       /\ u.price \notin DOMAIN book
       => /\ Cardinality(DOMAIN book) = MaxDepth
          /\ \A p \in DOMAIN book : Better(p, u.price)

(* The book follows the feed: each level it shows is the last word, by the   *)
(* numbers of the exchange, of the updates it took in, in whatever order     *)
(* they came and however often, and that word was no removal; and a level    *)
(* the newest update set is left out only if the book is full of better ones *)
(* (orderbook.rs update, maintain_depth).                                    *)
BookFollowsFeed ==
  /\ Shows(bids, LAMBDA id : BookUpdates[id].bids, LAMBDA r, q : r > q)
  /\ Shows(asks, LAMBDA id : BookUpdates[id].asks, LAMBDA r, q : r < q)
=============================================================================
