-------------------------------- MODULE Orders --------------------------------
(***************************************************************************)
(* The limit and stop-loss orders of src/orders.rs behind the entry points *)
(* of src/lib.rs, which admit verified users only.  Order i of the code is *)
(* orders[i].  Every order enters the same side of the book of its pair,   *)
(* and both kinds fill at a price at or below the one they name, so the    *)
(* kind is left out; so are amounts, which no pass of matching looks at.   *)
(* The book of a pair is its orders by id and is not kept apart.           *)
(***************************************************************************)
EXTENDS AdminControl, Sequences, FiniteSetsExt

CONSTANTS
  Makers,         \* the accounts that place orders
  Pairs,          \* token pairs
  OrderPrices,    \* prices named in orders and offered to the matching pass
  Expiries,       \* values of expires_at
  NoTime,         \* None, for expires_at and filled_at
  MaxOrders,      \* bound on the orders
  MaxStory        \* bound on the events kept in the story

ASSUME OrdersAssumption ==
  /\ OrderPrices \subseteq Nat \ {0} /\ Expiries \subseteq Nat /\ NoTime \notin Nat
  /\ MaxOrders \in Nat /\ MaxStory \in Nat

VARIABLES
  verified,       \* the users KYC has verified
  orders,         \* the orders under order_key, by id
  story           \* history: placements, cancellations and matching passes

ordersVars == << verified, orders, story >>

OrderRecord ==
  [owner : Makers, pair : Pairs, price : OrderPrices, at : Nat,
   expires : Expiries \union {NoTime}, filledAt : Nat \union {NoTime},
   status : {"Pending", "Filled", "Cancelled", "Expired"}]

OrdersInit == verified = {} /\ orders = << >> /\ story = << >>

\* kyc_update_status, as far as orders depend on it.
SetVerified(u, yes) ==
  /\ verified' = IF yes THEN verified \union {u} ELSE verified \ {u}
  /\ verified' # verified
  /\ UNCHANGED << orders, story >>

\* History: an event happens at the present time.
Tell(event, id, pair, price) ==
  /\ Len(story) < MaxStory
  /\ story' = Append(story, [event |-> event, id |-> id, pair |-> pair, price |-> price, at |-> now])

\* An expiry that has gone by is accepted.
PlaceOrder(u, pair, price, expires) ==
  /\ u \in verified
  /\ Len(orders) < MaxOrders
  /\ orders' = Append(orders, [owner |-> u, pair |-> pair, price |-> price, at |-> now,
                               expires |-> expires, filledAt |-> NoTime, status |-> "Pending"])
  /\ Tell("Placed", Len(orders) + 1, pair, price)
  /\ UNCHANGED verified

CancelOrder(u, i) ==
  /\ u \in verified
  /\ i \in DOMAIN orders /\ orders[i].owner = u
  /\ orders[i].status = "Pending"
  /\ orders' = [orders EXCEPT ![i].status = "Cancelled"]
  /\ Tell("Cancelled", i, orders[i].pair, orders[i].price)
  /\ UNCHANGED verified

RunOut(o, t) == o.expires # NoTime /\ t > o.expires

\* Mutant: the status of the order is not looked at.
MatchedWhateverStatus(o, price) ==
  IF RunOut(o, now) THEN [o EXCEPT !.status = "Expired"]
  ELSE IF price <= o.price THEN [o EXCEPT !.status = "Filled", !.filledAt = now]
  ELSE o

\* One order in the pass of match_pending_orders: expiry comes first, whatever
\* the status is by then.
Matched(o, price) ==
  IF RunOut(o, now) THEN [o EXCEPT !.status = "Expired"]
  ELSE IF o.status = "Pending" /\ price <= o.price
       THEN [o EXCEPT !.status = "Filled", !.filledAt = now]
  ELSE o

MatchPendingOrders(pair, price) ==
  /\ orders' = [i \in DOMAIN orders |->
                  IF orders[i].pair = pair THEN Matched(orders[i], price) ELSE orders[i]]
  /\ Tell("Match", 0, pair, price)
  /\ UNCHANGED verified

OrdersNext ==
  \/ \E u \in Makers, yes \in BOOLEAN : SetVerified(u, yes)
  \/ \E u \in Makers, pair \in Pairs, price \in OrderPrices, e \in Expiries \union {NoTime} :
       PlaceOrder(u, pair, price, e)
  \/ \E u \in Makers, i \in DOMAIN orders : CancelOrder(u, i)
  \/ \E pair \in Pairs, price \in OrderPrices : MatchPendingOrders(pair, price)

OrdersSpec ==
  /\ AdminInit /\ OrdersInit
  /\ [][\/ OrdersNext /\ UNCHANGED adminVars
        \/ \E dt \in TimeSteps : AdvanceTime(dt) /\ UNCHANGED ordersVars]_<< adminVars, ordersVars >>

OrdersTypeOK == verified \subseteq Makers /\ orders \in Seq(OrderRecord)

\* What the story says about order i after its placement: the passes that found
\* it expired, and those and the cancellations that decided it.
Since(i) ==
  {k \in DOMAIN story : \E j \in 1 .. k - 1 : story[j].event = "Placed" /\ story[j].id = i}
ExpiredIn(i) ==
  {k \in Since(i) : story[k].event = "Match" /\ story[k].pair = orders[i].pair
                      /\ RunOut(orders[i], story[k].at)}
FilledIn(i) ==
  {k \in Since(i) : story[k].event = "Match" /\ story[k].pair = orders[i].pair
                      /\ ~RunOut(orders[i], story[k].at) /\ story[k].price <= orders[i].price}
CancelledIn(i) == {k \in Since(i) : story[k].event = "Cancelled" /\ story[k].id = i}
Decided(i) == ExpiredIn(i) \union FilledIn(i) \union CancelledIn(i)

(* An order is what its story makes of it: pending as long as nothing was    *)
(* decided, never pending again, and with a time of filling exactly if the   *)
(* first decision was a matching pass on its terms and in time, the time of  *)
(* that pass.  It is Filled or Cancelled only by its first decision, and     *)
(* Expired only if a pass found it run out; that pass may come after the     *)
(* fill or the cancellation, which then only filled_at tells of              *)
(* (match_pending_orders looks at the expiry before it looks at the status). *)
OrdersFollowStory ==
  OrdersTypeOK /\
  \A i \in DOMAIN orders :
    LET o == orders[i] IN
    IF Decided(i) = {} THEN o.status = "Pending" /\ o.filledAt = NoTime
    ELSE LET first == Min(Decided(i)) IN
         /\ o.status # "Pending"
         /\ o.filledAt = IF first \in FilledIn(i) THEN story[first].at ELSE NoTime
         /\ o.status = "Filled" => first \in FilledIn(i)
         /\ o.status = "Cancelled" => first \in CancelledIn(i)
         /\ o.status = "Expired" => ExpiredIn(i) # {}

(* "Expired: Order expired without being filled" (orders.rs:22): an order    *)
(* that is Expired was never filled.                                         *)
ExpiredUnfilled ==
  \A i \in DOMAIN orders : orders[i].status = "Expired" => orders[i].filledAt = NoTime
=============================================================================
