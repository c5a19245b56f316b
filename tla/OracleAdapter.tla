---------------------------- MODULE OracleAdapter ----------------------------
(***************************************************************************)
(* The price feed of one token pair in src/oracle_adapter.rs: deviation    *)
(* breaker, fallback price, staleness and the average over the last        *)
(* observations.  Pairs are kept under keys of their own and never meet.   *)
(* No entry point calls the adapter; a refused update is one whose caller  *)
(* goes on, as in its tests, so what it stored before refusing stays.      *)
(***************************************************************************)
EXTENDS AdminControl, Sequences, SequencesExt, FiniteSetsExt, Functions

CONSTANTS
  FeedPrices,     \* prices posted
  FirstPrice,     \* the price the feed is initialized with first
  FeedConfigs,    \* settings made by update_config
  DefaultFeed,    \* the settings of initialize_oracle
  U32,            \* 2^32, the range of the deviation
  Inactive, NoPrice   \* the errors of get_price

FeedConfig == [stale : Nat, threshold : Nat, window : 1 .. 100, active : BOOLEAN]

ASSUME AdapterAssumption ==
  /\ FeedPrices \subseteq Nat /\ FirstPrice \in FeedPrices /\ U32 \in Nat \ {0}
  /\ FeedConfigs \subseteq [stale : Nat, threshold : Nat, window : Nat, active : BOOLEAN]
  /\ DefaultFeed \in FeedConfig
  /\ Inactive \notin Nat /\ NoPrice \notin Nat

VARIABLES
  settings,       \* OracleConfig
  feed,           \* OracleState
  accepted,       \* history: the prices the feed took, the initial one included
  heldSince       \* history: the current price when the breaker last tripped

adapterVars == << settings, feed, accepted, heldSince >>

NewFeed(price) ==
  [current |-> price, history |-> << >>, last |-> now, tripped |-> FALSE, fallback |-> price]

AdapterInit ==
  /\ settings = DefaultFeed
  /\ feed = NewFeed(FirstPrice)
  /\ accepted = {FirstPrice} /\ heldSince = FirstPrice

\* A feed may be initialized again, which forgets everything, and with any
\* price: zero, which update_price refuses, is taken here.
InitializeOracle(price) ==
  /\ settings' = DefaultFeed
  /\ feed' = NewFeed(price)
  /\ accepted' = {price} /\ heldSince' = price

\* calculate_deviation_bps, cut to 32 bits.
Deviation(old, new) ==
  LET delta == IF new >= old THEN new - old ELSE old - new IN
  ((delta * 10000) \div old) % U32

\* Mutant: the fallback follows the accepted price.
HeldMoving(f, price) == price

\* An accepted price leaves the fallback alone.
Held(f, price) == f.fallback

\* The last w elements.
LastOf(s, w) == IF Len(s) > w THEN SubSeq(s, Len(s) - w + 1, Len(s)) ELSE s

Trips(price) == feed.current > 0 /\ Deviation(feed.current, price) > settings.threshold

\* update_price, refused: the breaker trips and the price before it is held.
TripBreaker(price) ==
  /\ price # 0 /\ Trips(price)
  /\ feed' = [feed EXCEPT !.tripped = TRUE, !.fallback = feed.current]
  /\ heldSince' = feed.current
  /\ UNCHANGED << settings, accepted >>

\* update_price, accepted: the breaker closes once a price comes back near the
\* fallback.
UpdatePrice(price) ==
  /\ price # 0 /\ ~Trips(price)
  /\ feed' = [current |-> price, last |-> now, fallback |-> Held(feed, price),
              history |-> LastOf(Append(feed.history, price), settings.window),
              tripped |-> feed.tripped
                            /\ Deviation(feed.fallback, price) > settings.threshold \div 2]
  /\ accepted' = accepted \union {price}
  /\ UNCHANGED << settings, heldSince >>

ValidWindow(w) == w > 0 /\ w <= 100

UpdateConfig(c) ==
  /\ ValidWindow(c.window)
  /\ settings' = [c EXCEPT !.active = settings.active]
  /\ UNCHANGED << feed, accepted, heldSince >>

SetOracleActive(active) ==
  /\ settings' = [settings EXCEPT !.active = active]
  /\ UNCHANGED << feed, accepted, heldSince >>

ResetCircuitBreaker ==
  /\ feed' = [feed EXCEPT !.tripped = FALSE]
  /\ UNCHANGED << settings, accepted, heldSince >>

Stale == now - feed.last > settings.stale

\* calculate_twap: a plain average, whatever the times of the observations.
Twap(history, w) ==
  LET recent == LastOf(history, w) IN
  SumFunction(recent) \div Len(recent)

\* get_price.
Reported ==
  IF ~settings.active THEN Inactive
  ELSE IF Stale \/ feed.tripped THEN (IF feed.fallback > 0 THEN feed.fallback ELSE NoPrice)
  ELSE IF Len(feed.history) >= settings.window THEN Twap(feed.history, settings.window)
  ELSE feed.current

AdapterNext ==
  \/ \E price \in FeedPrices :
       TripBreaker(price) \/ UpdatePrice(price) \/ InitializeOracle(price)
  \/ \E c \in FeedConfigs : UpdateConfig(c)
  \/ \E active \in BOOLEAN : SetOracleActive(active)
  \/ ResetCircuitBreaker

AdapterTypeOK ==
  /\ settings \in FeedConfig
  /\ feed.current \in Nat /\ feed.fallback \in Nat /\ feed.history \in Seq(Nat)
  /\ feed.last \in Nat /\ feed.last <= now /\ feed.tripped \in BOOLEAN

(* Whatever is reported, as a current price, an average over a window that   *)
(* may have been widened or narrowed meanwhile, or a fallback after a trip   *)
(* or a silence, lies between prices the feed accepted (get_price).          *)
ReportedIsAccepted ==
  Reported \in Nat => Min(accepted) <= Reported /\ Reported <= Max(accepted)

(* While the breaker is tripped, the price reported is the one in force when *)
(* it tripped, however many small steps the feed has taken since and however *)
(* long they took (get_price, update_price).                                 *)
HeldWhileTripped == feed.tripped => Reported \in {heldSince, Inactive}

(* Whoever asks for the price gets one the feed took, frozen after a trip.   *)
FeedSound == AdapterTypeOK /\ ReportedIsAccepted /\ HeldWhileTripped
=============================================================================
