-------------------------------- MODULE Alerts --------------------------------
(***************************************************************************)
(* Price, portfolio and market alerts (src/alerts.rs).  A check walks the  *)
(* alerts of every owner, or of one, ends those that have expired and      *)
(* fires those the event meets; an alert without expiry goes on, another   *)
(* fires once until it is subscribed again.                                *)
(***************************************************************************)
EXTENDS AdminControl, SeqFilter

CONSTANTS
  Owners,
  AlertKinds,     \* what alerts wait for
  AlertEvents,    \* what the checks are called with
  AlertExpiries,  \* values of expires_at; 0 is no expiry
  MaxAlerts       \* bound: alerts created

ASSUME AlertsAssumption == AlertExpiries \subseteq Nat /\ MaxAlerts \in Nat

VARIABLES
  alerts,         \* ALERT_MAP_KEY, by owner
  lastAlert,      \* ALERT_COUNTER_KEY
  terms,          \* history: owner, kind and expiry of every alert created, by id
  due,            \* history: alerts armed, and neither fired for good nor found expired since
  gone            \* history: alerts cleaned up

alertsVars == << alerts, lastAlert, terms, due, gone >>

AlertsInit ==
  /\ alerts = [o \in Owners |-> << >>]
  /\ lastAlert = 0
  /\ terms = << >> /\ due = {} /\ gone = {}

\* Division toward zero, by a positive number.
Toward0(a, b) == IF a >= 0 THEN a \div b ELSE -((-a) \div b)
Distance(a, b) == IF a >= b THEN a - b ELSE b - a

\* Whether an event meets an alert: a price of the same token on the right side,
\* a value far enough from its reference, a ratio at or below the threshold, the
\* same signal of the same market.
Meets(kind, event) ==
  \/ /\ kind.on = "price" /\ event.on = "price" /\ kind.token = event.token
     /\ IF kind.above THEN event.price >= kind.target ELSE event.price <= kind.target
  \/ /\ kind.on = "change" /\ event.on = "portfolio" /\ event.reference # 0
     /\ Toward0(Distance(event.value, event.reference) * 10000, event.reference) >= kind.threshold
  \/ kind.on = "liquidation" /\ event.on = "portfolio" /\ event.value <= kind.threshold
  \/ kind.on = "market" /\ event.on = "market" /\ kind.signal = event.signal

Expired(a) == a.expires # 0 /\ a.expires <= now

\* create_price_alert, create_portfolio_alert, create_market_alert.
CreateAlert(o, kind, expires) ==
  /\ lastAlert < MaxAlerts
  /\ lastAlert' = lastAlert + 1
  /\ alerts' = [alerts EXCEPT ![o] =
       Append(@, [id |-> lastAlert', kind |-> kind, expires |-> expires, active |-> TRUE, last |-> 0])]
  /\ terms' = Append(terms, [owner |-> o, kind |-> kind, expires |-> expires])
  /\ due' = due \union {lastAlert'}
  /\ UNCHANGED gone

\* subscribe_alerts: those of the ids that are on the user's own list.
SubscribeAlerts(o, ids) ==
  /\ alerts' = [alerts EXCEPT ![o] =
       [i \in DOMAIN @ |-> IF @[i].id \in ids THEN [@[i] EXCEPT !.active = TRUE] ELSE @[i]]]
  /\ due' = due \union {id \in ids \ gone : terms[id].owner = o}
  /\ UNCHANGED << lastAlert, terms, gone >>

\* One alert under a check.
CheckedAlert(a, event) ==
  IF ~a.active THEN a
  ELSE IF Expired(a) THEN [a EXCEPT !.active = FALSE]
  ELSE IF Meets(a.kind, event) THEN [a EXCEPT !.last = now, !.active = a.expires = 0]
  ELSE a

\* Mutant: the walk stops at an alert that has ended.
WalkedUntilEnded(list, event) ==
  [i \in DOMAIN list |->
     IF \E j \in 1 .. i : ~list[j].active THEN list[i] ELSE CheckedAlert(list[i], event)]

Walked(list, event) == [i \in DOMAIN list |-> CheckedAlert(list[i], event)]

\* check_price_alerts and check_market_alerts walk the lists of everybody,
\* check_portfolio_alerts that of the user in the event.
CheckAlerts(event) ==
  LET whose == IF event.on = "portfolio" THEN {event.user} ELSE Owners IN
  /\ alerts' = [o \in Owners |-> IF o \in whose THEN Walked(alerts[o], event) ELSE alerts[o]]
  /\ due' = {id \in due : \/ terms[id].owner \notin whose
                         \/ terms[id].expires = 0
                         \/ ~(Expired(terms[id]) \/ Meets(terms[id].kind, event))}
  /\ UNCHANGED << lastAlert, terms, gone >>

Live(a) == a.active /\ ~Expired(a)

\* cleanup_alerts.
CleanupAlerts(o) ==
  /\ alerts' = [alerts EXCEPT ![o] = Only(@, {a \in Range(@) : Live(a)})]
  /\ gone' = gone \union {id \in DOMAIN terms : terms[id].owner = o /\ (id \notin due \/ Expired(terms[id]))}
  /\ UNCHANGED << lastAlert, terms, due >>

AlertsNext ==
  \/ \E o \in Owners, kind \in AlertKinds, e \in AlertExpiries : CreateAlert(o, kind, e)
  \/ \E o \in Owners, ids \in SUBSET (1 .. lastAlert) : ids # {} /\ SubscribeAlerts(o, ids)
  \/ \E event \in AlertEvents : CheckAlerts(event)
  \/ \E o \in Owners : CleanupAlerts(o)

AlertsTypeOK ==
  /\ lastAlert \in 0 .. MaxAlerts
  /\ \A o \in Owners : \A i \in DOMAIN alerts[o] : alerts[o][i].id \in 1 .. lastAlert

(* No alert is lost and none comes back by itself: whatever checks, cleanups *)
(* and subscriptions of several owners came in between, an owner's list has  *)
(* the alerts it created and did not clean up, in that order; one is live    *)
(* exactly if no check since it was last armed met its terms, unless it      *)
(* repeats, and it has not expired; and none fired after its expiry          *)
(* (alerts.rs).                                                              *)
AlertsSound ==
  AlertsTypeOK /\
  \A o \in Owners :
    LET list == alerts[o]
        mine == {id \in DOMAIN terms : terms[id].owner = o} \ gone
    IN
    /\ {list[i].id : i \in DOMAIN list} = mine
    /\ \A i \in DOMAIN list :
         /\ i > 1 => list[i].id > list[i - 1].id
         /\ Live(list[i]) <=> list[i].id \in due /\ ~Expired(list[i])
         /\ list[i].expires # 0 => list[i].last < list[i].expires
=============================================================================
