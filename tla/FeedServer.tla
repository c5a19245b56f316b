----------------------------- MODULE FeedServer -----------------------------
(***************************************************************************)
(* The WebSocket server of the market data feed                            *)
(* (market-data-streaming/src/websocket.rs): one task per connection reads *)
(* requests, one task per feed sends market data to the subscribers.  The  *)
(* tasks share two maps, connections and subscribers, whose locks are held *)
(* for one access at a time, so each access is a step and the tasks        *)
(* interleave between them.  rate_limiter.rs decides which requests are    *)
(* handled; its quotas are external.  Allowed is the validator's list of   *)
(* symbols: the one WebSocketServer::new builds starts empty.              *)
(***************************************************************************)
EXTENDS Integers, Sequences, SequencesExt, FiniteSets, SeqFilter

CONSTANTS
  Clients,       \* connection ids, each used once
  Symbols,       \* instruments; those outside Allowed fail the validator
  Allowed,
  Lists,         \* the symbols of a request: any number, some of them twice
  Feeds,         \* tasks that call broadcast_market_data
  Nobody,        \* no broadcast under way
  MaxRequests,   \* bound: requests one client sends
  MaxBroadcasts  \* bound: broadcasts one feed starts

ASSUME FeedAssumption ==
  /\ IsFiniteSet(Symbols) /\ Allowed \subseteq Symbols /\ Lists \subseteq Seq(Symbols)
  /\ MaxRequests \in Nat /\ MaxBroadcasts \in Nat

VARIABLES
  connections,   \* the ids in WebSocketServer.connections
  subscriptions, \* ConnectionInfo.subscriptions: the symbols with an entry
  subscribers,   \* MessageBroadcaster.subscribers, in the order of arrival
  task,          \* where the handle_connection of a client stands
  sending,       \* per feed: the symbol sent and the subscribers still to be served
  requests, broadcasts   \* counts behind the two bounds

feedVars ==
  << connections, subscriptions, subscribers, task, sending, requests, broadcasts >>

\* A task is about to accept, reading, in a handler with symbols left to treat, or over.
Tasks ==
  [at : {"new", "reading", "counting", "over"}]
    \union [at : {"subscribing", "registering", "unregistering"},
            all : Seq(Symbols), left : Seq(Symbols)]

FeedInit ==
  /\ connections = {}
  /\ subscriptions = [c \in Clients |-> {}]
  /\ subscribers = [s \in Symbols |-> << >>]
  /\ task = [c \in Clients |-> [at |-> "new"]]
  /\ sending = [f \in Feeds |-> Nobody]
  /\ requests = [c \in Clients |-> 0] /\ broadcasts = [f \in Feeds |-> 0]

Go(c, place) == task' = [task EXCEPT ![c] = place]

---------------------------------------------------------------------------
\* handle_connection.

Accept(c) ==
  /\ task[c].at = "new"
  /\ connections' = connections \union {c}
  /\ Go(c, [at |-> "reading"])
  /\ UNCHANGED << subscriptions, subscribers, sending, requests, broadcasts >>

Close(c) ==
  /\ task[c].at = "reading"
  /\ connections' = connections \ {c}
  /\ Go(c, [at |-> "over"])
  /\ UNCHANGED << subscriptions, subscribers, sending, requests, broadcasts >>

Reads(c) ==
  /\ task[c].at = "reading" /\ requests[c] < MaxRequests
  /\ requests' = [requests EXCEPT ![c] = @ + 1]

\* A request over a limit is answered with an error and not handled.
Refuse(c) ==
  /\ Reads(c)
  /\ UNCHANGED << connections, subscriptions, subscribers, task, sending, broadcasts >>

\* A request that does not parse, or does not validate, ends the task by the ?
\* operator: the connection stays in the map.
Fail(c) ==
  /\ Reads(c)
  /\ Go(c, [at |-> "over"])
  /\ UNCHANGED << connections, subscriptions, subscribers, sending, broadcasts >>

Heartbeat(c) ==
  /\ Reads(c)
  /\ Go(c, [at |-> "counting"])
  /\ UNCHANGED << connections, subscriptions, subscribers, sending, broadcasts >>

\* A request for all the symbols listed; the types of data asked for, any number
\* of them, are kept with the connection and read by nothing.
Subscribe(c, symbols) ==
  /\ Reads(c)
  /\ Range(symbols) \subseteq Allowed
  /\ Go(c, [at |-> "subscribing", all |-> symbols, left |-> symbols])
  /\ UNCHANGED << connections, subscriptions, subscribers, sending, broadcasts >>

\* handle_unsubscription does not validate.
Unsubscribe(c, symbols) ==
  /\ Reads(c)
  /\ Go(c, [at |-> "unregistering", all |-> symbols, left |-> symbols])
  /\ UNCHANGED << connections, subscriptions, subscribers, sending, broadcasts >>

\* The connection's own record of it, under its lock: an entry for each symbol,
\* extended by the types of data if it is there already.
RecordSubscription(c) ==
  /\ task[c].at = "subscribing"
  /\ subscriptions' =
       [subscriptions EXCEPT ![c] = @ \union Range(task[c].all)]
  /\ Go(c, [task[c] EXCEPT !.at = "registering"])
  /\ UNCHANGED << connections, subscribers, sending, requests, broadcasts >>

\* MessageBroadcaster::subscribe, symbol by symbol.
Register(c) ==
  /\ task[c].at = "registering" /\ task[c].left # << >>
  /\ subscribers' = [subscribers EXCEPT ![Head(task[c].left)] = Append(@, c)]
  /\ Go(c, [task[c] EXCEPT !.left = Tail(@)])
  /\ UNCHANGED << connections, subscriptions, sending, requests, broadcasts >>

\* MessageBroadcaster::unsubscribe.
Without(seq, c) == Only(seq, Clients \ {c})

Unregister(c) ==
  /\ task[c].at = "unregistering" /\ task[c].left # << >>
  /\ subscribers' = [subscribers EXCEPT ![Head(task[c].left)] = Without(@, c)]
  /\ Go(c, [task[c] EXCEPT !.left = Tail(@)])
  /\ UNCHANGED << connections, subscriptions, sending, requests, broadcasts >>

ForgetSubscription(c) ==
  /\ task[c].at = "unregistering" /\ task[c].left = << >>
  /\ subscriptions' =
       [subscriptions EXCEPT ![c] = @ \ Range(task[c].all)]
  /\ Go(c, [at |-> "counting"])
  /\ UNCHANGED << connections, subscribers, sending, requests, broadcasts >>

\* The handler is done; message_count, which nothing reads, is left out.
Finish(c) ==
  /\ \/ task[c].at = "counting"
     \/ task[c].at = "registering" /\ task[c].left = << >>
  /\ Go(c, [at |-> "reading"])
  /\ UNCHANGED << connections, subscriptions, subscribers, sending, requests, broadcasts >>

---------------------------------------------------------------------------
\* broadcast_market_data.

\* The list of subscribers is copied; data that fails the validator is not sent.
Broadcast(f, s) ==
  /\ sending[f] = Nobody /\ broadcasts[f] < MaxBroadcasts
  /\ subscribers[s] # << >>
  /\ sending' = [sending EXCEPT ![f] = [symbol |-> s, left |-> subscribers[s]]]
  /\ broadcasts' = [broadcasts EXCEPT ![f] = @ + 1]
  /\ UNCHANGED << connections, subscriptions, subscribers, task, requests >>

\* Mutant: a subscriber that is gone is waited for.
NextInLinePresent(f) == sending[f].left # << >> /\ Head(sending[f].left) \in connections

NextInLine(f) == sending[f].left # << >>

\* send_to_connection: one that is gone is passed over, and the bytes counted for
\* the others are left out.
Deliver(f) ==
  /\ sending[f] # Nobody /\ NextInLine(f)
  /\ sending' = [sending EXCEPT ![f].left = Tail(@)]
  /\ UNCHANGED << connections, subscriptions, subscribers, task, requests, broadcasts >>

EndBroadcast(f) ==
  /\ sending[f] # Nobody /\ sending[f].left = << >>
  /\ sending' = [sending EXCEPT ![f] = Nobody]
  /\ UNCHANGED << connections, subscriptions, subscribers, task, requests, broadcasts >>

---------------------------------------------------------------------------

Handle(c) ==
  RecordSubscription(c) \/ Register(c) \/ Unregister(c) \/ ForgetSubscription(c) \/ Finish(c)

Request(c) ==
  \/ Refuse(c) \/ Fail(c) \/ Heartbeat(c)
  \/ \E symbols \in Lists : Subscribe(c, symbols) \/ Unsubscribe(c, symbols)

FeedNext ==
  \/ \E c \in Clients : Accept(c) \/ Close(c) \/ Request(c) \/ Handle(c)
  \/ \E f \in Feeds :
       \/ \E s \in Symbols : Broadcast(f, s)
       \/ Deliver(f) \/ EndBroadcast(f)

\* The runtime goes on with every handler and every broadcast under way; clients
\* and data sources owe nothing.
FeedFairness ==
  /\ \A c \in Clients : WF_feedVars(Handle(c))
  /\ \A f \in Feeds : WF_feedVars(Deliver(f) \/ EndBroadcast(f))

FeedSpec == FeedInit /\ [][FeedNext]_feedVars /\ FeedFairness

---------------------------------------------------------------------------

FeedTypeOK ==
  /\ connections \subseteq Clients
  /\ task \in [Clients -> Tasks]
  /\ subscriptions \in [Clients -> SUBSET Symbols]
  /\ subscribers \in [Symbols -> Seq(Clients)]
  /\ sending \in [Feeds -> {Nobody} \union [symbol : Symbols, left : Seq(Clients)]]

(* The two records of a subscription, the one with the connection and the    *)
(* one with the broadcaster, are written in several steps and not in the     *)
(* same order: asking comes to the connection first, leaving to the          *)
(* broadcaster.  Whenever the client's task is between two requests they     *)
(* agree: the connection has an entry for a symbol exactly if the            *)
(* broadcaster lists the client under it, however often the symbol was asked *)
(* for, within a request or over several, and whatever the other clients and *)
(* the broadcasts do in between (handle_subscription,                        *)
(* handle_unsubscription).                                                   *)
IndexAgrees ==
  \A c \in Clients : task[c].at = "reading" =>
    \A s \in Symbols : s \in subscriptions[c] <=> Contains(subscribers[s], c)

(* Whoever was on the list when a broadcast began is served in the end, and  *)
(* the broadcast comes to its end, although subscribers that left, or whose  *)
(* task failed, stay on the lists for good and are met on the way.           *)
BroadcastsEnd == \A f \in Feeds : sending[f] # Nobody ~> sending[f] = Nobody
=============================================================================
