--------------------------- MODULE FeedConnections ---------------------------
(***************************************************************************)
(* The connection manager of the market data feed                          *)
(* (market-data-streaming/src/connection.rs).  The map of connections and  *)
(* the metrics have locks of their own, so adding and removing are two     *)
(* steps each, and the tasks of the server interleave between them: those  *)
(* that add, remove and send, and the periodic cleanup of idle             *)
(* connections.  Counters wrap, as in a release build; a debug build stops *)
(* the task instead.                                                       *)
(***************************************************************************)
EXTENDS Integers, FiniteSets, FiniteSetsExt, Sequences, SequencesExt

CONSTANTS
  Ids,           \* connection ids, each used for one connection
  Closers,       \* tasks that remove connections
  Cleaner,       \* the task of cleanup_idle_connections
  Nothing,       \* no connection being removed
  CounterWrap,   \* active_connections is a u64, counted modulo this
  IdleTimeout,   \* the idle_timeout of cleanup_idle_connections
  MaxSends,      \* bound: messages sent over one connection
  MaxLinkTime    \* bound: the clock stops here

ASSUME LinksAssumption ==
  /\ IsFiniteSet(Ids) /\ Nothing \notin Ids /\ Cleaner \notin Closers
  /\ CounterWrap \in Nat \ {0} /\ IdleTimeout \in Nat
  /\ MaxSends \in Nat /\ MaxLinkTime \in Nat

VARIABLES
  linkTime,      \* Utc::now()
  stage,         \* how far the add_connection of an id has come
  links,         \* ConnectionManager.connections
  seen,          \* last_activity
  messages,      \* messages_sent of a connection
  removing,      \* per task: the connection taken out, the metrics not yet written
  scanned,       \* the idle connections the cleanup has found and still has to remove
  metrics        \* active, peak and total connections, total messages sent

linkVars == << linkTime, stage, links, seen, messages, removing, scanned, metrics >>

Removers == Closers \union {Cleaner}

LinksInit ==
  /\ linkTime = 0
  /\ stage = [i \in Ids |-> "unknown"]
  /\ links = {}
  /\ seen = [i \in Ids |-> 0] /\ messages = [i \in Ids |-> 0]
  /\ removing = [r \in Removers |-> Nothing]
  /\ scanned = << >>
  /\ metrics = [active |-> 0, peak |-> 0, total |-> 0, messages |-> 0]

\* Connection::new, some time before the connection is added.
Create(i) ==
  /\ stage[i] = "unknown"
  /\ stage' = [stage EXCEPT ![i] = "created"]
  /\ seen' = [seen EXCEPT ![i] = linkTime]
  /\ UNCHANGED << linkTime, links, messages, removing, scanned, metrics >>

\* add_connection, first step.  The limit looks at the idle pool, which stays empty.
Insert(i) ==
  /\ stage[i] = "created"
  /\ stage' = [stage EXCEPT ![i] = "inserted"]
  /\ links' = links \union {i}
  /\ UNCHANGED << linkTime, seen, messages, removing, scanned, metrics >>

\* add_connection, second step.
Count(i) ==
  /\ stage[i] = "inserted"
  /\ stage' = [stage EXCEPT ![i] = "counted"]
  /\ LET active == (metrics.active + 1) % CounterWrap IN
     metrics' = [metrics EXCEPT !.active = active, !.total = @ + 1,
                                !.peak = IF active > @ THEN active ELSE @]
  /\ UNCHANGED << linkTime, links, seen, messages, removing, scanned >>

\* send_message; it holds the entry of the map, so no removal comes between.
Send(i) ==
  /\ i \in links /\ messages[i] < MaxSends
  /\ messages' = [messages EXCEPT ![i] = @ + 1]
  /\ seen' = [seen EXCEPT ![i] = linkTime]
  /\ UNCHANGED << linkTime, stage, links, removing, scanned, metrics >>

\* update_connection_activity.
Touch(i) ==
  /\ i \in links
  /\ seen' = [seen EXCEPT ![i] = linkTime]
  /\ UNCHANGED << linkTime, stage, links, messages, removing, scanned, metrics >>

\* Mutant: a removal that finds nothing is settled all the same.
TakenAnyway(r, i) == links' = links \ {i} /\ removing' = [removing EXCEPT ![r] = i]

\* remove_connection, first step.
Taken(r, i) ==
  /\ links' = links \ {i}
  /\ removing' = IF i \in links THEN [removing EXCEPT ![r] = i] ELSE removing

Disconnect(r, i) ==
  /\ removing[r] = Nothing
  /\ Taken(r, i)
  /\ UNCHANGED << linkTime, stage, seen, messages, scanned, metrics >>

\* remove_connection, second step.
Settle(r) ==
  /\ removing[r] # Nothing
  /\ metrics' = [metrics EXCEPT !.active = (@ - 1) % CounterWrap, !.messages = @ + messages[removing[r]]]
  /\ removing' = [removing EXCEPT ![r] = Nothing]
  /\ UNCHANGED << linkTime, stage, links, seen, messages, scanned >>

Idle(i) == linkTime - seen[i] > IdleTimeout

\* cleanup_idle_connections, the search.
Scan ==
  /\ scanned = << >> /\ removing[Cleaner] = Nothing
  /\ scanned' = SetToSeq({i \in links : Idle(i)})
  /\ UNCHANGED << linkTime, stage, links, seen, messages, removing, metrics >>

\* Mutant: the cleanup stops at a connection somebody else has removed.
RemovableListed(i) == i \in links

\* A connection that is no longer there is no error.
Removable(i) == i \in Ids

\* Its removals, one by one: what was found is removed, idle or not by now.
Clean ==
  /\ scanned # << >> /\ removing[Cleaner] = Nothing
  /\ Removable(Head(scanned))
  /\ Taken(Cleaner, Head(scanned))
  /\ scanned' = Tail(scanned)
  /\ UNCHANGED << linkTime, stage, seen, messages, metrics >>

LinkTimePasses ==
  /\ linkTime < MaxLinkTime
  /\ linkTime' = linkTime + 1
  /\ UNCHANGED << stage, links, seen, messages, removing, scanned, metrics >>

LinksNext ==
  \/ \E i \in Ids : Create(i) \/ Insert(i) \/ Count(i) \/ Send(i) \/ Touch(i)
  \/ \E r \in Closers : \E i \in Ids : Disconnect(r, i)
  \/ \E r \in Removers : Settle(r)
  \/ Scan \/ Clean \/ LinkTimePasses

\* The runtime goes on with a cleanup that has begun.
LinksFairness == WF_linkVars(Clean) /\ WF_linkVars(Settle(Cleaner))

LinksSpec == LinksInit /\ [][LinksNext]_linkVars /\ LinksFairness

---------------------------------------------------------------------------

BeingRemoved == {removing[r] : r \in Removers} \ {Nothing}
Uncounted == {i \in Ids : stage[i] = "inserted"}

(* The metrics account for every connection and message: whoever is between  *)
(* the two steps of an addition or a removal, the active connections are     *)
(* those in the map, plus the ones taken out and not yet discounted, less    *)
(* those inserted and not yet counted (so that a connection removed before   *)
(* it is counted takes the counter below zero for a while), and the messages *)
(* of the connections that are gone are in the total exactly once.           *)
MetricsAccount ==
  /\ metrics.active =
       (Cardinality(links) + Cardinality(BeingRemoved) - Cardinality(Uncounted)) % CounterWrap
  /\ metrics.messages =
       SumFunctionOnSet(messages, Ids \ (links \union BeingRemoved))

(* A connection the cleanup has found idle is out of the map in the end,     *)
(* whoever else removes connections meanwhile.                               *)
FoundIdleGoes == \A i \in Ids : Contains(scanned, i) ~> i \notin links
=============================================================================
