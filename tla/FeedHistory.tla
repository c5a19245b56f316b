----------------------------- MODULE FeedHistory -----------------------------
(***************************************************************************)
(* Historical data and its replay (market-data-streaming/src/historical.rs *)
(* over InMemoryHistoricalStorage), for one symbol.  Requests are served   *)
(* by concurrent tasks with an await between the look into the cache, the  *)
(* read of the storage, the write of the cache and the opening of a        *)
(* session.                                                                *)
(***************************************************************************)
EXTENDS Integers, Sequences, SequencesExt, FiniteSets, SeqFilter

CONSTANTS
  HistoryTimes,   \* timestamps of data points
  HistoryRequests,\* requests made: a range, the days it is cached under, a limit
  HistoryTasks,   \* tasks that serve requests
  NoSession,      \* a task that serves nothing; a session or cache entry there is not
  SessionIds,     \* ids of sessions; one that is free is taken again
  MaxSessions,    \* max_replay_sessions
  MaxPoints       \* bound: data points stored

ASSUME HistoryAssumption ==
  /\ HistoryTimes \subseteq Nat
  /\ HistoryTasks # {} /\ IsFiniteSet(HistoryTasks)
  /\ HistoryRequests \subseteq [from : Nat, to : Nat, days : Nat \X Nat, limit : Nat]
  /\ MaxSessions \in Nat /\ MaxPoints \in Nat

VARIABLES
  stored,         \* the data of the symbol, in the order it was stored
  cache,          \* data by days
  serving,        \* per task: the request and how far it has come
  sessions        \* replay_sessions

historyVars == << stored, cache, serving, sessions >>

Days == {r.days : r \in HistoryRequests}

HistoryInit ==
  /\ stored = << >>
  /\ cache = [d \in Days |-> NoSession]
  /\ serving = [t \in HistoryTasks |-> NoSession]
  /\ sessions = [s \in SessionIds |-> NoSession]

Open == {s \in SessionIds : sessions[s] # NoSession}

Serve(t, place) == serving' = [serving EXCEPT ![t] = place]

\* store_data.  It invalidates a key of one day, under which nothing is cached.
StoreData(time) ==
  /\ Len(stored) < MaxPoints
  /\ stored' = Append(stored, time)
  /\ UNCHANGED << cache, serving, sessions >>

\* Time to live and capacity of the cache.
Evict(d) ==
  /\ cache[d] # NoSession
  /\ cache' = [cache EXCEPT ![d] = NoSession]
  /\ UNCHANGED << stored, serving, sessions >>

Room == Cardinality(Open) < MaxSessions

\* retrieve_data, on its own or from create_replay_session.
Retrieve(t, r, forSession) ==
  /\ serving[t] = NoSession
  /\ forSession => Room
  /\ Serve(t, IF cache[r.days] # NoSession
              THEN [at |-> "done", request |-> r, data |-> cache[r.days], session |-> forSession]
              ELSE [at |-> "missed", request |-> r, data |-> << >>, session |-> forSession])
  /\ UNCHANGED << stored, cache, sessions >>

\* Mutant: the limit keeps the newest points.
LimitedToNewest(seq, n) == IF Len(seq) > n THEN SubSeq(seq, Len(seq) - n + 1, Len(seq)) ELSE seq

Limited(seq, n) == IF Len(seq) > n THEN SubSeq(seq, 1, n) ELSE seq

\* The answer of the storage to a request.
Found(r) == Limited(Only(stored, r.from .. r.to), r.limit)

ReadStorage(t) ==
  /\ serving[t] # NoSession /\ serving[t].at = "missed"
  /\ Serve(t, [serving[t] EXCEPT !.at = "read", !.data = Found(serving[t].request)])
  /\ UNCHANGED << stored, cache, sessions >>

FillCache(t) ==
  /\ serving[t] # NoSession /\ serving[t].at = "read"
  /\ cache' = [cache EXCEPT ![serving[t].request.days] = serving[t].data]
  /\ Serve(t, [serving[t] EXCEPT !.at = "done"])
  /\ UNCHANGED << stored, sessions >>

NewSession(data) == [data |-> data, position |-> 1, playing |-> FALSE]

\* The answer, or the session over it; there is none over no data.
Answer(t) ==
  /\ serving[t] # NoSession /\ serving[t].at = "done"
  /\ IF serving[t].session /\ serving[t].data # << >>
     THEN \E s \in SessionIds \ Open : sessions' = [sessions EXCEPT ![s] = NewSession(serving[t].data)]
     ELSE UNCHANGED sessions
  /\ Serve(t, NoSession)
  /\ UNCHANGED << stored, cache >>

---------------------------------------------------------------------------
\* A session, under its lock; positions count from 1.  Speed is left out.

SessionChange(s, new) ==
  /\ s \in Open
  /\ sessions' = [sessions EXCEPT ![s] = new]
  /\ UNCHANGED << stored, cache, serving >>

SetPlaying(s, yes) == SessionChange(s, [sessions[s] EXCEPT !.playing = yes])

\* get_next_replay_data; the replay stops itself after the last point.
NextPoint(s) ==
  /\ s \in Open /\ sessions[s].playing /\ sessions[s].position <= Len(sessions[s].data)
  /\ SessionChange(s, [sessions[s] EXCEPT !.position = @ + 1,
                                          !.playing = sessions[s].position < Len(sessions[s].data)])

\* A binary search over data in the order it was stored: any place may come out
\* if that is not the order of time.
Seek(s) ==
  /\ s \in Open
  /\ \E place \in 1 .. Len(sessions[s].data) + 1 :
       SessionChange(s, [sessions[s] EXCEPT !.position = place])

\* stop_replay, and cleanup_expired_sessions a day after the session was opened.
StopReplay(s) == SessionChange(s, NoSession)

HistoryNext ==
  \/ \E time \in HistoryTimes : StoreData(time)
  \/ \E d \in Days : Evict(d)
  \/ \E t \in HistoryTasks :
       \/ \E r \in HistoryRequests, forSession \in BOOLEAN : Retrieve(t, r, forSession)
       \/ ReadStorage(t) \/ FillCache(t) \/ Answer(t)
  \/ \E s \in SessionIds :
       \/ \E yes \in BOOLEAN : SetPlaying(s, yes)
       \/ NextPoint(s) \/ Seek(s) \/ StopReplay(s)

HistorySpec == HistoryInit /\ [][HistoryNext]_historyVars

---------------------------------------------------------------------------

Opening == {t \in HistoryTasks : serving[t] # NoSession /\ serving[t].session}

(* The limit on sessions is tested before the data is awaited and not again: *)
(* it is overshot by concurrent requests, but by no more than one less than  *)
(* there are tasks to make them (historical.rs create_replay_session).       *)
SessionsBounded == Cardinality(Open) + Cardinality(Opening) < MaxSessions + Cardinality(HistoryTasks)

(* The cache may be stale and may have been filled by a request for other    *)
(* hours or a smaller limit, but what it holds is the beginning of what the  *)
(* storage would answer to some request for the same days now, however       *)
(* reads, writes and evictions interleave.                                   *)
CacheIsPast ==
  \A d \in Days : cache[d] # NoSession =>
    \E r \in HistoryRequests : r.days = d /\ IsPrefix(cache[d], Found(r))

(* Replays are bounded, and the cache answers with what the storage holds.   *)
HistorySound == SessionsBounded /\ CacheIsPast
=============================================================================
