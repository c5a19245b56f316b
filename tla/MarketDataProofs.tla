-------------------------- MODULE MarketDataProofs --------------------------
(***************************************************************************)
(* What holds of the market data service for every set of clients, feeds,  *)
(* connections, updates and requests: its bookkeeping agrees, its book is  *)
(* the one of the feed, its history answers with what is stored.           *)
(***************************************************************************)
EXTENDS MarketData, Sums

-----------------------------------------------------------------------------
(* Lists *)

\* A prefix, place by place.
LEMMA PrefixByPlace ==
  ASSUME NEW T, NEW s \in Seq(T), NEW t \in Seq(T)
  PROVE  IsPrefix(s, t) <=> Len(s) <= Len(t) /\ \A i \in 1 .. Len(s) : t[i] = s[i]
<1>1. Len(s) \in Nat /\ Len(t) \in Nat
  BY LenProperties
<1>2. CASE Len(s) > Len(t)
  BY <1>1, <1>2 DEF IsPrefix
<1>3. CASE Len(s) <= Len(t)
  <2> DEFINE n == Len(s)
             a == SubSeq(s, 1, n)
             b == SubSeq(t, 1, n)
  <2>1. a = s
    BY SubSeqFull
  <2>2. b \in Seq(T) /\ Len(b) = n /\ \A i \in 1 .. n : b[i] = t[i]
    <3>1. \A i \in 1 .. n : t[i] \in T
      BY <1>1, <1>3, ElementOfSeq
    <3>2. b \in Seq(T) /\ Len(b) = n - 1 + 1 /\ \A i \in 1 .. n - 1 + 1 : b[i] = t[1 + i - 1]
      BY <1>1, <3>1, SubSeqProperties
    <3>3. n - 1 + 1 = n /\ \A i \in 1 .. n : 1 + i - 1 = i
      BY <1>1
    <3>4. QED
      BY <3>2, <3>3
  <2> HIDE DEF b, a
  <2>3. s = b <=> \A i \in 1 .. n : s[i] = b[i]
    BY <2>2, SeqEqual
  <2>4. QED
    BY <1>3, <2>1, <2>2, <2>3 DEF IsPrefix, a, b
<1>4. QED
  BY <1>1, <1>2, <1>3

\* Prefixes of prefixes, and the beginning of both a list and its prefix.
LEMMA PrefixTransitive ==
  ASSUME NEW T, NEW s \in Seq(T), NEW t \in Seq(T), NEW u \in Seq(T), IsPrefix(s, t), IsPrefix(t, u)
  PROVE  IsPrefix(s, u)
<1>1. Len(s) \in Nat /\ Len(t) \in Nat /\ Len(u) \in Nat
  BY LenProperties
<1>2. Len(s) <= Len(t) /\ \A i \in 1 .. Len(s) : t[i] = s[i]
  BY PrefixByPlace
<1>3. Len(t) <= Len(u) /\ \A i \in 1 .. Len(t) : u[i] = t[i]
  BY PrefixByPlace
<1>4. Len(s) <= Len(u) /\ \A i \in 1 .. Len(s) : i \in 1 .. Len(t)
  BY <1>1, <1>2, <1>3
<1>5. QED
  BY <1>2, <1>3, <1>4, PrefixByPlace

LEMMA LimitedByPlace ==
  ASSUME NEW T, NEW s \in Seq(T), NEW n \in Nat
  PROVE  /\ Limited(s, n) \in Seq(T)
         /\ Len(Limited(s, n)) = IF Len(s) > n THEN n ELSE Len(s)
         /\ \A i \in 1 .. Len(Limited(s, n)) : Limited(s, n)[i] = s[i]
<1>1. Len(s) \in Nat
  BY LenProperties
<1>2. CASE Len(s) > n
  <2> DEFINE b == SubSeq(s, 1, n)
  <2>1. b \in Seq(T) /\ Len(b) = n /\ \A i \in 1 .. n : b[i] = s[i]
    <3>1. \A i \in 1 .. n : s[i] \in T
      BY <1>1, <1>2, ElementOfSeq
    <3>2. b \in Seq(T) /\ Len(b) = n - 1 + 1 /\ \A i \in 1 .. n - 1 + 1 : b[i] = s[1 + i - 1]
      BY <1>1, <3>1, SubSeqProperties
    <3>3. n - 1 + 1 = n /\ \A i \in 1 .. n : 1 + i - 1 = i
      BY <1>1
    <3>4. QED
      BY <3>2, <3>3
  <2>2. Limited(s, n) = b
    BY <1>2 DEF Limited
  <2> HIDE DEF b
  <2>3. QED
    BY <1>2, <2>1, <2>2
<1>3. CASE ~ (Len(s) > n)
  BY <1>3 DEF Limited
<1>4. QED
  BY <1>2, <1>3

LEMMA LimitedPrefix ==
  ASSUME NEW T, NEW s \in Seq(T), NEW t \in Seq(T), NEW n \in Nat, IsPrefix(s, t)
  PROVE  IsPrefix(Limited(s, n), Limited(t, n))
<1> DEFINE a == Limited(s, n)
           b == Limited(t, n)
<1>1. Len(s) \in Nat /\ Len(t) \in Nat
  BY LenProperties
<1>2. Len(s) <= Len(t) /\ \A i \in 1 .. Len(s) : t[i] = s[i]
  BY PrefixByPlace
<1>3. a \in Seq(T) /\ Len(a) = (IF Len(s) > n THEN n ELSE Len(s)) /\ \A i \in 1 .. Len(a) : a[i] = s[i]
  BY LimitedByPlace
<1>4. b \in Seq(T) /\ Len(b) = (IF Len(t) > n THEN n ELSE Len(t)) /\ \A i \in 1 .. Len(b) : b[i] = t[i]
  BY LimitedByPlace
<1> HIDE DEF a, b
<1>5. Len(a) <= Len(b) /\ \A i \in 1 .. Len(a) : i \in 1 .. Len(b) /\ i \in 1 .. Len(s)
  BY <1>1, <1>2, <1>3, <1>4
<1>6. \A i \in 1 .. Len(a) : b[i] = a[i]
  BY <1>2, <1>3, <1>4, <1>5
<1>7. IsPrefix(a, b)
  BY <1>3, <1>4, <1>5, <1>6, PrefixByPlace
<1>8. QED
  BY <1>7 DEF a, b

\* What was kept of a list is the beginning of what is kept of a longer one.
LEMMA PicksPrefix ==
  ASSUME NEW list, NEW longer, NEW S, NEW n \in Nat, NEW m \in Nat, n <= m,
         \A k \in 1 .. n : longer[k] = list[k],
         NEW r, NEW h, Picks(list, S, n, r, h), Len(r) \in Nat,
         NEW q, NEW g, Picks(longer, S, m, q, g), Len(q) \in Nat
  PROVE  Len(r) <= Len(q) /\ \A i \in 1 .. Len(r) : q[i] = r[i]
<1> DEFINE a == Len(r)
           b == Len(q)
           Bad == {i \in 1 .. a : ~ (i <= b /\ g[i] = h[i])}
<1>1. /\ h \in [1 .. a -> 1 .. n]
      /\ \A i \in 1 .. a : r[i] = list[h[i]] /\ r[i] \in S
      /\ \A i, j \in 1 .. a : i < j => h[i] < h[j]
      /\ \A k \in 1 .. n : list[k] \in S => \E i \in 1 .. a : h[i] = k
  BY DEF Picks
<1>2. /\ g \in [1 .. b -> 1 .. m]
      /\ \A i \in 1 .. b : q[i] = longer[g[i]] /\ q[i] \in S
      /\ \A i, j \in 1 .. b : i < j => g[i] < g[j]
      /\ \A k \in 1 .. m : longer[k] \in S => \E i \in 1 .. b : g[i] = k
  BY DEF Picks
<1>3. Bad = {}
  <2>1. SUFFICES ASSUME Bad # {} PROVE FALSE
    OBVIOUS
  <2>2. Bad \subseteq Nat
    OBVIOUS
  <2>3. PICK i \in Bad : \A k \in Bad : i <= k
    BY <2>1, <2>2, LeastNatural
  <2>4. i \in 1 .. a /\ i \in Nat /\ ~ (i <= b /\ g[i] = h[i])
    OBVIOUS
  <2>5. \A k \in 1 .. a : k < i => k <= b /\ g[k] = h[k]
    <3>1. ASSUME NEW k \in 1 .. a, k < i PROVE k \notin Bad
      <4>1. ~ (i <= k)
        BY <3>1
      <4>2. QED
        BY <2>3, <4>1
    <3>2. QED
      BY <3>1
  <2> HIDE DEF Bad
  <2>6. h[i] \in 1 .. n /\ h[i] \in 1 .. m /\ list[h[i]] \in S
    BY <1>1, <2>4
  <2>7. PICK j \in 1 .. b : g[j] = h[i]
    BY <1>2, <2>6
  <2>8. ~ (j < i)
    <3>1. SUFFICES ASSUME j < i PROVE FALSE
      OBVIOUS
    <3>2. j \in 1 .. a
      BY <2>4, <3>1
    <3>3. h[j] = h[i] /\ h[j] < h[i]
      BY <1>1, <2>4, <2>5, <2>7, <3>1, <3>2
    <3>4. QED
      BY <2>6, <3>3
  <2>9. i \in 1 .. b
    BY <2>4, <2>8
  <2>10. i # j
    BY <2>4, <2>7, <2>9
  <2>11. g[i] < h[i] /\ g[i] \in 1 .. n
    <3>1. g[i] < g[j] /\ g[i] \in 1 .. m
      BY <1>2, <2>8, <2>9, <2>10
    <3>2. QED
      BY <2>6, <2>7, <3>1
  <2>12. list[g[i]] \in S
    BY <1>2, <2>9, <2>11
  <2>13. PICK k \in 1 .. a : h[k] = g[i]
    BY <1>1, <2>11, <2>12
  <2>14. k < i
    <3>1. SUFFICES ASSUME ~ (k < i) PROVE FALSE
      OBVIOUS
    <3>2. k = i \/ i < k
      BY <2>4, <3>1
    <3>3. h[k] \in Int /\ h[i] \in Int /\ ~ (h[i] <= h[k])
      BY <2>6, <2>11, <2>13
    <3>4. QED
      BY <1>1, <2>4, <3>2, <3>3
  <2>15. k \in 1 .. b /\ g[k] = g[i] /\ g[k] < g[i]
    BY <1>2, <2>5, <2>9, <2>13, <2>14
  <2>16. QED
    BY <2>11, <2>15
<1>4. \A i \in 1 .. a : i \in 1 .. b /\ g[i] = h[i]
  BY <1>3
<1> HIDE DEF Bad
<1>5. a <= b
  <2>1. CASE a = 0
    BY <2>1
  <2>2. CASE a # 0
    <3>1. a \in 1 .. a
      BY <2>2
    <3>2. QED
      BY <1>4, <3>1
  <2>3. QED
    BY <2>1, <2>2
<1>6. ASSUME NEW i \in 1 .. a PROVE q[i] = r[i]
  <2>1. q[i] = longer[h[i]] /\ r[i] = list[h[i]] /\ h[i] \in 1 .. n
    BY <1>1, <1>2, <1>4
  <2>2. QED
    BY <2>1
<1>7. QED
  BY <1>5, <1>6

\* The same of the loop that keeps them.
LEMMA OnlyExtends ==
  ASSUME NEW T, NEW list \in Seq(T), NEW x \in T, NEW S
  PROVE  Only(list, S) \in Seq(T) /\ Only(Append(list, x), S) \in Seq(T)
         /\ IsPrefix(Only(list, S), Only(Append(list, x), S))
<1> DEFINE longer == Append(list, x)
           r == Only(list, S)
           q == Only(longer, S)
           n == Len(list)
<1>1. longer \in Seq(T) /\ Len(longer) = n + 1 /\ n \in Nat /\ \A k \in 1 .. n : longer[k] = list[k]
  BY AppendProperties, LenProperties
<1>2. r \in Seq(T) /\ \E h : Picks(list, S, n, r, h)
  BY OnlyPicks
<1> HIDE DEF longer
<1>3. q \in Seq(T) /\ \E g : Picks(longer, S, n + 1, q, g)
  BY <1>1, OnlyPicks
<1> HIDE DEF r, q, n
<1>4. PICK h : Picks(list, S, n, r, h)
  BY <1>2
<1>5. PICK g : Picks(longer, S, n + 1, q, g)
  BY <1>3
<1> DEFINE m == n + 1
<1>6. Len(r) \in Nat /\ Len(q) \in Nat /\ m \in Nat /\ n <= m
  BY <1>1, <1>2, <1>3, LenProperties
<1> HIDE DEF m
<1>7. Picks(longer, S, m, q, g)
  BY <1>5 DEF m
<1>8. Len(r) <= Len(q) /\ \A i \in 1 .. Len(r) : q[i] = r[i]
  BY <1>1, <1>4, <1>6, <1>7, PicksPrefix
<1>9. IsPrefix(r, q)
  BY <1>2, <1>3, <1>6, <1>8, PrefixByPlace
<1>10. QED
  BY <1>2, <1>3, <1>9 DEF r, q, longer
-----------------------------------------------------------------------------
(* History and replay *)

\* A request a task serves and the answer as far as it has come.
Serving ==
  [at : {"missed", "read", "done"}, request : HistoryRequests, data : Seq(Nat), session : BOOLEAN]

HistoryTypeOK ==
  /\ stored \in Seq(Nat)
  /\ cache \in [Days -> {NoSession} \union Seq(Nat)]
  /\ serving \in [HistoryTasks -> {NoSession} \union Serving]
  /\ DOMAIN sessions = SessionIds
  /\ IsFiniteSet(Open)

\* What a task has read, and not yet put into the cache, is of the past as well.
ReadIsPast ==
  \A t \in HistoryTasks : serving[t] # NoSession /\ serving[t].at = "read" =>
    IsPrefix(serving[t].data, Found(serving[t].request))

HistoryInv == HistoryTypeOK /\ SessionsBounded /\ CacheIsPast /\ ReadIsPast

LEMMA RequestTypes ==
  ASSUME NEW r \in HistoryRequests
  PROVE  r.from \in Nat /\ r.to \in Nat /\ r.limit \in Nat /\ r.days \in Days
<1>1. r \in [from : Nat, to : Nat, days : Nat \X Nat, limit : Nat]
  BY HistoryAssumption
<1>2. QED
  BY <1>1 DEF Days

LEMMA FoundType ==
  ASSUME stored \in Seq(Nat), NEW r \in HistoryRequests PROVE Found(r) \in Seq(Nat)
<1>1. r.limit \in Nat
  BY RequestTypes
<1> DEFINE S == r.from .. r.to
<1> HIDE DEF S
<1>2. Only(stored, S) \in Seq(Nat)
  BY OnlyPicks
<1>3. QED
  BY <1>1, <1>2, LimitedByPlace DEF Found, S

\* Data stored later only adds to the answer.
LEMMA FoundGrows ==
  ASSUME stored \in Seq(Nat), NEW time \in Nat, stored' = Append(stored, time), NEW r \in HistoryRequests
  PROVE  Found(r)' \in Seq(Nat) /\ IsPrefix(Found(r), Found(r)')
<1> DEFINE S == r.from .. r.to
           a == Only(stored, S)
           b == Only(Append(stored, time), S)
<1>1. r.limit \in Nat
  BY RequestTypes
<1> HIDE DEF S
<1>2. a \in Seq(Nat) /\ b \in Seq(Nat) /\ IsPrefix(a, b)
  BY OnlyExtends
<1>3. Found(r) = Limited(a, r.limit) /\ Found(r)' = Limited(b, r.limit)
  BY DEF Found, S
<1> HIDE DEF a, b
<1>4. IsPrefix(Limited(a, r.limit), Limited(b, r.limit))
  BY <1>1, <1>2, LimitedPrefix
<1>5. Limited(b, r.limit) \in Seq(Nat)
  BY <1>1, <1>2, LimitedByPlace
<1>6. QED
  BY <1>3, <1>4, <1>5

\* The answers of a storage that is left alone, and those of one that grows.
LEMMA PastStays ==
  ASSUME HistoryTypeOK, stored' = stored \/ \E time \in HistoryTimes : stored' = Append(stored, time),
         NEW r \in HistoryRequests, NEW data \in Seq(Nat), IsPrefix(data, Found(r))
  PROVE  IsPrefix(data, Found(r)')
<1>1. stored \in Seq(Nat) /\ Found(r) \in Seq(Nat)
  BY FoundType DEF HistoryTypeOK
<1>2. CASE stored' = stored
  <2>1. Found(r)' = Found(r)
    BY <1>2 DEF Found
  <2>2. QED
    BY <2>1
<1>3. ASSUME NEW time \in HistoryTimes, stored' = Append(stored, time) PROVE IsPrefix(data, Found(r)')
  <2>1. time \in Nat
    BY HistoryAssumption
  <2>2. Found(r)' \in Seq(Nat) /\ IsPrefix(Found(r), Found(r)')
    BY <1>1, <1>3, <2>1, FoundGrows
  <2>3. QED
    BY <1>1, <2>2, PrefixTransitive
<1>4. QED
  BY <1>2, <1>3

\* The two sets the limit on sessions is about may shrink; a task may begin to
\* open a session while there is room, and a session takes the place of its task.
LEMMA SessionsStayBounded ==
  ASSUME HistoryTypeOK, SessionsBounded, Opening' \subseteq HistoryTasks,
         \/ Open' \subseteq Open /\ Opening' \subseteq Opening
         \/ Open' = Open /\ Room
         \/ \E t \in Opening, s \in SessionIds : Open' \subseteq Open \union {s} /\ Opening' \subseteq Opening \ {t}
  PROVE  IsFiniteSet(Open') /\ SessionsBounded'
<1> DEFINE n == Cardinality(HistoryTasks)
<1>1. IsFiniteSet(HistoryTasks) /\ n \in Nat /\ MaxSessions \in Nat
  BY HistoryAssumption, FS_CardinalityType
<1>2. Opening \subseteq HistoryTasks
  BY DEF Opening
<1>3. IsFiniteSet(Open) /\ Cardinality(Open) \in Nat
  BY FS_CardinalityType DEF HistoryTypeOK
<1>4. IsFiniteSet(Opening) /\ Cardinality(Opening) \in Nat
  BY <1>1, <1>2, FS_Subset, FS_CardinalityType
<1>5. IsFiniteSet(Opening') /\ Cardinality(Opening') \in Nat /\ Cardinality(Opening') <= n
  BY <1>1, FS_Subset, FS_CardinalityType
<1>6. Cardinality(Open) + Cardinality(Opening) < MaxSessions + n
  BY DEF SessionsBounded
<1> HIDE DEF n
<1>7. CASE Open' \subseteq Open /\ Opening' \subseteq Opening
  <2>1. IsFiniteSet(Open') /\ Cardinality(Open') \in Nat /\ Cardinality(Open') <= Cardinality(Open)
    BY <1>3, <1>7, FS_Subset, FS_CardinalityType
  <2>2. Cardinality(Opening') <= Cardinality(Opening)
    BY <1>4, <1>7, FS_Subset
  <2>3. Cardinality(Open') + Cardinality(Opening') < MaxSessions + n
    BY <1>1, <1>3, <1>4, <1>5, <1>6, <2>1, <2>2
  <2>4. QED
    BY <2>1, <2>3 DEF SessionsBounded, n
<1>8. CASE Open' = Open /\ Room
  <2>1. Cardinality(Open') < MaxSessions /\ IsFiniteSet(Open')
    BY <1>3, <1>8 DEF Room
  <2>2. Cardinality(Open') + Cardinality(Opening') < MaxSessions + n
    BY <1>1, <1>3, <1>5, <1>8, <2>1
  <2>3. QED
    BY <2>1, <2>2 DEF SessionsBounded, n
<1>9. ASSUME NEW t \in Opening, NEW s \in SessionIds, Open' \subseteq Open \union {s}, Opening' \subseteq Opening \ {t}
      PROVE  IsFiniteSet(Open') /\ SessionsBounded'
  <2>1. IsFiniteSet(Open \union {s}) /\ Cardinality(Open \union {s}) <= Cardinality(Open) + 1
        /\ Cardinality(Open \union {s}) \in Nat
    <3>1. IsFiniteSet(Open \union {s})
          /\ Cardinality(Open \union {s}) = IF s \in Open THEN Cardinality(Open) ELSE Cardinality(Open) + 1
      BY <1>3, FS_AddElement
    <3>2. QED
      BY <1>3, <3>1
  <2>2. IsFiniteSet(Open') /\ Cardinality(Open') \in Nat
        /\ Cardinality(Open') <= Cardinality(Open \union {s})
    BY <1>9, <2>1, FS_Subset, FS_CardinalityType
  <2>3. IsFiniteSet(Opening \ {t}) /\ Cardinality(Opening \ {t}) = Cardinality(Opening) - 1
    BY <1>4, <1>9, FS_RemoveElement
  <2>4. Cardinality(Opening') <= Cardinality(Opening \ {t})
    BY <1>9, <2>3, FS_Subset
  <2>5. Cardinality(Open') + Cardinality(Opening') < MaxSessions + n
    BY <1>1, <1>3, <1>4, <1>5, <1>6, <2>1, <2>2, <2>3, <2>4
  <2>6. QED
    BY <2>2, <2>5 DEF SessionsBounded, n
<1>10. QED
  BY <1>7, <1>8, <1>9

\* What a step of the history may do to its parts, whichever action it is.
SessionsFollow ==
  \/ Open' \subseteq Open /\ Opening' \subseteq Opening
  \/ Open' = Open /\ Room
  \/ \E t \in Opening, s \in SessionIds : Open' \subseteq Open \union {s} /\ Opening' \subseteq Opening \ {t}

StoredFollows == stored' = stored \/ \E time \in HistoryTimes : stored' = Append(stored, time)

Reading(t) == serving[t] # NoSession /\ serving[t].at = "read"

CacheFollows ==
  \A d \in Days :
    \/ cache'[d] \in {cache[d], NoSession}
    \/ \E t \in HistoryTasks :
         Reading(t) /\ serving[t].request.days = d /\ cache'[d] = serving[t].data

ReadsFollow ==
  \A t \in HistoryTasks : Reading(t)' =>
    \/ serving'[t] = serving[t]
    \/ stored' = stored /\ serving'[t].data = Found(serving'[t].request)

LEMMA ServingTypes ==
  ASSUME HistoryTypeOK, NEW t \in HistoryTasks, serving[t] # NoSession
  PROVE  serving[t] \in Serving /\ serving[t].request \in HistoryRequests
         /\ serving[t].request.days \in Days /\ serving[t].data \in Seq(Nat)
<1>1. serving[t] \in Serving
  BY DEF HistoryTypeOK
<1>2. serving[t].request \in HistoryRequests /\ serving[t].data \in Seq(Nat)
  BY <1>1 DEF Serving
<1>3. QED
  BY <1>1, <1>2, RequestTypes

LEMMA HistoryFollows ==
  ASSUME HistoryInv, SessionsFollow, StoredFollows, CacheFollows, ReadsFollow,
         stored' \in Seq(Nat), cache' \in [Days -> {NoSession} \union Seq(Nat)],
         serving' \in [HistoryTasks -> {NoSession} \union Serving], DOMAIN sessions' = SessionIds
  PROVE  HistoryInv'
<1>1. HistoryTypeOK /\ SessionsBounded /\ CacheIsPast /\ ReadIsPast
  BY DEF HistoryInv
<1>2. IsFiniteSet(Open') /\ SessionsBounded'
  <2>1. Opening' \subseteq HistoryTasks
    BY DEF Opening
  <2>2. QED
    BY <1>1, <2>1, SessionsStayBounded DEF SessionsFollow
<1>3. HistoryTypeOK'
  BY <1>2 DEF HistoryTypeOK
<1>4. CacheIsPast'
  <2>1. ASSUME NEW d \in Days, cache'[d] # NoSession
        PROVE  \E r \in HistoryRequests : r.days = d /\ IsPrefix(cache'[d], Found(r)')
    <3>1. CASE cache'[d] = cache[d]
      <4>1. PICK r \in HistoryRequests : r.days = d /\ IsPrefix(cache[d], Found(r))
        BY <1>1, <2>1, <3>1 DEF CacheIsPast
      <4>2. cache[d] \in Seq(Nat)
        BY <1>1, <2>1, <3>1 DEF HistoryTypeOK
      <4>3. IsPrefix(cache[d], Found(r)')
        BY <1>1, <4>1, <4>2, PastStays DEF StoredFollows
      <4>4. QED
        BY <3>1, <4>1, <4>3
    <3>2. ASSUME NEW t \in HistoryTasks, Reading(t), serving[t].request.days = d,
                 cache'[d] = serving[t].data
          PROVE  \E r \in HistoryRequests : r.days = d /\ IsPrefix(cache'[d], Found(r)')
      <4>1. serving[t].request \in HistoryRequests /\ serving[t].data \in Seq(Nat)
        BY <1>1, <3>2, ServingTypes DEF Reading
      <4>2. IsPrefix(serving[t].data, Found(serving[t].request))
        BY <1>1, <3>2 DEF ReadIsPast, Reading
      <4>3. PICK r \in HistoryRequests : r = serving[t].request
        BY <4>1
      <4>4. IsPrefix(serving[t].data, Found(r))
        BY <4>2, <4>3
      <4>5. IsPrefix(serving[t].data, Found(r)')
        BY <1>1, <4>1, <4>4, PastStays DEF StoredFollows
      <4>6. QED
        BY <3>2, <4>3, <4>5
    <3>3. QED
      BY <2>1, <3>1, <3>2 DEF CacheFollows
  <2>2. QED
    BY <2>1 DEF CacheIsPast
<1>5. ReadIsPast'
  <2>1. ASSUME NEW t \in HistoryTasks, Reading(t)' 
        PROVE  IsPrefix(serving'[t].data, Found(serving[t].request)')
    <3>1. serving'[t].request \in HistoryRequests /\ serving'[t].data \in Seq(Nat)
      BY <2>1 DEF Reading, Serving
    <3> DEFINE data == serving'[t].data
               r == serving'[t].request
    <3> HIDE DEF r, data
    <3>2. CASE serving'[t] = serving[t]
      <4>1. Reading(t)
        BY <2>1, <3>2 DEF Reading
      <4>2. IsPrefix(data, Found(r))
        BY <1>1, <3>2, <4>1 DEF ReadIsPast, Reading, data, r
      <4>3. IsPrefix(data, Limited(Only(stored', r.from .. r.to), r.limit))
        <5>1. \A q \in HistoryRequests : IsPrefix(data, Found(q)) =>
                IsPrefix(data, Limited(Only(stored', q.from .. q.to), q.limit))
          <6>1. ASSUME NEW q \in HistoryRequests, IsPrefix(data, Found(q)) PROVE IsPrefix(data, Found(q)')
            BY <1>1, <3>1, <6>1, PastStays DEF StoredFollows, data
          <6>2. QED
            BY <6>1 DEF Found
        <5>2. QED
          BY <3>1, <4>2, <5>1 DEF r
      <4>4. QED
        BY <4>3 DEF Found, r, data
    <3>3. CASE stored' = stored /\ serving'[t].data = Found(serving'[t].request)
      <4>1. data = Limited(Only(stored', r.from .. r.to), r.limit)
        BY <3>3 DEF Found, data, r
      <4>2. Len(data) \in Nat
        BY <3>1, LenProperties DEF data
      <4>3. IsPrefix(data, data)
        BY <4>2 DEF IsPrefix
      <4>4. QED
        BY <4>1, <4>3 DEF Found, data, r
    <3>4. QED
      BY <2>1, <3>2, <3>3 DEF ReadsFollow
  <2>2. QED
    BY <2>1 DEF ReadIsPast, Reading
<1>6. QED
  BY <1>2, <1>3, <1>4, <1>5 DEF HistoryInv

LEMMA HistoryStep ==
  ASSUME HistoryInv, [HistoryNext]_historyVars PROVE HistoryInv'
<1> DEFINE Shape == /\ stored' \in Seq(Nat)
                    /\ cache' \in [Days -> {NoSession} \union Seq(Nat)]
                    /\ serving' \in [HistoryTasks -> {NoSession} \union Serving]
                    /\ DOMAIN sessions' = SessionIds
           Follows == Shape /\ SessionsFollow /\ StoredFollows /\ CacheFollows /\ ReadsFollow
<1>1. /\ stored \in Seq(Nat)
      /\ cache \in [Days -> {NoSession} \union Seq(Nat)]
      /\ serving \in [HistoryTasks -> {NoSession} \union Serving]
      /\ DOMAIN sessions = SessionIds
      /\ HistoryTypeOK
  BY DEF HistoryInv, HistoryTypeOK
<1>2. CASE UNCHANGED historyVars
  BY <1>1, <1>2, HistoryFollows DEF historyVars, SessionsFollow, StoredFollows, CacheFollows,
     ReadsFollow, Open, Opening
<1>3. ASSUME NEW time \in HistoryTimes, StoreData(time) PROVE Follows
  <2>1. time \in Nat
    BY HistoryAssumption
  <2>2. stored' \in Seq(Nat)
    BY <1>1, <1>3, <2>1, AppendProperties DEF StoreData
  <2>3. QED
    BY <1>1, <1>3, <2>2 DEF StoreData, SessionsFollow, StoredFollows, CacheFollows, ReadsFollow,
       Open, Opening
<1>4. ASSUME NEW d \in Days, Evict(d) PROVE Follows
  <2>1. /\ cache' = [cache EXCEPT ![d] = NoSession]
        /\ stored' = stored /\ serving' = serving /\ sessions' = sessions
    BY <1>4 DEF Evict
  <2>2. CacheFollows
    BY <1>1, <2>1 DEF CacheFollows
  <2>3. SessionsFollow /\ StoredFollows /\ ReadsFollow
    BY <2>1 DEF SessionsFollow, StoredFollows, ReadsFollow, Open, Opening
  <2>4. QED
    BY <1>1, <2>1, <2>2, <2>3
<1>5. ASSUME NEW t \in HistoryTasks, NEW r \in HistoryRequests, NEW forSession \in BOOLEAN,
             Retrieve(t, r, forSession)
      PROVE  Follows
  <2> DEFINE new == IF cache[r.days] # NoSession
                    THEN [at |-> "done", request |-> r, data |-> cache[r.days], session |-> forSession]
                    ELSE [at |-> "missed", request |-> r, data |-> << >>, session |-> forSession]
  <2>1. /\ serving[t] = NoSession /\ (forSession => Room)
        /\ serving' = [serving EXCEPT ![t] = new]
        /\ stored' = stored /\ cache' = cache /\ sessions' = sessions
    BY <1>5 DEF Retrieve, Serve
  <2>2. new \in Serving /\ new.at # "read" /\ new.session = forSession
    <3>1. r.days \in Days /\ << >> \in Seq(Nat)
      BY RequestTypes
    <3>2. cache[r.days] # NoSession => cache[r.days] \in Seq(Nat)
      BY <1>1, <3>1
    <3>3. QED
      BY <3>1, <3>2 DEF Serving
  <2> HIDE DEF new
  <2>3. Shape
    BY <1>1, <2>1, <2>2
  <2>4. ReadsFollow
    BY <1>1, <2>1, <2>2 DEF ReadsFollow, Reading
  <2>5. SessionsFollow
    <3>1. Open' = Open
      BY <2>1 DEF Open
    <3>2. ~ forSession => Opening' \subseteq Opening
      BY <1>1, <2>1, <2>2 DEF Opening
    <3>3. QED
      BY <2>1, <3>1, <3>2 DEF SessionsFollow
  <2>6. QED
    BY <2>1, <2>3, <2>4, <2>5 DEF StoredFollows, CacheFollows
<1>6. ASSUME NEW t \in HistoryTasks, ReadStorage(t) PROVE Follows
  <2> DEFINE new == [serving[t] EXCEPT !.at = "read", !.data = Found(serving[t].request)]
  <2>1. /\ serving[t] # NoSession /\ serving' = [serving EXCEPT ![t] = new]
        /\ stored' = stored /\ cache' = cache /\ sessions' = sessions
    BY <1>6 DEF ReadStorage, Serve
  <2>2. serving[t] \in Serving /\ Found(serving[t].request) \in Seq(Nat)
    BY <1>1, <2>1, ServingTypes, FoundType
  <2>3. new \in Serving /\ new.session = serving[t].session /\ new.data = Found(new.request)
    BY <2>2 DEF Serving
  <2> HIDE DEF new
  <2>4. Shape
    BY <1>1, <2>1, <2>3
  <2>5. ReadsFollow
    BY <1>1, <2>1, <2>3 DEF ReadsFollow, Reading
  <2>6. SessionsFollow
    BY <1>1, <2>1, <2>3 DEF SessionsFollow, Open, Opening
  <2>7. QED
    BY <2>1, <2>4, <2>5, <2>6 DEF StoredFollows, CacheFollows
<1>7. ASSUME NEW t \in HistoryTasks, FillCache(t) PROVE Follows
  <2> DEFINE new == [serving[t] EXCEPT !.at = "done"]
             d == serving[t].request.days
  <2>1. /\ serving[t] # NoSession /\ serving[t].at = "read"
        /\ cache' = [cache EXCEPT ![d] = serving[t].data]
        /\ serving' = [serving EXCEPT ![t] = new]
        /\ stored' = stored /\ sessions' = sessions
    BY <1>7 DEF FillCache, Serve
  <2>2. serving[t] \in Serving /\ d \in Days /\ serving[t].data \in Seq(Nat)
    BY <1>1, <2>1, ServingTypes
  <2>3. new \in Serving /\ new.session = serving[t].session /\ new.at # "read"
    BY <2>2 DEF Serving
  <2>4. CacheFollows
    BY <1>1, <2>1, <2>2 DEF CacheFollows, Reading
  <2> HIDE DEF new, d
  <2>5. Shape
    BY <1>1, <2>1, <2>2, <2>3
  <2>6. ReadsFollow
    BY <1>1, <2>1, <2>3 DEF ReadsFollow, Reading
  <2>7. SessionsFollow
    BY <1>1, <2>1, <2>3 DEF SessionsFollow, Open, Opening
  <2>8. QED
    BY <2>1, <2>4, <2>5, <2>6, <2>7 DEF StoredFollows
<1>8. ASSUME NEW t \in HistoryTasks, Answer(t) PROVE Follows
  <2>1. /\ serving[t] # NoSession /\ serving' = [serving EXCEPT ![t] = NoSession]
        /\ stored' = stored /\ cache' = cache
    BY <1>8 DEF Answer, Serve
  <2>2. Shape
    <3>1. DOMAIN sessions' = SessionIds
      BY <1>1, <1>8 DEF Answer
    <3>2. QED
      BY <1>1, <2>1, <3>1
  <2>3. ReadsFollow
    BY <1>1, <2>1 DEF ReadsFollow, Reading
  <2>4. Opening' \subseteq Opening \ {t}
    BY <1>1, <2>1 DEF Opening
  <2>5. CASE UNCHANGED sessions
    BY <2>1, <2>2, <2>3, <2>4, <2>5 DEF SessionsFollow, StoredFollows, CacheFollows, Open
  <2>6. CASE serving[t].session
    <3>1. t \in Opening
      BY <2>1, <2>6 DEF Opening
    <3>2. \/ sessions' = sessions
          \/ \E s \in SessionIds : sessions' = [sessions EXCEPT ![s] = NewSession(serving[t].data)]
      BY <1>8 DEF Answer
    <3>3. Open' \subseteq Open \/ \E s \in SessionIds : Open' \subseteq Open \union {s}
      BY <1>1, <3>2 DEF Open
    <3>4. SessionsFollow
      BY <2>4, <3>1, <3>3 DEF SessionsFollow
    <3>5. QED
      BY <2>1, <2>2, <2>3, <3>4 DEF StoredFollows, CacheFollows
  <2>7. QED
    BY <1>8, <2>5, <2>6 DEF Answer
<1>9. ASSUME NEW s \in SessionIds, NEW new, SessionChange(s, new) PROVE Follows
  <2>1. /\ s \in Open /\ sessions' = [sessions EXCEPT ![s] = new]
        /\ stored' = stored /\ cache' = cache /\ serving' = serving
    BY <1>9 DEF SessionChange
  <2>2. Open' \subseteq Open
    BY <1>1, <2>1 DEF Open
  <2>3. Opening' = Opening
    BY <2>1 DEF Opening
  <2>4. QED
    BY <1>1, <2>1, <2>2, <2>3 DEF SessionsFollow, StoredFollows, CacheFollows, ReadsFollow
<1>10. ASSUME NEW s \in SessionIds,
              (\E yes \in BOOLEAN : SetPlaying(s, yes)) \/ NextPoint(s) \/ Seek(s) \/ StopReplay(s)
       PROVE  Follows
  <2>1. \E new : SessionChange(s, new)
    BY <1>10 DEF SetPlaying, NextPoint, Seek, StopReplay
  <2> HIDE DEF Follows
  <2>2. QED
    BY <1>9, <2>1
<1> HIDE DEF Follows
<1>11. HistoryNext => Follows
  BY <1>3, <1>4, <1>5, <1>6, <1>7, <1>8, <1>10 DEF HistoryNext
<1>12. Follows => HistoryInv'
  BY HistoryFollows DEF Follows
<1>13. QED
  BY <1>2, <1>11, <1>12

LEMMA HistoryStart == ASSUME HistoryInit PROVE HistoryInv
<1>1. /\ stored = << >>
      /\ cache = [d \in Days |-> NoSession]
      /\ serving = [t \in HistoryTasks |-> NoSession]
      /\ sessions = [s \in SessionIds |-> NoSession]
  BY DEF HistoryInit
<1>2. Open = {} /\ Opening = {}
  BY <1>1 DEF Open, Opening
<1>3. HistoryTypeOK
  BY <1>1, <1>2, FS_EmptySet DEF HistoryTypeOK
<1>4. SessionsBounded
  <2>1. Cardinality(HistoryTasks) \in Nat /\ Cardinality(HistoryTasks) # 0 /\ MaxSessions \in Nat
    BY HistoryAssumption, FS_CardinalityType, FS_EmptySet
  <2>2. Cardinality({}) = 0
    BY FS_EmptySet
  <2>3. QED
    BY <1>2, <2>1, <2>2 DEF SessionsBounded
<1>5. CacheIsPast /\ ReadIsPast
  BY <1>1 DEF CacheIsPast, ReadIsPast
<1>6. QED
  BY <1>3, <1>4, <1>5 DEF HistoryInv

-----------------------------------------------------------------------------
(* The order book *)

\* One side of a book, or of what update_price_level has made of it: a finite set
\* of prices with a quantity each.
Sides == {s \in UNION {[d -> Nat] : d \in SUBSET Nat} : IsFiniteSet(DOMAIN s)}

\* The entry k is the last word of the first n on its price.
LastNamed(seq, n, k) == \A j \in k + 1 .. n : seq[j].price # seq[k].price

\* A side after the first n level updates of seq.
LevelsOf(base, seq, n, s) ==
  /\ \A k \in 1 .. n : LastNamed(seq, n, k) =>
       IF seq[k].quantity > 0
       THEN seq[k].price \in DOMAIN s /\ s[seq[k].price] = RoundQuantity(seq[k].quantity)
       ELSE seq[k].price \notin DOMAIN s
  /\ \A p \in Nat : (\A k \in 1 .. n : seq[k].price # p) =>
       (p \in DOMAIN s <=> p \in DOMAIN base) /\ (p \in DOMAIN s => s[p] = base[p])

LEMMA SideTypes ==
  ASSUME NEW s
  PROVE  s \in Sides <=> /\ DOMAIN s \subseteq Nat /\ IsFiniteSet(DOMAIN s)
                         /\ s \in [DOMAIN s -> Nat]
BY DEF Sides

LEMMA RoundedIsNat == ASSUME NEW q \in Nat PROVE RoundQuantity(q) \in Nat
<1>1. Fractions \in Nat /\ Fractions > 0
  BY BookAssumption
<1>2. 2 * q + Fractions \in Nat /\ 2 * Fractions \in Nat /\ 2 * Fractions > 0
  BY <1>1
<1>3. QED
  BY <1>2, DivNat DEF RoundQuantity

LEMMA LevelSetStays ==
  ASSUME NEW s \in Sides, NEW u \in LevelUpdate
  PROVE  /\ LevelSet(s, u) \in Sides
         /\ u.quantity > 0 => DOMAIN LevelSet(s, u) = DOMAIN s \union {u.price}
         /\ ~ (u.quantity > 0) => DOMAIN LevelSet(s, u) = DOMAIN s \ {u.price}
         /\ \A p \in DOMAIN LevelSet(s, u) : LevelSet(s, u)[p] = IF p = u.price THEN RoundQuantity(u.quantity) ELSE s[p]
<1> DEFINE d == IF u.quantity > 0 THEN DOMAIN s \union {u.price} ELSE DOMAIN s \ {u.price}
           t == [p \in d |-> IF p = u.price THEN RoundQuantity(u.quantity) ELSE s[p]]
<1>1. DOMAIN s \subseteq Nat /\ IsFiniteSet(DOMAIN s) /\ \A p \in DOMAIN s : s[p] \in Nat
  BY SideTypes
<1>2. u.price \in Nat /\ u.quantity \in Nat /\ RoundQuantity(u.quantity) \in Nat
  <2>1. u.price \in Nat /\ u.quantity \in Nat
    BY DEF LevelUpdate
  <2>2. QED
    BY <2>1, RoundedIsNat
<1>3. IsFiniteSet(DOMAIN s \union {u.price}) /\ IsFiniteSet(DOMAIN s \ {u.price})
  BY <1>1, FS_AddElement, FS_RemoveElement
<1>4. d \subseteq Nat /\ IsFiniteSet(d)
  BY <1>1, <1>2, <1>3
<1>5. \A p \in d : p # u.price => p \in DOMAIN s
  OBVIOUS
<1>6. t \in [d -> Nat]
  BY <1>1, <1>2, <1>5
<1>7. LevelSet(s, u) = t
  BY DEF LevelSet
<1>8. DOMAIN t = d /\ \A p \in d : t[p] = IF p = u.price THEN RoundQuantity(u.quantity) ELSE s[p]
  OBVIOUS
<1> HIDE DEF t
<1>9. t \in Sides
  BY <1>4, <1>6, <1>8, SideTypes
<1>10. QED
  BY <1>7, <1>8, <1>9

LEMMA OneMoreLevel ==
  ASSUME NEW base, NEW seq, NEW n \in Nat, NEW s \in Sides, LevelsOf(base, seq, n, s),
         \A k \in 1 .. n + 1 : seq[k] \in LevelUpdate
  PROVE  LevelsOf(base, seq, n + 1, LevelSet(s, seq[n + 1]))
<1> DEFINE u == seq[n + 1]
           t == LevelSet(s, u)
<1>1. u \in LevelUpdate /\ u.price \in Nat
  BY DEF LevelUpdate
<1> HIDE DEF u
<1>2. /\ u.quantity > 0 => DOMAIN t = DOMAIN s \union {u.price}
      /\ ~ (u.quantity > 0) => DOMAIN t = DOMAIN s \ {u.price}
      /\ \A p \in DOMAIN t : t[p] = IF p = u.price THEN RoundQuantity(u.quantity) ELSE s[p]
  BY <1>1, LevelSetStays
<1> HIDE DEF t
<1> USE DEF u
<1>3. \A p : p # u.price => (p \in DOMAIN t <=> p \in DOMAIN s) /\ (p \in DOMAIN t => t[p] = s[p])
  BY <1>2
<1>4. \A k \in 1 .. n + 1 : k \in 1 .. n \/ k = n + 1
  OBVIOUS
<1>5. ASSUME NEW k \in 1 .. n + 1, LastNamed(seq, n + 1, k)
      PROVE  IF seq[k].quantity > 0
             THEN seq[k].price \in DOMAIN t /\ t[seq[k].price] = RoundQuantity(seq[k].quantity)
             ELSE seq[k].price \notin DOMAIN t
  <2>1. CASE k = n + 1
    BY <1>2, <2>1
  <2>2. CASE k \in 1 .. n
    <3>1. n + 1 \in k + 1 .. n + 1 /\ k + 1 .. n \subseteq k + 1 .. n + 1
      BY <2>2
    <3>2. u.price # seq[k].price /\ LastNamed(seq, n, k)
      BY <1>5, <3>1 DEF LastNamed
    <3>3. IF seq[k].quantity > 0
          THEN seq[k].price \in DOMAIN s /\ s[seq[k].price] = RoundQuantity(seq[k].quantity)
          ELSE seq[k].price \notin DOMAIN s
      BY <2>2, <3>2 DEF LevelsOf
    <3>4. QED
      BY <1>3, <3>2, <3>3
  <2>3. QED
    BY <1>4, <2>1, <2>2
<1>6. ASSUME NEW p \in Nat, \A k \in 1 .. n + 1 : seq[k].price # p
      PROVE  (p \in DOMAIN t <=> p \in DOMAIN base) /\ (p \in DOMAIN t => t[p] = base[p])
  <2>1. p # u.price /\ \A k \in 1 .. n : seq[k].price # p
    BY <1>6
  <2>2. (p \in DOMAIN s <=> p \in DOMAIN base) /\ (p \in DOMAIN s => s[p] = base[p])
    BY <2>1 DEF LevelsOf
  <2>3. QED
    BY <1>3, <2>1, <2>2
<1> HIDE DEF u
<1>7. LevelsOf(base, seq, n + 1, t)
  BY <1>5, <1>6 DEF LevelsOf
<1>8. QED
  BY <1>7 DEF t, u

\* The fold over all the level updates of one side.
LEMMA LevelsFold ==
  ASSUME NEW base \in Sides, NEW seq \in Seq(LevelUpdate)
  PROVE  FoldLeft(LevelSet, base, seq) \in Sides
         /\ LevelsOf(base, seq, Len(seq), FoldLeft(LevelSet, base, seq))
<1> DEFINE n == Len(seq)
           F == [x \in Sides \X LevelUpdate |-> LevelSet(x[1], x[2])]
           Solves(g) == g = [s \in SUBSET (1 .. n) |->
                               IF s = {} THEN base ELSE LevelSet(g[s \ {Max(s)}], seq[Max(s)])]
           iter == CHOOSE g : Solves(g)
           Good == [k \in 0 .. n |-> {s \in Sides : LevelsOf(base, seq, k, s)}]
<1>1. n \in Nat /\ DOMAIN seq = 1 .. n /\ \A i \in 1 .. n : seq[i] \in LevelUpdate
  BY LenProperties, ElementOfSeq
<1>2. FoldLeft(LevelSet, base, seq) = iter[1 .. n]
  BY <1>1 DEF FoldLeft, MapThenFoldSet
<1> HIDE DEF n
<1>3. F \in [Sides \X LevelUpdate -> Sides]
      /\ \A s \in Sides : \A u \in LevelUpdate : F[<< s, u >>] = LevelSet(s, u)
  BY LevelSetStays
<1> HIDE DEF F
<1>4. PICK g : Folds(F, base, seq, n, Sides, g)
  BY <1>1, <1>3, FoldSolution
<1>5. Solves(g)
  <2>1. g \in [SUBSET (1 .. n) -> Sides]
        /\ \A s \in SUBSET (1 .. n) : g[s] = FoldRound(F, base, seq, g, s)
    BY <1>4 DEF Folds
  <2>2. ASSUME NEW s \in SUBSET (1 .. n)
        PROVE  g[s] = IF s = {} THEN base ELSE LevelSet(g[s \ {Max(s)}], seq[Max(s)])
    <3>1. CASE s = {}
      BY <2>1, <3>1 DEF FoldRound
    <3>2. CASE s # {}
      <4>1. Max(s) \in 1 .. n
        BY <1>1, <3>2, MaxIn
      <4>2. g[s \ {Max(s)}] \in Sides /\ seq[Max(s)] \in LevelUpdate
        BY <1>1, <2>1, <4>1
      <4>3. g[s] = F[<< g[s \ {Max(s)}], seq[Max(s)] >>]
        BY <2>1, <3>2 DEF FoldRound
      <4>4. QED
        BY <1>3, <3>2, <4>2, <4>3
    <3>3. QED
      BY <3>1, <3>2
  <2>3. g = [s \in SUBSET (1 .. n) |-> g[s]]
    BY <2>1
  <2>4. QED
    BY <2>2, <2>3
<1>6. Solves(iter)
  BY <1>5
<1> HIDE DEF iter
<1>7. iter[{}] \in Good[0]
  <2>1. iter[{}] = base /\ 0 \in 0 .. n
    BY <1>1, <1>6
  <2>2. LevelsOf(base, seq, 0, base)
    <3>1. \A k \in 1 .. 0 : FALSE
      OBVIOUS
    <3>2. QED
      BY <3>1 DEF LevelsOf
  <2>3. QED
    BY <2>1, <2>2
<1>8. ASSUME NEW k \in 1 .. n, iter[1 .. k - 1] \in Good[k - 1] PROVE iter[1 .. k] \in Good[k]
  <2> DEFINE j == k - 1
             s == iter[1 .. j]
  <2>1. j \in Nat /\ j + 1 = k /\ k \in Nat /\ k > 0 /\ k \in 0 .. n /\ j \in 0 .. n
        /\ \A i \in 1 .. j + 1 : i \in 1 .. n
    BY <1>1
  <2>2. Max(1 .. k) = k /\ (1 .. k) \ {k} = 1 .. j
    BY <2>1, MaxOfPrefix
  <2>3. 1 .. k \in SUBSET (1 .. n) /\ 1 .. k # {}
    <3>1. k \in 1 .. k /\ \A i \in 1 .. k : i \in 1 .. n
      BY <1>1, <2>1
    <3>2. QED
      BY <3>1
  <2>4. iter[1 .. k] = LevelSet(s, seq[k])
    BY <1>6, <2>2, <2>3
  <2>5. s \in Sides /\ LevelsOf(base, seq, j, s)
    BY <1>8, <2>1
  <2> HIDE DEF s
  <2>6. \A i \in 1 .. j + 1 : seq[i] \in LevelUpdate
    BY <1>1, <2>1
  <2> HIDE DEF j
  <2>7. LevelsOf(base, seq, j + 1, LevelSet(s, seq[j + 1]))
    BY <2>1, <2>5, <2>6, OneMoreLevel
  <2>8. LevelSet(s, seq[k]) \in Sides
    BY <1>1, <2>5, LevelSetStays
  <2>9. QED
    BY <2>1, <2>4, <2>7, <2>8
<1> HIDE DEF Good
<1>9. iter[1 .. n] \in Good[n]
  BY <1>1, <1>7, <1>8, FoldPrefixes
<1>10. QED
  BY <1>1, <1>2, <1>9 DEF Good, n

\* A strict order of the prices, of which Kept shows the first MaxDepth.
Ordered(R) ==
  /\ \A p, q, r \in Nat : << p, q >> \in R /\ << q, r >> \in R => << p, r >> \in R
  /\ \A p, q \in Nat : p = q \/ << p, q >> \in R \/ << q, p >> \in R
  /\ \A p \in Nat : << p, p >> \notin R

Ahead(side, R, p) == {r \in DOMAIN side : << r, p >> \in R}

\* What Kept leaves of a side, with the order as a relation.
Shown(side, R, book) ==
  book = [p \in {q \in DOMAIN side : Cardinality(Ahead(side, R, q)) < MaxDepth} |-> side[p]]

\* Of finitely many prices, one comes after all others.
LEMMA WorstPrice ==
  ASSUME NEW R, Ordered(R), NEW S, S \subseteq Nat, IsFiniteSet(S), S # {}
  PROVE  \E w \in S : \A p \in S : p = w \/ << p, w >> \in R
<1> DEFINE Good == {s \in SUBSET S : s # {} => \E w \in s : \A p \in s : p = w \/ << p, w >> \in R}
<1>1. ASSUME NEW s \in SUBSET S,
             \A t \in SUBSET S : Cardinality(t) < Cardinality(s) => t \in Good
      PROVE  s \in Good
  <2>1. SUFFICES ASSUME s # {} PROVE \E w \in s : \A p \in s : p = w \/ << p, w >> \in R
    OBVIOUS
  <2>2. PICK x : x \in s
    BY <2>1
  <2>3. s \ {x} \in SUBSET S /\ Cardinality(s \ {x}) < Cardinality(s)
    BY <2>2, SmallerSubset
  <2>4. s \ {x} \in Good
    BY <1>1, <2>3
  <2>5. CASE s \ {x} = {}
    BY <2>2, <2>5
  <2>6. CASE s \ {x} # {}
    <3>1. PICK v \in s \ {x} : \A p \in s \ {x} : p = v \/ << p, v >> \in R
      BY <2>4, <2>6
    <3>2. x \in Nat /\ v \in Nat /\ s \subseteq Nat
      BY <2>2
    <3>3. << x, v >> \in R \/ << v, x >> \in R
      BY <3>1, <3>2 DEF Ordered
    <3>4. CASE << x, v >> \in R
      BY <3>1, <3>4
    <3>5. CASE << v, x >> \in R
      <4>1. \A p \in s : p = x \/ << p, x >> \in R
        BY <3>1, <3>2, <3>5 DEF Ordered
      <4>2. QED
        BY <2>2, <4>1
    <3>6. QED
      BY <3>3, <3>4, <3>5
  <2>7. QED
    BY <2>5, <2>6
<1>2. \A s \in SUBSET S : s \in Good
  <2> HIDE DEF Good
  <2>1. QED
    BY <1>1, SubsetInduction
<1>3. QED
  BY <1>2

\* The order the other way round.
Reversed(R) == {x \in Nat \X Nat : << x[2], x[1] >> \in R}

LEMMA ReversedOrdered == ASSUME NEW R, Ordered(R) PROVE Ordered(Reversed(R))
<1>1. \A p, q \in Nat : << p, q >> \in Reversed(R) <=> << q, p >> \in R
  BY DEF Reversed
<1> HIDE DEF Reversed
<1>2. QED
  BY <1>1 DEF Ordered

\* A book is no deeper than MaxDepth; it is as deep if a level is left out, and
\* what is left out comes after all of it.
LEMMA ShownIsBest ==
  ASSUME NEW R, Ordered(R), NEW side \in Sides, NEW book, Shown(side, R, book)
  PROVE  /\ IsFiniteSet(DOMAIN book) /\ Cardinality(DOMAIN book) <= MaxDepth
         /\ \A q \in DOMAIN side \ DOMAIN book :
              Cardinality(DOMAIN book) = MaxDepth /\ \A p \in DOMAIN book : << p, q >> \in R
<1> DEFINE B == DOMAIN book
           D == DOMAIN side
           A(p) == Ahead(side, R, p)
<1>1. D \subseteq Nat /\ IsFiniteSet(D)
  BY SideTypes
<1>2. B = {p \in D : Cardinality(A(p)) < MaxDepth} /\ MaxDepth \in Nat /\ MaxDepth > 0
  BY BookAssumption DEF Shown
<1>3. \A p \in D : IsFiniteSet(A(p)) /\ Cardinality(A(p)) \in Nat /\ A(p) \subseteq D
  <2>1. ASSUME NEW p \in D PROVE IsFiniteSet(A(p)) /\ Cardinality(A(p)) \in Nat /\ A(p) \subseteq D
    <3>1. A(p) \in SUBSET D
      BY DEF Ahead
    <3>2. QED
      BY <1>1, <3>1, FS_Subset, FS_CardinalityType
  <2>2. QED
    BY <2>1
<1>4. IsFiniteSet(B) /\ Cardinality(B) \in Nat
  <2>1. B \in SUBSET D
    BY <1>2
  <2>2. QED
    BY <1>1, <2>1, FS_Subset, FS_CardinalityType
<1>5. Cardinality(B) <= MaxDepth
  <2>1. CASE B = {}
    <3>1. Cardinality({}) = 0
      BY FS_EmptySet
    <3> HIDE DEF B
    <3>2. Cardinality(B) = 0
      BY <2>1, <3>1
    <3>3. QED
      BY <1>2, <3>2
  <2>2. CASE B # {}
    <3>1. PICK w \in B : \A p \in B : p = w \/ << p, w >> \in R
      BY <1>1, <1>2, <1>4, <2>2, WorstPrice
    <3>2. B \ {w} \in SUBSET A(w) /\ w \in D
      BY <1>2, <3>1 DEF Ahead
    <3>3. Cardinality(B \ {w}) <= Cardinality(A(w))
      BY <1>3, <3>2, FS_Subset
    <3>4. Cardinality(B \ {w}) = Cardinality(B) - 1
      BY <1>4, FS_RemoveElement
    <3>5. Cardinality(A(w)) < MaxDepth /\ Cardinality(A(w)) \in Nat
      BY <1>2, <1>3
    <3> HIDE DEF A, B
    <3>6. QED
      BY <1>2, <1>4, <3>3, <3>4, <3>5
  <2>3. QED
    BY <2>1, <2>2
<1>6. ASSUME NEW q \in D \ B, NEW p \in B PROVE << p, q >> \in R
  <2>1. SUFFICES ASSUME << p, q >> \notin R PROVE FALSE
    OBVIOUS
  <2>2. p \in D /\ q \in D /\ p # q
    BY <1>2
  <2>3. << q, p >> \in R
    BY <1>1, <2>1, <2>2 DEF Ordered
  <2>4. A(q) \in SUBSET A(p)
    BY <1>1, <2>2, <2>3 DEF Ahead, Ordered
  <2>5. Cardinality(A(q)) <= Cardinality(A(p)) /\ Cardinality(A(q)) \in Nat /\ Cardinality(A(p)) \in Nat
    BY <1>3, <2>2, <2>4, FS_Subset
  <2>6. Cardinality(A(p)) < MaxDepth /\ ~ (Cardinality(A(q)) < MaxDepth)
    BY <1>2, <2>2
  <2> HIDE DEF A
  <2>7. QED
    BY <1>2, <2>5, <2>6
<1>7. ASSUME NEW q \in D \ B PROVE Cardinality(B) = MaxDepth
  <2> DEFINE C == D \ B
  <2>1. C \subseteq Nat /\ IsFiniteSet(C) /\ C # {}
    <3>1. C \in SUBSET D
      OBVIOUS
    <3>2. QED
      BY <1>1, <1>7, <3>1, FS_Subset
  <2> HIDE DEF C
  <2>2. PICK c \in C : \A p \in C : p = c \/ << p, c >> \in Reversed(R)
    <3>1. Ordered(Reversed(R))
      BY ReversedOrdered
    <3>2. QED
      BY <2>1, <3>1, WorstPrice
  <2>3. c \in D /\ c \in Nat /\ ~ (Cardinality(A(c)) < MaxDepth)
    BY <1>1, <1>2 DEF C
  <2>4. ASSUME NEW p \in A(c) PROVE p \in B
    <3>1. p \in D /\ p \in Nat /\ << p, c >> \in R
      BY <1>1 DEF Ahead
    <3>2. SUFFICES ASSUME p \in C PROVE FALSE
      BY <3>1 DEF C
    <3>3. p = c \/ << c, p >> \in R
      BY <2>2, <3>2 DEF Reversed
    <3>4. << c, c >> \in R
      BY <2>3, <3>1, <3>3 DEF Ordered
    <3>5. QED
      BY <2>3, <3>4 DEF Ordered
  <2>5. Cardinality(A(c)) <= Cardinality(B) /\ Cardinality(A(c)) \in Nat
    <3>1. A(c) \in SUBSET B
      BY <2>4
    <3>2. QED
      BY <1>3, <1>4, <2>3, <3>1, FS_Subset
  <2> HIDE DEF A, B
  <2>6. QED
    BY <1>2, <1>4, <1>5, <2>3, <2>5
<1>8. QED
  BY <1>4, <1>5, <1>6, <1>7

\* Bids in the order of the book, and asks.
Higher == {x \in Nat \X Nat : x[1] > x[2]}
Lower == {x \in Nat \X Nat : x[1] < x[2]}

LEMMA PricesOrdered == Ordered(Higher) /\ Ordered(Lower)
<1>1. \A p, q \in Nat : (<< p, q >> \in Higher <=> p > q) /\ (<< p, q >> \in Lower <=> p < q)
  BY DEF Higher, Lower
<1> HIDE DEF Higher, Lower
<1>2. Ordered(Higher)
  <2>1. \A p, q, r \in Nat : p > q /\ q > r => p > r
    OBVIOUS
  <2>2. \A p, q \in Nat : p = q \/ p > q \/ q > p
    OBVIOUS
  <2>3. \A p \in Nat : ~ (p > p)
    OBVIOUS
  <2>4. QED
    BY <1>1, <2>1, <2>2, <2>3 DEF Ordered
<1>3. Ordered(Lower)
  <2>1. \A p, q, r \in Nat : p < q /\ q < r => p < r
    OBVIOUS
  <2>2. \A p, q \in Nat : p = q \/ p < q \/ q < p
    OBVIOUS
  <2>3. \A p \in Nat : ~ (p < p)
    OBVIOUS
  <2>4. QED
    BY <1>1, <2>1, <2>2, <2>3 DEF Ordered
<1>4. QED
  BY <1>2, <1>3

LEMMA KeptIsShown ==
  ASSUME NEW side \in Sides
  PROVE  Shown(side, Higher, KeptBids(side)) /\ Shown(side, Lower, KeptAsks(side))
<1>1. DOMAIN side \subseteq Nat
  BY SideTypes
<1>2. ASSUME NEW q \in DOMAIN side
      PROVE  /\ {r \in DOMAIN side : r > q} = Ahead(side, Higher, q)
             /\ {r \in DOMAIN side : r < q} = Ahead(side, Lower, q)
  BY <1>1 DEF Ahead, Higher, Lower
<1>3. Shown(side, Higher, KeptBids(side))
  <2> DEFINE d == {q \in DOMAIN side : Cardinality({r \in DOMAIN side : r > q}) < MaxDepth}
  <2>1. d = {q \in DOMAIN side : Cardinality(Ahead(side, Higher, q)) < MaxDepth}
    BY <1>2
  <2>2. KeptBids(side) = [p \in d |-> side[p]]
    BY DEF KeptBids, Kept
  <2> HIDE DEF d
  <2>3. QED
    BY <2>1, <2>2 DEF Shown
<1>4. Shown(side, Lower, KeptAsks(side))
  <2> DEFINE d == {q \in DOMAIN side : Cardinality({r \in DOMAIN side : r < q}) < MaxDepth}
  <2>1. d = {q \in DOMAIN side : Cardinality(Ahead(side, Lower, q)) < MaxDepth}
    BY <1>2
  <2>2. KeptAsks(side) = [p \in d |-> side[p]]
    BY DEF KeptAsks, Kept
  <2> HIDE DEF d
  <2>3. QED
    BY <2>1, <2>2 DEF Shown
<1>5. QED
  BY <1>3, <1>4

\* Update j of the words W has something to say of price p, and k is its last word.
Names(W, j, p) == \E k \in 1 .. Len(W[j]) : W[j][k].price = p

LastSays(W, j, p, k) ==
  k \in 1 .. Len(W[j]) /\ W[j][k].price = p /\ LastNamed(W[j], Len(W[j]), k)

\* What a level shows is what an update said, which was no removal.
Told(shown, u) == u.quantity > 0 /\ shown = RoundQuantity(u.quantity)

\* A level shown is the last word of the newest of the updates ids that name it.
LevelTrue(book, W, ids, p) ==
  \E id \in ids : /\ \A j \in ids : Names(W, j, p) => j <= id
                  /\ \E k : LastSays(W, id, p, k) /\ Told(book[p], W[id][k])

\* A book full of levels better than p.
FullOfBetter(book, R, p) ==
  Cardinality(DOMAIN book) = MaxDepth /\ \A q \in DOMAIN book : << q, p >> \in R

\* A level of the newest update is left out only for as many better ones.
LevelMissed(book, W, R, id) ==
  \A p \in Nat \ DOMAIN book :
    (\E k : LastSays(W, id, p, k) /\ W[id][k].quantity > 0) => FullOfBetter(book, R, p)

SideFollows(book, W, R, ids, newest) ==
  /\ Cardinality(DOMAIN book) <= MaxDepth
  /\ \A p \in DOMAIN book : LevelTrue(book, W, ids, p)
  /\ ids # {} => LevelMissed(book, W, R, newest)

Words == [DOMAIN BookUpdates -> Seq(LevelUpdate)]

LEMMA SomeLastWord ==
  ASSUME NEW W \in Words, NEW j \in DOMAIN BookUpdates, NEW p, Names(W, j, p)
  PROVE  \E k : LastSays(W, j, p, k)
<1> DEFINE n == Len(W[j])
           I == {k \in 1 .. n : W[j][k].price = p}
<1>1. n \in Nat
  BY LenProperties DEF Words
<1>2. I \in SUBSET (1 .. n) /\ I # {}
  BY DEF Names
<1>3. Max(I) \in I /\ \A k \in I : k <= Max(I)
  BY <1>1, <1>2, MaxIn
<1> DEFINE k == Max(I)
<1> HIDE DEF k
<1>4. k \in 1 .. n /\ W[j][k].price = p /\ \A i \in I : i <= k
  BY <1>3 DEF k
<1>5. ASSUME NEW i \in k + 1 .. n PROVE W[j][i].price # W[j][k].price
  <2>1. i \in 1 .. n /\ ~ (i <= k)
    BY <1>1, <1>4
  <2>2. i \notin I
    BY <1>4, <2>1
  <2>3. QED
    BY <1>4, <2>1, <2>2
<1>6. QED
  BY <1>4, <1>5 DEF LastSays, LastNamed

\* Taking in a fresh update.
LEMMA SideStep ==
  ASSUME NEW W \in Words, NEW R, Ordered(R), NEW book \in Sides,
         NEW ids, ids \subseteq Nat, NEW newest, SideFollows(book, W, R, ids, newest),
         NEW id \in DOMAIN BookUpdates, \A j \in ids : j < id,
         NEW new, Shown(FoldLeft(LevelSet, book, W[id]), R, new)
  PROVE  new \in Sides /\ SideFollows(new, W, R, ids \union {id}, id)
<1> DEFINE seq == W[id]
           n == Len(seq)
           s == FoldLeft(LevelSet, book, seq)
<1>1. seq \in Seq(LevelUpdate) /\ id \in Nat
  BY BookAssumption DEF Words
<1>2. s \in Sides /\ LevelsOf(book, seq, n, s)
  BY <1>1, LevelsFold
<1> HIDE DEF s
<1>3. Shown(s, R, new)
  BY DEF s
<1>4. /\ IsFiniteSet(DOMAIN new) /\ Cardinality(DOMAIN new) <= MaxDepth
      /\ \A q \in DOMAIN s \ DOMAIN new : FullOfBetter(new, R, q)
  BY <1>2, <1>3, ShownIsBest DEF FullOfBetter
<1>5. DOMAIN new \subseteq DOMAIN s /\ \A p \in DOMAIN new : new[p] = s[p]
  BY <1>3 DEF Shown
<1>6. DOMAIN s \subseteq Nat /\ \A p \in DOMAIN s : s[p] \in Nat
  BY <1>2, SideTypes
<1>7. new \in Sides
  <2>1. \A p \in DOMAIN new : new[p] \in Nat
    BY <1>5, <1>6
  <2>2. new = [p \in DOMAIN new |-> new[p]]
    BY <1>3 DEF Shown
  <2>3. QED
    BY <1>4, <1>5, <1>6, <2>1, <2>2, SideTypes
<1>8. ASSUME NEW p \in DOMAIN new PROVE LevelTrue(new, W, ids \union {id}, p)
  <2>1. p \in DOMAIN s /\ p \in Nat /\ new[p] = s[p]
    BY <1>5, <1>6
  <2>2. CASE Names(W, id, p)
    <3>1. PICK k : LastSays(W, id, p, k)
      BY <2>2, SomeLastWord
    <3>2. Told(s[p], W[id][k])
      BY <1>2, <2>1, <3>1 DEF LevelsOf, LastSays, Told
    <3>3. \A j \in ids \union {id} : j <= id
      BY <1>1
    <3>4. QED
      BY <2>1, <3>1, <3>2, <3>3 DEF LevelTrue
  <2>3. CASE ~ Names(W, id, p)
    <3>1. p \in DOMAIN book /\ s[p] = book[p]
      BY <1>2, <2>1, <2>3 DEF LevelsOf, Names
    <3>2. LevelTrue(book, W, ids, p)
      BY <3>1 DEF SideFollows
    <3>3. PICK i \in ids : /\ \A j \in ids : Names(W, j, p) => j <= i
                           /\ \E k : LastSays(W, i, p, k) /\ Told(book[p], W[i][k])
      BY <3>2 DEF LevelTrue
    <3>4. \A j \in ids \union {id} : Names(W, j, p) => j <= i
      BY <2>3, <3>3
    <3>5. QED
      BY <2>1, <3>1, <3>3, <3>4 DEF LevelTrue
  <2>4. QED
    BY <2>2, <2>3
<1>9. LevelMissed(new, W, R, id)
  <2>1. ASSUME NEW p \in Nat \ DOMAIN new, NEW k, LastSays(W, id, p, k), W[id][k].quantity > 0
        PROVE  FullOfBetter(new, R, p)
    <3>1. p \in DOMAIN s
      BY <1>2, <2>1 DEF LevelsOf, LastSays
    <3>2. QED
      BY <1>4, <2>1, <3>1
  <2>2. QED
    BY <2>1 DEF LevelMissed
<1>10. QED
  BY <1>4, <1>7, <1>8, <1>9 DEF SideFollows

BidWords == [id \in DOMAIN BookUpdates |-> BookUpdates[id].bids]
AskWords == [id \in DOMAIN BookUpdates |-> BookUpdates[id].asks]

BookInv ==
  /\ bids \in Sides /\ asks \in Sides
  /\ lastUpdateId \in Nat
  /\ accepted \subseteq DOMAIN BookUpdates
  /\ \A j \in accepted : j <= lastUpdateId
  /\ accepted # {} => lastUpdateId \in accepted
  /\ SideFollows(bids, BidWords, Higher, accepted, lastUpdateId)
  /\ SideFollows(asks, AskWords, Lower, accepted, lastUpdateId)

LEMMA WordsTypes == BidWords \in Words /\ AskWords \in Words /\ DOMAIN BookUpdates \subseteq Nat
<1>1. ASSUME NEW id \in DOMAIN BookUpdates
      PROVE  BookUpdates[id].bids \in Seq(LevelUpdate) /\ BookUpdates[id].asks \in Seq(LevelUpdate)
  BY BookAssumption
<1>2. DOMAIN BookUpdates \subseteq Nat
  BY BookAssumption
<1>3. QED
  BY <1>1, <1>2 DEF BidWords, AskWords, Words

LEMMA BookStart == ASSUME BookInit PROVE BookInv
<1>1. bids = Empty /\ asks = Empty /\ lastUpdateId = 0 /\ accepted = {}
  BY DEF BookInit
<1>2. DOMAIN Empty = {} /\ Empty = [p \in {} |-> 0]
  BY DEF Empty
<1>3. Empty \in Sides
  <2>1. Empty \in [DOMAIN Empty -> Nat]
    BY <1>2
  <2>2. QED
    BY <1>2, <2>1, FS_EmptySet, SideTypes
<1>4. Cardinality({}) = 0 /\ 0 <= MaxDepth
  BY FS_EmptySet, BookAssumption
<1>5. \A W, R : SideFollows(Empty, W, R, {}, 0)
  BY <1>2, <1>4 DEF SideFollows
<1>6. QED
  BY <1>1, <1>3, <1>5 DEF BookInv

LEMMA BookStep ==
  ASSUME BookInv, [BookNext]_bookVars PROVE BookInv'
<1>1. CASE UNCHANGED bookVars
  BY <1>1 DEF bookVars, BookInv
<1>2. ASSUME NEW id \in DOMAIN BookUpdates, UpdateBook(id) PROVE BookInv'
  <2>1. /\ id > lastUpdateId
        /\ bids' = KeptBids(FoldLeft(LevelSet, bids, BidWords[id]))
        /\ asks' = KeptAsks(FoldLeft(LevelSet, asks, AskWords[id]))
        /\ lastUpdateId' = id /\ accepted' = accepted \union {id}
    BY <1>2 DEF UpdateBook, Fresh, BidWords, AskWords
  <2>2. /\ bids \in Sides /\ asks \in Sides
        /\ lastUpdateId \in Nat /\ accepted \subseteq DOMAIN BookUpdates
        /\ \A j \in accepted : j <= lastUpdateId
        /\ SideFollows(bids, BidWords, Higher, accepted, lastUpdateId)
        /\ SideFollows(asks, AskWords, Lower, accepted, lastUpdateId)
    BY DEF BookInv
  <2>3. BidWords \in Words /\ AskWords \in Words /\ id \in Nat /\ accepted \subseteq Nat
    BY <2>2, WordsTypes
  <2>4. \A j \in accepted : j < id /\ j <= id
    BY <2>1, <2>2, <2>3
  <2>5. Ordered(Higher) /\ Ordered(Lower)
    BY PricesOrdered
  <2>6. BidWords[id] \in Seq(LevelUpdate) /\ AskWords[id] \in Seq(LevelUpdate)
    BY <2>3 DEF Words
  <2>7. bids' \in Sides /\ SideFollows(bids', BidWords, Higher, accepted \union {id}, id)
    <3>1. FoldLeft(LevelSet, bids, BidWords[id]) \in Sides
      BY <2>2, <2>6, LevelsFold
    <3>2. Shown(FoldLeft(LevelSet, bids, BidWords[id]), Higher, bids')
      BY <2>1, <3>1, KeptIsShown
    <3>3. QED
      BY <2>2, <2>3, <2>4, <2>5, <3>2, SideStep
  <2>8. asks' \in Sides /\ SideFollows(asks', AskWords, Lower, accepted \union {id}, id)
    <3>1. FoldLeft(LevelSet, asks, AskWords[id]) \in Sides
      BY <2>2, <2>6, LevelsFold
    <3>2. Shown(FoldLeft(LevelSet, asks, AskWords[id]), Lower, asks')
      BY <2>1, <3>1, KeptIsShown
    <3>3. QED
      BY <2>2, <2>3, <2>4, <2>5, <3>2, SideStep
  <2>9. QED
    BY <2>1, <2>2, <2>3, <2>4, <2>7, <2>8 DEF BookInv
<1>3. QED
  BY <1>1, <1>2 DEF BookNext

\* The greatest of a set, and the place SelectLastInSeq finds.
LEMMA MaxIs ==
  ASSUME NEW S, S \subseteq Nat, NEW m \in S, \A y \in S : y <= m PROVE Max(S) = m
<1>1. \A y \in S : m >= y
  OBVIOUS
<1>2. Max(S) \in S /\ \A y \in S : Max(S) >= y
  BY <1>1 DEF Max
<1>3. Max(S) <= m /\ Max(S) >= m /\ Max(S) \in Nat /\ m \in Nat
  BY <1>2
<1>4. QED
  BY <1>3

LEMMA LastWordIs ==
  ASSUME NEW seq \in Seq(LevelUpdate), NEW k \in 1 .. Len(seq), NEW p, seq[k].price = p
  PROVE  LastWord(seq, p) = k <=> LastNamed(seq, Len(seq), k)
<1> DEFINE n == Len(seq)
           I == {i \in 1 .. n : seq[i].price = p}
<1>1. n \in Nat /\ I \subseteq Nat /\ k \in I /\ I \in SUBSET (1 .. n)
  BY LenProperties
<1>2. LastWord(seq, p) = Max(I)
  BY <1>1 DEF LastWord, SelectLastInSeq
<1>3. ASSUME LastNamed(seq, n, k) PROVE Max(I) = k
  <2>1. ASSUME NEW i \in I PROVE i <= k
    <3>1. i \notin k + 1 .. n
      BY <1>3, <2>1 DEF LastNamed
    <3>2. QED
      BY <1>1, <3>1
  <2> HIDE DEF I
  <2>2. QED
    BY <1>1, <2>1, MaxIs
<1>4. ASSUME Max(I) = k PROVE LastNamed(seq, n, k)
  <2>1. \A i \in I : i <= k
    <3> HIDE DEF I
    <3>1. QED
      BY <1>1, <1>4, MaxIn
  <2>2. ASSUME NEW j \in k + 1 .. n PROVE seq[j].price # p
    <3>1. j \in 1 .. n /\ ~ (j <= k)
      BY <1>1
    <3>2. j \notin I
      BY <2>1, <3>1
    <3>3. QED
      BY <3>1, <3>2
  <2>3. QED
    BY <2>2 DEF LastNamed
<1>5. QED
  BY <1>2, <1>3, <1>4

\* What holds of a side with the words W is what the property says of it.
NamedIn(W, p) == {id \in accepted : \E k \in DOMAIN W[id] : W[id][k].price = p}

LEMMA SideShown ==
  ASSUME BookInv, NEW W \in Words, NEW book, NEW R, SideFollows(book, W, R, accepted, lastUpdateId),
         book \in Sides
  PROVE  /\ Cardinality(DOMAIN book) <= MaxDepth
         /\ \A p \in DOMAIN book :
              LET id == Max(NamedIn(W, p))
              IN  /\ NamedIn(W, p) # {} /\ id \in accepted
                  /\ Told(book[p], W[id][LastWord(W[id], p)])
         /\ accepted # {} => \A k \in DOMAIN W[lastUpdateId] :
              LET u == W[lastUpdateId][k] IN
              /\ u.quantity > 0
              /\ LastWord(W[lastUpdateId], u.price) = k
              /\ u.price \notin DOMAIN book
              => FullOfBetter(book, R, u.price)
<1>1. accepted \subseteq DOMAIN BookUpdates /\ DOMAIN BookUpdates \subseteq Nat
      /\ (accepted # {} => lastUpdateId \in accepted)
  BY WordsTypes DEF BookInv
<1>2. \A id \in DOMAIN BookUpdates : W[id] \in Seq(LevelUpdate) /\ DOMAIN W[id] = 1 .. Len(W[id])
  BY LenProperties DEF Words
<1>3. ASSUME NEW p \in DOMAIN book
      PROVE  LET id == Max(NamedIn(W, p))
             IN  /\ NamedIn(W, p) # {} /\ id \in accepted
                 /\ Told(book[p], W[id][LastWord(W[id], p)])
  <2> DEFINE ids == NamedIn(W, p)
  <2>1. PICK i \in accepted : /\ \A j \in accepted : Names(W, j, p) => j <= i
                              /\ \E k : LastSays(W, i, p, k) /\ Told(book[p], W[i][k])
    BY DEF SideFollows, LevelTrue
  <2>2. PICK k : LastSays(W, i, p, k) /\ Told(book[p], W[i][k])
    BY <2>1
  <2>3. k \in 1 .. Len(W[i]) /\ W[i][k].price = p /\ LastNamed(W[i], Len(W[i]), k)
    BY <2>2 DEF LastSays
  <2>4. i \in ids /\ ids \subseteq Nat
    BY <1>1, <1>2, <2>3 DEF NamedIn
  <2>5. \A j \in ids : j <= i
    BY <1>1, <1>2, <2>1 DEF Names, NamedIn
  <2> HIDE DEF ids
  <2>6. Max(ids) = i
    BY <2>4, <2>5, MaxIs
  <2>7. LastWord(W[i], p) = k
    BY <1>1, <1>2, <2>3, LastWordIs
  <2>8. QED
    BY <2>2, <2>4, <2>6, <2>7 DEF ids
<1>4. ASSUME accepted # {}, NEW k \in DOMAIN W[lastUpdateId], W[lastUpdateId][k].quantity > 0,
             LastWord(W[lastUpdateId], W[lastUpdateId][k].price) = k,
             W[lastUpdateId][k].price \notin DOMAIN book
      PROVE  FullOfBetter(book, R, W[lastUpdateId][k].price)
  <2> DEFINE seq == W[lastUpdateId]
             q == seq[k].price
  <2>1. seq \in Seq(LevelUpdate) /\ k \in 1 .. Len(seq)
    BY <1>1, <1>2, <1>4
  <2>2. seq[k] \in LevelUpdate
    BY <2>1, ElementOfSeq
  <2>3. q \in Nat
    BY <2>2 DEF LevelUpdate
  <2>4. LastWord(seq, q) = k
    BY <1>4
  <2> HIDE DEF seq
  <2>5. LastNamed(seq, Len(seq), k)
    BY <2>1, <2>4, LastWordIs
  <2>6. LastSays(W, lastUpdateId, q, k)
    BY <2>1, <2>5 DEF LastSays, seq
  <2>7. LevelMissed(book, W, R, lastUpdateId)
    BY <1>4 DEF SideFollows
  <2>8. QED
    BY <1>4, <2>3, <2>6, <2>7 DEF LevelMissed, seq
<1>5. QED
  BY <1>3, <1>4 DEF SideFollows

LEMMA BookInvFollows == ASSUME BookInv PROVE BookFollowsFeed
<1>1. /\ BidWords \in Words /\ AskWords \in Words /\ bids \in Sides /\ asks \in Sides
      /\ SideFollows(bids, BidWords, Higher, accepted, lastUpdateId)
      /\ SideFollows(asks, AskWords, Lower, accepted, lastUpdateId)
  BY WordsTypes DEF BookInv
<1>2. accepted \subseteq DOMAIN BookUpdates /\ (accepted # {} => lastUpdateId \in DOMAIN BookUpdates)
  BY DEF BookInv
<1>3. \A id \in DOMAIN BookUpdates : BidWords[id] = BookUpdates[id].bids /\ AskWords[id] = BookUpdates[id].asks
  BY DEF BidWords, AskWords
<1>4. Shows(bids, LAMBDA id : BookUpdates[id].bids, LAMBDA r, q : r > q)
  <2>1. \A p : Naming(LAMBDA id : BookUpdates[id].bids, p) = NamedIn(BidWords, p)
    BY <1>2, <1>3 DEF Naming, NamedIn
  <2>2. /\ Cardinality(DOMAIN bids) <= MaxDepth
        /\ \A p \in DOMAIN bids :
             LET id == Max(NamedIn(BidWords, p))
             IN  /\ NamedIn(BidWords, p) # {} /\ id \in accepted
                 /\ Told(bids[p], BidWords[id][LastWord(BidWords[id], p)])
        /\ accepted # {} => \A k \in DOMAIN BidWords[lastUpdateId] :
             LET u == BidWords[lastUpdateId][k] IN
             /\ u.quantity > 0
             /\ LastWord(BidWords[lastUpdateId], u.price) = k
             /\ u.price \notin DOMAIN bids
             => FullOfBetter(bids, Higher, u.price)
    BY <1>1, SideShown
  <2>3. ASSUME NEW p \in DOMAIN bids
        PROVE  LET ids == Naming(LAMBDA id : BookUpdates[id].bids, p)
                   id == Max(ids)
               IN  ids # {} /\ Told(bids[p], BookUpdates[id].bids[LastWord(BookUpdates[id].bids, p)])
    <3> DEFINE id == Max(NamedIn(BidWords, p))
    <3>1. NamedIn(BidWords, p) # {} /\ id \in accepted /\ Told(bids[p], BidWords[id][LastWord(BidWords[id], p)])
      BY <2>2
    <3>2. BidWords[id] = BookUpdates[id].bids
      BY <1>2, <1>3, <3>1
    <3>3. QED
      BY <2>1, <3>1, <3>2
  <2>4. \A p, q : << p, q >> \in Higher => p > q
    BY DEF Higher
  <2>5. QED
    BY <1>2, <1>3, <2>2, <2>3, <2>4 DEF Shows, FullOfBetter, Told
<1>5. Shows(asks, LAMBDA id : BookUpdates[id].asks, LAMBDA r, q : r < q)
  <2>1. \A p : Naming(LAMBDA id : BookUpdates[id].asks, p) = NamedIn(AskWords, p)
    BY <1>2, <1>3 DEF Naming, NamedIn
  <2>2. /\ Cardinality(DOMAIN asks) <= MaxDepth
        /\ \A p \in DOMAIN asks :
             LET id == Max(NamedIn(AskWords, p))
             IN  /\ NamedIn(AskWords, p) # {} /\ id \in accepted
                 /\ Told(asks[p], AskWords[id][LastWord(AskWords[id], p)])
        /\ accepted # {} => \A k \in DOMAIN AskWords[lastUpdateId] :
             LET u == AskWords[lastUpdateId][k] IN
             /\ u.quantity > 0
             /\ LastWord(AskWords[lastUpdateId], u.price) = k
             /\ u.price \notin DOMAIN asks
             => FullOfBetter(asks, Lower, u.price)
    BY <1>1, SideShown
  <2>3. ASSUME NEW p \in DOMAIN asks
        PROVE  LET ids == Naming(LAMBDA id : BookUpdates[id].asks, p)
                   id == Max(ids)
               IN  ids # {} /\ Told(asks[p], BookUpdates[id].asks[LastWord(BookUpdates[id].asks, p)])
    <3> DEFINE id == Max(NamedIn(AskWords, p))
    <3>1. NamedIn(AskWords, p) # {} /\ id \in accepted /\ Told(asks[p], AskWords[id][LastWord(AskWords[id], p)])
      BY <2>2
    <3>2. AskWords[id] = BookUpdates[id].asks
      BY <1>2, <1>3, <3>1
    <3>3. QED
      BY <2>1, <3>1, <3>2
  <2>4. \A p, q : << p, q >> \in Lower => p < q
    BY DEF Lower
  <2>5. QED
    BY <1>2, <1>3, <2>2, <2>3, <2>4 DEF Shows, FullOfBetter, Told
<1>6. QED
  BY <1>4, <1>5 DEF BookFollowsFeed

-----------------------------------------------------------------------------
(* Connections and their metrics *)

\* Counting modulo the width of the counter.
LEMMA ModIs ==
  ASSUME NEW W \in Nat, W > 0, NEW x \in Int, NEW q \in Int, NEW r \in 0 .. W - 1, x = W * q + r
  PROVE  x % W = r
<1>1. x = W * (x \div W) + (x % W) /\ x % W \in 0 .. W - 1 /\ x \div W \in Int
  OBVIOUS
<1> DEFINE d == x \div W
           a == x % W
<1>2. W * (q - d) = a - r /\ q - d \in Int /\ a - r < W /\ r - a < W
  <2> HIDE DEF d, a
  <2>1. W * (q - d) = W * q - W * d
    BY <1>1 DEF d
  <2>2. QED
    BY <1>1, <2>1 DEF a, d
<1> HIDE DEF d, a
<1>3. q - d = 0
  <2> DEFINE e == q - d
  <2>1. e \in Int /\ W * e < W /\ W * e > 0 - W
    BY <1>1, <1>2 DEF a
  <2> HIDE DEF e
  <2>2. ~ (e >= 1)
    <3>1. e >= 1 => W * e >= W
      BY <2>1
    <3>2. QED
      BY <2>1, <3>1
  <2>3. ~ (e <= 0 - 1)
    <3>1. e <= 0 - 1 => W * e <= 0 - W
      BY <2>1
    <3>2. QED
      BY <2>1, <3>1
  <2>4. QED
    BY <2>1, <2>2, <2>3 DEF e
<1>4. a = r
  BY <1>1, <1>2, <1>3 DEF a
<1>5. QED
  BY <1>4 DEF a

LEMMA ModSteps ==
  ASSUME NEW W \in Nat, W > 0, NEW x \in Int
  PROVE  /\ x % W \in 0 .. W - 1
         /\ ((x % W) + 1) % W = (x + 1) % W
         /\ ((x % W) - 1) % W = (x - 1) % W
<1> DEFINE d == x \div W
           a == x % W
<1>1. x = W * d + a /\ a \in 0 .. W - 1 /\ d \in Int
  OBVIOUS
<1> HIDE DEF d, a
<1>2. W * (d + 1) = W * d + W /\ W * (d - 1) = W * d - W /\ W * d \in Int /\ W * 1 = W /\ W * 0 = 0
      /\ W * (0 - 1) = 0 - W
  BY <1>1
<1>3. (a + 1) % W = (x + 1) % W
  <2>1. CASE a + 1 < W
    <3>1. (x + 1) % W = a + 1
      BY <1>1, <1>2, <2>1, ModIs
    <3>2. (a + 1) % W = a + 1
      BY <1>1, <1>2, <2>1, ModIs
    <3>3. QED
      BY <3>1, <3>2
  <2>2. CASE a + 1 = W
    <3>1. x + 1 = W * (d + 1) + 0 /\ d + 1 \in Int /\ x + 1 \in Int /\ 0 \in 0 .. W - 1
      BY <1>1, <1>2, <2>2
    <3>2. (x + 1) % W = 0
      BY <3>1, ModIs
    <3>3. W = W * 1 + 0
      BY <1>2
    <3>4. W % W = 0
      BY <3>1, <3>3, ModIs
    <3>5. QED
      BY <2>2, <3>2, <3>4
  <2>3. QED
    BY <1>1, <2>1, <2>2
<1>4. (a - 1) % W = (x - 1) % W
  <2>1. CASE a > 0
    <3>1. (x - 1) % W = a - 1
      BY <1>1, <1>2, <2>1, ModIs
    <3>2. (a - 1) % W = a - 1
      BY <1>1, <1>2, <2>1, ModIs
    <3>3. QED
      BY <3>1, <3>2
  <2>2. CASE a = 0
    <3>1. x - 1 = W * (d - 1) + (W - 1) /\ d - 1 \in Int /\ x - 1 \in Int /\ W - 1 \in 0 .. W - 1
      BY <1>1, <1>2, <2>2
    <3>2. (x - 1) % W = W - 1
      BY <3>1, ModIs
    <3>3. 0 - 1 = W * (0 - 1) + (W - 1)
      BY <1>2
    <3>4. (0 - 1) % W = W - 1
      BY <3>1, <3>3, ModIs
    <3>5. QED
      BY <2>2, <3>2, <3>4
  <2>3. QED
    BY <1>1, <2>1, <2>2
<1>5. QED
  BY <1>1, <1>3, <1>4 DEF a

LinksTypeOK ==
  /\ stage \in [Ids -> {"unknown", "created", "inserted", "counted"}]
  /\ links \subseteq Ids
  /\ messages \in [Ids -> Nat]
  /\ removing \in [Removers -> Ids \union {Nothing}]
  /\ metrics \in [active : 0 .. CounterWrap - 1, peak : Nat, total : Nat, messages : Nat]

\* A connection is in the map, taken out by one task, or neither; it has been sent
\* nothing before it is put in.
LinksApart ==
  /\ \A r \in Removers : removing[r] \notin links
  /\ \A r, s \in Removers : removing[r] = removing[s] => r = s \/ removing[r] = Nothing
  /\ \A i \in Ids : stage[i] \in {"unknown", "created"} =>
       messages[i] = 0 /\ i \notin links /\ i \notin BeingRemoved

LinksInv == LinksTypeOK /\ LinksApart /\ MetricsAccount

\* The sets the metrics are about.
LEMMA LinkSets ==
  ASSUME LinksTypeOK
  PROVE  /\ BeingRemoved \subseteq Ids /\ Uncounted \subseteq Ids
         /\ IsFiniteSet(links) /\ Cardinality(links) \in Nat
         /\ IsFiniteSet(BeingRemoved) /\ Cardinality(BeingRemoved) \in Nat
         /\ IsFiniteSet(Uncounted) /\ Cardinality(Uncounted) \in Nat
<1>1. IsFiniteSet(Ids)
  BY LinksAssumption
<1>2. BeingRemoved \subseteq Ids /\ Uncounted \subseteq Ids /\ links \subseteq Ids
  BY DEF LinksTypeOK, BeingRemoved, Uncounted
<1>3. \A S \in SUBSET Ids : IsFiniteSet(S) /\ Cardinality(S) \in Nat
  BY <1>1, FS_Subset, FS_CardinalityType
<1>4. QED
  BY <1>2, <1>3

Gone == Ids \ (links \union BeingRemoved)

\* The metrics after a step, from what it did to the sets and to the counters.
LEMMA AccountFollows ==
  ASSUME LinksInv, LinksTypeOK', NEW d \in {0 - 1, 0, 1},
         Cardinality(links') + Cardinality(BeingRemoved') - Cardinality(Uncounted') =
           Cardinality(links) + Cardinality(BeingRemoved) - Cardinality(Uncounted) + d,
         metrics'.active = IF d = 0 THEN metrics.active ELSE (metrics.active + d) % CounterWrap,
         metrics'.messages = SumFunctionOnSet(messages', Gone')
  PROVE  MetricsAccount'
<1> DEFINE x == Cardinality(links) + Cardinality(BeingRemoved) - Cardinality(Uncounted)
<1>1. x \in Int /\ CounterWrap \in Nat /\ CounterWrap > 0
  BY LinkSets, LinksAssumption DEF LinksInv
<1>2. metrics.active = x % CounterWrap
  BY DEF LinksInv, MetricsAccount
<1> HIDE DEF x
<1>3. metrics'.active = (x + d) % CounterWrap
  <2>1. ((x % CounterWrap) + 1) % CounterWrap = (x + 1) % CounterWrap
        /\ ((x % CounterWrap) - 1) % CounterWrap = (x - 1) % CounterWrap
    BY <1>1, ModSteps
  <2>2. CASE d = 0
    BY <1>1, <1>2, <2>2
  <2>3. CASE d = 1
    BY <1>2, <2>1, <2>3
  <2>4. CASE d = 0 - 1
    <3>1. metrics.active + d = metrics.active - 1 /\ x + d = x - 1
      BY <1>1, <1>2, <2>4
    <3>2. QED
      BY <1>2, <2>1, <2>4, <3>1
  <2>5. QED
    BY <2>2, <2>3, <2>4
<1>4. QED
  BY <1>3 DEF MetricsAccount, Gone, x

LEMMA TakenStep ==
  ASSUME LinksInv, NEW r \in Removers, NEW i \in Ids, removing[r] = Nothing, Taken(r, i),
         stage' = stage, messages' = messages, metrics' = metrics
  PROVE  LinksInv'
<1>1. LinksTypeOK /\ LinksApart /\ MetricsAccount /\ Nothing \notin Ids
  BY LinksAssumption DEF LinksInv
<1>2. CASE i \in links
  <2>1. links' = links \ {i} /\ removing' = [removing EXCEPT ![r] = i]
    BY <1>2 DEF Taken
  <2>2. LinksTypeOK'
    BY <1>1, <2>1 DEF LinksTypeOK
  <2>3. i \notin BeingRemoved /\ BeingRemoved' = BeingRemoved \union {i}
    <3>1. \A s \in Removers : removing'[s] = IF s = r THEN i ELSE removing[s]
      BY <1>1, <2>1 DEF LinksTypeOK
    <3>2. i \notin BeingRemoved
      BY <1>1, <1>2 DEF LinksApart, BeingRemoved
    <3>3. QED
      BY <1>1, <3>1, <3>2 DEF BeingRemoved
  <2>4. LinksApart'
    <3>1. \A s \in Removers : removing'[s] = IF s = r THEN i ELSE removing[s]
      BY <1>1, <2>1 DEF LinksTypeOK
    <3>2. \A s \in Removers : removing[s] # i
      BY <1>1, <1>2 DEF LinksApart
    <3>3. \A s \in Removers : removing'[s] \notin links'
      BY <1>1, <2>1, <3>1 DEF LinksApart
    <3>4. \A s, t \in Removers : removing'[s] = removing'[t] => s = t \/ removing'[s] = Nothing
      BY <1>1, <3>1, <3>2 DEF LinksApart
    <3>5. \A j \in Ids : stage[j] \in {"unknown", "created"} =>
            messages[j] = 0 /\ j \notin links' /\ j \notin BeingRemoved'
      BY <1>1, <1>2, <2>1, <2>3 DEF LinksApart
    <3>6. QED
      BY <3>3, <3>4, <3>5 DEF LinksApart
  <2>5. MetricsAccount'
    <3>1. Cardinality(links') = Cardinality(links) - 1
      BY <1>1, <1>2, <2>1, LinkSets, FS_RemoveElement
    <3>2. Cardinality(BeingRemoved') = Cardinality(BeingRemoved) + 1
      BY <1>1, <2>3, LinkSets, FS_AddElement
    <3>3. Cardinality(Uncounted') = Cardinality(Uncounted)
      BY DEF Uncounted
    <3>4. Gone' = Gone
      BY <1>2, <2>1, <2>3 DEF Gone
    <3>5. metrics'.messages = SumFunctionOnSet(messages', Gone')
      BY <1>1, <3>4 DEF MetricsAccount, Gone
    <3>6. Cardinality(links') + Cardinality(BeingRemoved') - Cardinality(Uncounted') =
            Cardinality(links) + Cardinality(BeingRemoved) - Cardinality(Uncounted) + 0
      BY <1>1, <3>1, <3>2, <3>3, LinkSets
    <3>7. QED
      BY <2>2, <3>5, <3>6, AccountFollows
  <2>6. QED
    BY <2>2, <2>4, <2>5 DEF LinksInv
<1>3. CASE i \notin links
  <2>1. links' = links /\ removing' = removing
    BY <1>3 DEF Taken
  <2>2. QED
    BY <2>1 DEF LinksInv, LinksTypeOK, LinksApart, MetricsAccount, BeingRemoved, Uncounted
<1>4. QED
  BY <1>2, <1>3

LEMMA LinksStep ==
  ASSUME LinksInv, [LinksNext]_linkVars PROVE LinksInv'
<1>1. LinksTypeOK /\ LinksApart /\ MetricsAccount /\ Nothing \notin Ids /\ IsFiniteSet(Ids)
  BY LinksAssumption DEF LinksInv
<1>2. \A S \in SUBSET Ids : IsFiniteSet(S) /\ \A i \in S : messages[i] \in Int
  <2>1. \A i \in Ids : messages[i] \in Nat
    BY <1>1 DEF LinksTypeOK
  <2>2. QED
    BY <1>1, <2>1, FS_Subset
<1>3. metrics.messages = SumFunctionOnSet(messages, Gone) /\ Gone \in SUBSET Ids
  BY <1>1 DEF MetricsAccount, Gone
<1>4. ASSUME UNCHANGED << stage, links, messages, removing, metrics >> PROVE LinksInv'
  BY <1>4 DEF LinksInv, LinksTypeOK, LinksApart, MetricsAccount, BeingRemoved, Uncounted
<1>5. ASSUME NEW i \in Ids, Create(i) PROVE LinksInv'
  <2>1. /\ stage[i] = "unknown" /\ stage' = [stage EXCEPT ![i] = "created"]
        /\ links' = links /\ messages' = messages /\ removing' = removing /\ metrics' = metrics
    BY <1>5 DEF Create
  <2>2. \A j \in Ids : stage'[j] = IF j = i THEN "created" ELSE stage[j]
    BY <1>1, <2>1 DEF LinksTypeOK
  <2>3. Uncounted' = Uncounted /\ BeingRemoved' = BeingRemoved
    BY <2>1, <2>2 DEF Uncounted, BeingRemoved
  <2>4. LinksTypeOK'
    BY <1>1, <2>1 DEF LinksTypeOK
  <2>5. LinksApart'
    BY <1>1, <2>1, <2>2, <2>3 DEF LinksApart
  <2>6. QED
    BY <1>1, <2>1, <2>3, <2>4, <2>5 DEF LinksInv, MetricsAccount
<1>6. ASSUME NEW i \in Ids, Insert(i) PROVE LinksInv'
  <2>1. /\ stage[i] = "created" /\ stage' = [stage EXCEPT ![i] = "inserted"]
        /\ links' = links \union {i} /\ messages' = messages /\ removing' = removing /\ metrics' = metrics
    BY <1>6 DEF Insert
  <2>2. \A j \in Ids : stage'[j] = IF j = i THEN "inserted" ELSE stage[j]
    BY <1>1, <2>1 DEF LinksTypeOK
  <2>3. messages[i] = 0 /\ i \notin links /\ i \notin BeingRemoved
    BY <1>1, <2>1 DEF LinksApart
  <2>4. i \notin Uncounted /\ Uncounted' = Uncounted \union {i} /\ BeingRemoved' = BeingRemoved
    BY <2>1, <2>2 DEF Uncounted, BeingRemoved
  <2>5. LinksTypeOK'
    BY <1>1, <2>1 DEF LinksTypeOK
  <2>6. LinksApart'
    <3>1. \A r \in Removers : removing[r] # i
      BY <1>1, <2>3 DEF BeingRemoved
    <3>2. QED
      BY <1>1, <2>1, <2>2, <2>4, <3>1 DEF LinksApart
  <2>7. Cardinality(links') + Cardinality(BeingRemoved') - Cardinality(Uncounted') =
          Cardinality(links) + Cardinality(BeingRemoved) - Cardinality(Uncounted) + 0
    <3>1. Cardinality(links') = Cardinality(links) + 1
      BY <1>1, <2>1, <2>3, LinkSets, FS_AddElement
    <3>2. Cardinality(Uncounted') = Cardinality(Uncounted) + 1
      BY <1>1, <2>4, LinkSets, FS_AddElement
    <3>3. QED
      BY <1>1, <2>4, <3>1, <3>2, LinkSets
  <2>8. SumFunctionOnSet(messages', Gone') = SumFunctionOnSet(messages, Gone)
    <3>1. i \in Gone /\ Gone' = Gone \ {i}
      BY <2>1, <2>3, <2>4 DEF Gone
    <3>2. IsFiniteSet(Gone) /\ \A j \in Gone : messages[j] \in Int
      BY <1>2, <1>3
    <3>3. SumFunctionOnSet(messages, Gone) = messages[i] + SumFunctionOnSet(messages, Gone \ {i})
      BY <3>1, <3>2, SumRemove
    <3>4. SumFunctionOnSet(messages, Gone \ {i}) \in Int
      BY <1>2, <1>3, SumType
    <3>5. QED
      BY <2>1, <2>3, <3>1, <3>3, <3>4
  <2>9. MetricsAccount'
    BY <1>3, <2>1, <2>5, <2>7, <2>8, AccountFollows
  <2>10. QED
    BY <2>5, <2>6, <2>9 DEF LinksInv
<1>7. ASSUME NEW i \in Ids, Count(i) PROVE LinksInv'
  <2> DEFINE active == (metrics.active + 1) % CounterWrap
  <2>1. /\ stage[i] = "inserted" /\ stage' = [stage EXCEPT ![i] = "counted"]
        /\ links' = links /\ messages' = messages /\ removing' = removing
        /\ metrics' = [metrics EXCEPT !.active = active, !.total = @ + 1,
                                      !.peak = IF active > @ THEN active ELSE @]
    BY <1>7 DEF Count
  <2>2. \A j \in Ids : stage'[j] = IF j = i THEN "counted" ELSE stage[j]
    BY <1>1, <2>1 DEF LinksTypeOK
  <2>3. i \in Uncounted /\ Uncounted' = Uncounted \ {i} /\ BeingRemoved' = BeingRemoved
    BY <2>1, <2>2 DEF Uncounted, BeingRemoved
  <2>4. active \in 0 .. CounterWrap - 1 /\ active \in Nat
    <3>1. CounterWrap \in Nat /\ CounterWrap > 0 /\ metrics.active + 1 \in Int
      BY <1>1, LinksAssumption DEF LinksTypeOK
    <3>2. QED
      BY <3>1, ModSteps
  <2> HIDE DEF active
  <2>5. LinksTypeOK' /\ metrics'.active = active /\ metrics'.messages = metrics.messages
    <3>1. metrics \in [active : 0 .. CounterWrap - 1, peak : Nat, total : Nat, messages : Nat]
      BY <1>1 DEF LinksTypeOK
    <3>2. metrics.total + 1 \in Nat /\ (IF active > metrics.peak THEN active ELSE metrics.peak) \in Nat
      BY <2>4, <3>1
    <3>3. metrics' \in [active : 0 .. CounterWrap - 1, peak : Nat, total : Nat, messages : Nat]
      BY <2>1, <2>4, <3>1, <3>2
    <3>4. metrics'.active = active /\ metrics'.messages = metrics.messages
      BY <2>1, <3>1
    <3>5. QED
      BY <1>1, <2>1, <3>3, <3>4 DEF LinksTypeOK
  <2>6. LinksApart'
    BY <1>1, <2>1, <2>2, <2>3 DEF LinksApart
  <2>7. Cardinality(links') + Cardinality(BeingRemoved') - Cardinality(Uncounted') =
          Cardinality(links) + Cardinality(BeingRemoved) - Cardinality(Uncounted) + 1
    <3>1. Cardinality(Uncounted') = Cardinality(Uncounted) - 1
      BY <1>1, <2>3, LinkSets, FS_RemoveElement
    <3>2. QED
      BY <1>1, <2>1, <2>3, <3>1, LinkSets
  <2>8. Gone' = Gone
    BY <2>1, <2>3 DEF Gone
  <2>9. MetricsAccount'
    BY <1>3, <2>1, <2>5, <2>7, <2>8, AccountFollows DEF active
  <2>10. QED
    BY <2>5, <2>6, <2>9 DEF LinksInv
<1>8. ASSUME NEW i \in Ids, Send(i) PROVE LinksInv'
  <2>1. /\ i \in links /\ messages' = [messages EXCEPT ![i] = @ + 1]
        /\ stage' = stage /\ links' = links /\ removing' = removing /\ metrics' = metrics
    BY <1>8 DEF Send
  <2>2. \A j \in Ids : messages'[j] = IF j = i THEN messages[i] + 1 ELSE messages[j]
    BY <1>1, <2>1 DEF LinksTypeOK
  <2>3. LinksTypeOK'
    BY <1>1, <2>1 DEF LinksTypeOK
  <2>4. Uncounted' = Uncounted /\ BeingRemoved' = BeingRemoved
    BY <2>1 DEF Uncounted, BeingRemoved
  <2>5. LinksApart'
    BY <1>1, <2>1, <2>2, <2>4 DEF LinksApart
  <2>6. SumFunctionOnSet(messages', Gone') = SumFunctionOnSet(messages, Gone)
    <3>1. Gone' = Gone /\ i \notin Gone
      BY <2>1, <2>4 DEF Gone
    <3>2. IsFiniteSet(Gone) /\ \A j \in Gone : messages[j] \in Int /\ messages'[j] = messages[j]
      BY <1>2, <1>3, <2>2, <3>1
    <3>3. SumFunctionOnSet(messages', Gone) = SumFunctionOnSet(messages, Gone)
      BY <3>2, SumAgree
    <3>4. QED
      BY <3>1, <3>3
  <2>7. MetricsAccount'
    <3>1. metrics'.messages = SumFunctionOnSet(messages', Gone')
      BY <1>3, <2>1, <2>6
    <3>2. QED
      BY <1>1, <2>1, <2>4, <3>1 DEF MetricsAccount, Gone
  <2>8. QED
    BY <2>3, <2>5, <2>7 DEF LinksInv
<1>9. ASSUME NEW r \in Removers, Settle(r) PROVE LinksInv'
  <2> DEFINE i == removing[r]
  <2>1. /\ i # Nothing /\ removing' = [removing EXCEPT ![r] = Nothing]
        /\ metrics' = [metrics EXCEPT !.active = (@ - 1) % CounterWrap, !.messages = @ + messages[i]]
        /\ stage' = stage /\ links' = links /\ messages' = messages
    BY <1>9 DEF Settle
  <2>2. i \in Ids /\ \A s \in Removers : removing'[s] = IF s = r THEN Nothing ELSE removing[s]
    BY <1>1, <2>1 DEF LinksTypeOK
  <2>3. i \in BeingRemoved /\ BeingRemoved' = BeingRemoved \ {i}
    <3>1. \A s \in Removers : removing[s] = i => s = r
      BY <1>1, <2>1 DEF LinksApart
    <3>2. QED
      BY <2>1, <2>2, <3>1 DEF BeingRemoved
  <2>4. i \notin links
    BY <1>1 DEF LinksApart
  <2>5. LinksTypeOK' /\ metrics'.active = (metrics.active - 1) % CounterWrap
        /\ metrics'.messages = metrics.messages + messages[i]
    <3>1. (metrics.active - 1) % CounterWrap \in 0 .. CounterWrap - 1
      <4>1. CounterWrap \in Nat /\ CounterWrap > 0 /\ metrics.active - 1 \in Int
        BY <1>1, LinksAssumption DEF LinksTypeOK
      <4>2. QED
        BY <4>1, ModSteps
    <3>2. metrics.messages \in Nat /\ messages[i] \in Nat
      BY <1>1, <2>2 DEF LinksTypeOK
    <3>3. metrics \in [active : 0 .. CounterWrap - 1, peak : Nat, total : Nat, messages : Nat] /\ metrics.messages + messages[i] \in Nat
      BY <1>1, <3>2 DEF LinksTypeOK
    <3> DEFINE m == metrics.messages + messages[i]
               a == (metrics.active - 1) % CounterWrap
    <3>4. metrics' = [metrics EXCEPT !.active = a, !.messages = m]
      BY <2>1
    <3> HIDE DEF i, a, m
    <3>5. metrics' \in [active : 0 .. CounterWrap - 1, peak : Nat, total : Nat, messages : Nat] /\ metrics'.active = a /\ metrics'.messages = m
      BY <3>1, <3>3, <3>4 DEF a, m
    <3>6. removing' \in [Removers -> Ids \union {Nothing}]
      BY <1>1, <2>1 DEF LinksTypeOK
    <3>7. QED
      BY <1>1, <2>1, <3>5, <3>6 DEF LinksTypeOK, a, m
  <2> HIDE DEF i
  <2>6. LinksApart'
    <3>1. \A s \in Removers : removing'[s] \notin links'
      BY <1>1, <2>1, <2>2 DEF LinksApart, LinksTypeOK
    <3>2. QED
      BY <1>1, <2>1, <2>2, <2>3, <3>1 DEF LinksApart
  <2>7. Cardinality(links') + Cardinality(BeingRemoved') - Cardinality(Uncounted') =
          Cardinality(links) + Cardinality(BeingRemoved) - Cardinality(Uncounted) + (0 - 1)
    <3>1. Cardinality(BeingRemoved') = Cardinality(BeingRemoved) - 1
      BY <1>1, <2>3, LinkSets, FS_RemoveElement
    <3>2. Uncounted' = Uncounted
      BY <2>1 DEF Uncounted
    <3>3. QED
      BY <1>1, <2>1, <3>1, <3>2, LinkSets
  <2>8. metrics'.messages = SumFunctionOnSet(messages', Gone')
    <3>1. i \notin Gone /\ Gone' = Gone \union {i} /\ (Gone \union {i}) \ {i} = Gone
      BY <2>1, <2>2, <2>3, <2>4 DEF Gone
    <3>2. Gone \union {i} \in SUBSET Ids
      BY <1>3, <2>2
    <3>3. IsFiniteSet(Gone \union {i}) /\ \A j \in Gone \union {i} : messages[j] \in Int
      BY <1>2, <3>2
    <3>4. SumFunctionOnSet(messages, Gone \union {i})
            = messages[i] + SumFunctionOnSet(messages, (Gone \union {i}) \ {i})
      BY <3>3, SumRemove
    <3>5. SumFunctionOnSet(messages, Gone) \in Int /\ messages[i] \in Int
      BY <1>2, <1>3, <3>3, SumType
    <3>6. SumFunctionOnSet(messages', Gone') = messages[i] + SumFunctionOnSet(messages, Gone)
      BY <2>1, <3>1, <3>4
    <3>7. metrics'.messages = SumFunctionOnSet(messages, Gone) + messages[i]
      BY <1>3, <2>5
    <3> DEFINE a == SumFunctionOnSet(messages, Gone)
               b == messages[i]
    <3>8. a \in Int /\ b \in Int => a + b = b + a
      OBVIOUS
    <3>9. QED
      BY <3>5, <3>6, <3>7, <3>8
  <2>9. MetricsAccount'
    <3>1. (metrics.active + (0 - 1)) % CounterWrap = (metrics.active - 1) % CounterWrap
      <4>1. metrics.active + (0 - 1) = metrics.active - 1
        BY <1>1 DEF LinksTypeOK
      <4>2. QED
        BY <4>1
    <3>2. QED
      BY <2>5, <2>7, <2>8, <3>1, AccountFollows
  <2>10. QED
    BY <2>5, <2>6, <2>9 DEF LinksInv
<1>10. ASSUME NEW r \in Closers, NEW i \in Ids, Disconnect(r, i) PROVE LinksInv'
  BY <1>10, TakenStep DEF Disconnect, Removers
<1>11. ASSUME Clean PROVE LinksInv'
  <2>1. Cleaner \in Removers /\ Head(scanned) \in Ids
    BY <1>11 DEF Clean, Removable, Removers
  <2>2. QED
    BY <1>11, <2>1, TakenStep DEF Clean
<1>12. ASSUME NEW i \in Ids, Touch(i) PROVE LinksInv'
  BY <1>4, <1>12 DEF Touch
<1>13. ASSUME Scan \/ LinkTimePasses PROVE LinksInv'
  BY <1>4, <1>13 DEF Scan, LinkTimePasses
<1>14. ASSUME UNCHANGED linkVars PROVE LinksInv'
  BY <1>4, <1>14 DEF linkVars
<1>15. QED
  BY <1>5, <1>6, <1>7, <1>8, <1>9, <1>10, <1>11, <1>12, <1>13, <1>14 DEF LinksNext

LEMMA LinksStart == ASSUME LinksInit PROVE LinksInv
<1>1. /\ stage = [i \in Ids |-> "unknown"] /\ links = {}
      /\ messages = [i \in Ids |-> 0] /\ removing = [r \in Removers |-> Nothing]
      /\ metrics = [active |-> 0, peak |-> 0, total |-> 0, messages |-> 0]
  BY DEF LinksInit
<1>2. BeingRemoved = {} /\ Uncounted = {}
  BY <1>1 DEF BeingRemoved, Uncounted
<1>3. Nothing \notin Ids /\ IsFiniteSet(Ids) /\ CounterWrap \in Nat /\ CounterWrap > 0
  BY LinksAssumption
<1>4. LinksTypeOK
  BY <1>1, <1>3 DEF LinksTypeOK
<1>5. LinksApart
  BY <1>1, <1>2, <1>3 DEF LinksApart
<1>6. MetricsAccount
  <2>1. Cardinality({}) = 0
    BY FS_EmptySet
  <2>2. 0 % CounterWrap = 0
    <3>1. 0 = CounterWrap * 0 + 0 /\ 0 \in 0 .. CounterWrap - 1
      BY <1>3
    <3>2. QED
      BY <1>3, <3>1, ModIs
  <2>3. SumFunctionOnSet(messages, Ids) = 0
    BY <1>1, <1>3, SumZero
  <2>4. Ids \ (links \union BeingRemoved) = Ids
    BY <1>1, <1>2
  <2>5. Cardinality(links) + Cardinality(BeingRemoved) - Cardinality(Uncounted) = 0
    BY <1>1, <1>2, <2>1
  <2>6. QED
    BY <1>1, <2>2, <2>3, <2>4, <2>5 DEF MetricsAccount
<1>7. QED
  BY <1>4, <1>5, <1>6 DEF LinksInv

-----------------------------------------------------------------------------
(* Subscriptions and their index *)

LEMMA ContainsAppend ==
  ASSUME NEW T, NEW seq \in Seq(T), NEW y \in T, NEW x
  PROVE  Contains(Append(seq, y), x) <=> Contains(seq, x) \/ x = y
<1> DEFINE n == Len(seq)
           longer == Append(seq, y)
<1>1. /\ n \in Nat /\ Len(longer) = n + 1 /\ longer[n + 1] = y
      /\ \A k \in 1 .. n : longer[k] = seq[k]
  BY AppendProperties, LenProperties
<1>2. \A k \in 1 .. n + 1 : k \in 1 .. n \/ k = n + 1
  BY <1>1
<1>3. n + 1 \in 1 .. n + 1 /\ \A k \in 1 .. n : k \in 1 .. n + 1
  BY <1>1
<1> HIDE DEF longer, n
<1>4. (\E k \in 1 .. n + 1 : longer[k] = x) <=> (\E k \in 1 .. n : seq[k] = x) \/ x = y
  BY <1>1, <1>2, <1>3
<1>5. QED
  BY <1>1, <1>4 DEF Contains, longer, n

LEMMA ContainsTail ==
  ASSUME NEW T, NEW seq \in Seq(T), seq # << >>, NEW x
  PROVE  Contains(seq, x) <=> x = Head(seq) \/ Contains(Tail(seq), x)
<1> DEFINE n == Len(seq)
           t == Tail(seq)
<1>1. /\ n \in Nat /\ n # 0 /\ Len(t) = n - 1 /\ Head(seq) = seq[1]
      /\ \A k \in 1 .. n - 1 : t[k] = seq[k + 1]
  BY HeadTailProperties, LenProperties, EmptySeq
<1>2. \A k \in 1 .. n : k = 1 \/ (k - 1 \in 1 .. n - 1 /\ k - 1 + 1 = k)
  BY <1>1
<1>3. 1 \in 1 .. n /\ \A k \in 1 .. n - 1 : k + 1 \in 1 .. n
  BY <1>1
<1> HIDE DEF t, n
<1>4. (\E k \in 1 .. n : seq[k] = x) <=> x = seq[1] \/ (\E k \in 1 .. n - 1 : t[k] = x)
  <2>1. ASSUME NEW k \in 1 .. n, seq[k] = x, k # 1 PROVE \E j \in 1 .. n - 1 : t[j] = x
    <3>1. k - 1 \in 1 .. n - 1 /\ t[k - 1] = seq[k]
      BY <1>1, <1>2, <2>1
    <3>2. QED
      BY <2>1, <3>1
  <2>2. QED
    BY <1>1, <1>3, <2>1
<1>5. QED
  BY <1>1, <1>4 DEF Contains, t, n

\* Without takes out all of one and nothing of the others.
LEMMA ContainsWithout ==
  ASSUME NEW seq \in Seq(Clients), NEW c \in Clients, NEW d \in Clients
  PROVE  /\ Without(seq, c) \in Seq(Clients)
         /\ Contains(Without(seq, c), d) <=> Contains(seq, d) /\ d # c
<1> DEFINE S == Clients \ {c}
           r == Only(seq, S)
           n == Len(seq)
           m == Len(r)
<1> HIDE DEF S
<1>1. r \in Seq(Clients) /\ \E h : Picks(seq, S, n, r, h)
  BY OnlyPicks
<1>2. Without(seq, c) = r
  BY DEF Without, S
<1> HIDE DEF r
<1>3. PICK h : Picks(seq, S, n, r, h)
  BY <1>1
<1>4. /\ \A i \in 1 .. m : h[i] \in 1 .. n /\ r[i] = seq[h[i]] /\ r[i] \in S
      /\ \A k \in 1 .. n : seq[k] \in S => \E i \in 1 .. m : h[i] = k
  BY <1>3 DEF Picks
<1> HIDE DEF n, m
<1>5. (\E i \in 1 .. m : r[i] = d) <=> (\E k \in 1 .. n : seq[k] = d) /\ d # c
  <2>1. d \in S <=> d # c
    BY DEF S
  <2>2. QED
    BY <1>4, <2>1
<1>6. QED
  BY <1>1, <1>2, <1>5 DEF Contains, n, m

LEMMA RangeContains ==
  ASSUME NEW T, NEW seq \in Seq(T)
  PROVE  Range(seq) \subseteq T /\ \A x : x \in Range(seq) <=> Contains(seq, x)
<1>1. DOMAIN seq = 1 .. Len(seq) /\ \A i \in 1 .. Len(seq) : seq[i] \in T
  BY LenProperties, ElementOfSeq
<1>2. QED
  BY <1>1 DEF Range, Contains

\* What the broadcaster's list of symbol s and client c's own record have to do
\* with each other at the place t of the client's task.
Fits(t, s, c, list, own) ==
  /\ t.at \in {"new", "reading", "counting", "subscribing"} => (Contains(list, c) <=> s \in own)
  /\ t.at = "subscribing" => t.left = t.all
  /\ t.at = "registering" => (s \in own <=> Contains(list, c) \/ Contains(t.left, s))
  /\ t.at = "unregistering" =>
       IF Contains(t.all, s) THEN Contains(t.left, s) \/ ~ Contains(list, c)
       ELSE (Contains(list, c) <=> s \in own) /\ ~ Contains(t.left, s)

SubscriptionsFit ==
  \A c \in Clients : \A s \in Symbols : Fits(task[c], s, c, subscribers[s], subscriptions[c])

FeedInv == FeedTypeOK /\ SubscriptionsFit

LEMMA TaskTypes ==
  ASSUME NEW t \in Tasks, t.at \in {"subscribing", "registering", "unregistering"}
  PROVE  /\ t.all \in Seq(Symbols) /\ t.left \in Seq(Symbols)
         /\ \A left \in Seq(Symbols) : [t EXCEPT !.left = left] \in Tasks
         /\ [t EXCEPT !.at = "registering"] \in Tasks
<1>1. t \in [at : {"subscribing", "registering", "unregistering"}, all : Seq(Symbols), left : Seq(Symbols)]
  BY DEF Tasks
<1>2. QED
  BY <1>1 DEF Tasks

\* A step of the task of c that leaves the lists as they are for other clients.
LEMMA FitsFollow ==
  ASSUME FeedInv, NEW c \in Clients, NEW t \in Tasks, task' = [task EXCEPT ![c] = t],
         connections' \subseteq Clients, sending' = sending,
         subscriptions' \in [Clients -> SUBSET Symbols],
         subscribers' \in [Symbols -> Seq(Clients)],
         \A d \in Clients \ {c} :
           /\ subscriptions'[d] = subscriptions[d]
           /\ \A s \in Symbols : Contains(subscribers'[s], d) <=> Contains(subscribers[s], d),
         \A s \in Symbols :
           Fits(task[c], s, c, subscribers[s], subscriptions[c]) =>
           Fits(t, s, c, subscribers'[s], subscriptions'[c])
  PROVE  FeedInv'
<1>1. task \in [Clients -> Tasks]
  BY DEF FeedInv, FeedTypeOK
<1>2. FeedTypeOK'
  BY <1>1 DEF FeedInv, FeedTypeOK
<1>3. ASSUME NEW d \in Clients, NEW s \in Symbols
      PROVE  Fits(task'[d], s, d, subscribers'[s], subscriptions'[d])
  <2>1. Fits(task[d], s, d, subscribers[s], subscriptions[d])
    BY DEF FeedInv, SubscriptionsFit
  <2>2. CASE d = c
    BY <1>1, <2>1, <2>2
  <2>3. CASE d # c
    <3>1. /\ task'[d] = task[d] /\ subscriptions'[d] = subscriptions[d]
          /\ Contains(subscribers'[s], d) <=> Contains(subscribers[s], d)
      BY <1>1, <2>3
    <3>2. QED
      BY <2>1, <3>1 DEF Fits
  <2>4. QED
    BY <2>2, <2>3
<1>4. SubscriptionsFit'
  BY <1>3 DEF SubscriptionsFit
<1>5. QED
  BY <1>2, <1>4 DEF FeedInv

LEMMA ReadStep ==
  ASSUME FeedInv, NEW c \in Clients, NEW t \in Tasks,
         task' = [task EXCEPT ![c] = t], connections' \subseteq Clients, sending' = sending,
         subscriptions' = subscriptions, subscribers' = subscribers,
         \A s, list, own : Fits(task[c], s, c, list, own) => Fits(t, s, c, list, own)
  PROVE  FeedInv'
<1>1. subscriptions \in [Clients -> SUBSET Symbols] /\ subscribers \in [Symbols -> Seq(Clients)]
  BY DEF FeedInv, FeedTypeOK
<1>2. QED
  BY <1>1, FitsFollow

LEMMA FeedStep ==
  ASSUME FeedInv, [FeedNext]_feedVars PROVE FeedInv'
<1>1. /\ connections \subseteq Clients /\ task \in [Clients -> Tasks]
      /\ subscriptions \in [Clients -> SUBSET Symbols]
      /\ subscribers \in [Symbols -> Seq(Clients)]
      /\ sending \in [Feeds -> {Nobody} \union [symbol : Symbols, left : Seq(Clients)]]
  BY DEF FeedInv, FeedTypeOK
<1>2. Lists \subseteq Seq(Symbols)
  BY FeedAssumption
<1>3. \A a \in {"new", "reading", "counting", "over"} : [at |-> a] \in Tasks
  BY DEF Tasks
<1>4. ASSUME UNCHANGED << task, subscriptions, subscribers >>, connections' = connections,
             sending' \in [Feeds -> {Nobody} \union [symbol : Symbols, left : Seq(Clients)]]
      PROVE  FeedInv'
  BY <1>4 DEF FeedInv, FeedTypeOK, SubscriptionsFit
<1>5. ASSUME NEW c \in Clients, Accept(c) \/ Close(c) \/ Fail(c) \/ Heartbeat(c) PROVE FeedInv'
  <2>1. /\ task[c].at \in {"new", "reading"} /\ connections' \subseteq Clients /\ sending' = sending
        /\ subscriptions' = subscriptions /\ subscribers' = subscribers
    BY <1>1, <1>5 DEF Accept, Close, Fail, Heartbeat, Reads
  <2>2. PICK a \in {"reading", "counting", "over"} : task' = [task EXCEPT ![c] = [at |-> a]]
    BY <1>5 DEF Accept, Close, Fail, Heartbeat, Go
  <2>3. \A s, list, own : Fits(task[c], s, c, list, own) => Fits([at |-> a], s, c, list, own)
    BY <2>1 DEF Fits
  <2>4. QED
    BY <1>3, <2>1, <2>2, <2>3, ReadStep
<1>6. ASSUME NEW c \in Clients, NEW symbols \in Lists, Subscribe(c, symbols) PROVE FeedInv'
  <2> DEFINE t == [at |-> "subscribing", all |-> symbols, left |-> symbols]
  <2>1. /\ task[c].at = "reading" /\ task' = [task EXCEPT ![c] = t] /\ connections' = connections
        /\ sending' = sending /\ subscriptions' = subscriptions /\ subscribers' = subscribers
    BY <1>6 DEF Subscribe, Reads, Go
  <2>2. t \in Tasks
    BY <1>2 DEF Tasks
  <2>3. \A s, list, own : Fits(task[c], s, c, list, own) => Fits(t, s, c, list, own)
    BY <2>1 DEF Fits
  <2> HIDE DEF t
  <2>4. QED
    BY <1>1, <2>1, <2>2, <2>3, ReadStep
<1>7. ASSUME NEW c \in Clients, NEW symbols \in Lists, Unsubscribe(c, symbols) PROVE FeedInv'
  <2> DEFINE t == [at |-> "unregistering", all |-> symbols, left |-> symbols]
  <2>1. /\ task[c].at = "reading" /\ task' = [task EXCEPT ![c] = t] /\ connections' = connections
        /\ sending' = sending /\ subscriptions' = subscriptions /\ subscribers' = subscribers
    BY <1>7 DEF Unsubscribe, Reads, Go
  <2>2. t \in Tasks
    BY <1>2 DEF Tasks
  <2>3. \A s, list, own : Fits(task[c], s, c, list, own) => Fits(t, s, c, list, own)
    BY <2>1 DEF Fits
  <2> HIDE DEF t
  <2>4. QED
    BY <1>1, <2>1, <2>2, <2>3, ReadStep
<1>8. ASSUME NEW c \in Clients, RecordSubscription(c) PROVE FeedInv'
  <2> DEFINE t == [task[c] EXCEPT !.at = "registering"]
             all == task[c].all
             new == subscriptions[c] \union Range(all)
  <2>1. /\ task[c].at = "subscribing" /\ task' = [task EXCEPT ![c] = t] /\ connections' = connections
        /\ sending' = sending /\ subscribers' = subscribers
        /\ subscriptions' = [subscriptions EXCEPT ![c] = new]
    BY <1>8 DEF RecordSubscription, Go
  <2>2. task[c] \in Tasks /\ t \in Tasks /\ all \in Seq(Symbols)
    BY <1>1, <2>1, TaskTypes
  <2>3. t.at = "registering" /\ t.left = task[c].left
    BY <2>1, <2>2 DEF Tasks
  <2>4. Range(all) \subseteq Symbols /\ \A s : s \in Range(all) <=> Contains(all, s)
    BY <2>2, RangeContains
  <2> HIDE DEF t, all
  <2>5. new \in SUBSET Symbols /\ \A s : s \in new <=> s \in subscriptions[c] \/ Contains(all, s)
    BY <1>1, <2>4
  <2> HIDE DEF new
  <2>6. subscriptions' \in [Clients -> SUBSET Symbols] /\ subscriptions'[c] = new
        /\ \A d \in Clients \ {c} : subscriptions'[d] = subscriptions[d]
    BY <1>1, <2>1, <2>5
  <2>7. ASSUME NEW s \in Symbols, Fits(task[c], s, c, subscribers[s], subscriptions[c])
        PROVE  Fits(t, s, c, subscribers'[s], subscriptions'[c])
    <3>1. (Contains(subscribers[s], c) <=> s \in subscriptions[c]) /\ task[c].left = all
      BY <2>1, <2>7 DEF Fits, all
    <3>2. QED
      BY <2>1, <2>3, <2>5, <2>6, <3>1 DEF Fits
  <2>8. QED
    BY <1>1, <2>1, <2>2, <2>6, <2>7, FitsFollow
<1>9. ASSUME NEW c \in Clients, Register(c) PROVE FeedInv'
  <2> DEFINE left == task[c].left
             x == Head(left)
             t == [task[c] EXCEPT !.left = Tail(left)]
  <2>1. /\ task[c].at = "registering" /\ left # << >>
        /\ task' = [task EXCEPT ![c] = t] /\ connections' = connections
        /\ sending' = sending /\ subscriptions' = subscriptions
        /\ subscribers' = [subscribers EXCEPT ![x] = Append(subscribers[x], c)]
    BY <1>9 DEF Register, Go
  <2>2. task[c] \in Tasks /\ left \in Seq(Symbols)
    BY <1>1, <2>1, TaskTypes
  <2>3. x \in Symbols /\ Tail(left) \in Seq(Symbols)
    BY <2>1, <2>2, HeadTailProperties
  <2>4. t \in Tasks
    BY <2>1, <2>2, <2>3, TaskTypes
  <2>5. t.at = "registering" /\ t.left = Tail(left)
    BY <2>1, <2>2, <2>4 DEF Tasks
  <2>6. \A s \in Symbols : Contains(left, s) <=> s = x \/ Contains(Tail(left), s)
    BY <2>1, <2>2, ContainsTail
  <2> HIDE DEF t, x, left
  <2>7. Append(subscribers[x], c) \in Seq(Clients)
        /\ \A d \in Clients : Contains(Append(subscribers[x], c), d) <=> Contains(subscribers[x], d) \/ d = c
    <3>1. subscribers[x] \in Seq(Clients)
      BY <1>1, <2>3
    <3>2. QED
      BY <3>1, AppendProperties, ContainsAppend
  <2>8. subscribers' \in [Symbols -> Seq(Clients)]
        /\ \A s \in Symbols : subscribers'[s] = IF s = x THEN Append(subscribers[x], c) ELSE subscribers[s]
    BY <1>1, <2>1, <2>3, <2>7
  <2>9. \A d \in Clients : \A s \in Symbols :
          Contains(subscribers'[s], d) <=> Contains(subscribers[s], d) \/ (s = x /\ d = c)
    BY <2>7, <2>8
  <2>10. ASSUME NEW s \in Symbols, Fits(task[c], s, c, subscribers[s], subscriptions[c])
         PROVE  Fits(t, s, c, subscribers'[s], subscriptions'[c])
    <3>1. s \in subscriptions[c] <=> Contains(subscribers[s], c) \/ Contains(left, s)
      BY <2>1, <2>10 DEF Fits, left
    <3>2. s \in subscriptions'[c] <=> Contains(subscribers'[s], c) \/ Contains(Tail(left), s)
      BY <2>1, <2>6, <2>9, <3>1
    <3>3. QED
      BY <2>5, <3>2 DEF Fits
  <2>11. \A d \in Clients \ {c} : \A s \in Symbols :
           Contains(subscribers'[s], d) <=> Contains(subscribers[s], d)
    BY <2>9
  <2>12. QED
    BY <1>1, <2>1, <2>4, <2>8, <2>10, <2>11, FitsFollow
<1>10. ASSUME NEW c \in Clients, Unregister(c) PROVE FeedInv'
  <2> DEFINE left == task[c].left
             x == Head(left)
             t == [task[c] EXCEPT !.left = Tail(left)]
  <2>1. /\ task[c].at = "unregistering" /\ left # << >>
        /\ task' = [task EXCEPT ![c] = t] /\ connections' = connections
        /\ sending' = sending /\ subscriptions' = subscriptions
        /\ subscribers' = [subscribers EXCEPT ![x] = Without(subscribers[x], c)]
    BY <1>10 DEF Unregister, Go
  <2>2. task[c] \in Tasks /\ left \in Seq(Symbols)
    BY <1>1, <2>1, TaskTypes
  <2>3. x \in Symbols /\ Tail(left) \in Seq(Symbols)
    BY <2>1, <2>2, HeadTailProperties
  <2>4. t \in Tasks
    BY <2>1, <2>2, <2>3, TaskTypes
  <2>5. t.at = "unregistering" /\ t.left = Tail(left) /\ t.all = task[c].all
    BY <2>1, <2>2, <2>4 DEF Tasks
  <2>6. \A s \in Symbols : Contains(left, s) <=> s = x \/ Contains(Tail(left), s)
    BY <2>1, <2>2, ContainsTail
  <2> HIDE DEF t, x, left
  <2>7. Without(subscribers[x], c) \in Seq(Clients)
        /\ \A d \in Clients : Contains(Without(subscribers[x], c), d) <=> Contains(subscribers[x], d) /\ d # c
    <3>1. subscribers[x] \in Seq(Clients)
      BY <1>1, <2>3
    <3>2. QED
      BY <3>1, ContainsWithout
  <2>8. subscribers' \in [Symbols -> Seq(Clients)]
        /\ \A s \in Symbols : subscribers'[s] = IF s = x THEN Without(subscribers[x], c) ELSE subscribers[s]
    BY <1>1, <2>1, <2>3, <2>7
  <2>9. \A d \in Clients : \A s \in Symbols :
          Contains(subscribers'[s], d) <=> Contains(subscribers[s], d) /\ ~(s = x /\ d = c)
    BY <2>7, <2>8
  <2>10. ASSUME NEW s \in Symbols, Fits(task[c], s, c, subscribers[s], subscriptions[c])
         PROVE  Fits(t, s, c, subscribers'[s], subscriptions'[c])
    <3>1. IF Contains(task[c].all, s) THEN Contains(left, s) \/ ~ Contains(subscribers[s], c)
          ELSE (Contains(subscribers[s], c) <=> s \in subscriptions[c]) /\ ~ Contains(left, s)
      BY <2>1, <2>10 DEF Fits, left
    <3>2. Contains(subscribers'[s], c) <=> Contains(subscribers[s], c) /\ s # x
      BY <2>9
    <3>3. IF Contains(task[c].all, s) THEN Contains(Tail(left), s) \/ ~ Contains(subscribers'[s], c)
          ELSE (Contains(subscribers'[s], c) <=> s \in subscriptions'[c]) /\ ~ Contains(Tail(left), s)
      BY <2>1, <2>6, <3>1, <3>2
    <3>4. QED
      BY <2>5, <3>3 DEF Fits
  <2>11. \A d \in Clients \ {c} : \A s \in Symbols :
           Contains(subscribers'[s], d) <=> Contains(subscribers[s], d)
    BY <2>9
  <2>12. QED
    BY <1>1, <2>1, <2>4, <2>8, <2>10, <2>11, FitsFollow
<1>11. ASSUME NEW c \in Clients, ForgetSubscription(c) PROVE FeedInv'
  <2> DEFINE new == subscriptions[c] \ Range(task[c].all)
  <2>1. /\ task[c].at = "unregistering" /\ task[c].left = << >>
        /\ task' = [task EXCEPT ![c] = [at |-> "counting"]] /\ connections' = connections
        /\ sending' = sending /\ subscribers' = subscribers
        /\ subscriptions' = [subscriptions EXCEPT ![c] = new]
    BY <1>11 DEF ForgetSubscription, Go
  <2>2. task[c].all \in Seq(Symbols)
    BY <1>1, <2>1, TaskTypes
  <2>3. new \in SUBSET Symbols /\ \A s : s \in new <=> s \in subscriptions[c] /\ ~ Contains(task[c].all, s)
    BY <1>1, <2>2, RangeContains
  <2> HIDE DEF new
  <2>4. subscriptions' \in [Clients -> SUBSET Symbols] /\ subscriptions'[c] = new
        /\ \A d \in Clients \ {c} : subscriptions'[d] = subscriptions[d]
    BY <1>1, <2>1, <2>3
  <2>5. ASSUME NEW s \in Symbols, Fits(task[c], s, c, subscribers[s], subscriptions[c])
        PROVE  Fits([at |-> "counting"], s, c, subscribers'[s], subscriptions'[c])
    <3>1. ~ Contains(task[c].left, s)
      BY <2>1 DEF Contains
    <3>2. Contains(subscribers[s], c) <=> s \in subscriptions[c] /\ ~ Contains(task[c].all, s)
      BY <2>1, <2>5, <3>1 DEF Fits
    <3>3. Contains(subscribers'[s], c) <=> s \in subscriptions'[c]
      BY <2>1, <2>3, <2>4, <3>2
    <3>4. QED
      BY <3>3 DEF Fits
  <2>6. QED
    BY <1>1, <1>3, <2>1, <2>4, <2>5, FitsFollow
<1>12. ASSUME NEW c \in Clients, Finish(c) PROVE FeedInv'
  <2>1. /\ task' = [task EXCEPT ![c] = [at |-> "reading"]] /\ connections' = connections
        /\ sending' = sending /\ subscriptions' = subscriptions /\ subscribers' = subscribers
        /\ task[c].at = "counting" \/ (task[c].at = "registering" /\ task[c].left = << >>)
    BY <1>12 DEF Finish, Go
  <2>2. \A s : ~ Contains(<< >>, s)
    BY DEF Contains
  <2>3. ASSUME NEW s, NEW list, NEW own, Fits(task[c], s, c, list, own)
        PROVE  Fits([at |-> "reading"], s, c, list, own)
    BY <2>1, <2>2, <2>3 DEF Fits
  <2>4. QED
    BY <1>1, <1>3, <2>1, <2>3, ReadStep
<1>13. ASSUME NEW c \in Clients, Refuse(c) PROVE FeedInv'
  BY <1>1, <1>4, <1>13 DEF Refuse
<1>14. ASSUME NEW f \in Feeds, NEW s \in Symbols, Broadcast(f, s) PROVE FeedInv'
  <2>1. sending' \in [Feeds -> {Nobody} \union [symbol : Symbols, left : Seq(Clients)]]
    BY <1>1, <1>14 DEF Broadcast
  <2>2. QED
    BY <1>4, <1>14, <2>1 DEF Broadcast
<1>15. ASSUME NEW f \in Feeds, Deliver(f) PROVE FeedInv'
  <2>1. sending[f] \in [symbol : Symbols, left : Seq(Clients)] /\ sending[f].left # << >>
    BY <1>1, <1>15 DEF Deliver, NextInLine
  <2>2. Tail(sending[f].left) \in Seq(Clients)
    BY <2>1, HeadTailProperties
  <2>3. [sending[f] EXCEPT !.left = Tail(@)] \in [symbol : Symbols, left : Seq(Clients)]
    BY <2>1, <2>2
  <2>4. sending' \in [Feeds -> {Nobody} \union [symbol : Symbols, left : Seq(Clients)]]
    BY <1>1, <1>15, <2>3 DEF Deliver
  <2>5. QED
    BY <1>4, <1>15, <2>4 DEF Deliver
<1>16. ASSUME NEW f \in Feeds, EndBroadcast(f) PROVE FeedInv'
  BY <1>1, <1>4, <1>16 DEF EndBroadcast
<1>17. ASSUME UNCHANGED feedVars PROVE FeedInv'
  BY <1>1, <1>4, <1>17 DEF feedVars
<1>18. ASSUME NEW c \in Clients, Handle(c) PROVE FeedInv'
  BY <1>8, <1>9, <1>10, <1>11, <1>12, <1>18 DEF Handle
<1>19. ASSUME NEW c \in Clients, Request(c) PROVE FeedInv'
  BY <1>5, <1>6, <1>7, <1>13, <1>19 DEF Request
<1>20. QED
  BY <1>5, <1>14, <1>15, <1>16, <1>17, <1>18, <1>19 DEF FeedNext

LEMMA FeedStart == ASSUME FeedInit PROVE FeedInv
<1>1. /\ connections = {} /\ subscriptions = [c \in Clients |-> {}]
      /\ subscribers = [s \in Symbols |-> << >>] /\ task = [c \in Clients |-> [at |-> "new"]]
      /\ sending = [f \in Feeds |-> Nobody]
  BY DEF FeedInit
<1>2. \A c : ~ Contains(<< >>, c)
  BY DEF Contains
<1>3. FeedTypeOK
  BY <1>1 DEF FeedTypeOK, Tasks
<1>4. SubscriptionsFit
  <2>1. ASSUME NEW c \in Clients, NEW s \in Symbols
        PROVE  Fits(task[c], s, c, subscribers[s], subscriptions[c])
    BY <1>1, <1>2 DEF Fits
  <2>2. QED
    BY <2>1 DEF SubscriptionsFit
<1>5. QED
  BY <1>3, <1>4 DEF FeedInv

-----------------------------------------------------------------------------
(* The service *)

\* Its parts share no state: a step of one leaves the others alone.
MarketInv == FeedInv /\ LinksInv /\ BookInv /\ HistoryInv

LEMMA MarketStep ==
  ASSUME MarketInv, [MarketNext]_marketVars PROVE MarketInv'
<1>1. /\ [FeedNext]_feedVars /\ [LinksNext]_linkVars
      /\ [BookNext]_bookVars /\ [HistoryNext]_historyVars
  BY DEF MarketNext, marketVars
<1>2. QED
  BY <1>1, FeedStep, LinksStep, BookStep, HistoryStep DEF MarketInv

LEMMA MarketAlwaysInv == MarketSpec => []MarketInv
<1>1. MarketInit => MarketInv
  BY FeedStart, LinksStart, BookStart, HistoryStart DEF MarketInit, MarketInv
<1>2. MarketInv /\ [MarketNext]_marketVars => MarketInv'
  BY MarketStep
<1>3. QED
  BY <1>1, <1>2, PTL DEF MarketSpec

(* Between two requests of a client its connection has an entry for a symbol *)
(* exactly if the broadcaster lists it, whatever lists of symbols its        *)
(* requests name, and the metrics of the connection manager account for      *)
(* every connection and message, whatever the tasks of other clients, feeds  *)
(* and the cleanup do between the steps (websocket.rs, connection.rs).       *)
THEOREM BookkeepingAlwaysAgrees == MarketSpec => []BookkeepingAgrees
<1>1. MarketInv => BookkeepingAgrees
  <2>1. SUFFICES ASSUME MarketInv PROVE BookkeepingAgrees
    OBVIOUS
  <2>2. MarketTypeOK
    BY <2>1 DEF MarketInv, MarketTypeOK, FeedInv, LinksInv, LinksTypeOK, BookInv
  <2>3. IndexAgrees
    BY <2>1 DEF MarketInv, FeedInv, SubscriptionsFit, Fits, IndexAgrees
  <2>4. MetricsAccount
    BY <2>1 DEF MarketInv, LinksInv
  <2>5. QED
    BY <2>2, <2>3, <2>4 DEF BookkeepingAgrees
<1>2. QED
  BY <1>1, MarketAlwaysInv, PTL

(* Every level of the book is the last word of the newest update taken in    *)
(* that names it, which was no removal, rounded; and what the newest update  *)
(* set is left out only if the book is full of better levels: for every feed *)
(* and every depth, however its updates are lost, repeated and reordered     *)
(* (orderbook.rs update, maintain_depth).                                    *)
THEOREM BookAlwaysFollowsFeed == MarketSpec => []BookFollowsFeed
<1>1. MarketInv => BookFollowsFeed
  BY BookInvFollows DEF MarketInv
<1>2. QED
  BY <1>1, MarketAlwaysInv, PTL

(* Concurrent requests overshoot the limit on replay sessions by less than   *)
(* their number, and what the cache answers is the beginning of what the     *)
(* storage would answer now, however reads, writes and evictions interleave  *)
(* (historical.rs).                                                          *)
THEOREM HistoryAlwaysSound == MarketSpec => []HistorySound
<1>1. MarketInv => HistorySound
  BY DEF MarketInv, HistoryInv, HistorySound
<1>2. QED
  BY <1>1, MarketAlwaysInv, PTL
=============================================================================
