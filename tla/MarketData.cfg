CONSTANTS
  Clients = {c1, c2}
  Symbols = {s1, s2}
  Allowed = {s1, s2}
  Lists <- MCLists
  Feeds = {f1}
  Nobody = Nobody
  MaxRequests = 2
  MaxBroadcasts = 1
  Ids = {i1, i2}
  Closers = {r1}
  Cleaner = Cleaner
  Nothing = Nothing
  CounterWrap = 16
  IdleTimeout = 1
  MaxSends = 1
  MaxLinkTime = 3
  BookUpdates <- MCBookUpdates
  Fractions = 10
  MaxDepth = 2
  HistoryTimes = {1, 2}
  HistoryRequests <- MCHistoryRequests
  HistoryTasks = {t1, t2}
  NoSession = NoSession
  SessionIds = {r1, r2}
  MaxSessions = 1
  MaxPoints = 2
SPECIFICATION MarketSpec
INVARIANTS BookkeepingAgrees BookFollowsFeed HistorySound
PROPERTIES BroadcastsEnd FoundIdleGoes
CHECK_DEADLOCK FALSE
