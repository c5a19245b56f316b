---------------------------- MODULE ExchangeProofs ----------------------------
(***************************************************************************)
(* Theorems about the trading entry points, for every set of users, every  *)
(* amount, fee, limit and batch: what the portfolio keeps twice agrees and *)
(* nobody is overdrawn, no trade or withdrawal takes from those who stay   *)
(* in the pool, and nothing comes from nowhere.                            *)
(***************************************************************************)
EXTENDS Exchange, SequenceTheorems, Sums

-----------------------------------------------------------------------------
(* The leaderboard *)

BoardEntry == [user : Users, pnl : Int]
Distinct(b) == \A i, j \in DOMAIN b : i # j => b[i].user # b[j].user
Descending(b) ==
  \A i, j \in DOMAIN b : i < j => b[i].pnl >= b[j].pnl /\ b[i].user # b[j].user

LEMMA IntervalSize ==
  \A n \in Nat : /\ IsFiniteSet(0 .. n - 1) /\ Cardinality(0 .. n - 1) = n
                 /\ IsFiniteSet(1 .. n) /\ Cardinality(1 .. n) = n
<1> TAKE n \in Nat
<1>1. 0 \in Int /\ 1 \in Int /\ n - 1 \in Int /\ n \in Int
  OBVIOUS
<1>2. IsFiniteSet(1 .. n) /\ Cardinality(1 .. n) = IF 1 > n THEN 0 ELSE n - 1 + 1
  BY <1>1, FS_Interval
<1>3. IsFiniteSet(0 .. n - 1) /\ Cardinality(0 .. n - 1) = IF 0 > n - 1 THEN 0 ELSE n - 1 - 0 + 1
  BY <1>1, FS_Interval
<1>4. (IF 1 > n THEN 0 ELSE n - 1 + 1) = n /\ (IF 0 > n - 1 THEN 0 ELSE n - 1 - 0 + 1) = n
  OBVIOUS
<1>5. QED
  BY <1>2, <1>3, <1>4

\* sort_top_traders sorts, and keeps what it is given.
LEMMA InOrderSorts ==
  ASSUME NEW s \in Seq(BoardEntry), Distinct(s)
  PROVE  /\ InOrder(s) \in Seq(BoardEntry) /\ Descending(InOrder(s))
         /\ DOMAIN InOrder(s) = DOMAIN s
         /\ \A k \in DOMAIN s : \E i \in DOMAIN s : InOrder(s)[k] = s[i]
<1> DEFINE D == DOMAIN s
           n == Len(s)
           Above(i) == {j \in D : s[j].pnl > s[i].pnl \/ (s[j].pnl = s[i].pnl /\ j < i)}
           rank == [i \in D |-> Cardinality(Above(i))]
           pos(k) == CHOOSE i \in D : Cardinality(Above(i)) = k - 1
<1>1. D = 1 .. n /\ n \in Nat /\ \A i \in D : s[i] \in BoardEntry /\ s[i].pnl \in Int
  <2>1. D = 1 .. n /\ n \in Nat
    BY LenProperties
  <2>2. ASSUME NEW i \in D PROVE s[i] \in BoardEntry /\ s[i].pnl \in Int
    <3>1. s[i] \in BoardEntry
      BY <2>1, ElementOfSeq
    <3>2. QED
      BY <3>1 DEF BoardEntry
  <2>3. QED
    BY <2>1, <2>2
<1>2. ASSUME NEW i \in D PROVE IsFiniteSet(Above(i)) /\ rank[i] \in 0 .. n - 1
  <2>1. Above(i) \subseteq D \ {i}
    BY <1>1
  <2>2. IsFiniteSet(D) /\ Cardinality(D) = n
    BY <1>1, FS_Interval, SMTT(60)
  <2>3. IsFiniteSet(D \ {i}) /\ Cardinality(D \ {i}) = n - 1
    BY <2>2, FS_RemoveElement
  <2> HIDE DEF Above
  <2>4. IsFiniteSet(Above(i)) /\ Cardinality(Above(i)) <= n - 1
    BY <2>1, <2>3, FS_Subset
  <2>5. QED
    BY <1>1, <2>4, FS_CardinalityType
<1>3. ASSUME NEW i \in D, NEW j \in Above(i) PROVE rank[j] < rank[i]
  <2>1. j \in D /\ Above(j) \subseteq Above(i) /\ j \notin Above(j)
    BY <1>1
  <2>2. IsFiniteSet(Above(i)) /\ Cardinality(Above(i)) \in Nat
    BY <1>2, FS_CardinalityType
  <2> HIDE DEF Above
  <2>3. Cardinality(Above(i) \ {j}) = Cardinality(Above(i)) - 1 /\ IsFiniteSet(Above(i) \ {j})
    BY <2>2, FS_RemoveElement
  <2>4. Above(j) \in SUBSET (Above(i) \ {j})
    BY <2>1
  <2>5. Cardinality(Above(j)) <= Cardinality(Above(i) \ {j}) /\ Cardinality(Above(j)) \in Nat
    BY <2>3, <2>4, FS_Subset, FS_CardinalityType
  <2>6. QED
    BY <2>1, <2>2, <2>3, <2>5
<1>4. ASSUME NEW i \in D, NEW j \in D, i # j PROVE j \in Above(i) \/ i \in Above(j)
  BY <1>1, <1>4
<1>5. ASSUME NEW k \in D PROVE \E i \in D : rank[i] = k - 1
  <2>1. rank \in Injection(D, 0 .. n - 1)
    <3>1. rank \in [D -> 0 .. n - 1]
      BY <1>2
    <3>2. ASSUME NEW i \in D, NEW j \in D, i # j PROVE rank[i] # rank[j]
      <4> HIDE DEF Above, D
      <4>1. rank[j] < rank[i] \/ rank[i] < rank[j]
        BY <1>3, <1>4, <3>2
      <4>2. rank[i] \in Int /\ rank[j] \in Int
        BY <3>1
      <4> HIDE DEF rank
      <4>3. QED
        BY <4>1, <4>2
    <3> HIDE DEF rank, D
    <3>3. QED
      BY <3>1, <3>2 DEF Injection, IsInjective
  <2>2. IsFiniteSet(0 .. n - 1) /\ Cardinality(0 .. n - 1) = n /\ Cardinality(D) = n
    BY <1>1, IntervalSize
  <2> HIDE DEF rank
  <2>3. rank \in Surjection(D, 0 .. n - 1)
    BY <2>1, <2>2, FS_Injection, Zenon
  <2>4. k - 1 \in 0 .. n - 1
    BY <1>1
  <2>5. QED
    BY <2>3, <2>4 DEF Surjection
<1>6. ASSUME NEW k \in D PROVE pos(k) \in D /\ rank[pos(k)] = k - 1
  BY <1>5
<1>7. InOrder(s) = [k \in D |-> s[pos(k)]]
  BY DEF InOrder
<1> HIDE DEF rank, pos, Above
<1>8. ASSUME NEW k \in D, NEW l \in D, k < l
      PROVE  s[pos(k)].pnl >= s[pos(l)].pnl /\ s[pos(k)].user # s[pos(l)].user
  <2>1. pos(k) \in D /\ pos(l) \in D /\ rank[pos(k)] = k - 1 /\ rank[pos(l)] = l - 1
    BY <1>6
  <2>2. k \in Int /\ l \in Int
    BY <1>1
  <2>3. pos(k) # pos(l)
    BY <1>8, <2>1, <2>2
  <2>4. pos(l) \notin Above(pos(k))
    <3>1. SUFFICES ASSUME pos(l) \in Above(pos(k)) PROVE FALSE
      OBVIOUS
    <3>2. rank[pos(l)] < rank[pos(k)]
      BY <1>3, <2>1, <3>1
    <3>3. QED
      BY <1>8, <2>1, <2>2, <3>2
  <2>5. pos(k) \in Above(pos(l))
    BY <1>4, <2>1, <2>3, <2>4
  <2>6. s[pos(k)].pnl >= s[pos(l)].pnl
    BY <1>1, <2>1, <2>5 DEF Above
  <2>7. QED
    BY <2>1, <2>3, <2>6 DEF Distinct
<1>9. InOrder(s) \in Seq(BoardEntry) /\ DOMAIN InOrder(s) = D
  <2>1. \A k \in 1 .. n : s[pos(k)] \in BoardEntry
    BY <1>1, <1>6
  <2>2. InOrder(s) = [k \in 1 .. n |-> s[pos(k)]]
    BY <1>1, <1>7
  <2>3. QED
    BY <1>1, <2>1, <2>2, IsASeq
<1>10. \A k \in D : InOrder(s)[k] = s[pos(k)]
  BY <1>7
<1>11. QED
  BY <1>6, <1>8, <1>9, <1>10 DEF Descending

LEMMA DescendingDistinct ==
  ASSUME NEW b \in Seq(BoardEntry), Descending(b) PROVE Distinct(b)
<1>1. DOMAIN b = 1 .. Len(b) /\ Len(b) \in Nat
  BY LenProperties
<1>2. QED
  BY <1>1 DEF Descending, Distinct

\* Each entry is at least the pnl of the user it names, u's own aside.
Covers(b, pnl, u) == \A i \in DOMAIN b : b[i].user # u => b[i].pnl >= pnl[b[i].user]

\* update_top_traders keeps the board in order and brings u's entry up to date.
LEMMA RankedBoard ==
  ASSUME NEW p \in PortfolioRecord, NEW u \in Users,
         Descending(p.top_traders), Covers(p.top_traders, p.pnl, u)
  PROVE  LET c == Ranked(p, u).top_traders IN
         /\ Ranked(p, u) = [p EXCEPT !.top_traders = c]
         /\ c \in Seq(BoardEntry) /\ Descending(c)
         /\ \A i \in DOMAIN c : c[i].pnl >= p.pnl[c[i].user]
<1> DEFINE b == p.top_traders
           entry == [user |-> u, pnl |-> p.pnl[u]]
           Mine == {i \in DOMAIN b : b[i].user = u}
           pick == IF Mine # {} THEN [i \in DOMAIN b |-> IF i = Min(Mine) THEN entry ELSE b[i]]
                   ELSE IF Len(b) < LeaderboardSize THEN Append(b, entry)
                   ELSE IF entry.pnl > b[LeaderboardSize].pnl
                   THEN [b EXCEPT ![LeaderboardSize] = entry]
                   ELSE b
           Up(s) == \A i \in DOMAIN s : s[i].pnl >= p.pnl[s[i].user]
<1>1. b \in Seq(BoardEntry) /\ p.pnl \in [Users -> Int]
  BY DEF PortfolioRecord, BoardEntry
<1>2. DOMAIN b = 1 .. Len(b) /\ Len(b) \in Nat /\ \A i \in DOMAIN b : b[i] \in BoardEntry
  BY <1>1, LenProperties, ElementOfSeq
<1>3. Distinct(b) /\ \A i \in DOMAIN b : b[i].user # u => b[i].pnl >= p.pnl[b[i].user]
  BY <1>1, DescendingDistinct DEF Covers
<1>4. entry \in BoardEntry /\ entry.user = u /\ entry.pnl = p.pnl[u] /\ p.pnl[u] \in Int
  BY <1>1 DEF BoardEntry
<1>5. Ranked(p, u) = [p EXCEPT !.top_traders = InOrder(pick)]
  BY DEF Ranked
<1> HIDE DEF b, entry
<1>6. pick \in Seq(BoardEntry) /\ Distinct(pick) /\ Up(pick)
  <2>1. CASE Mine # {}
    <3> DEFINE m == Min(Mine)
               s == [i \in DOMAIN b |-> IF i = m THEN entry ELSE b[i]]
    <3>1. m \in Mine
      <4>1. Mine \subseteq Nat
        BY <1>2
      <4>2. PICK k \in Mine : \A j \in Mine : k <= j
        BY <2>1, <4>1, LeastNatural
      <4>3. QED
        BY <4>2 DEF Min
    <3>2. m \in DOMAIN b /\ b[m].user = u
      BY <3>1
    <3> HIDE DEF m
    <3>3. s \in Seq(BoardEntry)
      <4>1. s = [i \in 1 .. Len(b) |-> IF i = m THEN entry ELSE b[i]]
        BY <1>2
      <4>2. \A i \in 1 .. Len(b) : (IF i = m THEN entry ELSE b[i]) \in BoardEntry
        BY <1>2, <1>4
      <4>3. QED
        BY <1>2, <4>1, <4>2, IsASeq
    <3>4. DOMAIN s = DOMAIN b /\ \A i \in DOMAIN b : s[i] = (IF i = m THEN entry ELSE b[i])
      OBVIOUS
    <3> HIDE DEF s
    <3>5. ASSUME NEW i \in DOMAIN s PROVE s[i].user = b[i].user
      BY <1>4, <3>2, <3>4
    <3>6. Distinct(s)
      BY <1>3, <3>4, <3>5 DEF Distinct
    <3>7. ASSUME NEW i \in DOMAIN s PROVE s[i].pnl >= p.pnl[s[i].user]
      <4>1. CASE i = m
        BY <1>4, <3>4, <4>1
      <4>2. CASE i # m
        <5>1. b[i].user # u
          BY <1>3, <3>2, <3>4, <4>2 DEF Distinct
        <5>2. QED
          BY <1>3, <3>4, <4>2, <5>1
      <4>3. QED
        BY <4>1, <4>2
    <3>8. pick = s
      BY <2>1 DEF s, m
    <3>9. QED
      BY <3>3, <3>6, <3>7, <3>8
  <2>2. CASE Mine = {}
    <3>1. \A i \in DOMAIN b : b[i].user # u
      BY <2>2
    <3> DEFINE a == Append(b, entry)
    <3>2. /\ a \in Seq(BoardEntry) /\ DOMAIN a = 1 .. Len(b) + 1
          /\ \A i \in DOMAIN b : a[i] = b[i]
          /\ a[Len(b) + 1] = entry
      BY <1>1, <1>2, <1>4, AppendProperties
    <3>3. \A i \in DOMAIN a : i \in DOMAIN b \/ i = Len(b) + 1
      BY <1>2, <3>2
    <3> HIDE DEF a
    <3>4. Distinct(a)
      BY <1>3, <1>4, <3>1, <3>2, <3>3 DEF Distinct
    <3>5. Up(a)
      <4>1. ASSUME NEW i \in DOMAIN a PROVE a[i].pnl >= p.pnl[a[i].user]
        BY <1>3, <1>4, <3>1, <3>2, <3>3
      <4>2. QED
        BY <4>1
    <3> DEFINE r == [b EXCEPT ![LeaderboardSize] = entry]
    <3>6. ASSUME ~ (Len(b) < LeaderboardSize)
          PROVE  /\ r \in Seq(BoardEntry) /\ DOMAIN r = DOMAIN b
                 /\ \A i \in DOMAIN b : r[i] = IF i = LeaderboardSize THEN entry ELSE b[i]
      <4>1. LeaderboardSize \in 1 .. Len(b)
        BY <1>2, <3>6, PortfolioAssumption
      <4>2. /\ r \in Seq(BoardEntry) /\ Len(r) = Len(b)
            /\ \A i \in 1 .. Len(b) : r[i] = IF i = LeaderboardSize THEN entry ELSE b[i]
        BY <1>1, <1>4, <4>1, ExceptSeq
      <4> HIDE DEF r
      <4>3. DOMAIN r = 1 .. Len(r)
        BY <4>2, LenProperties
      <4>4. QED
        BY <1>2, <4>2, <4>3
    <3> HIDE DEF r
    <3>7. ~ (Len(b) < LeaderboardSize) => Distinct(r)
      BY <1>3, <1>4, <3>1, <3>6 DEF Distinct
    <3>8. ~ (Len(b) < LeaderboardSize) => Up(r)
      <4>1. ASSUME ~ (Len(b) < LeaderboardSize), NEW i \in DOMAIN r PROVE r[i].pnl >= p.pnl[r[i].user]
        BY <4>1, <1>3, <1>4, <3>1, <3>6
      <4>2. QED
        BY <4>1
    <3>9. Up(b)
      BY <1>3, <3>1
    <3>10. pick = a \/ (pick = r /\ ~ (Len(b) < LeaderboardSize)) \/ pick = b
      BY <2>2 DEF a, r
    <3>11. QED
      BY <1>1, <1>3, <3>2, <3>4, <3>5, <3>6, <3>7, <3>8, <3>9, <3>10
  <2>3. QED
    BY <2>1, <2>2
<1> HIDE DEF pick
<1>7. /\ InOrder(pick) \in Seq(BoardEntry) /\ Descending(InOrder(pick))
      /\ DOMAIN InOrder(pick) = DOMAIN pick
      /\ \A k \in DOMAIN pick : \E i \in DOMAIN pick : InOrder(pick)[k] = pick[i]
  BY <1>6, InOrderSorts
<1>8. Up(InOrder(pick))
  <2>1. ASSUME NEW k \in DOMAIN InOrder(pick) PROVE InOrder(pick)[k].pnl >= p.pnl[InOrder(pick)[k].user]
    BY <1>6, <1>7
  <2>2. QED
    BY <2>1
<1>9. Ranked(p, u).top_traders = InOrder(pick)
  BY <1>5 DEF PortfolioRecord
<1>10. QED
  BY <1>5, <1>7, <1>8, <1>9

-----------------------------------------------------------------------------
(* What the helpers do to each field of the portfolio *)

\* One balance moves, and the record keeps its type.
LEMMA OneBalance ==
  ASSUME NEW b \in [Users -> [Assets -> Int]], NEW t \in Assets, NEW u \in Users, NEW n \in Int
  PROVE  LET c == [b EXCEPT ![u][t] = n] IN
         /\ c \in [Users -> [Assets -> Int]]
         /\ \A v \in Users : \A a \in Assets : c[v][a] = IF v = u /\ a = t THEN n ELSE b[v][a]
OBVIOUS

\* What a debit makes of p.
Paid(p, q, t, u, amount) ==
  /\ q \in PortfolioRecord
  /\ \A v \in Users : \A a \in Assets :
       q.balances[v][a] = IF v = u /\ a = t THEN p.balances[v][a] - amount ELSE p.balances[v][a]
  /\ \A v \in Users : q.pnl[v] = IF v = u THEN p.pnl[v] - amount ELSE p.pnl[v]
  /\ q.trades = p.trades /\ q.total_users = p.total_users /\ q.active_users = p.active_users
  /\ q.top_traders = p.top_traders /\ q.pool = p.pool /\ q.lp_positions = p.lp_positions
  /\ q.total_lp_tokens = p.total_lp_tokens /\ q.lp_fees_accumulated = p.lp_fees_accumulated /\ q.total_fees_collected = p.total_fees_collected

LEMMA DebitedIs ==
  ASSUME NEW p \in PortfolioRecord, NEW t \in Assets, NEW u \in Users, NEW amount \in Int
  PROVE  Paid(p, Debited(p, t, u, amount), t, u, amount)
<1> DEFINE B == [p.balances EXCEPT ![u][t] = p.balances[u][t] - amount]
           P == [p.pnl EXCEPT ![u] = p.pnl[u] - amount]
           q == [p EXCEPT !.balances = B, !.pnl = P]
<1>1. Debited(p, t, u, amount) = q
  BY DEF Debited, PortfolioRecord
<1>2. p.balances \in [Users -> [Assets -> Int]] /\ p.pnl \in [Users -> Int]
  BY DEF PortfolioRecord
<1>3. /\ B \in [Users -> [Assets -> Int]]
      /\ \A v \in Users : \A a \in Assets :
           B[v][a] = IF v = u /\ a = t THEN p.balances[u][t] - amount ELSE p.balances[v][a]
  <2>1. p.balances[u][t] - amount \in Int
    BY <1>2
  <2>2. QED
    BY <1>2, <2>1, OneBalance
<1>4. P \in [Users -> Int] /\ \A v \in Users : P[v] = IF v = u THEN p.pnl[v] - amount ELSE p.pnl[v]
  BY <1>2
<1> HIDE DEF B, P
<1>5. q \in PortfolioRecord
  BY <1>3, <1>4 DEF PortfolioRecord
<1>6. q.balances = B /\ q.pnl = P
  BY DEF PortfolioRecord
<1>7. /\ q.trades = p.trades /\ q.total_users = p.total_users /\ q.active_users = p.active_users
         /\ q.top_traders = p.top_traders /\ q.pool = p.pool /\ q.lp_positions = p.lp_positions
         /\ q.total_lp_tokens = p.total_lp_tokens /\ q.lp_fees_accumulated = p.lp_fees_accumulated /\ q.total_fees_collected = p.total_fees_collected
  BY DEF PortfolioRecord
<1> HIDE DEF q
<1>8. QED
  BY <1>1, <1>3, <1>4, <1>5, <1>6, <1>7 DEF Paid

LEMMA CreditedIs ==
  ASSUME NEW p \in PortfolioRecord, NEW t \in Assets, NEW u \in Users, NEW amount \in Int
  PROVE  LET q == Credited(p, t, u, amount) IN
         /\ q \in PortfolioRecord
         /\ \A v \in Users : \A a \in Assets :
              q.balances[v][a] = IF v = u /\ a = t THEN p.balances[v][a] + amount ELSE p.balances[v][a]
         /\ q.pnl = p.pnl /\ q.trades = p.trades /\ q.total_users = p.total_users
         /\ q.active_users = p.active_users /\ q.top_traders = p.top_traders /\ q.pool = p.pool
         /\ q.lp_positions = p.lp_positions /\ q.total_lp_tokens = p.total_lp_tokens /\ q.lp_fees_accumulated = p.lp_fees_accumulated
         /\ q.total_fees_collected = p.total_fees_collected
<1> DEFINE B == [p.balances EXCEPT ![u][t] = p.balances[u][t] + amount]
           q == [p EXCEPT !.balances = B]
<1>1. Credited(p, t, u, amount) = q
  BY DEF Credited, PortfolioRecord
<1>2. p.balances \in [Users -> [Assets -> Int]]
  BY DEF PortfolioRecord
<1>3. /\ B \in [Users -> [Assets -> Int]]
      /\ \A v \in Users : \A a \in Assets :
           B[v][a] = IF v = u /\ a = t THEN p.balances[u][t] + amount ELSE p.balances[v][a]
  <2>1. p.balances[u][t] + amount \in Int
    BY <1>2
  <2>2. QED
    BY <1>2, <2>1, OneBalance
<1> HIDE DEF B
<1>5. q \in PortfolioRecord
  BY <1>3 DEF PortfolioRecord
<1>6. q.balances = B
  BY DEF PortfolioRecord
<1>7. /\ q.pnl = p.pnl /\ q.trades = p.trades /\ q.total_users = p.total_users
         /\ q.active_users = p.active_users /\ q.top_traders = p.top_traders /\ q.pool = p.pool
         /\ q.lp_positions = p.lp_positions /\ q.total_lp_tokens = p.total_lp_tokens /\ q.lp_fees_accumulated = p.lp_fees_accumulated
         /\ q.total_fees_collected = p.total_fees_collected
  BY DEF PortfolioRecord
<1> HIDE DEF q
<1>8. QED
  BY <1>1, <1>3, <1>5, <1>6, <1>7

LEMMA StatsUpdatedIs ==
  ASSUME NEW p \in PortfolioRecord, NEW u \in Users
  PROVE  LET q == StatsUpdated(p, u) IN
         /\ q \in PortfolioRecord
         /\ q.total_users = IF p.trades[u] = 0 THEN p.total_users + 1 ELSE p.total_users
         /\ q.active_users = IF p.trades[u] = 0 THEN p.active_users \cup {u} ELSE p.active_users
         /\ q.balances = p.balances /\ q.pnl = p.pnl /\ q.trades = p.trades
         /\ q.top_traders = p.top_traders /\ q.pool = p.pool /\ q.lp_positions = p.lp_positions
         /\ q.total_lp_tokens = p.total_lp_tokens /\ q.lp_fees_accumulated = p.lp_fees_accumulated /\ q.total_fees_collected = p.total_fees_collected
<1> DEFINE q == [p EXCEPT !.total_users = p.total_users + 1, !.active_users = p.active_users \cup {u}]
<1>1. p.total_users + 1 \in Nat /\ p.active_users \cup {u} \in SUBSET Users
  BY DEF PortfolioRecord
<1>2. q \in PortfolioRecord
  BY <1>1 DEF PortfolioRecord
<1>3. /\ q.total_users = p.total_users + 1 /\ q.active_users = p.active_users \cup {u}
         /\ q.balances = p.balances /\ q.pnl = p.pnl /\ q.trades = p.trades
         /\ q.top_traders = p.top_traders /\ q.pool = p.pool /\ q.lp_positions = p.lp_positions
         /\ q.total_lp_tokens = p.total_lp_tokens /\ q.lp_fees_accumulated = p.lp_fees_accumulated /\ q.total_fees_collected = p.total_fees_collected
  BY DEF PortfolioRecord
<1>4. StatsUpdated(p, u) = IF p.trades[u] = 0 THEN q ELSE p
  BY DEF StatsUpdated, PortfolioRecord
<1> HIDE DEF q
<1>5. QED
  BY <1>2, <1>3, <1>4

LEMMA TradeRecordedIs ==
  ASSUME NEW p \in PortfolioRecord, NEW u \in Users
  PROVE  LET q == TradeRecorded(p, u) IN
         /\ q \in PortfolioRecord
         /\ \A v \in Users : q.trades[v] = IF v = u THEN p.trades[v] + 1 ELSE p.trades[v]
         /\ q.balances = p.balances /\ q.pnl = p.pnl /\ q.total_users = p.total_users
         /\ q.active_users = p.active_users /\ q.top_traders = p.top_traders /\ q.pool = p.pool
         /\ q.lp_positions = p.lp_positions /\ q.total_lp_tokens = p.total_lp_tokens /\ q.lp_fees_accumulated = p.lp_fees_accumulated
         /\ q.total_fees_collected = p.total_fees_collected
<1> DEFINE N == [p.trades EXCEPT ![u] = p.trades[u] + 1]
           q == [p EXCEPT !.trades = N]
<1>1. TradeRecorded(p, u) = q
  BY DEF TradeRecorded, PortfolioRecord
<1>2. p.trades \in [Users -> Nat]
  BY DEF PortfolioRecord
<1>3. N \in [Users -> Nat] /\ \A v \in Users : N[v] = IF v = u THEN p.trades[v] + 1 ELSE p.trades[v]
  BY <1>2
<1> HIDE DEF N
<1>4. q \in PortfolioRecord
  BY <1>3 DEF PortfolioRecord
<1>5. /\ q.trades = N
         /\ q.balances = p.balances /\ q.pnl = p.pnl /\ q.total_users = p.total_users
         /\ q.active_users = p.active_users /\ q.top_traders = p.top_traders /\ q.pool = p.pool
         /\ q.lp_positions = p.lp_positions /\ q.total_lp_tokens = p.total_lp_tokens /\ q.lp_fees_accumulated = p.lp_fees_accumulated
         /\ q.total_fees_collected = p.total_fees_collected
  BY DEF PortfolioRecord
<1> HIDE DEF q
<1>6. QED
  BY <1>1, <1>3, <1>4, <1>5

LEMMA OtherAsset ==
  \A a \in Assets : Other(a) \in Assets /\ Other(a) # a /\ Other(Other(a)) = a /\ Assets = {a, Other(a)}
BY DEF Assets, Other

\* A mint and the leaderboard's refresh.
LEMMA MintedIs ==
  ASSUME NEW p \in PortfolioRecord, NEW t \in Assets, NEW u \in Users, NEW amount \in Nat,
         Descending(p.top_traders),
         \A i \in DOMAIN p.top_traders : p.top_traders[i].pnl >= p.pnl[p.top_traders[i].user]
  PROVE  LET q == Minted(p, t, u, amount) IN
         /\ q \in PortfolioRecord
         /\ \A v \in Users : \A a \in Assets :
              q.balances[v][a] = IF v = u /\ a = t THEN p.balances[v][a] + amount ELSE p.balances[v][a]
         /\ Descending(q.top_traders)
         /\ \A i \in DOMAIN q.top_traders : q.top_traders[i].pnl >= q.pnl[q.top_traders[i].user]
         /\ q.trades = p.trades /\ q.total_users = p.total_users /\ q.active_users = p.active_users
         /\ q.pool = p.pool /\ q.lp_positions = p.lp_positions /\ q.total_lp_tokens = p.total_lp_tokens
         /\ q.lp_fees_accumulated = p.lp_fees_accumulated /\ q.total_fees_collected = p.total_fees_collected
<1> DEFINE B == [p.balances EXCEPT ![u][t] = p.balances[u][t] + amount]
           P == [p.pnl EXCEPT ![u] = p.pnl[u] + amount]
           r == [p EXCEPT !.balances = B, !.pnl = P]
           c == Ranked(r, u).top_traders
           q == [r EXCEPT !.top_traders = c]
<1>1. Minted(p, t, u, amount) = Ranked(r, u)
  BY DEF Minted, PortfolioRecord
<1>2. p.balances \in [Users -> [Assets -> Int]] /\ p.pnl \in [Users -> Int]
  BY DEF PortfolioRecord
<1>3. /\ B \in [Users -> [Assets -> Int]]
      /\ \A v \in Users : \A a \in Assets :
           B[v][a] = IF v = u /\ a = t THEN p.balances[u][t] + amount ELSE p.balances[v][a]
  <2>1. p.balances[u][t] + amount \in Int
    BY <1>2
  <2>2. QED
    BY <1>2, <2>1, OneBalance
<1>4. P \in [Users -> Int] /\ \A v \in Users : v # u => P[v] = p.pnl[v]
  BY <1>2
<1> HIDE DEF B, P
<1>5. r \in PortfolioRecord
  BY <1>3, <1>4 DEF PortfolioRecord
<1>6. /\ r.balances = B /\ r.pnl = P
         /\ r.trades = p.trades /\ r.total_users = p.total_users /\ r.active_users = p.active_users
         /\ r.top_traders = p.top_traders /\ r.pool = p.pool /\ r.lp_positions = p.lp_positions
         /\ r.total_lp_tokens = p.total_lp_tokens /\ r.lp_fees_accumulated = p.lp_fees_accumulated /\ r.total_fees_collected = p.total_fees_collected
  BY DEF PortfolioRecord
<1>7. \A i \in DOMAIN p.top_traders : p.top_traders[i].user \in Users
  <2>1. p.top_traders \in Seq(BoardEntry)
    BY DEF PortfolioRecord, BoardEntry
  <2>2. \A i \in DOMAIN p.top_traders : p.top_traders[i] \in BoardEntry
    BY <2>1, LenProperties, ElementOfSeq
  <2>3. QED
    BY <2>2 DEF BoardEntry
<1>8. Covers(r.top_traders, r.pnl, u)
  BY <1>4, <1>6, <1>7 DEF Covers
<1>9. /\ Ranked(r, u) = q /\ c \in Seq(BoardEntry) /\ Descending(c)
      /\ \A i \in DOMAIN c : c[i].pnl >= r.pnl[c[i].user]
  <2> HIDE DEF r
  <2>1. QED
    BY <1>5, <1>6, <1>8, RankedBoard
<1> HIDE DEF r, c
<1>10. q \in PortfolioRecord
  BY <1>5, <1>9 DEF PortfolioRecord, BoardEntry
<1>11. /\ q.top_traders = c
         /\ q.balances = r.balances /\ q.pnl = r.pnl /\ q.trades = r.trades
         /\ q.total_users = r.total_users /\ q.active_users = r.active_users /\ q.pool = r.pool
         /\ q.lp_positions = r.lp_positions /\ q.total_lp_tokens = r.total_lp_tokens /\ q.lp_fees_accumulated = r.lp_fees_accumulated
         /\ q.total_fees_collected = r.total_fees_collected
  BY <1>5 DEF PortfolioRecord
<1> HIDE DEF q
<1>12. QED
  BY <1>1, <1>3, <1>6, <1>9, <1>10, <1>11

\* What a swap that pays out, and the record of it, make of p.
Swapped(p, q, u, from, amount, out) ==
  /\ q \in PortfolioRecord
  /\ \A v \in Users \ {u} : \A a \in Assets : q.balances[v][a] = p.balances[v][a]
  /\ q.balances[u][from] = p.balances[u][from] - amount - amount
  /\ q.balances[u][Other(from)] = p.balances[u][Other(from)] + amount + out
  /\ \A v \in Users : q.pnl[v] = IF v = u THEN p.pnl[v] - amount - amount ELSE p.pnl[v]
  /\ \A v \in Users : q.trades[v] = IF v = u THEN p.trades[v] + 1 ELSE p.trades[v]
  /\ q.total_users = IF p.trades[u] = 0 THEN p.total_users + 1 ELSE p.total_users
  /\ q.active_users = IF p.trades[u] = 0 THEN p.active_users \cup {u} ELSE p.active_users
  /\ q.pool = IF Pooled(p) THEN ReservesAfter(p, from, amount, out) ELSE p.pool
  /\ q.lp_fees_accumulated = p.lp_fees_accumulated + FeeOn(amount)
  /\ q.top_traders = p.top_traders /\ q.lp_positions = p.lp_positions
  /\ q.total_lp_tokens = p.total_lp_tokens
  /\ q.total_fees_collected = p.total_fees_collected

LEMMA SwapIs ==
  ASSUME NEW p \in PortfolioRecord, NEW u \in Users, NEW from \in Assets, NEW amount \in Int,
         NEW out \in Int, out = ActualOut(p, from, amount)
  PROVE  Swapped(p, TradeRecorded(PerformSwap(p, u, from, amount), u), u, from, amount, out)
<1> DEFINE to == Other(from)
           p1 == Debited(p, from, u, amount)
           p2 == Credited(p1, to, u, amount)
           p3 == StatsUpdated(p2, u)
           p4 == Debited(p3, from, u, amount)
           p5 == Credited(p4, to, u, out)
           R == IF Pooled(p) THEN ReservesAfter(p, from, amount, out) ELSE p5.pool
           L == p5.lp_fees_accumulated + FeeOn(amount)
           p6 == [p5 EXCEPT !.pool = R, !.lp_fees_accumulated = L]
           q == TradeRecorded(p6, u)
<1>1. to \in Assets /\ to # from /\ out \in Int
  BY OtherAsset
<1>2. q = TradeRecorded(PerformSwap(p, u, from, amount), u)
  BY DEF PerformSwap, Transferred
<1>3. p1 \in PortfolioRecord /\ p2 \in PortfolioRecord /\ p3 \in PortfolioRecord
      /\ p4 \in PortfolioRecord /\ p5 \in PortfolioRecord
  <2> HIDE DEF to
  <2>1. p1 \in PortfolioRecord
    BY DebitedIs DEF Paid
  <2> HIDE DEF p1
  <2>2. p2 \in PortfolioRecord
    BY <1>1, <2>1, CreditedIs
  <2> HIDE DEF p2
  <2>3. p3 \in PortfolioRecord
    BY <2>2, StatsUpdatedIs
  <2> HIDE DEF p3
  <2>4. p4 \in PortfolioRecord
    BY <2>3, DebitedIs DEF Paid
  <2> HIDE DEF p4
  <2>5. p5 \in PortfolioRecord
    BY <1>1, <2>4, CreditedIs
  <2>6. QED
    BY <2>1, <2>2, <2>3, <2>4, <2>5
<1>4. /\ \A v \in Users : \A a \in Assets :
           p1.balances[v][a] = IF v = u /\ a = from THEN p.balances[v][a] - amount ELSE p.balances[v][a]
      /\ \A v \in Users : p1.pnl[v] = IF v = u THEN p.pnl[v] - amount ELSE p.pnl[v]
      /\ p1.trades = p.trades /\ p1.total_users = p.total_users /\ p1.active_users = p.active_users
      /\ p1.top_traders = p.top_traders /\ p1.pool = p.pool /\ p1.lp_positions = p.lp_positions
      /\ p1.total_lp_tokens = p.total_lp_tokens /\ p1.lp_fees_accumulated = p.lp_fees_accumulated /\ p1.total_fees_collected = p.total_fees_collected
  <2> HIDE DEF to
  <2>1. QED
    BY <1>1, <1>3, DebitedIs DEF Paid
<1>5. /\ \A v \in Users : \A a \in Assets :
           p2.balances[v][a] = IF v = u /\ a = to THEN p1.balances[v][a] + amount ELSE p1.balances[v][a]
      /\ p2.pnl = p1.pnl /\ p2.trades = p1.trades /\ p2.total_users = p1.total_users
      /\ p2.active_users = p1.active_users /\ p2.top_traders = p1.top_traders /\ p2.pool = p1.pool
      /\ p2.lp_positions = p1.lp_positions /\ p2.total_lp_tokens = p1.total_lp_tokens /\ p2.lp_fees_accumulated = p1.lp_fees_accumulated
      /\ p2.total_fees_collected = p1.total_fees_collected
  <2>1. p1 \in PortfolioRecord /\ to \in Assets
    BY <1>1, <1>3
  <2> HIDE DEF to, p1
  <2>2. QED
    BY <2>1, CreditedIs, SMTT(60)
<1>6. /\ p3.total_users = IF p2.trades[u] = 0 THEN p2.total_users + 1 ELSE p2.total_users
      /\ p3.active_users = IF p2.trades[u] = 0 THEN p2.active_users \cup {u} ELSE p2.active_users
      /\ p3.balances = p2.balances /\ p3.pnl = p2.pnl /\ p3.trades = p2.trades
      /\ p3.top_traders = p2.top_traders /\ p3.pool = p2.pool /\ p3.lp_positions = p2.lp_positions
      /\ p3.total_lp_tokens = p2.total_lp_tokens /\ p3.lp_fees_accumulated = p2.lp_fees_accumulated /\ p3.total_fees_collected = p2.total_fees_collected
  <2> HIDE DEF to, p2
  <2>1. QED
    BY <1>1, <1>3, StatsUpdatedIs, ZenonT(60)
<1>7. /\ \A v \in Users : \A a \in Assets :
           p4.balances[v][a] = IF v = u /\ a = from THEN p3.balances[v][a] - amount ELSE p3.balances[v][a]
      /\ \A v \in Users : p4.pnl[v] = IF v = u THEN p3.pnl[v] - amount ELSE p3.pnl[v]
      /\ p4.trades = p3.trades /\ p4.total_users = p3.total_users /\ p4.active_users = p3.active_users
      /\ p4.top_traders = p3.top_traders /\ p4.pool = p3.pool /\ p4.lp_positions = p3.lp_positions
      /\ p4.total_lp_tokens = p3.total_lp_tokens /\ p4.lp_fees_accumulated = p3.lp_fees_accumulated /\ p4.total_fees_collected = p3.total_fees_collected
  <2> HIDE DEF to, p3
  <2>1. QED
    BY <1>1, <1>3, DebitedIs DEF Paid
<1>8. /\ \A v \in Users : \A a \in Assets :
           p5.balances[v][a] = IF v = u /\ a = to THEN p4.balances[v][a] + out ELSE p4.balances[v][a]
      /\ p5.pnl = p4.pnl /\ p5.trades = p4.trades /\ p5.total_users = p4.total_users
      /\ p5.active_users = p4.active_users /\ p5.top_traders = p4.top_traders /\ p5.pool = p4.pool
      /\ p5.lp_positions = p4.lp_positions /\ p5.total_lp_tokens = p4.total_lp_tokens /\ p5.lp_fees_accumulated = p4.lp_fees_accumulated
      /\ p5.total_fees_collected = p4.total_fees_collected
  <2>1. p4 \in PortfolioRecord /\ to \in Assets /\ out \in Int
    BY <1>1, <1>3
  <2> HIDE DEF to, p4
  <2>2. QED
    BY <2>1, CreditedIs
<1> HIDE DEF p1, p2, p3, p4, p5
<1>9. /\ R = IF Pooled(p) THEN ReservesAfter(p, from, amount, out) ELSE p.pool
      /\ L = p.lp_fees_accumulated + FeeOn(amount)
  BY <1>4, <1>5, <1>6, <1>7, <1>8
<1>10. R \in [Assets -> Int] /\ L \in Int
  <2>1. p.pool \in [Assets -> Int] /\ p.lp_fees_accumulated \in Int
    BY DEF PortfolioRecord
  <2>2. FeeOn(amount) \in Int
    BY DEF FeeOn, LpFeeBps
  <2> HIDE DEF to, R, L
  <2>3. p.pool[from] + (amount - FeeOn(amount)) \in Int /\ p.pool[to] - out \in Int
    BY <1>1, <2>1, <2>2
  <2>4. ReservesAfter(p, from, amount, out) \in [Assets -> Int]
    BY <1>1, <2>1, <2>3 DEF ReservesAfter, to
  <2>5. QED
    BY <1>9, <2>1, <2>2, <2>4
<1> HIDE DEF R, L, to
<1>11. p6 \in PortfolioRecord
  BY <1>3, <1>10 DEF PortfolioRecord
<1>12. /\ p6.pool = R /\ p6.lp_fees_accumulated = L
       /\ p6.balances = p5.balances /\ p6.pnl = p5.pnl /\ p6.trades = p5.trades
       /\ p6.total_users = p5.total_users /\ p6.active_users = p5.active_users /\ p6.top_traders = p5.top_traders
       /\ p6.lp_positions = p5.lp_positions /\ p6.total_lp_tokens = p5.total_lp_tokens /\ p6.total_fees_collected = p5.total_fees_collected
  BY <1>3 DEF PortfolioRecord
<1> HIDE DEF p6
<1>13. /\ q \in PortfolioRecord
       /\ \A v \in Users : q.trades[v] = IF v = u THEN p6.trades[v] + 1 ELSE p6.trades[v]
       /\ q.balances = p6.balances /\ q.pnl = p6.pnl /\ q.total_users = p6.total_users
       /\ q.active_users = p6.active_users /\ q.top_traders = p6.top_traders /\ q.pool = p6.pool
       /\ q.lp_positions = p6.lp_positions /\ q.total_lp_tokens = p6.total_lp_tokens /\ q.lp_fees_accumulated = p6.lp_fees_accumulated
       /\ q.total_fees_collected = p6.total_fees_collected
  BY <1>11, TradeRecordedIs
<1> HIDE DEF q
<1>14. \A v \in Users : \A a \in Assets :
         /\ p.balances[v][a] \in Int /\ p.pnl[v] \in Int
         /\ v = u /\ a = from => q.balances[v][a] = p.balances[v][a] - amount - amount
         /\ v = u /\ a = to => q.balances[v][a] = p.balances[v][a] + amount + out
         /\ v # u => q.balances[v][a] = p.balances[v][a]
  <2>1. \A v \in Users : \A a \in Assets : p.balances[v][a] \in Int /\ p.pnl[v] \in Int
    BY DEF PortfolioRecord
  <2>2. QED
    BY <1>1, <1>4, <1>5, <1>6, <1>7, <1>8, <1>12, <1>13, <2>1
<1>15. \A v \in Users : q.pnl[v] = IF v = u THEN p.pnl[v] - amount - amount ELSE p.pnl[v]
  BY <1>4, <1>5, <1>6, <1>7, <1>8, <1>12, <1>13
<1>16. /\ \A v \in Users : q.trades[v] = IF v = u THEN p.trades[v] + 1 ELSE p.trades[v]
       /\ q.total_users = IF p.trades[u] = 0 THEN p.total_users + 1 ELSE p.total_users
       /\ q.active_users = IF p.trades[u] = 0 THEN p.active_users \cup {u} ELSE p.active_users
  BY <1>4, <1>5, <1>6, <1>7, <1>8, <1>12, <1>13
<1>17. /\ q.pool = IF Pooled(p) THEN ReservesAfter(p, from, amount, out) ELSE p.pool
       /\ q.lp_fees_accumulated = p.lp_fees_accumulated + FeeOn(amount)
       /\ q.top_traders = p.top_traders /\ q.lp_positions = p.lp_positions
       /\ q.total_lp_tokens = p.total_lp_tokens
       /\ q.total_fees_collected = p.total_fees_collected
  BY <1>4, <1>5, <1>6, <1>7, <1>8, <1>9, <1>12, <1>13
<1>18. QED
  BY <1>1, <1>2, <1>13, <1>14, <1>15, <1>16, <1>17 DEF to, Swapped

-----------------------------------------------------------------------------
(* What holds of the portfolio between invocations *)

LPSum(p) == SumFunction([u \in Users |-> p.lp_positions[u].lp_tokens_minted])

\* The checks, and what they need to be inductive: no position is negative, who
\* is on record as active has traded.
PortfolioOK(p) ==
  /\ p \in PortfolioRecord
  /\ \A t \in Assets : p.pool[t] >= 0 /\ \A u \in Users : p.balances[u][t] >= 0
  /\ p.lp_fees_accumulated >= 0 /\ p.total_fees_collected >= 0
  /\ \A u \in Users : p.lp_positions[u].lp_tokens_minted >= 0
  /\ p.total_lp_tokens = LPSum(p)
  /\ p.total_users = Cardinality(p.active_users)
  /\ \A u \in p.active_users : p.trades[u] > 0
  /\ Descending(p.top_traders)
  /\ \A i \in DOMAIN p.top_traders : p.top_traders[i].pnl >= p.pnl[p.top_traders[i].user]

PricesOK == prices \in [Assets -> [value : Nat, at : Int]]

Product(p) == p.pool["XLM"] * p.pool["USDCSIM"]

LEMMA SumOfUsers ==
  ASSUME NEW f \in [Users -> Int], NEW g \in [Users -> Int], NEW u \in Users,
         \A v \in Users \ {u} : g[v] = f[v]
  PROVE  /\ SumFunction(f) \in Int /\ SumFunction(g) \in Int
         /\ SumFunction(g) = SumFunction(f) - f[u] + g[u]
<1>1. IsFiniteSet(Users)
  BY PortfolioAssumption
<1>2. SumFunction(f) = SumFunctionOnSet(f, Users) /\ SumFunction(g) = SumFunctionOnSet(g, Users)
  BY DEF SumFunction
<1>3. \A v \in Users : f[v] \in Int /\ g[v] \in Int
  OBVIOUS
<1>4. SumFunctionOnSet(f, Users) \in Int /\ SumFunctionOnSet(g, Users) \in Int
  BY <1>1, <1>3, SumType
<1>5. SumFunctionOnSet(g, Users) = SumFunctionOnSet(f, Users) - f[u] + g[u]
  BY <1>1, <1>3, SumChange
<1>6. QED
  BY <1>2, <1>4, <1>5

\* What the users hold of an asset moves with one user's balance.
LEMMA BalanceMoves ==
  ASSUME NEW p \in PortfolioRecord, NEW q \in PortfolioRecord, NEW u \in Users, NEW t \in Assets,
         \A v \in Users \ {u} : q.balances[v][t] = p.balances[v][t]
  PROVE  /\ Total(p, t) \in Int /\ Total(q, t) \in Int
         /\ Total(q, t) - q.pool[t] = Total(p, t) - p.pool[t] - p.balances[u][t] + q.balances[u][t]
<1> DEFINE f == [v \in Users |-> p.balances[v][t]]
           g == [v \in Users |-> q.balances[v][t]]
<1>1. f \in [Users -> Int] /\ g \in [Users -> Int] /\ p.pool[t] \in Int /\ q.pool[t] \in Int
  BY DEF PortfolioRecord
<1>2. f[u] = p.balances[u][t] /\ g[u] = q.balances[u][t]
  OBVIOUS
<1>3. \A v \in Users \ {u} : g[v] = f[v]
  OBVIOUS
<1>4. Total(p, t) = SumFunction(f) + p.pool[t] /\ Total(q, t) = SumFunction(g) + q.pool[t]
  BY DEF Total
<1> HIDE DEF f, g
<1>5. SumFunction(f) \in Int /\ SumFunction(g) \in Int /\ SumFunction(g) = SumFunction(f) - f[u] + g[u]
  BY <1>1, <1>3, SumOfUsers
<1>6. f[u] \in Int /\ g[u] \in Int
  BY <1>1
<1>7. QED
  BY <1>1, <1>2, <1>4, <1>5, <1>6

\* The pool's fee on an amount, what is left of the amount, and the bound of
\* invariant_fee_bounds.
LEMMA FeeFigures ==
  ASSUME NEW amount \in Nat
  PROVE  /\ FeeOn(amount) \in Nat /\ AfterFee(amount) \in Nat
         /\ AfterFee(amount) + FeeOn(amount) <= amount
         /\ FeeBounds(amount, FeeOn(amount))
BY DEF FeeOn, AfterFee, LpFeeBps, FeeBounds

LEMMA PriceOfNat ==
  ASSUME PricesOK, NEW from \in Assets, PriceUsable(from)
  PROVE  PriceOf(from) \in Nat
<1> DEFINE direct == prices[from]
           inverse == prices[Other(from)]
<1>1. direct.value \in Nat /\ inverse.value \in Nat /\ Precision \in Nat
  BY OtherAsset, ExchangeAssumption DEF PricesOK
<1>2. Precision * Precision \in Nat
  BY <1>1
<1>3. CASE direct # NoPrice
  BY <1>1, <1>3 DEF PriceOf
<1>4. CASE direct = NoPrice /\ inverse # NoPrice
  <2>1. inverse.value > 0
    BY <1>1, <1>4 DEF PriceUsable
  <2>2. (Precision * Precision) \div inverse.value \in Nat
    BY <1>1, <1>2, <2>1, DivNat
  <2>3. QED
    BY <1>4, <2>2 DEF PriceOf
<1>5. CASE direct = NoPrice /\ inverse = NoPrice
  BY <1>1, <1>5 DEF PriceOf
<1>6. QED
  BY <1>3, <1>4, <1>5

\* What a swap pays is a natural number; against the pool, less than the
\* reserve it is paid from, and the product of the reserves does not fall.
LEMMA SwapFigures ==
  ASSUME PricesOK, NEW p, PortfolioOK(p), NEW from \in Assets, PriceUsable(from), NEW amount \in Nat
  PROVE  LET out == ActualOut(p, from, amount)
             x == p.pool[from]
             y == p.pool[Other(from)]
         IN
         /\ out \in Nat
         /\ Pooled(p) => out < y /\ x * y <= (x + (amount - FeeOn(amount))) * (y - out)
<1> DEFINE x == p.pool[from]
           y == p.pool[Other(from)]
           net == AfterFee(amount)
           in == amount - FeeOn(amount)
           out == ActualOut(p, from, amount)
<1>1. x \in Nat /\ y \in Nat
  BY OtherAsset DEF PortfolioOK, PortfolioRecord
<1>2. net \in Nat /\ in \in Nat /\ net <= in
  BY FeeFigures
<1>3. CASE Pooled(p)
  <2>1. x > 0 /\ y > 0
    BY <1>3, OtherAsset DEF Pooled
  <2>2. out = (y * net) \div (x + net)
    BY <1>3 DEF ActualOut, Curve
  <2> HIDE DEF x, y, net, in, out
  <2>3. out \in Nat /\ out < y /\ x * y <= (x + in) * (y - out)
    BY <1>1, <1>2, <2>1, <2>2, TradeKeepsProduct
  <2>4. QED
    BY <2>3 DEF x, y, in, out
<1>4. CASE ~ Pooled(p)
  <2>1. PriceOf(from) \in Nat /\ Precision \in Nat /\ Precision > 0
    BY PriceOfNat, ExchangeAssumption
  <2>2. (amount * PriceOf(from)) \div Precision \in Nat
    BY <2>1, MulNat, DivNat
  <2>3. QED
    BY <1>4, <2>2 DEF ActualOut
<1>5. QED
  BY <1>3, <1>4

\* First-timers: whoever never traded is not on record as active.
LEMMA FirstTrade ==
  ASSUME NEW p, PortfolioOK(p), NEW u \in Users, p.trades[u] = 0
  PROVE  Cardinality(p.active_users \cup {u}) = p.total_users + 1
<1>1. p.active_users \subseteq Users /\ u \notin p.active_users
  BY DEF PortfolioOK, PortfolioRecord
<1>2. IsFiniteSet(p.active_users)
  BY <1>1, PortfolioAssumption, FS_Subset
<1>3. QED
  BY <1>1, <1>2, FS_AddElement DEF PortfolioOK

\* The board still covers everyone it names when nobody's pnl rises.
LEMMA BoardStays ==
  ASSUME NEW p, PortfolioOK(p), NEW q \in PortfolioRecord, q.top_traders = p.top_traders,
         \A v \in Users : q.pnl[v] <= p.pnl[v]
  PROVE  \A i \in DOMAIN q.top_traders : q.top_traders[i].pnl >= q.pnl[q.top_traders[i].user]
<1>1. p.top_traders \in Seq(BoardEntry) /\ p.pnl \in [Users -> Int] /\ q.pnl \in [Users -> Int]
  BY DEF PortfolioOK, PortfolioRecord, BoardEntry
<1>2. \A i \in DOMAIN p.top_traders : p.top_traders[i] \in BoardEntry
  BY <1>1, LenProperties, ElementOfSeq
<1>3. ASSUME NEW i \in DOMAIN p.top_traders PROVE p.top_traders[i].pnl >= q.pnl[p.top_traders[i].user]
  <2>1. p.top_traders[i].user \in Users /\ p.top_traders[i].pnl \in Int
    BY <1>2 DEF BoardEntry
  <2>2. p.top_traders[i].pnl >= p.pnl[p.top_traders[i].user]
    BY DEF PortfolioOK
  <2>3. p.pnl[p.top_traders[i].user] \in Int /\ q.pnl[p.top_traders[i].user] \in Int
        /\ q.pnl[p.top_traders[i].user] <= p.pnl[p.top_traders[i].user]
    BY <1>1, <2>1
  <2>4. QED
    BY <2>1, <2>2, <2>3
<1>4. QED
  BY <1>3

\* A swap keeps what holds of the portfolio, the product of the reserves, and,
\* against the pool, the sum of everything held.
LEMMA SwapKeeps ==
  ASSUME PricesOK, NEW p, PortfolioOK(p), NEW u \in Users, NEW from \in Assets, NEW amount \in Int,
         CanPerformSwap(p, u, from, amount)
  PROVE  LET q == TradeRecorded(PerformSwap(p, u, from, amount), u) IN
         /\ PortfolioOK(q)
         /\ q.lp_positions = p.lp_positions /\ q.total_lp_tokens = p.total_lp_tokens
         /\ Product(q) >= Product(p)
         /\ q.lp_fees_accumulated = p.lp_fees_accumulated + FeeOn(amount)
         /\ q.total_fees_collected = p.total_fees_collected
         /\ Pooled(p) => Holdings(q) = Holdings(p)
<1> DEFINE q == TradeRecorded(PerformSwap(p, u, from, amount), u)
           out == ActualOut(p, from, amount)
           fee == FeeOn(amount)
           to == Other(from)
<1>1. p \in PortfolioRecord /\ amount \in Nat /\ amount > 0 /\ PriceUsable(from)
  BY DEF PortfolioOK, CanPerformSwap
<1>2. /\ out \in Nat
      /\ Pooled(p) => out < p.pool[to] /\ p.pool[from] * p.pool[to] <= (p.pool[from] + (amount - fee)) * (p.pool[to] - out)
  BY <1>1, SwapFigures
<1>3. fee \in Nat /\ fee <= amount
  <2>1. fee \in Nat /\ AfterFee(amount) \in Nat /\ AfterFee(amount) + fee <= amount
    BY <1>1, FeeFigures
  <2>2. QED
    BY <1>1, <2>1
<1>4. to \in Assets /\ to # from /\ Assets = {from, to} /\ Other(from) = to
  BY OtherAsset
<1>5. p.balances[u][from] - amount >= amount /\ \A v \in Users : \A a \in Assets : p.balances[v][a] \in Nat
  <2>1. \A v \in Users : \A a \in Assets : p.balances[v][a] \in Nat
    BY DEF PortfolioOK, PortfolioRecord
  <2>2. Debited(p, from, u, amount).balances[u][from] = p.balances[u][from] - amount
    BY <1>1, DebitedIs DEF Paid
  <2>3. QED
    BY <2>1, <2>2 DEF CanPerformSwap, CoversSwap, CanDebit
<1>6. \A a \in Assets : p.pool[a] \in Nat
  BY DEF PortfolioOK, PortfolioRecord
<1>7. /\ q \in PortfolioRecord
      /\ \A v \in Users \ {u} : \A a \in Assets : q.balances[v][a] = p.balances[v][a]
      /\ q.balances[u][from] = p.balances[u][from] - amount - amount
      /\ q.balances[u][to] = p.balances[u][to] + amount + out
      /\ \A v \in Users : q.pnl[v] = IF v = u THEN p.pnl[v] - amount - amount ELSE p.pnl[v]
      /\ \A v \in Users : q.trades[v] = IF v = u THEN p.trades[v] + 1 ELSE p.trades[v]
      /\ q.total_users = IF p.trades[u] = 0 THEN p.total_users + 1 ELSE p.total_users
      /\ q.active_users = IF p.trades[u] = 0 THEN p.active_users \cup {u} ELSE p.active_users
      /\ q.pool = IF Pooled(p) THEN ReservesAfter(p, from, amount, out) ELSE p.pool
      /\ q.lp_fees_accumulated = p.lp_fees_accumulated + fee
      /\ q.top_traders = p.top_traders /\ q.lp_positions = p.lp_positions
      /\ q.total_lp_tokens = p.total_lp_tokens
      /\ q.total_fees_collected = p.total_fees_collected
  <2>1. ActualOut(p, from, amount) \in Int
    BY <1>2
  <2>2. Swapped(p, q, u, from, amount, out)
    BY <1>1, <2>1, SwapIs
  <2> HIDE DEF q, out
  <2>3. QED
    BY <2>2 DEF Swapped
<1>8. /\ Pooled(p) => q.pool[from] = p.pool[from] + (amount - fee) /\ q.pool[to] = p.pool[to] - out
      /\ ~ Pooled(p) => q.pool = p.pool
  BY <1>1, <1>4, <1>7 DEF ReservesAfter, PortfolioRecord
<1> HIDE DEF q, out, fee, to
<1>9. \A a \in Assets : q.pool[a] >= 0
  <2>1. CASE Pooled(p)
    <3>1. q.pool[from] >= 0 /\ q.pool[to] >= 0
      BY <1>1, <1>2, <1>3, <1>4, <1>6, <1>8, <2>1
    <3>2. QED
      BY <1>4, <3>1
  <2>2. CASE ~ Pooled(p)
    BY <1>6, <1>8, <2>2
  <2>3. QED
    BY <2>1, <2>2
<1>10. \A a \in Assets : \A v \in Users : q.balances[v][a] >= 0
  <2>1. q.balances[u][from] >= 0 /\ q.balances[u][to] >= 0
    BY <1>1, <1>2, <1>4, <1>5, <1>7
  <2>2. ASSUME NEW a \in Assets, NEW v \in Users PROVE q.balances[v][a] >= 0
    <3>1. CASE v = u
      BY <1>4, <2>1, <3>1
    <3>2. CASE v # u
      BY <1>5, <1>7, <3>2
    <3>3. QED
      BY <3>1, <3>2
  <2>3. QED
    BY <2>2
<1>11. q.total_users = Cardinality(q.active_users) /\ \A v \in q.active_users : q.trades[v] > 0
  <2>1. \A v \in Users : p.trades[v] \in Nat
    BY <1>1 DEF PortfolioRecord
  <2>2. p.active_users \subseteq Users /\ p.total_users = Cardinality(p.active_users)
        /\ \A v \in p.active_users : p.trades[v] > 0
    BY <1>1 DEF PortfolioRecord, PortfolioOK
  <2>3. CASE p.trades[u] = 0
    <3>1. q.active_users = p.active_users \cup {u} /\ q.total_users = p.total_users + 1
      BY <1>7, <2>3
    <3>2. Cardinality(q.active_users) = q.total_users
      BY <2>3, <3>1, FirstTrade
    <3>3. QED
      BY <1>7, <2>1, <2>2, <3>1, <3>2
  <2>4. CASE p.trades[u] # 0
    BY <1>7, <2>1, <2>2, <2>4
  <2>5. QED
    BY <2>3, <2>4
<1>12. \A i \in DOMAIN q.top_traders : q.top_traders[i].pnl >= q.pnl[q.top_traders[i].user]
  <2>1. \A v \in Users : p.pnl[v] \in Int
    BY <1>1 DEF PortfolioRecord
  <2>2. \A v \in Users : q.pnl[v] <= p.pnl[v]
    BY <1>1, <1>7, <2>1
  <2>3. QED
    BY <1>7, <2>2, BoardStays
<1>13. PortfolioOK(q)
  <2>1. q.lp_fees_accumulated >= 0 /\ q.total_fees_collected >= 0
    BY <1>1, <1>3, <1>7 DEF PortfolioOK, PortfolioRecord
  <2>2. \A v \in Users : q.lp_positions[v].lp_tokens_minted >= 0
    BY <1>7 DEF PortfolioOK
  <2>3. q.total_lp_tokens = LPSum(q)
    BY <1>7 DEF PortfolioOK, LPSum
  <2>4. Descending(q.top_traders)
    BY <1>7 DEF PortfolioOK
  <2>5. QED
    BY <1>7, <1>9, <1>10, <1>11, <1>12, <2>1, <2>2, <2>3, <2>4 DEF PortfolioOK
<1>14. Product(q) >= Product(p)
  <2>1. \A r : r \in PortfolioRecord => Product(r) = r.pool[from] * r.pool[to] /\ r.pool[from] \in Int /\ r.pool[to] \in Int
    BY <1>4, OtherAsset DEF Product, Assets, Other, to, PortfolioRecord
  <2>2. CASE Pooled(p)
    <3>1. p.pool[from] * p.pool[to] <= q.pool[from] * q.pool[to]
      BY <1>2, <1>8, <2>2
    <3>2. Product(p) = p.pool[from] * p.pool[to] /\ Product(q) = q.pool[from] * q.pool[to]
      BY <1>1, <1>7, <2>1
    <3>3. p.pool[from] * p.pool[to] \in Int /\ q.pool[from] * q.pool[to] \in Int
      BY <1>1, <1>7, <2>1
    <3>4. QED
      BY <3>1, <3>2, <3>3
  <2>3. CASE ~ Pooled(p)
    <3>1. Product(q) = Product(p)
      BY <1>8, <2>3 DEF Product
    <3>2. Product(p) \in Int
      BY <1>6 DEF Product, Assets
    <3>3. QED
      BY <3>1, <3>2
  <2>4. QED
    BY <2>2, <2>3
<1>15. ASSUME Pooled(p) PROVE Holdings(q) = Holdings(p)
  <2>1. \A v \in Users \ {u} : q.balances[v][from] = p.balances[v][from] /\ q.balances[v][to] = p.balances[v][to]
    BY <1>4, <1>7
  <2>2. /\ Total(p, from) \in Int /\ Total(q, from) \in Int
        /\ Total(q, from) - q.pool[from] = Total(p, from) - p.pool[from] - p.balances[u][from] + q.balances[u][from]
    BY <1>1, <1>7, <2>1, BalanceMoves
  <2>3. /\ Total(p, to) \in Int /\ Total(q, to) \in Int
        /\ Total(q, to) - q.pool[to] = Total(p, to) - p.pool[to] - p.balances[u][to] + q.balances[u][to]
    BY <1>1, <1>4, <1>7, <2>1, BalanceMoves
  <2>4. Total(q, from) = Total(p, from) - amount - fee
    BY <1>1, <1>3, <1>4, <1>5, <1>6, <1>7, <1>8, <1>15, <2>2
  <2>5. Total(q, to) = Total(p, to) + amount
    <3>1. /\ q.balances[u][to] = p.balances[u][to] + amount + out /\ q.pool[to] = p.pool[to] - out
          /\ p.balances[u][to] \in Int /\ p.pool[to] \in Int /\ out \in Int
      BY <1>2, <1>4, <1>5, <1>6, <1>7, <1>8, <1>15
    <3>2. QED
      BY <1>1, <2>3, <3>1
  <2>6. p.lp_fees_accumulated \in Int /\ p.total_fees_collected \in Int
    BY <1>1 DEF PortfolioRecord
  <2>7. CASE from = "XLM"
    <3>1. to = "USDCSIM"
      BY <2>7 DEF to, Other
    <3>2. QED
      BY <1>1, <1>3, <1>7, <2>2, <2>3, <2>4, <2>5, <2>6, <2>7, <3>1 DEF Holdings
  <2>8. CASE from = "USDCSIM"
    <3>1. to = "XLM"
      BY <2>8 DEF to, Other
    <3>2. QED
      BY <1>1, <1>3, <1>7, <2>2, <2>3, <2>4, <2>5, <2>6, <2>8, <3>1 DEF Holdings
  <2>9. QED
    BY <2>7, <2>8 DEF Assets
<1>16. QED
  BY <1>7, <1>13, <1>14, <1>15 DEF q, fee

TierFeeBps == {15, 20, 25, 30}

\* The tier's fee on an amount: the part left for the swap is positive only if
\* the amount is, and the fee is within the bound of invariant_fee_bounds.
LEMMA TierFeeFigures ==
  ASSUME NEW p, NEW u, NEW amount \in Int
  PROVE  /\ TierFee(p, u, amount) \in Int
         /\ amount - TierFee(p, u, amount) > 0 => amount > 0
         /\ amount > 0 => TierFee(p, u, amount) \in Nat /\ FeeBounds(amount, TierFee(p, u, amount))
<1> DEFINE bps == EffectiveFeeBps[TierOf(p, u)]
           fee == TierFee(p, u, amount)
<1>1. bps \in TierFeeBps
  BY DEF TierOf, EffectiveFeeBps, TierFeeBps
<1>2. fee = (amount * bps) \div 10000
  BY DEF TierFee
<1> HIDE DEF bps, fee
<1>3. fee \in Int /\ (amount - fee > 0 => amount > 0)
      /\ (amount > 0 => fee \in Nat /\ fee <= (amount * 100) \div 10000)
  <2>1. CASE bps = 15
    BY <1>2, <2>1
  <2>2. CASE bps = 20
    BY <1>2, <2>2
  <2>3. CASE bps = 25
    BY <1>2, <2>3
  <2>4. CASE bps = 30
    BY <1>2, <2>4
  <2>5. QED
    BY <1>1, <2>1, <2>2, <2>3, <2>4 DEF TierFeeBps
<1>4. QED
  BY <1>3 DEF fee, FeeBounds

\* What the tier's fee makes of p.
Charged(p, q, fee) ==
  /\ PortfolioOK(q)
  /\ q.pool = p.pool /\ q.trades = p.trades
  /\ q.lp_positions = p.lp_positions /\ q.total_lp_tokens = p.total_lp_tokens
  /\ q.lp_fees_accumulated = p.lp_fees_accumulated
  /\ q.total_fees_collected = p.total_fees_collected + fee
  /\ Holdings(q) = Holdings(p)

LEMMA FeeTakenKeeps ==
  ASSUME NEW p, PortfolioOK(p), NEW u \in Users, NEW from \in Assets, NEW amount \in Int,
         TierFee(p, u, amount) > 0 => CanDebit(p, from, u, TierFee(p, u, amount)),
         TierFee(p, u, amount) \in Nat
  PROVE  Charged(p, FeeTaken(p, u, from, amount), TierFee(p, u, amount))
<1> DEFINE fee == TierFee(p, u, amount)
           d == Debited(p, from, u, fee)
           q == [d EXCEPT !.total_fees_collected = d.total_fees_collected + fee]
<1>1. p \in PortfolioRecord
  BY DEF PortfolioOK
<1>2. \A v \in Users : \A a \in Assets : p.balances[v][a] \in Nat
  BY DEF PortfolioOK, PortfolioRecord
<1>3. p.total_fees_collected \in Nat /\ p.lp_fees_accumulated \in Nat
  BY DEF PortfolioOK, PortfolioRecord
<1>4. CASE fee = 0
  <2>1. FeeTaken(p, u, from, amount) = p
    BY <1>4 DEF FeeTaken
  <2>2. QED
    BY <1>3, <1>4, <2>1 DEF Charged
<1>5. CASE fee > 0
  <2> HIDE DEF fee
  <2>1. fee \in Nat /\ p.balances[u][from] >= fee
    BY <1>5 DEF CanDebit, fee
  <2>2. /\ d \in PortfolioRecord
        /\ \A v \in Users : \A a \in Assets :
             d.balances[v][a] = IF v = u /\ a = from THEN p.balances[v][a] - fee ELSE p.balances[v][a]
        /\ \A v \in Users : d.pnl[v] = IF v = u THEN p.pnl[v] - fee ELSE p.pnl[v]
        /\ d.trades = p.trades /\ d.total_users = p.total_users /\ d.active_users = p.active_users
        /\ d.top_traders = p.top_traders /\ d.pool = p.pool /\ d.lp_positions = p.lp_positions
        /\ d.total_lp_tokens = p.total_lp_tokens /\ d.lp_fees_accumulated = p.lp_fees_accumulated
        /\ d.total_fees_collected = p.total_fees_collected
    BY <1>1, <2>1, DebitedIs DEF Paid
  <2>3. FeeTaken(p, u, from, amount) = q
    BY <1>5 DEF FeeTaken, fee
  <2> HIDE DEF d
  <2>4. q \in PortfolioRecord
    <3>1. d.total_fees_collected + fee \in Int
      BY <1>3, <2>1, <2>2
    <3>2. QED
      BY <2>2, <3>1 DEF PortfolioRecord
  <2>5. /\ q.balances = d.balances /\ q.pnl = d.pnl
        /\ q.trades = p.trades /\ q.total_users = p.total_users /\ q.active_users = p.active_users
        /\ q.top_traders = p.top_traders /\ q.pool = p.pool /\ q.lp_positions = p.lp_positions
        /\ q.total_lp_tokens = p.total_lp_tokens /\ q.lp_fees_accumulated = p.lp_fees_accumulated
        /\ q.total_fees_collected = p.total_fees_collected + fee
    BY <2>2 DEF PortfolioRecord
  <2> HIDE DEF q
  <2>6. \A v \in Users : p.pnl[v] \in Int
    BY <1>1 DEF PortfolioRecord
  <2>7. \A v \in Users : q.pnl[v] <= p.pnl[v]
    BY <2>1, <2>2, <2>5, <2>6
  <2>8. \A i \in DOMAIN q.top_traders : q.top_traders[i].pnl >= q.pnl[q.top_traders[i].user]
    BY <2>4, <2>5, <2>7, BoardStays
  <2>9. \A v \in Users : \A a \in Assets : q.balances[v][a] >= 0
    BY <1>2, <2>1, <2>2, <2>5
  <2>10. PortfolioOK(q)
    <3>1. q.total_fees_collected >= 0
      BY <1>3, <2>1, <2>5
    <3>2. q.total_lp_tokens = LPSum(q)
      BY <2>5 DEF PortfolioOK, LPSum
    <3>3. Descending(q.top_traders)
      BY <2>5 DEF PortfolioOK
    <3>4. QED
      BY <2>4, <2>5, <2>8, <2>9, <3>1, <3>2, <3>3 DEF PortfolioOK
  <2>11. Holdings(q) = Holdings(p)
    <3>1. \A a \in Assets : \A v \in Users \ {u} : q.balances[v][a] = p.balances[v][a]
      BY <2>2, <2>5
    <3>2. \A a \in Assets :
            /\ Total(p, a) \in Int /\ Total(q, a) \in Int
            /\ Total(q, a) - q.pool[a] = Total(p, a) - p.pool[a] - p.balances[u][a] + q.balances[u][a]
      BY <1>1, <2>4, <3>1, BalanceMoves
    <3>3. \A a \in Assets : p.pool[a] \in Int /\ p.balances[u][a] \in Int
            /\ q.balances[u][a] = (IF a = from THEN p.balances[u][a] - fee ELSE p.balances[u][a])
      BY <1>1, <1>2, <2>2, <2>5 DEF PortfolioRecord
    <3>4. \A a \in Assets : Total(q, a) = IF a = from THEN Total(p, a) - fee ELSE Total(p, a)
      BY <2>1, <2>5, <3>2, <3>3
    <3>5. "XLM" \in Assets /\ "USDCSIM" \in Assets /\ (from = "XLM" \/ from = "USDCSIM")
      BY DEF Assets
    <3>6. Total(p, "XLM") \in Int /\ Total(p, "USDCSIM") \in Int
      BY <3>2, <3>5
    <3>7. CASE from = "XLM"
      BY <1>3, <2>1, <2>5, <3>4, <3>5, <3>6, <3>7 DEF Holdings
    <3>8. CASE from = "USDCSIM"
      BY <1>3, <2>1, <2>5, <3>4, <3>5, <3>6, <3>8 DEF Holdings
    <3>9. QED
      BY <3>5, <3>7, <3>8
  <2>12. QED
    BY <2>3, <2>5, <2>10, <2>11 DEF Charged, fee
<1>6. QED
  BY <1>4, <1>5

\* What a mint makes of p.
Funded(p, q, t, u, amount) ==
  /\ PortfolioOK(q)
  /\ \A a \in Assets : Total(q, a) = IF a = t THEN Total(p, a) + amount ELSE Total(p, a)
  /\ q.pool = p.pool /\ q.trades = p.trades
  /\ q.lp_positions = p.lp_positions /\ q.total_lp_tokens = p.total_lp_tokens
  /\ q.lp_fees_accumulated = p.lp_fees_accumulated
  /\ q.total_fees_collected = p.total_fees_collected

LEMMA MintKeeps ==
  ASSUME NEW p, PortfolioOK(p), NEW t \in Assets, NEW u \in Users, NEW amount \in Nat
  PROVE  Funded(p, Minted(p, t, u, amount), t, u, amount)
<1> DEFINE q == Minted(p, t, u, amount)
<1>1. /\ p \in PortfolioRecord /\ Descending(p.top_traders)
      /\ \A i \in DOMAIN p.top_traders : p.top_traders[i].pnl >= p.pnl[p.top_traders[i].user]
  BY DEF PortfolioOK
<1>2. /\ q \in PortfolioRecord
      /\ \A v \in Users : \A a \in Assets :
           q.balances[v][a] = IF v = u /\ a = t THEN p.balances[v][a] + amount ELSE p.balances[v][a]
      /\ Descending(q.top_traders)
      /\ \A i \in DOMAIN q.top_traders : q.top_traders[i].pnl >= q.pnl[q.top_traders[i].user]
      /\ q.trades = p.trades /\ q.total_users = p.total_users /\ q.active_users = p.active_users
      /\ q.pool = p.pool /\ q.lp_positions = p.lp_positions /\ q.total_lp_tokens = p.total_lp_tokens
      /\ q.lp_fees_accumulated = p.lp_fees_accumulated /\ q.total_fees_collected = p.total_fees_collected
  BY <1>1, MintedIs
<1> HIDE DEF q
<1>3. \A v \in Users : \A a \in Assets : p.balances[v][a] \in Nat
  BY DEF PortfolioOK, PortfolioRecord
<1>4. \A v \in Users : \A a \in Assets : q.balances[v][a] >= 0
  BY <1>2, <1>3
<1>5. q.total_lp_tokens = LPSum(q)
  BY <1>2 DEF PortfolioOK, LPSum
<1>6. PortfolioOK(q)
  BY <1>2, <1>4, <1>5 DEF PortfolioOK
<1>7. ASSUME NEW a \in Assets PROVE Total(q, a) = IF a = t THEN Total(p, a) + amount ELSE Total(p, a)
  <2>1. \A v \in Users \ {u} : q.balances[v][a] = p.balances[v][a]
    BY <1>2
  <2>2. /\ Total(p, a) \in Int /\ Total(q, a) \in Int
        /\ Total(q, a) - q.pool[a] = Total(p, a) - p.pool[a] - p.balances[u][a] + q.balances[u][a]
    BY <1>1, <1>2, <2>1, BalanceMoves
  <2>3. p.pool[a] \in Int /\ p.balances[u][a] \in Int /\ q.pool[a] = p.pool[a]
        /\ q.balances[u][a] = (IF a = t THEN p.balances[u][a] + amount ELSE p.balances[u][a])
    BY <1>1, <1>2, <1>3 DEF PortfolioRecord
  <2>4. CASE a = t
    BY <2>2, <2>3, <2>4
  <2>5. CASE a # t
    BY <2>2, <2>3, <2>5
  <2>6. QED
    BY <2>4, <2>5
<1>8. QED
  BY <1>2, <1>6, <1>7 DEF Funded, q

LEMMA TradeRecordedKeeps ==
  ASSUME NEW p, PortfolioOK(p), NEW u \in Users
  PROVE  PortfolioOK(TradeRecorded(p, u))
<1> DEFINE q == TradeRecorded(p, u)
<1>1. p \in PortfolioRecord /\ p.active_users \subseteq Users /\ \A v \in Users : p.trades[v] \in Nat
  BY DEF PortfolioOK, PortfolioRecord
<1>2. /\ q \in PortfolioRecord
      /\ \A v \in Users : q.trades[v] = IF v = u THEN p.trades[v] + 1 ELSE p.trades[v]
      /\ q.balances = p.balances /\ q.pnl = p.pnl /\ q.total_users = p.total_users
      /\ q.active_users = p.active_users /\ q.top_traders = p.top_traders /\ q.pool = p.pool
      /\ q.lp_positions = p.lp_positions /\ q.total_lp_tokens = p.total_lp_tokens
      /\ q.lp_fees_accumulated = p.lp_fees_accumulated /\ q.total_fees_collected = p.total_fees_collected
  BY <1>1, TradeRecordedIs
<1> HIDE DEF q
<1>3. \A v \in q.active_users : q.trades[v] > 0
  BY <1>1, <1>2 DEF PortfolioOK
<1>4. q.total_lp_tokens = LPSum(q)
  BY <1>2 DEF PortfolioOK, LPSum
<1>5. PortfolioOK(q)
  BY <1>2, <1>3, <1>4 DEF PortfolioOK
<1>6. QED
  BY <1>5 DEF q

\* Nothing but the reserves moves, to a level that is not negative.
LEMMA ReservesSet ==
  ASSUME NEW p, PortfolioOK(p), NEW r \in [Assets -> Nat]
  PROVE  LET q == [p EXCEPT !.pool = r] IN
         /\ PortfolioOK(q) /\ q.pool = r /\ q.trades = p.trades /\ q.balances = p.balances
         /\ q.lp_positions = p.lp_positions /\ q.total_lp_tokens = p.total_lp_tokens
         /\ q.lp_fees_accumulated = p.lp_fees_accumulated
         /\ q.total_fees_collected = p.total_fees_collected
<1> DEFINE q == [p EXCEPT !.pool = r]
<1>1. p \in PortfolioRecord /\ r \in [Assets -> Int] /\ \A a \in Assets : r[a] >= 0
  BY DEF PortfolioOK
<1>2. q \in PortfolioRecord
  BY <1>1 DEF PortfolioRecord
<1>3. /\ q.balances = p.balances /\ q.pnl = p.pnl /\ q.trades = p.trades
      /\ q.total_users = p.total_users /\ q.active_users = p.active_users
      /\ q.top_traders = p.top_traders /\ q.pool = r
      /\ q.lp_positions = p.lp_positions /\ q.total_lp_tokens = p.total_lp_tokens
      /\ q.lp_fees_accumulated = p.lp_fees_accumulated /\ q.total_fees_collected = p.total_fees_collected
  BY <1>1 DEF PortfolioRecord
<1> HIDE DEF q
<1>4. q.total_lp_tokens = LPSum(q)
  BY <1>3 DEF PortfolioOK, LPSum
<1>5. PortfolioOK(q)
  BY <1>1, <1>2, <1>3, <1>4 DEF PortfolioOK
<1>6. QED
  BY <1>3, <1>5 DEF q

-----------------------------------------------------------------------------
(* Deposits and withdrawals *)

\* The loop of add_liquidity as a function of the round: it exists, and stays
\* above zero, so no round divides by zero.
LEMMA BabylonianNat ==
  ASSUME NEW product \in Nat, product > 0
  PROVE  Babylonian(product) \in Nat /\ Babylonian(product) > 0
<1> DEFINE T == Nat \ {0}
           Step(g) == (g + product \div g) \div 2
           F == [x \in T \X {0} |-> Step(x[1])]
           zeros == [i \in 1 .. 100 |-> 0]
           guess == CHOOSE guess : guess = [n \in 0 .. 100 |-> IF n = 0 THEN product ELSE Step(guess[n - 1])]
<1>1. ASSUME NEW g \in T PROVE Step(g) \in T
  <2>1. g \in Nat /\ g > 0
    OBVIOUS
  <2>2. product \div g \in Nat
    BY <2>1, DivNat
  <2>3. g + product \div g >= 2
    <3>1. CASE g >= 2
      BY <2>2, <3>1
    <3>2. CASE g = 1
      <4>1. product < (product \div 1) * 1 + 1
        BY DivFloor
      <4>2. QED
        BY <2>2, <3>2, <4>1
    <3>3. QED
      BY <2>1, <3>1, <3>2
  <2>4. QED
    BY <2>1, <2>2, <2>3
<1> HIDE DEF Step
<1>2. F \in [T \X {0} -> T]
  BY <1>1
<1>3. \E h : h = [n \in 0 .. 100 |-> IF n = 0 THEN product ELSE Step(h[n - 1])]
              /\ \A n \in 0 .. 100 : h[n] \in T
  <2>1. product \in T /\ \A i \in 1 .. 100 : zeros[i] \in {0}
    OBVIOUS
  <2>2. PICK g : Folds(F, product, zeros, 100, T, g)
    <3>1. 100 \in Nat
      OBVIOUS
    <3> HIDE DEF T, F, zeros
    <3>2. QED
      BY <1>2, <2>1, <3>1, FoldSolution
  <2>2a. g \in [SUBSET (1 .. 100) -> T] /\ \A s \in SUBSET (1 .. 100) : g[s] = FoldRound(F, product, zeros, g, s)
    BY <2>2 DEF Folds
  <2> DEFINE h == [n \in 0 .. 100 |-> g[1 .. n]]
  <2>3. \A n \in 0 .. 100 : (1 .. n) \in SUBSET (1 .. 100) /\ h[n] = g[1 .. n] /\ h[n] \in T
    <3>1. \A n \in 0 .. 100 : (1 .. n) \in SUBSET (1 .. 100) /\ h[n] = g[1 .. n]
      <4>1. \A n \in 0 .. 100 : (1 .. n) \in SUBSET (1 .. 100)
        OBVIOUS
      <4>2. \A n \in 0 .. 100 : h[n] = g[1 .. n]
        OBVIOUS
      <4>3. QED
        BY <4>1, <4>2
    <3> HIDE DEF T, h
    <3>2. QED
      BY <2>2a, <3>1
  <2>4. ASSUME NEW n \in 0 .. 100, n # 0 PROVE h[n] = Step(h[n - 1])
    <3>1. n \in Nat /\ n > 0 /\ n - 1 \in 0 .. 100
      BY <2>4
    <3>2. Max(1 .. n) = n /\ (1 .. n) \ {n} = 1 .. n - 1 /\ 1 .. n # {}
      <4>1. n \in 1 .. n
        BY <3>1
      <4>2. QED
        BY <3>1, <4>1, MaxOfPrefix
    <3>3. g[1 .. n] = F[<< g[1 .. n - 1], zeros[n] >>]
      <4>1. g[1 .. n] = FoldRound(F, product, zeros, g, 1 .. n)
        BY <2>2a, <2>3
      <4> HIDE DEF F, zeros
      <4>2. QED
        BY <3>2, <4>1 DEF FoldRound
    <3>4. h[n - 1] = g[1 .. n - 1] /\ g[1 .. n - 1] \in T /\ zeros[n] = 0
      <4>1. h[n - 1] = g[1 .. n - 1] /\ h[n - 1] \in T
        <5> HIDE DEF T, h
        <5>1. QED
          BY <2>3, <3>1
      <4>2. n \in 1 .. 100
        BY <3>1
      <4> HIDE DEF T, h
      <4>3. QED
        BY <4>1, <4>2
    <3>5. F[<< g[1 .. n - 1], zeros[n] >>] = Step(g[1 .. n - 1])
      <4> DEFINE a == g[1 .. n - 1]
                 b == zeros[n]
      <4>1. a \in T /\ b = 0
        BY <3>4
      <4> HIDE DEF a, b, T
      <4>2. << a, b >> \in T \X {0} /\ << a, b >>[1] = a
        BY <4>1
      <4>3. F[<< a, b >>] = Step(a)
        BY <4>2
      <4>4. QED
        BY <4>3 DEF a, b
    <3>6. QED
      BY <2>3, <3>3, <3>4, <3>5
  <2>5. h[0] = product
    <3>1. g[{}] = FoldRound(F, product, zeros, g, {})
      BY <2>2a
    <3>2. 1 .. 0 = {}
      OBVIOUS
    <3>3. QED
      BY <2>3, <3>1, <3>2 DEF FoldRound
  <2>6. h = [n \in 0 .. 100 |-> IF n = 0 THEN product ELSE Step(h[n - 1])]
    <3>1. h = [n \in 0 .. 100 |-> h[n]]
      OBVIOUS
    <3>2. \A n \in 0 .. 100 : h[n] = IF n = 0 THEN product ELSE Step(h[n - 1])
      BY <2>4, <2>5
    <3> HIDE DEF h
    <3>3. QED
      BY <3>1, <3>2
  <2>7. QED
    BY <2>3, <2>6
<1>4. guess = [n \in 0 .. 100 |-> IF n = 0 THEN product ELSE Step(guess[n - 1])]
  BY <1>3
<1>5. Babylonian(product) = guess[100]
  BY DEF Babylonian, Step
<1> HIDE DEF guess
<1>6. \A n \in Nat : n <= 100 => guess[n] \in T
  <2> DEFINE Bad == {n \in Nat : n <= 100 /\ guess[n] \notin T}
  <2>1. SUFFICES ASSUME Bad # {} PROVE FALSE
    OBVIOUS
  <2>2. PICK n \in Bad : \A k \in Bad : n <= k
    BY <2>1, LeastNatural
  <2>3. guess[n] = IF n = 0 THEN product ELSE Step(guess[n - 1])
    BY <1>4, <2>2
  <2>4. n # 0
    BY <2>2, <2>3
  <2>5. n - 1 \in Nat /\ n - 1 \notin Bad
    <3>1. n \in Nat
      OBVIOUS
    <3>2. n - 1 \in Nat /\ ~ (n <= n - 1)
      BY <2>4, <3>1
    <3> HIDE DEF Bad
    <3>3. QED
      BY <2>2, <3>2
  <2>6. guess[n - 1] \in T
    BY <2>5
  <2>7. QED
    BY <1>1, <2>2, <2>3, <2>4, <2>6
<1>7. QED
  BY <1>5, <1>6

LEMMA MinOfTwo ==
  ASSUME NEW x \in Int, NEW y \in Int
  PROVE  Min({x, y}) \in {x, y} /\ Min({x, y}) <= x /\ Min({x, y}) <= y
<1>1. \E m \in {x, y} : \A n \in {x, y} : m <= n
  OBVIOUS
<1>2. QED
  BY <1>1 DEF Min

\* A deposit's LP tokens: a number, and beside a pool already shared, at most in
\* proportion on either side; none at all while a side is empty.
LEMMA LPTokensFair ==
  ASSUME NEW p, PortfolioOK(p), NEW d \in [Assets -> Nat], \A t \in Assets : d[t] > 0,
         LPTokens(p, d) > 0
  PROVE  /\ LPTokens(p, d) \in Nat
         /\ p.total_lp_tokens # 0 =>
              \A t \in Assets : p.pool[t] > 0 /\ LPTokens(p, d) <= (d[t] * p.total_lp_tokens) \div p.pool[t]
<1>1. CASE p.total_lp_tokens = 0
  <2>1. d["XLM"] \in Nat /\ d["USDCSIM"] \in Nat /\ d["XLM"] > 0 /\ d["USDCSIM"] > 0
    BY DEF Assets
  <2>2. d["XLM"] * d["USDCSIM"] \in Nat /\ d["XLM"] * d["USDCSIM"] > 0
    BY <2>1
  <2>3. Babylonian(d["XLM"] * d["USDCSIM"]) \in Nat
    BY <2>2, BabylonianNat
  <2>4. QED
    BY <1>1, <2>3 DEF LPTokens
<1>2. CASE p.total_lp_tokens # 0
  <2> DEFINE share(t) == IF p.pool[t] > 0 THEN (d[t] * p.total_lp_tokens) \div p.pool[t] ELSE 0
  <2>1. ASSUME NEW t \in Assets PROVE share(t) \in Int
    <3>1. p.pool[t] \in Nat /\ p.total_lp_tokens \in Int /\ d[t] \in Nat
      BY DEF PortfolioOK, PortfolioRecord
    <3>2. d[t] * p.total_lp_tokens \in Int
      BY <3>1
    <3>3. QED
      BY <3>1, <3>2, DivFloor
  <2>2. LPTokens(p, d) = Min({share("XLM"), share("USDCSIM")})
    <3>1. {share(t) : t \in Assets} = {share("XLM"), share("USDCSIM")}
      BY DEF Assets
    <3>2. LPTokens(p, d) = Min({share(t) : t \in Assets})
      BY <1>2 DEF LPTokens, Shares
    <3> HIDE DEF share
    <3>3. QED
      BY <3>1, <3>2
  <2> DEFINE x == share("XLM")
             y == share("USDCSIM")
  <2>3. x \in Int /\ y \in Int
    <3>1. "XLM" \in Assets /\ "USDCSIM" \in Assets
      BY DEF Assets
    <3> HIDE DEF share
    <3>2. QED
      BY <2>1, <3>1
  <2>4. LPTokens(p, d) \in {x, y} /\ LPTokens(p, d) <= x /\ LPTokens(p, d) <= y
    <3> HIDE DEF x, y
    <3>1. LPTokens(p, d) = Min({x, y})
      BY <2>2 DEF x, y
    <3>2. QED
      BY <2>3, <3>1, MinOfTwo
  <2>5. LPTokens(p, d) \in Nat /\ x > 0 /\ y > 0
    <3> HIDE DEF x, y
    <3>1. QED
      BY <2>3, <2>4
  <2>6. \A t \in Assets : share(t) > 0 /\ LPTokens(p, d) <= share(t)
    <3> HIDE DEF share
    <3>1. QED
      BY <2>4, <2>5 DEF Assets
  <2>7. QED
    BY <2>5, <2>6
<1>3. QED
  BY <1>1, <1>2

\* The LP tokens of one user and of all move together.
LEMMA PositionMoves ==
  ASSUME NEW p, PortfolioOK(p), NEW u \in Users, NEW pos \in Position, pos.lp_tokens_minted >= 0
  PROVE  LET P == [p.lp_positions EXCEPT ![u] = pos] IN
         /\ P \in [Users -> Position] /\ \A v \in Users : P[v].lp_tokens_minted >= 0
         /\ p.lp_positions[u].lp_tokens_minted \in Nat /\ p.total_lp_tokens \in Nat
         /\ p.lp_positions[u].lp_tokens_minted <= p.total_lp_tokens
         /\ SumFunction([v \in Users |-> P[v].lp_tokens_minted])
              = p.total_lp_tokens - p.lp_positions[u].lp_tokens_minted + pos.lp_tokens_minted
<1> DEFINE P == [p.lp_positions EXCEPT ![u] = pos]
           f == [v \in Users |-> p.lp_positions[v].lp_tokens_minted]
           g == [v \in Users |-> P[v].lp_tokens_minted]
<1>1. p.lp_positions \in [Users -> Position] /\ \A v \in Users : p.lp_positions[v].lp_tokens_minted >= 0
  BY DEF PortfolioOK, PortfolioRecord
<1>2. P \in [Users -> Position] /\ \A v \in Users : P[v] = IF v = u THEN pos ELSE p.lp_positions[v]
  BY <1>1
<1>3. \A v \in Users : p.lp_positions[v].lp_tokens_minted \in Nat
  BY <1>1 DEF Position
<1>4. pos.lp_tokens_minted \in Nat
  BY DEF Position
<1> HIDE DEF P
<1>5. f \in [Users -> Int] /\ g \in [Users -> Int] /\ \A v \in Users : f[v] \in Nat
  BY <1>2, <1>3, <1>4
<1>6. \A v \in Users \ {u} : g[v] = f[v]
  BY <1>2
<1>7. f[u] = p.lp_positions[u].lp_tokens_minted /\ g[u] = pos.lp_tokens_minted
  BY <1>2
<1>8. p.total_lp_tokens = SumFunction(f)
  BY DEF PortfolioOK, LPSum
<1>9. DOMAIN f = Users
  OBVIOUS
<1> HIDE DEF f
<1>10. SumFunction(g) = SumFunction(f) - f[u] + g[u]
  <2> HIDE DEF g
  <2>1. QED
    BY <1>5, <1>6, SumOfUsers
<1>11. SumFunction(f) \in Nat /\ f[u] <= SumFunction(f)
  <2>1. IsFiniteSet(Users) /\ SumFunction(f) = SumFunctionOnSet(f, Users)
    BY <1>9, PortfolioAssumption DEF SumFunction
  <2>2. SumFunctionOnSet(f, Users) \in Nat
    BY <1>5, <2>1, SumType
  <2>3. f[u] <= SumFunctionOnSet(f, Users)
    BY <1>5, <2>1, SumBounds
  <2>4. QED
    BY <2>1, <2>2, <2>3
<1>12. \A v \in Users : P[v].lp_tokens_minted >= 0
  BY <1>2, <1>3, <1>4
<1>13. QED
  BY <1>2, <1>3, <1>7, <1>8, <1>10, <1>11, <1>12 DEF P, g

\* The portfolio holds with other reserves, another position and its total.
WithShares(p, r, u, pos, total) ==
  [p EXCEPT !.pool = r, !.lp_positions[u] = pos, !.total_lp_tokens = total]

Reshared(p, q, r, u, pos, total) ==
  /\ PortfolioOK(q) /\ q.pool = r /\ q.total_lp_tokens = total
  /\ q.balances = p.balances /\ q.trades = p.trades
  /\ q.lp_positions = [p.lp_positions EXCEPT ![u] = pos]
  /\ q.lp_fees_accumulated = p.lp_fees_accumulated
  /\ q.total_fees_collected = p.total_fees_collected

LEMMA Repositioned ==
  ASSUME NEW p, PortfolioOK(p), NEW r \in [Assets -> Nat], NEW u \in Users,
         NEW pos \in Position, pos.lp_tokens_minted >= 0,
         NEW total \in Int, total = p.total_lp_tokens - p.lp_positions[u].lp_tokens_minted + pos.lp_tokens_minted
  PROVE  Reshared(p, WithShares(p, r, u, pos, total), r, u, pos, total)
<1> DEFINE P == [p.lp_positions EXCEPT ![u] = pos]
           q == [p EXCEPT !.pool = r, !.lp_positions[u] = pos, !.total_lp_tokens = total]
           q1 == [p EXCEPT !.pool = r, !.lp_positions = P, !.total_lp_tokens = total]
<1>1. p \in PortfolioRecord /\ r \in [Assets -> Int] /\ \A a \in Assets : r[a] >= 0
  BY DEF PortfolioOK
<1>2. q = q1
  BY <1>1 DEF PortfolioRecord
<1>3. /\ P \in [Users -> Position] /\ \A v \in Users : P[v].lp_tokens_minted >= 0
      /\ p.lp_positions[u].lp_tokens_minted \in Nat /\ p.total_lp_tokens \in Nat
      /\ SumFunction([v \in Users |-> P[v].lp_tokens_minted])
            = p.total_lp_tokens - p.lp_positions[u].lp_tokens_minted + pos.lp_tokens_minted
  BY PositionMoves
<1> HIDE DEF P, q
<1>5. q1 \in PortfolioRecord
  BY <1>1, <1>3 DEF PortfolioRecord
<1>6. /\ q1.balances = p.balances /\ q1.pnl = p.pnl /\ q1.trades = p.trades
      /\ q1.total_users = p.total_users /\ q1.active_users = p.active_users
      /\ q1.top_traders = p.top_traders /\ q1.pool = r
      /\ q1.lp_positions = P /\ q1.total_lp_tokens = total
      /\ q1.lp_fees_accumulated = p.lp_fees_accumulated /\ q1.total_fees_collected = p.total_fees_collected
  BY <1>1 DEF PortfolioRecord
<1> HIDE DEF q1
<1>7. q1.total_lp_tokens = LPSum(q1)
  BY <1>3, <1>6 DEF LPSum
<1>8. PortfolioOK(q1)
  BY <1>1, <1>3, <1>5, <1>6, <1>7 DEF PortfolioOK
<1>9. QED
  BY <1>2, <1>6, <1>8 DEF q, P, Reshared, WithShares

\* What a deposit makes of p.
Provided(p, q, d, lp) ==
  /\ PortfolioOK(q) /\ q.trades = p.trades
  /\ \A t \in Assets : q.pool[t] = p.pool[t] + d[t] /\ Total(q, t) = Total(p, t)
  /\ q.total_lp_tokens = p.total_lp_tokens + lp
  /\ q.lp_fees_accumulated = p.lp_fees_accumulated
  /\ q.total_fees_collected = p.total_fees_collected

LEMMA DepositKeeps ==
  ASSUME NEW p, PortfolioOK(p), NEW u \in Users, NEW d \in [Assets -> Nat],
         \A t \in Assets : d[t] <= p.balances[u][t], NEW lp \in Nat
  PROVE  LET paid == Debited(Debited(p, "XLM", u, d["XLM"]), "USDCSIM", u, d["USDCSIM"]) IN
         Provided(p, [paid EXCEPT
                        !.pool = [t \in Assets |-> @[t] + d[t]],
                        !.lp_positions[u] = PositionGrown(@, d, lp),
                        !.total_lp_tokens = @ + lp], d, lp)
<1> DEFINE p1 == Debited(p, "XLM", u, d["XLM"])
           p2 == Debited(p1, "USDCSIM", u, d["USDCSIM"])
           r == [t \in Assets |-> p2.pool[t] + d[t]]
           pos == PositionGrown(p2.lp_positions[u], d, lp)
           total == p2.total_lp_tokens + lp
           q == [p2 EXCEPT !.pool = r, !.lp_positions[u] = pos, !.total_lp_tokens = total]
<1>1. /\ p \in PortfolioRecord /\ "XLM" \in Assets /\ "USDCSIM" \in Assets
      /\ d["XLM"] \in Nat /\ d["USDCSIM"] \in Nat
  BY DEF PortfolioOK, Assets
<1>2. \A v \in Users : \A a \in Assets : p.balances[v][a] \in Nat /\ p.pnl[v] \in Int
  BY DEF PortfolioOK, PortfolioRecord
<1>3. /\ p1 \in PortfolioRecord
      /\ \A v \in Users : \A a \in Assets :
           p1.balances[v][a] = IF v = u /\ a = "XLM" THEN p.balances[v][a] - d["XLM"] ELSE p.balances[v][a]
      /\ \A v \in Users : p1.pnl[v] = IF v = u THEN p.pnl[v] - d["XLM"] ELSE p.pnl[v]
      /\ p1.trades = p.trades /\ p1.total_users = p.total_users /\ p1.active_users = p.active_users
      /\ p1.top_traders = p.top_traders /\ p1.pool = p.pool /\ p1.lp_positions = p.lp_positions
      /\ p1.total_lp_tokens = p.total_lp_tokens /\ p1.lp_fees_accumulated = p.lp_fees_accumulated
      /\ p1.total_fees_collected = p.total_fees_collected
  <2>1. Paid(p, p1, "XLM", u, d["XLM"])
    <3> DEFINE n == d["XLM"]
               a == "XLM"
    <3>1. n \in Int /\ a \in Assets
      BY <1>1
    <3> HIDE DEF n, a
    <3>2. Paid(p, Debited(p, a, u, n), a, u, n)
      BY <1>1, <3>1, DebitedIs
    <3>3. QED
      BY <3>2 DEF n, a
  <2> HIDE DEF p1
  <2>2. QED
    BY <2>1 DEF Paid
<1>4. /\ p2 \in PortfolioRecord
      /\ \A v \in Users : \A a \in Assets :
           p2.balances[v][a] = IF v = u /\ a = "USDCSIM" THEN p1.balances[v][a] - d["USDCSIM"] ELSE p1.balances[v][a]
      /\ \A v \in Users : p2.pnl[v] = IF v = u THEN p1.pnl[v] - d["USDCSIM"] ELSE p1.pnl[v]
      /\ p2.trades = p1.trades /\ p2.total_users = p1.total_users /\ p2.active_users = p1.active_users
      /\ p2.top_traders = p1.top_traders /\ p2.pool = p1.pool /\ p2.lp_positions = p1.lp_positions
      /\ p2.total_lp_tokens = p1.total_lp_tokens /\ p2.lp_fees_accumulated = p1.lp_fees_accumulated
      /\ p2.total_fees_collected = p1.total_fees_collected
  <2> HIDE DEF p1
  <2>1. Paid(p1, p2, "USDCSIM", u, d["USDCSIM"])
    <3> DEFINE n == d["USDCSIM"]
               a == "USDCSIM"
    <3>1. n \in Int /\ a \in Assets
      BY <1>1
    <3> HIDE DEF n, a
    <3>2. Paid(p1, Debited(p1, a, u, n), a, u, n)
      BY <1>3, <3>1, DebitedIs
    <3>3. QED
      BY <3>2 DEF n, a
  <2> HIDE DEF p2
  <2>2. QED
    BY <2>1 DEF Paid
<1>5. Provided(p, [p2 EXCEPT
                     !.pool = [t \in Assets |-> @[t] + d[t]],
                     !.lp_positions[u] = PositionGrown(@, d, lp),
                     !.total_lp_tokens = @ + lp], d, lp) <=> Provided(p, q, d, lp)
  <2> HIDE DEF p1
  <2>1. [p2 EXCEPT
           !.pool = [t \in Assets |-> @[t] + d[t]],
           !.lp_positions[u] = PositionGrown(@, d, lp),
           !.total_lp_tokens = @ + lp] = q
    <3> HIDE DEF p2
    <3>1. QED
      BY <1>4 DEF PortfolioRecord
  <2> HIDE DEF q
  <2>2. QED
    BY <2>1
<1> HIDE DEF p1, p2
<1>6. \A v \in Users : \A a \in Assets :
        p2.balances[v][a] = IF v = u THEN p.balances[v][a] - d[a] ELSE p.balances[v][a]
  <2>1. ASSUME NEW v \in Users, NEW a \in Assets
        PROVE  p2.balances[v][a] = IF v = u THEN p.balances[v][a] - d[a] ELSE p.balances[v][a]
    <3>1. CASE a = "XLM"
      BY <1>1, <1>3, <1>4, <3>1
    <3>2. CASE a = "USDCSIM"
      BY <1>1, <1>3, <1>4, <3>2
    <3>3. QED
      BY <3>1, <3>2 DEF Assets
  <2>2. QED
    BY <2>1
<1>7. PortfolioOK(p2)
  <2>1. \A v \in Users : \A a \in Assets : p2.balances[v][a] >= 0
    BY <1>2, <1>6
  <2>2. \A v \in Users : p2.pnl[v] <= p.pnl[v]
    BY <1>1, <1>2, <1>3, <1>4
  <2>3. \A i \in DOMAIN p2.top_traders : p2.top_traders[i].pnl >= p2.pnl[p2.top_traders[i].user]
    BY <1>3, <1>4, <2>2, BoardStays
  <2>4. p2.total_lp_tokens = LPSum(p2)
    BY <1>3, <1>4 DEF PortfolioOK, LPSum
  <2>5. QED
    BY <1>3, <1>4, <2>1, <2>3, <2>4 DEF PortfolioOK
<1>8. r \in [Assets -> Nat] /\ \A t \in Assets : r[t] = p.pool[t] + d[t] /\ p.pool[t] \in Nat
  <2>1. \A t \in Assets : p.pool[t] \in Nat /\ p2.pool[t] = p.pool[t]
    BY <1>3, <1>4 DEF PortfolioOK, PortfolioRecord
  <2>2. \A t \in Assets : p2.pool[t] + d[t] \in Nat
    BY <2>1
  <2>3. QED
    BY <2>1, <2>2
<1>9. /\ p2.lp_positions[u] \in Position /\ p2.lp_positions[u].lp_tokens_minted \in Nat
      /\ p2.total_lp_tokens \in Int /\ p2.total_lp_tokens = p.total_lp_tokens
  BY <1>3, <1>4, <1>7 DEF PortfolioOK, PortfolioRecord, Position
<1>10. /\ pos \in Position /\ pos.lp_tokens_minted >= 0
       /\ pos.lp_tokens_minted = p2.lp_positions[u].lp_tokens_minted + lp
  <2> DEFINE old == p2.lp_positions[u]
             deposited == [t \in Assets |-> old.deposited[t] + d[t]]
  <2>1. old.deposited \in [Assets -> Int]
    BY <1>9 DEF Position
  <2> HIDE DEF old
  <2>2. deposited \in [Assets -> Int]
    BY <2>1
  <2>3. old.lp_tokens_minted \in Nat
    BY <1>9 DEF old
  <2>4. pos = [deposited |-> deposited, lp_tokens_minted |-> old.lp_tokens_minted + lp]
    BY DEF PositionGrown, old
  <2> HIDE DEF deposited, pos
  <2>5. QED
    BY <2>2, <2>3, <2>4 DEF Position, old
<1> HIDE DEF pos, r
<1>11. total = p2.total_lp_tokens - p2.lp_positions[u].lp_tokens_minted + pos.lp_tokens_minted
  BY <1>9, <1>10
<1>11a. total \in Int
  BY <1>9
<1> HIDE DEF total
<1>12. /\ PortfolioOK(q) /\ q.pool = r /\ q.total_lp_tokens = total
       /\ q.balances = p2.balances /\ q.trades = p2.trades
       /\ q.lp_fees_accumulated = p2.lp_fees_accumulated
       /\ q.total_fees_collected = p2.total_fees_collected
  <2>1. Reshared(p2, q, r, u, pos, total)
    <3>1. q = WithShares(p2, r, u, pos, total)
      BY DEF WithShares
    <3> HIDE DEF q
    <3>2. QED
      BY <1>7, <1>8, <1>10, <1>11, <1>11a, <3>1, Repositioned
  <2> HIDE DEF q
  <2>2. QED
    BY <2>1 DEF Reshared
<1> HIDE DEF q
<1>13. ASSUME NEW t \in Assets PROVE Total(q, t) = Total(p, t)
  <2>1. \A v \in Users \ {u} : q.balances[v][t] = p.balances[v][t]
    BY <1>6, <1>12
  <2>2. q \in PortfolioRecord
    BY <1>12 DEF PortfolioOK
  <2>3. /\ Total(p, t) \in Int /\ Total(q, t) \in Int
        /\ Total(q, t) - q.pool[t] = Total(p, t) - p.pool[t] - p.balances[u][t] + q.balances[u][t]
    BY <1>1, <2>1, <2>2, BalanceMoves
  <2>4. q.balances[u][t] = p.balances[u][t] - d[t] /\ q.pool[t] = p.pool[t] + d[t]
        /\ p.balances[u][t] \in Int /\ p.pool[t] \in Int /\ d[t] \in Int
    BY <1>2, <1>6, <1>8, <1>12
  <2>5. QED
    BY <2>3, <2>4
<1>14. Provided(p, q, d, lp)
  BY <1>3, <1>4, <1>8, <1>9, <1>12, <1>13 DEF Provided, total
<1>15. QED
  BY <1>5, <1>14 DEF p1, p2

\* What a withdrawal makes of p.
Withdrawn(p, q, out, lp) ==
  /\ PortfolioOK(q) /\ q.trades = p.trades
  /\ \A t \in Assets : q.pool[t] = p.pool[t] - out[t] /\ Total(q, t) = Total(p, t)
  /\ q.total_lp_tokens = p.total_lp_tokens - lp
  /\ q.lp_fees_accumulated = p.lp_fees_accumulated
  /\ q.total_fees_collected = p.total_fees_collected

Repaid(p, u, out) ==
  Minted(Minted([p EXCEPT !.pool = PoolReduced(p, out)], "XLM", u, out["XLM"]), "USDCSIM", u, out["USDCSIM"])

LEMMA RepaidIs ==
  ASSUME NEW p, PortfolioOK(p), NEW u \in Users, NEW out \in [Assets -> Nat],
         \A t \in Assets : out[t] <= p.pool[t]
  PROVE  LET q == Repaid(p, u, out) IN
         /\ PortfolioOK(q) /\ q.trades = p.trades
         /\ \A t \in Assets : q.pool[t] = p.pool[t] - out[t] /\ Total(q, t) = Total(p, t)
         /\ q.lp_positions = p.lp_positions /\ q.total_lp_tokens = p.total_lp_tokens
         /\ q.lp_fees_accumulated = p.lp_fees_accumulated
         /\ q.total_fees_collected = p.total_fees_collected
<1> DEFINE r == PoolReduced(p, out)
           p1 == [p EXCEPT !.pool = r]
           p2 == Minted(p1, "XLM", u, out["XLM"])
           q == Minted(p2, "USDCSIM", u, out["USDCSIM"])
<1>1. \A t \in Assets : p.pool[t] \in Nat /\ p.pool[t] - out[t] \in Nat
  <2>1. \A t \in Assets : p.pool[t] \in Nat
    BY DEF PortfolioOK, PortfolioRecord
  <2>2. QED
    BY <2>1
<1>2. r \in [Assets -> Nat] /\ \A t \in Assets : r[t] = p.pool[t] - out[t]
  BY <1>1 DEF PoolReduced
<1> HIDE DEF r
<1>3. /\ PortfolioOK(p1) /\ p1.pool = r /\ p1.trades = p.trades /\ p1.balances = p.balances
      /\ p1.lp_positions = p.lp_positions /\ p1.total_lp_tokens = p.total_lp_tokens
      /\ p1.lp_fees_accumulated = p.lp_fees_accumulated
      /\ p1.total_fees_collected = p.total_fees_collected
  BY <1>2, ReservesSet
<1> HIDE DEF p1
<1>4. Funded(p1, p2, "XLM", u, out["XLM"])
  <2> DEFINE n == out["XLM"]
             a == "XLM"
  <2>1. n \in Nat /\ a \in Assets
    BY DEF Assets
  <2> HIDE DEF n, a
  <2>2. Funded(p1, Minted(p1, a, u, n), a, u, n)
    BY <1>3, <2>1, MintKeeps
  <2>3. QED
    BY <2>2 DEF n, a
<1> HIDE DEF p2
<1>5. Funded(p2, q, "USDCSIM", u, out["USDCSIM"])
  <2> DEFINE n == out["USDCSIM"]
             a == "USDCSIM"
  <2>1. n \in Nat /\ a \in Assets /\ PortfolioOK(p2)
    BY <1>4 DEF Assets, Funded
  <2> HIDE DEF n, a
  <2>2. Funded(p2, Minted(p2, a, u, n), a, u, n)
    BY <2>1, MintKeeps
  <2>3. QED
    BY <2>2 DEF n, a
<1>6. q = Repaid(p, u, out)
  BY DEF Repaid, p1, p2, r
<1> HIDE DEF q
<1>7. ASSUME NEW t \in Assets PROVE Total(q, t) = Total(p, t)
  <2>1. /\ Total(p, t) \in Int /\ Total(p1, t) \in Int
        /\ Total(p1, t) - p1.pool[t] = Total(p, t) - p.pool[t] - p.balances[u][t] + p1.balances[u][t]
    <3>1. \A v \in Users \ {u} : p1.balances[v][t] = p.balances[v][t]
      BY <1>3
    <3>2. p \in PortfolioRecord /\ p1 \in PortfolioRecord
      BY <1>3 DEF PortfolioOK
    <3>3. QED
      BY <3>1, <3>2, BalanceMoves
  <2>2. Total(q, t) = Total(p1, t) + out[t]
    <3>1. out[t] \in Int
      OBVIOUS
    <3>2. CASE t = "XLM"
      BY <1>4, <1>5, <2>1, <3>1, <3>2 DEF Funded
    <3>3. CASE t = "USDCSIM"
      BY <1>4, <1>5, <2>1, <3>1, <3>3 DEF Funded
    <3>4. QED
      BY <3>2, <3>3 DEF Assets
  <2>3. p.balances[u][t] = p1.balances[u][t] /\ p.balances[u][t] \in Int /\ p1.pool[t] = p.pool[t] - out[t]
        /\ out[t] \in Int /\ p.pool[t] \in Int
    BY <1>1, <1>2, <1>3 DEF PortfolioOK, PortfolioRecord
  <2>4. QED
    BY <2>1, <2>2, <2>3
<1>8. QED
  BY <1>2, <1>3, <1>4, <1>5, <1>6, <1>7 DEF Funded

LEMMA WithdrawalKeeps ==
  ASSUME NEW p, PortfolioOK(p), NEW u \in Users, NEW out \in [Assets -> Nat], NEW lp \in Nat,
         \A t \in Assets : out[t] <= p.pool[t], lp <= p.lp_positions[u].lp_tokens_minted
  PROVE  Withdrawn(p, [Repaid(p, u, out) EXCEPT
                         !.lp_positions[u] = PositionShrunk(p.lp_positions[u], out, lp),
                         !.total_lp_tokens = Max({@ - lp, 0})], out, lp)
<1> DEFINE r == Repaid(p, u, out)
           old == p.lp_positions[u]
           pos == PositionShrunk(old, out, lp)
           total == p.total_lp_tokens - lp
           q == WithShares(r, r.pool, u, pos, total)
<1>1. /\ PortfolioOK(r) /\ r.trades = p.trades
      /\ \A t \in Assets : r.pool[t] = p.pool[t] - out[t] /\ Total(r, t) = Total(p, t)
      /\ r.lp_positions = p.lp_positions /\ r.total_lp_tokens = p.total_lp_tokens
      /\ r.lp_fees_accumulated = p.lp_fees_accumulated
      /\ r.total_fees_collected = p.total_fees_collected
  BY RepaidIs
<1> HIDE DEF r
<1>2. old \in Position /\ old.lp_tokens_minted \in Nat /\ p.total_lp_tokens \in Nat
      /\ old.lp_tokens_minted <= p.total_lp_tokens
  <2>1. old \in Position /\ old.lp_tokens_minted >= 0
    BY DEF PortfolioOK, PortfolioRecord
  <2> HIDE DEF old
  <2>2. QED
    BY <2>1, PositionMoves DEF old
<1>3. pos \in Position /\ pos.lp_tokens_minted = old.lp_tokens_minted - lp /\ pos.lp_tokens_minted >= 0
  <2> DEFINE deposited == [t \in Assets |-> old.deposited[t] - out[t]]
  <2>1. old.deposited \in [Assets -> Int] /\ lp <= old.lp_tokens_minted
    BY <1>2 DEF Position
  <2>2. pos = [deposited |-> deposited, lp_tokens_minted |-> old.lp_tokens_minted - lp]
    BY DEF PositionShrunk
  <2> HIDE DEF old
  <2>3. deposited \in [Assets -> Int]
    BY <2>1
  <2>4. old.lp_tokens_minted - lp \in Nat
    BY <1>2, <2>1
  <2> HIDE DEF deposited, pos
  <2>5. QED
    BY <2>2, <2>3, <2>4 DEF Position
<1>4. total \in Nat /\ total = r.total_lp_tokens - r.lp_positions[u].lp_tokens_minted + pos.lp_tokens_minted
  <2>1. lp <= old.lp_tokens_minted /\ r.lp_positions[u].lp_tokens_minted = old.lp_tokens_minted
    BY <1>1
  <2> HIDE DEF old, pos
  <2>2. QED
    BY <1>1, <1>2, <1>3, <2>1
<1>5. Max({r.total_lp_tokens - lp, 0}) = total
  <2>1. r.total_lp_tokens - lp = total
    BY <1>1
  <2> HIDE DEF total
  <2>2. \A m \in {total, 0} : (\A n \in {total, 0} : m >= n) <=> m = total
    BY <1>4
  <2>3. QED
    BY <2>1, <2>2 DEF Max
<1>6. [r EXCEPT !.lp_positions[u] = pos, !.total_lp_tokens = Max({@ - lp, 0})] = q
  <2> HIDE DEF pos, total
  <2>1. r \in PortfolioRecord
    BY <1>1 DEF PortfolioOK
  <2>2. [r EXCEPT !.lp_positions[u] = pos, !.total_lp_tokens = Max({@ - lp, 0})]
          = [r EXCEPT !.lp_positions[u] = pos, !.total_lp_tokens = Max({r.total_lp_tokens - lp, 0})]
    BY <2>1 DEF PortfolioRecord
  <2>3. [r EXCEPT !.lp_positions[u] = pos, !.total_lp_tokens = total]
          = [r EXCEPT !.pool = r.pool, !.lp_positions[u] = pos, !.total_lp_tokens = total]
    BY <2>1 DEF PortfolioRecord
  <2>4. QED
    BY <1>5, <2>2, <2>3 DEF WithShares
<1>7. Reshared(r, q, r.pool, u, pos, total)
  <2>1. r.pool \in [Assets -> Nat] /\ total \in Int
    <3>1. r.pool \in [Assets -> Int] /\ \A t \in Assets : r.pool[t] >= 0
      BY <1>1 DEF PortfolioOK, PortfolioRecord
    <3> HIDE DEF total
    <3>2. QED
      BY <1>4, <3>1
  <2> HIDE DEF pos, total
  <2>2. QED
    BY <1>1, <1>3, <1>4, <2>1, Repositioned
<1> HIDE DEF q, pos
<1>8. ASSUME NEW t \in Assets PROVE Total(q, t) = Total(p, t)
  <2>1. q.balances = r.balances /\ q.pool = r.pool
    BY <1>7 DEF Reshared
  <2>2. Total(q, t) = Total(r, t)
    BY <2>1 DEF Total
  <2>3. QED
    BY <1>1, <2>2
<1>9. Withdrawn(p, q, out, lp)
  BY <1>1, <1>7, <1>8 DEF Reshared, Withdrawn
<1>10. QED
  BY <1>6, <1>9 DEF r, pos

-----------------------------------------------------------------------------
(* Batches *)

\* What a batch may not touch, and what it may not lower, on its way from p to q.
BatchKeeps(p, q) ==
  /\ PortfolioOK(q)
  /\ q.lp_positions = p.lp_positions /\ q.total_lp_tokens = p.total_lp_tokens
  /\ Product(q) >= Product(p)

LEMMA ProductNat ==
  \A p : PortfolioOK(p) => Product(p) \in Nat
<1> SUFFICES ASSUME NEW p, PortfolioOK(p) PROVE Product(p) \in Nat
  OBVIOUS
<1>1. p.pool["XLM"] \in Nat /\ p.pool["USDCSIM"] \in Nat
  BY DEF PortfolioOK, PortfolioRecord, Assets
<1>2. QED
  BY <1>1, MulNat DEF Product

LEMMA BatchKeepsTrans ==
  ASSUME NEW p, NEW q, NEW r, PortfolioOK(p), BatchKeeps(p, q), BatchKeeps(q, r)
  PROVE  BatchKeeps(p, r)
<1>1. Product(p) \in Nat /\ Product(q) \in Nat /\ Product(r) \in Nat
  BY ProductNat DEF BatchKeeps
<1>2. QED
  BY <1>1 DEF BatchKeeps

LEMMA MintBatchKeeps ==
  ASSUME NEW p, PortfolioOK(p), NEW t \in Assets, NEW u \in Users, NEW amount \in Nat
  PROVE  BatchKeeps(p, Minted(p, t, u, amount))
<1>1. Funded(p, Minted(p, t, u, amount), t, u, amount)
  BY MintKeeps
<1>2. Product(p) \in Nat
  BY ProductNat
<1>3. Product(Minted(p, t, u, amount)) = Product(p)
  BY <1>1 DEF Funded, Product
<1>4. QED
  BY <1>1, <1>2, <1>3 DEF Funded, BatchKeeps

LEMMA OpDoneKeeps ==
  ASSUME PricesOK, NEW p, PortfolioOK(p), NEW op \in BatchOperation, OpValid(op), ~ OpPanics(p, op)
  PROVE  BatchKeeps(p, OpDone(p, op))
<1>1. CASE op \in [kind : {"swap"}, user : Users, token : Assets, amount : Int]
  <2>1. op.kind = "swap" /\ op.user \in Users /\ op.token \in Assets /\ op.amount \in Int
    BY <1>1
  <2>2. CanPerformSwap(p, op.user, op.token, op.amount)
    BY <2>1 DEF OpPanics
  <2>3. OpDone(p, op) = TradeRecorded(PerformSwap(p, op.user, op.token, op.amount), op.user)
    BY <2>1 DEF OpDone
  <2>4. BatchKeeps(p, TradeRecorded(PerformSwap(p, op.user, op.token, op.amount), op.user))
    BY <2>1, <2>2, SwapKeeps DEF BatchKeeps
  <2>5. QED
    BY <2>3, <2>4
<1>2. CASE op \in [kind : {"mint"}, user : Users, token : Assets, amount : Nat]
  <2>1. op.kind = "mint" /\ op.user \in Users /\ op.token \in Assets /\ op.amount \in Nat
    BY <1>2
  <2>2. OpDone(p, op) = Minted(p, op.token, op.user, op.amount)
    BY <2>1 DEF OpDone
  <2>3. QED
    BY <2>1, <2>2, MintBatchKeeps
<1>3. CASE op \in [kind : {"add"}, user : Users, amounts : [Assets -> Int]]
  <2> DEFINE r == [t \in Assets |-> p.pool[t] + op.amounts[t]]
  <2>1. op.kind = "add" /\ op.amounts \in [Assets -> Int] /\ \A t \in Assets : op.amounts[t] > 0
    BY <1>3 DEF OpValid
  <2>2. \A t \in Assets : p.pool[t] \in Nat /\ p.pool[t] + op.amounts[t] \in Nat /\ p.pool[t] <= p.pool[t] + op.amounts[t]
    <3>1. \A t \in Assets : p.pool[t] \in Nat
      BY DEF PortfolioOK, PortfolioRecord
    <3>2. QED
      BY <2>1, <3>1
  <2>3. OpDone(p, op) = [p EXCEPT !.pool = r]
    <3>1. p \in PortfolioRecord
      BY DEF PortfolioOK
    <3>2. OpDone(p, op) = [p EXCEPT !.pool = [t \in Assets |-> @[t] + op.amounts[t]]]
      BY <2>1 DEF OpDone
    <3>3. QED
      BY <3>1, <3>2 DEF PortfolioRecord
  <2>4. r \in [Assets -> Nat] /\ \A t \in Assets : r[t] = p.pool[t] + op.amounts[t]
    BY <2>2
  <2> DEFINE q == [p EXCEPT !.pool = r]
  <2> HIDE DEF r
  <2>5. /\ PortfolioOK(q) /\ q.pool = r
        /\ q.lp_positions = p.lp_positions /\ q.total_lp_tokens = p.total_lp_tokens
    BY <2>4, ReservesSet
  <2> HIDE DEF q
  <2>6. Product(q) >= Product(p)
    <3>1. /\ p.pool["XLM"] \in Nat /\ p.pool["USDCSIM"] \in Nat
          /\ q.pool["XLM"] \in Nat /\ q.pool["USDCSIM"] \in Nat
          /\ p.pool["XLM"] <= q.pool["XLM"] /\ p.pool["USDCSIM"] <= q.pool["USDCSIM"]
      BY <2>2, <2>4, <2>5 DEF Assets
    <3>2. p.pool["XLM"] * p.pool["USDCSIM"] <= q.pool["XLM"] * q.pool["USDCSIM"]
      BY <3>1, MulMono
    <3>3. Product(p) \in Nat /\ Product(q) \in Nat
      BY <2>5, ProductNat
    <3>4. QED
      BY <3>2, <3>3 DEF Product
  <2>7. QED
    BY <2>3, <2>5, <2>6 DEF BatchKeeps, q
<1>4. CASE op \in [kind : {"remove"}, user : Users, amounts : [Assets -> Nat]]
  <2> DEFINE x == "XLM"
             y == "USDCSIM"
  <2>1. op.kind = "remove" /\ op.user \in Users /\ op.amounts[x] \in Nat /\ op.amounts[y] \in Nat
        /\ x \in Assets /\ y \in Assets
    BY <1>4 DEF Assets
  <2>2. OpDone(p, op) = Minted(Minted(p, x, op.user, op.amounts[x]), y, op.user, op.amounts[y])
    BY <2>1 DEF OpDone
  <2> HIDE DEF x, y
  <2> DEFINE q == Minted(p, x, op.user, op.amounts[x])
  <2>3. BatchKeeps(p, q)
    BY <2>1, MintBatchKeeps
  <2>4. PortfolioOK(q)
    BY <2>3 DEF BatchKeeps
  <2> HIDE DEF q
  <2>5. BatchKeeps(q, Minted(q, y, op.user, op.amounts[y]))
    BY <2>1, <2>4, MintBatchKeeps
  <2>6. BatchKeeps(p, Minted(q, y, op.user, op.amounts[y]))
    BY <2>3, <2>5, BatchKeepsTrans
  <2>7. QED
    BY <2>2, <2>6 DEF q
<1>5. QED
  BY <1>1, <1>2, <1>3, <1>4 DEF BatchOperation

\* One round of BatchRun.
BatchStep(run, op) ==
  IF run.panicked \/ ~OpFunded(run.pf, op) THEN run
  ELSE IF OpPanics(run.pf, op) THEN [run EXCEPT !.panicked = TRUE]
  ELSE [run EXCEPT !.pf = OpDone(@, op), !.executed = @ + 1]

RunFrom(p) ==
  {run \in [pf : PortfolioRecord, executed : Nat, panicked : BOOLEAN] : BatchKeeps(p, run.pf)}

LEMMA BatchStepKeeps ==
  ASSUME PricesOK, NEW p, PortfolioOK(p), NEW run \in RunFrom(p), NEW op \in BatchOperation, OpValid(op)
  PROVE  BatchStep(run, op) \in RunFrom(p)
<1>1. run \in [pf : PortfolioRecord, executed : Nat, panicked : BOOLEAN] /\ BatchKeeps(p, run.pf)
  BY DEF RunFrom
<1>2. PortfolioOK(run.pf)
  BY <1>1 DEF BatchKeeps
<1>3. CASE run.panicked \/ ~OpFunded(run.pf, op)
  BY <1>3 DEF BatchStep
<1>4. CASE ~(run.panicked \/ ~OpFunded(run.pf, op)) /\ OpPanics(run.pf, op)
  <2>1. BatchStep(run, op) = [run EXCEPT !.panicked = TRUE]
    BY <1>4 DEF BatchStep
  <2>2. QED
    BY <1>1, <2>1 DEF RunFrom
<1>5. CASE ~(run.panicked \/ ~OpFunded(run.pf, op)) /\ ~OpPanics(run.pf, op)
  <2> DEFINE q == OpDone(run.pf, op)
  <2>1. BatchStep(run, op) = [run EXCEPT !.pf = q, !.executed = run.executed + 1]
    BY <1>1, <1>5 DEF BatchStep
  <2>2. BatchKeeps(p, q)
    BY <1>1, <1>2, <1>5, OpDoneKeeps, BatchKeepsTrans
  <2>3. q \in PortfolioRecord
    BY <2>2 DEF BatchKeeps, PortfolioOK
  <2> HIDE DEF q
  <2>4. QED
    <3> DEFINE r == [run EXCEPT !.pf = q, !.executed = run.executed + 1]
    <3>1. r \in [pf : PortfolioRecord, executed : Nat, panicked : BOOLEAN] /\ r.pf = q
      <4>1. run.executed + 1 \in Nat
        BY <1>1
      <4> DEFINE k == run.executed + 1
      <4> HIDE DEF k
      <4>2. [run EXCEPT !.pf = q, !.executed = k] \in [pf : PortfolioRecord, executed : Nat, panicked : BOOLEAN]
        BY <1>1, <2>3, <4>1 DEF k
      <4>3. r.pf = q
        BY <1>1
      <4>4. QED
        BY <4>2, <4>3 DEF k
    <3> HIDE DEF r
    <3>2. r \in RunFrom(p)
      BY <2>2, <3>1 DEF RunFrom
    <3>3. QED
      BY <2>1, <3>2 DEF r
<1>6. QED
  BY <1>3, <1>4, <1>5

\* Whatever the operations, in whatever order.
LEMMA BatchRunKeeps ==
  ASSUME PricesOK, NEW p, PortfolioOK(p), NEW ops \in Seq(BatchOperation), \A i \in DOMAIN ops : OpValid(ops[i])
  PROVE  BatchRun(p, ops) \in RunFrom(p)
<1> DEFINE n == Len(ops)
           T == RunFrom(p)
           E == {op \in BatchOperation : OpValid(op)}
           F == [x \in T \X E |-> BatchStep(x[1], x[2])]
           base == [pf |-> p, executed |-> 0, panicked |-> FALSE]
           Solves(g) == g = [s \in SUBSET (1 .. n) |->
                               IF s = {} THEN base ELSE BatchStep(g[s \ {Max(s)}], ops[Max(s)])]
           iter == CHOOSE g : Solves(g)
<1>1. n \in Nat /\ DOMAIN ops = 1 .. n /\ \A i \in 1 .. n : ops[i] \in E
  <2>1. n \in Nat /\ DOMAIN ops = 1 .. n
    BY LenProperties
  <2>2. \A i \in 1 .. n : ops[i] \in BatchOperation /\ OpValid(ops[i])
    BY <2>1, ElementOfSeq
  <2>3. QED
    BY <2>1, <2>2
<1>2. BatchRun(p, ops) = iter[1 .. n]
  BY <1>1 DEF BatchRun, FoldLeft, MapThenFoldSet, BatchStep
<1>3. base \in T
  <2>1. BatchKeeps(p, p)
    BY ProductNat DEF BatchKeeps
  <2>2. QED
    BY <2>1 DEF RunFrom, PortfolioOK
<1>4. \A run \in T : \A op \in E : BatchStep(run, op) \in T
  BY BatchStepKeeps
<1> HIDE DEF T, E, base, n
<1>5. F \in [T \X E -> T] /\ \A run \in T : \A op \in E : F[<< run, op >>] = BatchStep(run, op)
  BY <1>4
<1> HIDE DEF F
<1>6. PICK g : Folds(F, base, ops, n, T, g)
  BY <1>1, <1>3, <1>5, FoldSolution
<1>7. Solves(g)
  <2>1. g \in [SUBSET (1 .. n) -> T] /\ \A s \in SUBSET (1 .. n) : g[s] = FoldRound(F, base, ops, g, s)
    BY <1>6 DEF Folds
  <2>2. ASSUME NEW s \in SUBSET (1 .. n)
        PROVE  g[s] = IF s = {} THEN base ELSE BatchStep(g[s \ {Max(s)}], ops[Max(s)])
    <3>1. CASE s = {}
      BY <2>1, <3>1 DEF FoldRound
    <3>2. CASE s # {}
      <4>1. Max(s) \in 1 .. n
        BY <1>1, <3>2, MaxIn
      <4>2. g[s \ {Max(s)}] \in T /\ ops[Max(s)] \in E
        BY <1>1, <2>1, <4>1
      <4>3. g[s] = F[<< g[s \ {Max(s)}], ops[Max(s)] >>]
        BY <2>1, <3>2 DEF FoldRound
      <4>4. QED
        BY <1>5, <3>2, <4>2, <4>3
    <3>3. QED
      BY <3>1, <3>2
  <2>3. g = [s \in SUBSET (1 .. n) |-> g[s]]
    BY <2>1
  <2>4. QED
    BY <2>2, <2>3
<1>8. Solves(iter)
  BY <1>7
<1> HIDE DEF iter
<1>9. iter[{}] \in T
  BY <1>3, <1>8
<1>10. ASSUME NEW s \in SUBSET (1 .. n), s # {}, iter[s \ {Max(s)}] \in T PROVE iter[s] \in T
  <2>1. Max(s) \in 1 .. n
    BY <1>1, <1>10, MaxIn
  <2>2. iter[s] = BatchStep(iter[s \ {Max(s)}], ops[Max(s)])
    BY <1>8, <1>10
  <2>3. QED
    BY <1>1, <1>4, <1>10, <2>1, <2>2
<1>11. iter[1 .. n] \in T
  BY <1>1, <1>9, <1>10, FoldStays
<1>12. QED
  BY <1>2, <1>11 DEF T

-----------------------------------------------------------------------------
(* The invariant *)

CountersOK == {swapsUsed, lpUsed} \subseteq [Users -> Nat]

ExchangeInv ==
  PortfolioOK(pf) /\ PricesOK /\ maxSlip \in Nat /\ now \in Nat /\ CountersOK

LEMMA InvIsSound == ExchangeInv => PortfolioSound
<1> SUFFICES ASSUME ExchangeInv PROVE PortfolioSound
  OBVIOUS
<1>1. PortfolioOK(pf) /\ pf \in PortfolioRecord /\ pf.active_users \subseteq Users
  BY DEF ExchangeInv, PortfolioOK, PortfolioRecord
<1>2. ExchangeTypeOK
  BY <1>1 DEF ExchangeInv, PortfolioOK, PricesOK, CountersOK, ExchangeTypeOK
<1>3. LPTokensAccounted /\ pf.total_lp_tokens \in Nat
  <2>1. pf.total_lp_tokens = SumFunction([u \in Users |-> pf.lp_positions[u].lp_tokens_minted])
    BY <1>1 DEF PortfolioOK, LPSum
  <2> DEFINE f == [u \in Users |-> pf.lp_positions[u].lp_tokens_minted]
  <2>2. \A u \in Users : pf.lp_positions[u].lp_tokens_minted \in Nat
    BY <1>1 DEF PortfolioOK, PortfolioRecord, Position
  <2>3. \A u \in Users : f[u] \in Nat
    BY <2>2
  <2>4. SumFunction(f) = SumFunctionOnSet(f, Users) /\ IsFiniteSet(Users)
    BY PortfolioAssumption DEF SumFunction
  <2> HIDE DEF f
  <2>5. SumFunction(f) \in Nat
    BY <2>3, <2>4, SumType
  <2>6. QED
    BY <2>1, <2>5 DEF LPTokensAccounted, f
<1>4. ActiveUsersCounted /\ Cardinality(pf.active_users) <= pf.total_users
  <2>1. pf.total_users = Cardinality(pf.active_users) /\ pf.total_users \in Nat
    BY <1>1 DEF PortfolioOK, PortfolioRecord
  <2>2. QED
    BY <2>1 DEF ActiveUsersCounted
<1>5. LeaderboardSound
  BY <1>1 DEF PortfolioOK, Descending, LeaderboardSound
<1>6. VerifyContract(pf)
  BY <1>1, <1>3, <1>4 DEF PortfolioOK, VerifyContract
<1>7. QED
  BY <1>2, <1>3, <1>4, <1>5, <1>6 DEF PortfolioSound

\* Nobody holds anything in a new portfolio.
LEMMA NewPortfolioOK == PortfolioOK(NewPortfolio)
<1> DEFINE p == NewPortfolio
           zero == [u \in Users |-> p.lp_positions[u].lp_tokens_minted]
<1>1. NoPosition \in Position /\ NoPosition.lp_tokens_minted = 0
  BY DEF NoPosition, Position
<1>2. << >> \in Seq([user : Users, pnl : Int]) /\ DOMAIN << >> = {}
  OBVIOUS
<1>3. p \in PortfolioRecord
  BY <1>1, <1>2 DEF NewPortfolio, PortfolioRecord
<1>4. \A u \in Users : p.lp_positions[u] = NoPosition
  BY DEF NewPortfolio
<1>5. p.total_lp_tokens = LPSum(p)
  <2>1. \A u \in Users : zero[u] = 0
    BY <1>1, <1>4
  <2>2. IsFiniteSet(Users) /\ SumFunction(zero) = SumFunctionOnSet(zero, Users)
    BY PortfolioAssumption DEF SumFunction
  <2>3. LPSum(p) = SumFunction(zero)
    BY DEF LPSum
  <2> HIDE DEF zero
  <2>4. SumFunctionOnSet(zero, Users) = 0
    BY <2>1, <2>2, SumZero
  <2>5. p.total_lp_tokens = 0
    BY DEF NewPortfolio
  <2> HIDE DEF p
  <2>6. QED
    BY <2>2, <2>3, <2>4, <2>5
<1>6. p.active_users = {} /\ p.total_users = Cardinality(p.active_users)
  BY FS_EmptySet DEF NewPortfolio
<1>7. Descending(p.top_traders) /\ DOMAIN p.top_traders = {}
  BY <1>2 DEF NewPortfolio, Descending
<1>8. /\ \A t \in Assets : p.pool[t] >= 0 /\ \A u \in Users : p.balances[u][t] >= 0
      /\ p.lp_fees_accumulated >= 0 /\ p.total_fees_collected >= 0
  BY DEF NewPortfolio
<1> HIDE DEF p
<1>9. QED
  BY <1>1, <1>3, <1>4, <1>5, <1>6, <1>7, <1>8 DEF PortfolioOK, p

\* Nor is anything lost on the way to the first state.
LEMMA GenesisOK == PortfolioOK(FundedBy(Genesis))
<1> DEFINE n == Len(Genesis)
           T == {p \in PortfolioRecord : PortfolioOK(p)}
           E == [user : Users, token : Assets, amount : Nat]
           MintStep(p, m) == Minted(p, m.token, m.user, m.amount)
           F == [x \in T \X E |-> MintStep(x[1], x[2])]
           base == NewPortfolio
           Solves(g) == g = [s \in SUBSET (1 .. n) |->
                               IF s = {} THEN base ELSE MintStep(g[s \ {Max(s)}], Genesis[Max(s)])]
           iter == CHOOSE g : Solves(g)
<1>1. n \in Nat /\ DOMAIN Genesis = 1 .. n /\ \A i \in 1 .. n : Genesis[i] \in E
  <2>1. Genesis \in Seq(E)
    BY ArgumentAssumption
  <2> HIDE DEF E
  <2>2. QED
    BY <2>1, LenProperties, ElementOfSeq
<1>2. FundedBy(Genesis) = iter[1 .. n]
  BY <1>1 DEF FundedBy, FoldLeft, MapThenFoldSet
<1>3. base \in T
  BY NewPortfolioOK DEF PortfolioOK
<1>4. ASSUME NEW p \in T, NEW m \in E PROVE MintStep(p, m) \in T
  <2>1. PortfolioOK(p) /\ m.token \in Assets /\ m.user \in Users /\ m.amount \in Nat
    OBVIOUS
  <2>2. PortfolioOK(MintStep(p, m))
    BY <2>1, MintBatchKeeps DEF BatchKeeps
  <2> HIDE DEF MintStep
  <2>3. QED
    BY <2>2 DEF PortfolioOK
<1> HIDE DEF T, E, base, n, MintStep
<1>5. F \in [T \X E -> T] /\ \A p \in T : \A m \in E : F[<< p, m >>] = MintStep(p, m)
  BY <1>4
<1> HIDE DEF F
<1>6. PICK g : Folds(F, base, Genesis, n, T, g)
  BY <1>1, <1>3, <1>5, FoldSolution
<1>7. Solves(g)
  <2>1. g \in [SUBSET (1 .. n) -> T] /\ \A s \in SUBSET (1 .. n) : g[s] = FoldRound(F, base, Genesis, g, s)
    BY <1>6 DEF Folds
  <2>2. ASSUME NEW s \in SUBSET (1 .. n)
        PROVE  g[s] = IF s = {} THEN base ELSE MintStep(g[s \ {Max(s)}], Genesis[Max(s)])
    <3>1. CASE s = {}
      BY <2>1, <3>1 DEF FoldRound
    <3>2. CASE s # {}
      <4>1. Max(s) \in 1 .. n
        BY <1>1, <3>2, MaxIn
      <4>2. g[s \ {Max(s)}] \in T /\ Genesis[Max(s)] \in E
        BY <1>1, <2>1, <4>1
      <4>3. g[s] = F[<< g[s \ {Max(s)}], Genesis[Max(s)] >>]
        BY <2>1, <3>2 DEF FoldRound
      <4>4. QED
        BY <1>5, <3>2, <4>2, <4>3
    <3>3. QED
      BY <3>1, <3>2
  <2>3. g = [s \in SUBSET (1 .. n) |-> g[s]]
    BY <2>1
  <2>4. QED
    BY <2>2, <2>3
<1>8. Solves(iter)
  BY <1>7
<1> HIDE DEF iter
<1>9. iter[{}] \in T
  BY <1>3, <1>8
<1>10. ASSUME NEW s \in SUBSET (1 .. n), s # {}, iter[s \ {Max(s)}] \in T PROVE iter[s] \in T
  <2>1. Max(s) \in 1 .. n
    BY <1>1, <1>10, MaxIn
  <2>2. iter[s] = MintStep(iter[s \ {Max(s)}], Genesis[Max(s)])
    BY <1>8, <1>10
  <2>3. QED
    BY <1>1, <1>4, <1>10, <2>1, <2>2
<1>11. iter[1 .. n] \in T
  BY <1>1, <1>9, <1>10, FoldStays
<1>12. QED
  BY <1>2, <1>11 DEF T

LEMMA ExchangeInvInit == ExchangeInit => ExchangeInv
<1> SUFFICES ASSUME ExchangeInit PROVE ExchangeInv
  OBVIOUS
<1>1. PortfolioOK(pf)
  BY GenesisOK DEF ExchangeInit
<1>2. PricesOK
  BY DEF ExchangeInit, PricesOK, NoPrice
<1>3. CountersOK
  BY DEF ExchangeInit, CountersOK
<1>4. QED
  BY <1>1, <1>2, <1>3 DEF ExchangeInit, ExchangeInv

\* Calls that leave the portfolio and the prices as they are.
LEMMA SettingsKeep ==
  ASSUME ExchangeInv, PortfolioOK(pf'), PricesOK', maxSlip' \in Nat, now' \in Nat, CountersOK'
  PROVE  ExchangeInv'
BY DEF ExchangeInv

LEMMA PortfolioCallKeeps ==
  ASSUME ExchangeInv, PortfolioOK(pf'), OnlyPortfolio
  PROVE  ExchangeInv'
BY DEF ExchangeInv, OnlyPortfolio, PricesOK, CountersOK

LEMMA CounterUp ==
  \A c \in [Users -> Nat], u \in Users : [c EXCEPT ![u] = @ + 1] \in [Users -> Nat]
OBVIOUS

\* What a swap's step establishes beside the invariant.
SwapConserves(amount) ==
  Pooled(pf) => Holdings(pf') = Holdings(pf) /\ FeesWithin(pf, pf', amount)

LEMMA SwapStep ==
  ASSUME ExchangeInv, NEW u \in Users, NEW from \in Assets, NEW amount \in SwapAmounts, Swap(u, from, amount)
  PROVE  /\ ExchangeInv' /\ SwapConserves(amount)
         /\ pf'.lp_positions = pf.lp_positions /\ pf'.total_lp_tokens = pf.total_lp_tokens
         /\ Product(pf') >= Product(pf)
<1> DEFINE fee == TierFee(pf, u, amount)
           p == FeeTaken(pf, u, from, amount)
           net == amount - fee
           q == TradeRecorded(PerformSwap(p, u, from, net), u)
<1>1. PortfolioOK(pf) /\ PricesOK /\ amount \in Int
  BY ArgumentAssumption DEF ExchangeInv
<1>2. /\ fee > 0 => CanDebit(pf, from, u, fee)
      /\ CanPerformSwap(p, u, from, net)
      /\ pf' = q
  BY DEF Swap, SwapGoesThrough
<1>3. fee \in Int /\ (net > 0 => amount > 0) /\ (amount > 0 => fee \in Nat /\ FeeBounds(amount, fee))
  BY <1>1, TierFeeFigures
<1>4. net > 0
  BY <1>2 DEF CanPerformSwap
<1>5. fee \in Nat /\ FeeBounds(amount, fee) /\ net \in Nat /\ net > 0 /\ net \in Int
  <2> HIDE DEF fee
  <2>1. QED
    BY <1>1, <1>3, <1>4
<1>6. Charged(pf, p, fee)
  BY <1>1, <1>2, <1>5, FeeTakenKeeps
<1>7. PortfolioOK(p) /\ p.pool = pf.pool /\ p.lp_positions = pf.lp_positions
      /\ p.total_lp_tokens = pf.total_lp_tokens /\ Holdings(p) = Holdings(pf)
      /\ p.lp_fees_accumulated = pf.lp_fees_accumulated
      /\ p.total_fees_collected = pf.total_fees_collected + fee
  BY <1>6 DEF Charged
<1> HIDE DEF fee, p, net
<1>8. /\ PortfolioOK(q)
      /\ q.lp_positions = p.lp_positions /\ q.total_lp_tokens = p.total_lp_tokens
      /\ Product(q) >= Product(p)
      /\ q.lp_fees_accumulated = p.lp_fees_accumulated + FeeOn(net)
      /\ q.total_fees_collected = p.total_fees_collected
      /\ Pooled(p) => Holdings(q) = Holdings(p)
  BY <1>1, <1>2, <1>5, <1>7, SwapKeeps
<1> HIDE DEF q
<1>9. Product(pf') >= Product(pf)
  BY <1>2, <1>7, <1>8 DEF Product
<1>10. SwapConserves(amount)
  <2>1. Pooled(pf) <=> Pooled(p)
    BY <1>7 DEF Pooled
  <2>2. FeeOn(net) \in Nat /\ FeeBounds(net, FeeOn(net))
    BY <1>5, FeeFigures
  <2>3. pf.total_fees_collected \in Int /\ pf.lp_fees_accumulated \in Int
    BY <1>1 DEF PortfolioOK, PortfolioRecord
  <2>4. q.total_fees_collected - pf.total_fees_collected = fee
        /\ q.lp_fees_accumulated - pf.lp_fees_accumulated = FeeOn(net)
    BY <1>5, <1>7, <1>8, <2>2, <2>3
  <2>5. FeesWithin(pf, pf', amount)
    BY <1>2, <1>5, <2>2, <2>4 DEF FeesWithin, net
  <2>6. QED
    BY <1>2, <1>7, <1>8, <2>1, <2>5 DEF SwapConserves
<1>11. ExchangeInv'
  <2>1. OnlyPortfolio
    BY DEF Swap
  <2>2. QED
    BY <1>2, <1>8, <2>1, PortfolioCallKeeps
<1>12. QED
  BY <1>2, <1>7, <1>8, <1>9, <1>10, <1>11

LEMMA SafeSwapStep ==
  ASSUME ExchangeInv, NEW u \in Users, NEW from \in Assets, NEW amount \in SwapAmounts, SafeSwap(u, from, amount)
  PROVE  /\ ExchangeInv' /\ SwapConserves(amount)
         /\ pf'.lp_positions = pf.lp_positions /\ pf'.total_lp_tokens = pf.total_lp_tokens
         /\ Product(pf') >= Product(pf)
<1> DEFINE q == TradeRecorded(PerformSwap(pf, u, from, amount), u)
<1>1. PortfolioOK(pf) /\ PricesOK /\ amount \in Int
  BY ArgumentAssumption DEF ExchangeInv
<1>2. CanPerformSwap(pf, u, from, amount) /\ pf' = q /\ OnlyPortfolio
  BY DEF SafeSwap
<1>3. amount \in Nat
  BY <1>1, <1>2 DEF CanPerformSwap
<1>4. /\ PortfolioOK(q)
      /\ q.lp_positions = pf.lp_positions /\ q.total_lp_tokens = pf.total_lp_tokens
      /\ Product(q) >= Product(pf)
      /\ q.lp_fees_accumulated = pf.lp_fees_accumulated + FeeOn(amount)
      /\ q.total_fees_collected = pf.total_fees_collected
      /\ Pooled(pf) => Holdings(q) = Holdings(pf)
  BY <1>1, <1>2, SwapKeeps
<1> HIDE DEF q
<1>5. FeesWithin(pf, pf', amount)
  <2>1. FeeOn(amount) \in Nat /\ FeeBounds(amount, FeeOn(amount))
    BY <1>3, FeeFigures
  <2>2. pf.total_fees_collected \in Int /\ pf.lp_fees_accumulated \in Int
    BY <1>1 DEF PortfolioOK, PortfolioRecord
  <2>3. q.total_fees_collected - pf.total_fees_collected = 0
        /\ q.lp_fees_accumulated - pf.lp_fees_accumulated = FeeOn(amount)
    BY <1>4, <2>1, <2>2
  <2>4. FeeBounds(amount, 0) /\ amount - 0 = amount
    BY <1>3 DEF FeeBounds
  <2>5. QED
    BY <1>2, <2>1, <2>3, <2>4 DEF FeesWithin
<1>6. ExchangeInv'
  BY <1>2, <1>4, PortfolioCallKeeps
<1>7. QED
  BY <1>2, <1>4, <1>5, <1>6 DEF SwapConserves

\* What every step has to show of the portfolio it leaves.
ReservesKept ==
  /\ pf'.trades # pf.trades => Product(pf') >= Product(pf)
  /\ pf'.total_lp_tokens # pf.total_lp_tokens /\ pf.total_lp_tokens > 0 =>
       \A t \in Assets : pf'.pool[t] * pf.total_lp_tokens >= pf.pool[t] * pf'.total_lp_tokens

PositionsPaid ==
  pf'.lp_positions # pf.lp_positions =>
    /\ \A t \in Assets : Total(pf', t) = Total(pf, t)
    /\ VerifyAddLiquidity(pf, pf') \/ VerifyRemoveLiquidity(pf, pf')

StepKeeps == ExchangeInv' /\ ReservesKept /\ PositionsPaid

LEMMA RecordTradeStep ==
  ASSUME ExchangeInv, NEW u \in Users, RecordTrade(u)
  PROVE  StepKeeps
<1> DEFINE q == TradeRecorded(pf, u)
<1>1. PortfolioOK(pf) /\ pf \in PortfolioRecord /\ pf' = q /\ OnlyPortfolio
  BY DEF ExchangeInv, PortfolioOK, RecordTrade
<1>2. PortfolioOK(q)
  BY <1>1, TradeRecordedKeeps
<1>3. q.pool = pf.pool /\ q.lp_positions = pf.lp_positions /\ q.total_lp_tokens = pf.total_lp_tokens
  BY <1>1, TradeRecordedIs
<1>4. Product(pf) \in Nat
  BY <1>1, ProductNat
<1> HIDE DEF q
<1>5. ExchangeInv'
  BY <1>1, <1>2, PortfolioCallKeeps
<1>6. Product(pf') = Product(pf)
  BY <1>1, <1>3 DEF Product
<1>7. QED
  BY <1>1, <1>3, <1>4, <1>5, <1>6 DEF StepKeeps, ReservesKept, PositionsPaid

LEMMA MintStepKeeps ==
  ASSUME ExchangeInv, NEW u \in Users, NEW t \in Assets, NEW amount \in MintAmounts, Mint(t, u, amount)
  PROVE  StepKeeps
<1> DEFINE q == Minted(pf, t, u, amount)
<1>1. PortfolioOK(pf) /\ amount \in Nat /\ pf' = q /\ OnlyPortfolio
  BY ArgumentAssumption DEF ExchangeInv, Mint
<1>2. Funded(pf, q, t, u, amount)
  BY <1>1, MintKeeps
<1> HIDE DEF q
<1>3. ExchangeInv'
  BY <1>1, <1>2, PortfolioCallKeeps DEF Funded
<1>4. QED
  BY <1>1, <1>2, <1>3 DEF Funded, StepKeeps, ReservesKept, PositionsPaid

LEMMA AddLiquidityStep ==
  ASSUME ExchangeInv, NEW u \in Users, NEW d \in Deposits, AddLiquidity(u, d)
  PROVE  StepKeeps
<1> DEFINE lp == LPTokens(pf, d)
<1>1. PortfolioOK(pf) /\ \A t \in Assets : d[t] > 0 /\ d[t] <= pf.balances[u][t]
  <2>1. \A t \in Assets : pf.balances[u][t] \in Int
    BY DEF ExchangeInv, PortfolioOK, PortfolioRecord
  <2>2. d \in [Assets -> Int]
    BY ArgumentAssumption
  <2>3. QED
    BY <2>1, <2>2 DEF ExchangeInv, AddLiquidity
<1>2. d \in [Assets -> Nat] /\ \A t \in Assets : d[t] \in Nat /\ d[t] > 0
  <2>1. d \in [Assets -> Int]
    BY ArgumentAssumption
  <2>2. QED
    BY <1>1, <2>1
<1>3. lp > 0
  BY DEF AddLiquidity
<1>4. /\ lp \in Nat
      /\ pf.total_lp_tokens # 0 =>
           \A t \in Assets : pf.pool[t] > 0 /\ lp <= (d[t] * pf.total_lp_tokens) \div pf.pool[t]
  BY <1>1, <1>2, <1>3, LPTokensFair
<1>5. Provided(pf, pf', d, lp)
  <2>1. pf' = [Debited(Debited(pf, "XLM", u, d["XLM"]), "USDCSIM", u, d["USDCSIM"]) EXCEPT
                 !.pool = [t \in Assets |-> @[t] + d[t]],
                 !.lp_positions[u] = PositionGrown(@, d, lp),
                 !.total_lp_tokens = @ + lp]
    BY DEF AddLiquidity
  <2> HIDE DEF lp
  <2>2. Provided(pf, [Debited(Debited(pf, "XLM", u, d["XLM"]), "USDCSIM", u, d["USDCSIM"]) EXCEPT
                        !.pool = [t \in Assets |-> @[t] + d[t]],
                        !.lp_positions[u] = PositionGrown(@, d, lp),
                        !.total_lp_tokens = @ + lp], d, lp)
    BY <1>1, <1>2, <1>4, DepositKeeps
  <2>3. QED
    BY <2>1, <2>2
<1> HIDE DEF lp
<1>6. ExchangeInv'
  <2>1. lpUsed' \in [Users -> Nat]
    BY CounterUp DEF AddLiquidity, LpOpRecorded, ExchangeInv, CountersOK
  <2>2. CountersOK' /\ PricesOK' /\ maxSlip' \in Nat /\ now' \in Nat
    BY <2>1 DEF AddLiquidity, ExchangeInv, CountersOK, PricesOK
  <2>3. QED
    BY <1>5, <2>2, SettingsKeep DEF Provided
<1>7. \A t \in Assets : pf.pool[t] \in Nat /\ pf'.pool[t] = pf.pool[t] + d[t]
  BY <1>1, <1>5 DEF PortfolioOK, PortfolioRecord, Provided
<1>8. pf.total_lp_tokens \in Int /\ pf'.total_lp_tokens = pf.total_lp_tokens + lp
  BY <1>1, <1>5 DEF PortfolioOK, PortfolioRecord, Provided
<1>9. ASSUME pf.total_lp_tokens > 0, NEW t \in Assets
      PROVE  pf'.pool[t] * pf.total_lp_tokens >= pf.pool[t] * pf'.total_lp_tokens
  <2> DEFINE x == pf.pool[t]
             T == pf.total_lp_tokens
             n == d[t]
  <2>1. x \in Nat /\ T \in Nat /\ n \in Nat /\ T > 0
    BY <1>2, <1>7, <1>8, <1>9
  <2>2. x > 0 /\ lp <= (n * T) \div x
    BY <1>4, <1>8, <1>9
  <2>3. pf'.pool[t] = x + n /\ pf'.total_lp_tokens = T + lp
    BY <1>7, <1>8
  <2> HIDE DEF x, T, n
  <2>4. x * (T + lp) <= (x + n) * T
    BY <1>4, <2>1, <2>2, DepositDilutesNot
  <2>5. x * (T + lp) \in Int /\ (x + n) * T \in Int
    BY <1>4, <2>1
  <2>6. (x + n) * T >= x * (T + lp)
    BY <2>4, <2>5
  <2>7. QED
    BY <2>3, <2>6 DEF x, T
<1>10. VerifyAddLiquidity(pf, pf')
  <2>1. pf'.total_lp_tokens > pf.total_lp_tokens
    BY <1>3, <1>4, <1>8
  <2>2. \A t \in Assets : pf'.pool[t] > pf.pool[t]
    BY <1>2, <1>7
  <2>3. QED
    BY <2>1, <2>2 DEF VerifyAddLiquidity
<1>11. ReservesKept
  BY <1>5, <1>9 DEF Provided, ReservesKept
<1>12. PositionsPaid
  BY <1>5, <1>10 DEF Provided, PositionsPaid
<1>13. QED
  BY <1>6, <1>11, <1>12 DEF StepKeeps

LEMMA RemoveLiquidityStep ==
  ASSUME ExchangeInv, NEW u \in Users, NEW lp \in Burns, RemoveLiquidity(u, lp)
  PROVE  StepKeeps
<1> DEFINE old == pf.lp_positions[u]
           out == ShareOf(pf, lp)
           T == pf.total_lp_tokens
<1>1. PortfolioOK(pf) /\ lp \in Int /\ 0 < lp /\ lp <= old.lp_tokens_minted /\ T > 0
      /\ \A t \in Assets : out[t] > 0
  BY ArgumentAssumption DEF ExchangeInv, RemoveLiquidity
<1>2. lp \in Nat /\ T \in Nat /\ lp <= T
  <2>1. old \in Position /\ old.lp_tokens_minted >= 0
    BY <1>1 DEF PortfolioOK, PortfolioRecord
  <2>2. old.lp_tokens_minted \in Nat /\ T \in Nat /\ old.lp_tokens_minted <= T
    <3> HIDE DEF old, T
    <3>1. QED
      BY <1>1, <2>1, PositionMoves DEF old, T
  <2> HIDE DEF old, T
  <2>3. QED
    BY <1>1, <2>2
<1>3. \A t \in Assets : /\ out[t] = (lp * pf.pool[t]) \div T /\ pf.pool[t] \in Nat
                        /\ out[t] \in Nat /\ out[t] <= pf.pool[t]
                        /\ pf.pool[t] * (T - lp) <= (pf.pool[t] - out[t]) * T
  <2> SUFFICES ASSUME NEW t \in Assets
               PROVE  /\ out[t] = (lp * pf.pool[t]) \div T /\ pf.pool[t] \in Nat
                      /\ out[t] \in Nat /\ out[t] <= pf.pool[t]
                      /\ pf.pool[t] * (T - lp) <= (pf.pool[t] - out[t]) * T
    OBVIOUS
  <2> DEFINE x == pf.pool[t]
             paid == out[t]
  <2>1. paid = (lp * x) \div T
    BY DEF ShareOf
  <2>2. x \in Nat
    BY <1>1 DEF PortfolioOK, PortfolioRecord
  <2> HIDE DEF out, T, x, paid
  <2>3. paid \in Nat /\ paid <= x /\ x * (T - lp) <= (x - paid) * T
    BY <1>1, <1>2, <2>1, <2>2, WithdrawalDilutesNot
  <2>4. QED
    BY <2>1, <2>2, <2>3 DEF x, paid
<1>4. out \in [Assets -> Nat]
  <2>1. out = [t \in Assets |-> out[t]]
    BY DEF ShareOf
  <2> HIDE DEF out
  <2>2. QED
    BY <1>3, <2>1
<1>5. Withdrawn(pf, pf', out, lp)
  <2>1. pf' = [Repaid(pf, u, out) EXCEPT
                 !.lp_positions[u] = PositionShrunk(pf.lp_positions[u], out, lp),
                 !.total_lp_tokens = Max({@ - lp, 0})]
    BY DEF RemoveLiquidity, Repaid
  <2> HIDE DEF out
  <2>2. Withdrawn(pf, [Repaid(pf, u, out) EXCEPT
                         !.lp_positions[u] = PositionShrunk(pf.lp_positions[u], out, lp),
                         !.total_lp_tokens = Max({@ - lp, 0})], out, lp)
    BY <1>1, <1>2, <1>3, <1>4, WithdrawalKeeps
  <2>3. QED
    BY <2>1, <2>2
<1>6. ExchangeInv'
  <2>1. lpUsed' \in [Users -> Nat]
    BY CounterUp DEF RemoveLiquidity, LpOpRecorded, ExchangeInv, CountersOK
  <2>2. CountersOK' /\ PricesOK' /\ maxSlip' \in Nat /\ now' \in Nat
    BY <2>1 DEF RemoveLiquidity, ExchangeInv, CountersOK, PricesOK
  <2>3. QED
    BY <1>5, <2>2, SettingsKeep DEF Withdrawn
<1> HIDE DEF out, old
<1>7. pf'.total_lp_tokens = T - lp /\ \A t \in Assets : pf'.pool[t] = pf.pool[t] - out[t]
  BY <1>5 DEF Withdrawn
<1>8. ASSUME NEW t \in Assets
      PROVE  pf'.pool[t] * pf.total_lp_tokens >= pf.pool[t] * pf'.total_lp_tokens
  <2>1. pf.pool[t] * (T - lp) <= (pf.pool[t] - out[t]) * T
    BY <1>3
  <2>2. pf.pool[t] * (T - lp) \in Int /\ (pf.pool[t] - out[t]) * T \in Int
    <3> HIDE DEF T
    <3>1. QED
      BY <1>2, <1>3
  <2> DEFINE a == pf.pool[t] * (T - lp)
             b == (pf.pool[t] - out[t]) * T
  <2>3. pf'.pool[t] * pf.total_lp_tokens = b /\ pf.pool[t] * pf'.total_lp_tokens = a
    BY <1>7
  <2>4. b >= a
    <3> HIDE DEF a, b
    <3>1. a \in Int /\ b \in Int /\ a <= b
      BY <2>1, <2>2 DEF a, b
    <3>2. QED
      BY <3>1
  <2> HIDE DEF a, b
  <2>5. QED
    BY <2>3, <2>4
<1>9. VerifyRemoveLiquidity(pf, pf')
  <2>1. pf'.total_lp_tokens < pf.total_lp_tokens /\ pf'.total_lp_tokens >= 0
    BY <1>1, <1>2, <1>7
  <2>2. \A t \in Assets : pf'.pool[t] < pf.pool[t]
    BY <1>1, <1>3, <1>7
  <2>3. QED
    BY <2>1, <2>2 DEF VerifyRemoveLiquidity
<1>10. ReservesKept
  BY <1>5, <1>8 DEF Withdrawn, ReservesKept
<1>11. PositionsPaid
  BY <1>5, <1>9 DEF Withdrawn, PositionsPaid
<1>12. QED
  BY <1>6, <1>10, <1>11 DEF StepKeeps

LEMMA ExecuteBatchStep ==
  ASSUME ExchangeInv, NEW ops \in Batches, NEW atomic \in BOOLEAN, ExecuteBatch(ops, atomic)
  PROVE  StepKeeps
<1> DEFINE run == BatchRun(pf, ops)
<1>1. PortfolioOK(pf) /\ PricesOK /\ ops \in Seq(BatchOperation) /\ \A i \in DOMAIN ops : OpValid(ops[i])
  BY ArgumentAssumption DEF ExchangeInv, ExecuteBatch
<1>2. run \in RunFrom(pf)
  BY <1>1, BatchRunKeeps
<1>3. BatchKeeps(pf, run.pf) /\ run.executed \in Nat
  BY <1>2 DEF RunFrom
<1>4. pf' = run.pf
  BY DEF ExecuteBatch
<1>5. swapsUsed' \in [Users -> Nat]
  <2>1. swapsUsed' = [u \in Users |-> swapsUsed[u] + IF u \in MeteredCaller(ops) THEN run.executed ELSE 0]
    BY DEF ExecuteBatch
  <2>2. swapsUsed \in [Users -> Nat]
    BY DEF ExchangeInv, CountersOK
  <2> HIDE DEF run
  <2>3. \A u \in Users : (swapsUsed[u] + IF u \in MeteredCaller(ops) THEN run.executed ELSE 0) \in Nat
    BY <1>3, <2>2
  <2>4. QED
    BY <2>1, <2>3
<1> HIDE DEF run
<1>6. CountersOK' /\ PricesOK' /\ maxSlip' \in Nat /\ now' \in Nat
  BY <1>5 DEF ExecuteBatch, ExchangeInv, CountersOK, PricesOK
<1>7. ExchangeInv'
  BY <1>3, <1>4, <1>6, SettingsKeep DEF BatchKeeps
<1>8. QED
  BY <1>3, <1>4, <1>7 DEF BatchKeeps, StepKeeps, ReservesKept, PositionsPaid

LEMMA SetPriceStep ==
  ASSUME ExchangeInv, NEW t \in Assets, NEW price \in Prices, SetPrice(t, price)
  PROVE  StepKeeps
<1>1. price \in Nat /\ now \in Nat /\ PricesOK
  BY ArgumentAssumption DEF ExchangeInv
<1>2. prices' = prices \/ prices' = [prices EXCEPT ![t] = [value |-> price, at |-> now]]
  BY DEF SetPrice
<1>3. [value |-> price, at |-> now] \in [value : Nat, at : Int]
  BY <1>1
<1>4. PricesOK'
  BY <1>1, <1>2, <1>3 DEF PricesOK
<1>5. pf' = pf /\ ExchangeInv'
  BY <1>4, SettingsKeep DEF SetPrice, ExchangeInv, CountersOK
<1>6. QED
  BY <1>5 DEF StepKeeps, ReservesKept, PositionsPaid

LEMMA SetPoolLiquidityStep ==
  ASSUME ExchangeInv, NEW t \in Assets, NEW amount \in PoolLevels, SetPoolLiquidity(t, amount)
  PROVE  StepKeeps
<1> DEFINE r == [pf.pool EXCEPT ![t] = amount]
           q == [pf EXCEPT !.pool = r]
<1>1. PortfolioOK(pf) /\ pf \in PortfolioRecord /\ amount \in Nat
  BY ArgumentAssumption DEF ExchangeInv, PortfolioOK
<1>2. pf' = q /\ OnlyPortfolio
  BY <1>1 DEF SetPoolLiquidity, PortfolioRecord
<1>3. r \in [Assets -> Nat]
  <2>1. pf.pool \in [Assets -> Int] /\ \A a \in Assets : pf.pool[a] >= 0
    BY <1>1 DEF PortfolioOK, PortfolioRecord
  <2>2. pf.pool \in [Assets -> Nat]
    BY <2>1
  <2>3. QED
    BY <1>1, <2>2
<1> HIDE DEF r
<1>4. /\ PortfolioOK(q) /\ q.trades = pf.trades
      /\ q.lp_positions = pf.lp_positions /\ q.total_lp_tokens = pf.total_lp_tokens
  BY <1>1, <1>3, ReservesSet
<1> HIDE DEF q
<1>5. ExchangeInv'
  BY <1>2, <1>4, PortfolioCallKeeps
<1>6. QED
  BY <1>2, <1>4, <1>5 DEF StepKeeps, ReservesKept, PositionsPaid

LEMMA SetMaxSlippageStep ==
  ASSUME ExchangeInv, NEW bps \in SlippageLimits, SetMaxSlippageBps(bps)
  PROVE  StepKeeps
<1>1. bps \in Nat /\ pf' = pf /\ maxSlip' = bps
  BY ArgumentAssumption DEF SetMaxSlippageBps
<1>2. ExchangeInv'
  BY <1>1 DEF SetMaxSlippageBps, ExchangeInv, PricesOK, CountersOK
<1>3. QED
  BY <1>1, <1>2 DEF StepKeeps, ReservesKept, PositionsPaid

LEMMA TickStep ==
  ASSUME ExchangeInv, NEW d \in TimeSteps, Tick(d)
  PROVE  StepKeeps
<1>1. d \in Nat /\ pf' = pf /\ now' = now + d /\ now \in Nat
  BY ExchangeAssumption DEF Tick, ExchangeInv
<1>2. \A c \in [Users -> Nat] : \A length, t : InWindow(c, length, t) \in [Users -> Nat]
  BY DEF InWindow
<1>3. CountersOK'
  BY <1>2 DEF Tick, ExchangeInv, CountersOK
<1>4. now' \in Nat /\ PricesOK' /\ maxSlip' \in Nat
  BY <1>1 DEF Tick, ExchangeInv, PricesOK
<1>5. ExchangeInv'
  BY <1>1, <1>3, <1>4, SettingsKeep DEF ExchangeInv
<1>6. QED
  BY <1>1, <1>5 DEF StepKeeps, ReservesKept, PositionsPaid

LEMMA UnchangedKeeps ==
  ASSUME ExchangeInv, UNCHANGED exchangeVars
  PROVE  StepKeeps
BY DEF StepKeeps, ReservesKept, PositionsPaid, ExchangeInv, PricesOK, CountersOK, exchangeVars

LEMMA ExchangeStepKeeps == ExchangeInv /\ [ExchangeNext]_exchangeVars => StepKeeps
<1> SUFFICES ASSUME ExchangeInv, [ExchangeNext]_exchangeVars PROVE StepKeeps
  OBVIOUS
<1>1. ASSUME NEW u \in Users, NEW t \in Assets, NEW amount \in SwapAmounts,
             Swap(u, t, amount) \/ SafeSwap(u, t, amount)
      PROVE  StepKeeps
  <2>1. /\ ExchangeInv'
        /\ pf'.lp_positions = pf.lp_positions /\ pf'.total_lp_tokens = pf.total_lp_tokens
        /\ Product(pf') >= Product(pf)
    BY <1>1, SwapStep, SafeSwapStep
  <2>2. QED
    BY <2>1 DEF StepKeeps, ReservesKept, PositionsPaid
<1>2. ASSUME NEW u \in Users, RecordTrade(u) PROVE StepKeeps
  BY <1>2, RecordTradeStep
<1>3. ASSUME NEW u \in Users, NEW t \in Assets, NEW amount \in MintAmounts, Mint(t, u, amount)
      PROVE  StepKeeps
  BY <1>3, MintStepKeeps
<1>4. ASSUME NEW u \in Users, NEW d \in Deposits, AddLiquidity(u, d) PROVE StepKeeps
  BY <1>4, AddLiquidityStep
<1>5. ASSUME NEW u \in Users, NEW lp \in Burns, RemoveLiquidity(u, lp) PROVE StepKeeps
  BY <1>5, RemoveLiquidityStep
<1>6. ASSUME NEW ops \in Batches, NEW atomic \in BOOLEAN, ExecuteBatch(ops, atomic) PROVE StepKeeps
  BY <1>6, ExecuteBatchStep
<1>7. ASSUME NEW t \in Assets, NEW price \in Prices, SetPrice(t, price) PROVE StepKeeps
  BY <1>7, SetPriceStep
<1>8. ASSUME NEW t \in Assets, NEW amount \in PoolLevels, SetPoolLiquidity(t, amount) PROVE StepKeeps
  BY <1>8, SetPoolLiquidityStep
<1>9. ASSUME NEW bps \in SlippageLimits, SetMaxSlippageBps(bps) PROVE StepKeeps
  BY <1>9, SetMaxSlippageStep
<1>10. ASSUME NEW d \in TimeSteps, Tick(d) PROVE StepKeeps
  BY <1>10, TickStep
<1>11. QED
  BY <1>1, <1>2, <1>3, <1>4, <1>5, <1>6, <1>7, <1>8, <1>9, <1>10, UnchangedKeeps DEF ExchangeNext

LEMMA SwapsConserve ==
  ASSUME ExchangeInv
  PROVE  \A u \in Users, from \in Assets, amount \in SwapAmounts :
           Pooled(pf) /\ (Swap(u, from, amount) \/ SafeSwap(u, from, amount))
             => Holdings(pf') = Holdings(pf) /\ FeesWithin(pf, pf', amount)
BY SwapStep, SafeSwapStep DEF SwapConserves

-----------------------------------------------------------------------------
(* The theorems *)

\* After every call of the counter contract what the portfolio keeps twice
\* agrees: LP tokens and positions, users and active users, leaderboard and pnl;
\* and no balance or reserve is negative.
THEOREM PortfolioAlwaysSound == ExchangeSpec => []PortfolioSound
<1>1. ExchangeInv /\ [ExchangeNext]_exchangeVars => ExchangeInv'
  BY ExchangeStepKeeps DEF StepKeeps
<1>2. QED
  BY <1>1, ExchangeInvInit, InvIsSound, PTL DEF ExchangeSpec

\* No trade lowers the product of the reserves, and no deposit, withdrawal or
\* batch what one LP token stands for.
THEOREM PoolValueAlwaysKept == ExchangeSpec => PoolValueKept
<1>1. ExchangeInv /\ [ExchangeNext]_exchangeVars => ExchangeInv'
  BY ExchangeStepKeeps DEF StepKeeps
<1> DEFINE Step ==
      /\ pf'.trades # pf.trades =>
           pf'.pool["XLM"] * pf'.pool["USDCSIM"] >= pf.pool["XLM"] * pf.pool["USDCSIM"]
      /\ pf'.total_lp_tokens # pf.total_lp_tokens /\ pf.total_lp_tokens > 0 =>
           \A t \in Assets : pf'.pool[t] * pf.total_lp_tokens >= pf.pool[t] * pf'.total_lp_tokens
<1>2. ExchangeInv /\ [ExchangeNext]_exchangeVars => Step
  BY ExchangeStepKeeps DEF StepKeeps, ReservesKept, Product
<1> HIDE DEF Step
<1>3. ExchangeSpec => [][Step]_exchangeVars
  BY <1>1, <1>2, ExchangeInvInit, PTL DEF ExchangeSpec
<1>4. QED
  BY <1>3 DEF Step, PoolValueKept

\* Nothing comes from nowhere: a deposit or a withdrawal moves what it takes, and
\* a trade against the pool keeps the sum of everything and bounds its fees.
THEOREM ValueAlwaysConserved == ExchangeSpec => ValueConserved
<1>1. ExchangeInv /\ [ExchangeNext]_exchangeVars => ExchangeInv'
  BY ExchangeStepKeeps DEF StepKeeps
<1> DEFINE Step ==
      /\ pf'.lp_positions # pf.lp_positions =>
           /\ \A t \in Assets : Total(pf', t) = Total(pf, t)
           /\ VerifyAddLiquidity(pf, pf') \/ VerifyRemoveLiquidity(pf, pf')
      /\ \A u \in Users, from \in Assets, amount \in SwapAmounts :
           Pooled(pf) /\ (Swap(u, from, amount) \/ SafeSwap(u, from, amount))
             => /\ Holdings(pf') = Holdings(pf)
                /\ FeesWithin(pf, pf', amount)
<1>2. ExchangeInv /\ [ExchangeNext]_exchangeVars => Step
  BY ExchangeStepKeeps, SwapsConserve DEF StepKeeps, PositionsPaid
<1> HIDE DEF Step
<1>3. ExchangeSpec => [][Step]_exchangeVars
  BY <1>1, <1>2, ExchangeInvInit, PTL DEF ExchangeSpec
<1>4. QED
  BY <1>3 DEF Step, ValueConserved
=============================================================================
