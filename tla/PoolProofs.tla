------------------------------ MODULE PoolProofs ------------------------------
(***************************************************************************)
(* Theorems about the liquidity pools for every set of tokens, users and   *)
(* amounts: sqrt returns the floor of the root, no pool is ever emptied,   *)
(* the shares add up, and nobody who stays is diluted.                     *)
(***************************************************************************)
EXTENDS LiquidityPool, SequenceTheorems, Sums

-----------------------------------------------------------------------------
(* The square root *)

\* One step of the loop of sqrt, and where it may stop.
Halfway(y, z) == (y \div z + z) \div 2

LEMMA HalfwayInRange ==
  ASSUME NEW y \in Nat, NEW z \in 1 .. y
  PROVE  Halfway(y, z) \in Nat /\ Halfway(y, z) >= 1
<1>1. y \div z \in Nat /\ y < (y \div z) * z + z
  BY DivFloor, DivNat
<1>2. y \div z >= 1
  <2>1. SUFFICES ASSUME y \div z = 0 PROVE FALSE
    BY <1>1
  <2>2. QED
    BY <1>1, <2>1
<1>3. QED
  BY <1>1, <1>2 DEF Halfway

\* The loop never steps below the root.
LEMMA HalfwayAbove ==
  ASSUME NEW y \in Nat, NEW z \in 1 .. y
  PROVE  y < (Halfway(y, z) + 1) * (Halfway(y, z) + 1)
<1> DEFINE a == y \div z + 1
           h == Halfway(y, z) + 1
<1>1. a \in Nat /\ y < a * z
  BY DivFloor, DivNat
<1>2. h \in Nat /\ a + z <= 2 * h
  BY HalfwayInRange, DivNat DEF Halfway
<1> HIDE DEF a, h
<1>3. (a + z) * (a + z) <= (2 * h) * (2 * h)
  BY <1>1, <1>2, MulMono
<1>4. 4 * (a * z) <= (a + z) * (a + z)
  <2>1. (a - z) * (a - z) >= 0
    BY <1>1
  <2>2. (a + z) * (a + z) = (a - z) * (a - z) + 4 * (a * z)
    BY <1>1
  <2>3. QED
    BY <1>1, <2>1, <2>2
<1>5. (2 * h) * (2 * h) = 4 * (h * h)
  BY <1>2
<1>6. a * z \in Int /\ h * h \in Int
  BY <1>1, <1>2
<1>7. QED
  BY <1>1, <1>3, <1>4, <1>5, <1>6 DEF h

\* It stops only at or below the root.
LEMMA StopsBelow ==
  ASSUME NEW y \in Nat, NEW z \in 1 .. y, ~ (Halfway(y, z) < z)
  PROVE  z * z <= y
<1>1. y \div z \in Nat /\ (y \div z) * z <= y
  BY DivFloor, DivNat
<1>2. z <= y \div z
  BY <1>1 DEF Halfway
<1>3. z * z <= (y \div z) * z
  BY <1>1, <1>2, MulMono
<1>4. QED
  BY <1>1, <1>3

Descent(y, g, z) == IF Halfway(y, z) < z THEN g[Halfway(y, z)] ELSE z

\* The loop as a function of where it starts exists.
LEMMA DescentExists ==
  ASSUME NEW y \in Nat
  PROVE  \E g : g = [z \in 1 .. y |-> Descent(y, g, z)]
<1> DEFINE Solves(g, n) == \A z \in 1 .. y : z <= n => g[z] = Descent(y, g, z)
           Missing == {n \in Nat : ~ \E g : Solves(g, n)}
           next(g) == [z \in 1 .. y |-> Descent(y, g, z)]
<1>1. Missing = {}
  <2>1. SUFFICES ASSUME Missing # {} PROVE FALSE
    OBVIOUS
  <2>2. PICK n \in Missing : \A k \in Missing : n <= k
    BY <2>1, LeastNatural
  <2>3. n # 0
    BY <2>2
  <2>4. n - 1 \in Nat /\ n - 1 \notin Missing
    <3>1. n \in Nat
      OBVIOUS
    <3>2. n - 1 \in Nat /\ ~ (n <= n - 1)
      BY <2>3, <3>1
    <3> HIDE DEF Missing
    <3>3. QED
      BY <2>2, <3>2
  <2>5. PICK g : Solves(g, n - 1)
    BY <2>4
  <2>6. ASSUME NEW z \in 1 .. y, z <= n PROVE next(g)[z] = Descent(y, next(g), z)
    <3> DEFINE x == Halfway(y, z)
    <3>1. CASE x < z
      <4>1. x \in 1 .. y /\ x <= n - 1
        BY <2>2, <2>6, <3>1, HalfwayInRange
      <4>2. g[x] = next(g)[x]
        BY <2>5, <4>1
      <4>3. QED
        BY <3>1, <4>2 DEF Descent
    <3>2. CASE ~ (x < z)
      BY <3>2 DEF Descent
    <3>3. QED
      BY <3>1, <3>2
  <2>7. Solves(next(g), n)
    BY <2>6
  <2>8. QED
    BY <2>2, <2>7
<1>2. PICK g : Solves(g, y)
  BY <1>1
<1> DEFINE h == [z \in 1 .. y |-> g[z]]
<1>3. \A z \in 1 .. y : Descent(y, h, z) = Descent(y, g, z)
  BY HalfwayInRange DEF Descent
<1>4. h = [z \in 1 .. y |-> Descent(y, h, z)]
  BY <1>2, <1>3
<1>5. QED
  BY <1>4

Root(y, r) == r \in Nat /\ r * r <= y /\ y < (r + 1) * (r + 1)

\* Started above the root the loop ends at it.
LEMMA DescentEndsAtRoot ==
  ASSUME NEW y \in Nat, NEW g, g = [z \in 1 .. y |-> Descent(y, g, z)],
         NEW z \in 1 .. y, y < (z + 1) * (z + 1)
  PROVE  Root(y, g[z])
<1> DEFINE Wrong == {v \in 1 .. y : y < (v + 1) * (v + 1) /\ ~ Root(y, g[v])}
<1>1. SUFFICES ASSUME Wrong # {} PROVE FALSE
  OBVIOUS
<1>2. Wrong \subseteq Nat
  OBVIOUS
<1>3. PICK v \in Wrong : \A k \in Wrong : v <= k
  BY <1>1, <1>2, LeastNatural
<1> DEFINE x == Halfway(y, v)
<1>4. v \in 1 .. y /\ y < (v + 1) * (v + 1) /\ ~ Root(y, g[v]) /\ g[v] = Descent(y, g, v)
  BY <1>3
<1>5. CASE x < v
  <2>1. x \in 1 .. y /\ y < (x + 1) * (x + 1)
    BY <1>4, <1>5, HalfwayInRange, HalfwayAbove
  <2>2. x \notin Wrong
    BY <1>3, <1>4, <1>5, <2>1
  <2>3. Root(y, g[x])
    BY <2>1, <2>2
  <2>4. QED
    BY <1>4, <1>5, <2>3 DEF Descent
<1>6. CASE ~ (x < v)
  <2>1. g[v] = v /\ v * v <= y
    BY <1>4, <1>6, StopsBelow DEF Descent
  <2>2. QED
    BY <1>4, <2>1 DEF Root
<1>7. QED
  BY <1>5, <1>6

\* PoolRegistry::sqrt returns the floor of the square root, for every input.
THEOREM SqrtIsFloor ==
  \A y \in Nat : Isqrt(y) \in Nat /\ Isqrt(y) * Isqrt(y) <= y /\ y < (Isqrt(y) + 1) * (Isqrt(y) + 1)
<1> SUFFICES ASSUME NEW y \in Nat PROVE Root(y, Isqrt(y))
  BY DEF Root
<1>1. CASE y < 4
  BY <1>1 DEF Isqrt, Root
<1>2. CASE y >= 4
  <2> DEFINE g == CHOOSE g : g = [z \in 1 .. y |-> Descent(y, g, z)]
             z == y \div 2 + 1
  <2>1. g = [v \in 1 .. y |-> Descent(y, g, v)]
    BY DescentExists
  <2>2. z \in 1 .. y /\ y <= 2 * z
    BY <1>2
  <2>3. y < (z + 1) * (z + 1)
    <3>1. (z + 1) * (z + 1) = z * z + 2 * z + 1 /\ z * z >= 0
      BY <2>2
    <3>2. QED
      BY <2>2, <3>1
  <2>4. Isqrt(y) = g[z]
    BY <1>2 DEF Isqrt, Descent, Halfway
  <2> HIDE DEF g, z
  <2>5. QED
    BY <2>1, <2>2, <2>3, <2>4, DescentEndsAtRoot
<1>3. QED
  BY <1>1, <1>2

-----------------------------------------------------------------------------
(* What one operation does to the numbers of a pool *)

\* Both reserves per token not falling, neither does the product per square.
LEMMA ProductPerSquare ==
  ASSUME NEW x \in Nat, NEW y \in Nat, NEW t \in Nat,
         NEW x2 \in Nat, NEW y2 \in Nat, NEW t2 \in Nat,
         x * t2 <= x2 * t, y * t2 <= y2 * t
  PROVE  x * y * t2 * t2 <= x2 * y2 * t * t
<1>1. /\ x * t2 \in Nat /\ x2 * t \in Nat
      /\ y * t2 \in Nat /\ y2 * t \in Nat
  BY MulNat
<1>2. (x * t2) * (y * t2) <= (x2 * t) * (y2 * t)
  BY <1>1, MulMono
<1>3. x * y * t2 * t2 = (x * t2) * (y * t2)
  OBVIOUS
<1>4. x2 * y2 * t * t = (x2 * t) * (y2 * t)
  OBVIOUS
<1>5. QED
  BY <1>2, <1>3, <1>4

-----------------------------------------------------------------------------
(* One pool *)

PoolOK(p) ==
  /\ p \in PoolRecord
  /\ p.token_a < p.token_b
  /\ p.reserve_a > 0 /\ p.reserve_b > 0 /\ p.total_lp_tokens > 0
  /\ p.fee_tier <= 10000

NotDiluted(p, q) ==
  /\ p.reserve_a * p.reserve_b * q.total_lp_tokens * q.total_lp_tokens
       <= q.reserve_a * q.reserve_b * p.total_lp_tokens * p.total_lp_tokens
  /\ p.total_lp_tokens # q.total_lp_tokens =>
       /\ p.reserve_a * q.total_lp_tokens <= q.reserve_a * p.total_lp_tokens
       /\ p.reserve_b * q.total_lp_tokens <= q.reserve_b * p.total_lp_tokens

LEMMA PoolNumbers ==
  ASSUME NEW p, PoolOK(p)
  PROVE  /\ p.reserve_a \in Nat /\ p.reserve_b \in Nat /\ p.total_lp_tokens \in Nat
         /\ p.fee_tier \in Nat /\ p.fee_tier <= 10000
<1>1. /\ p.reserve_a \in Int /\ p.reserve_b \in Int /\ p.total_lp_tokens \in Int
      /\ p.fee_tier \in Nat
  BY DEF PoolOK, PoolRecord
<1>2. QED
  BY <1>1 DEF PoolOK

\* The pool with other numbers.
WithNumbers(p, x, y, t) ==
  [token_a |-> p.token_a, token_b |-> p.token_b, reserve_a |-> x, reserve_b |-> y,
   total_lp_tokens |-> t, fee_tier |-> p.fee_tier]

\* The same, as the operations write it.
Renumber(p, x, y, t) ==
  [p EXCEPT !.reserve_a = x, !.reserve_b = y, !.total_lp_tokens = t]

LEMMA Renumbered ==
  ASSUME NEW p \in PoolRecord, NEW x, NEW y, NEW t
  PROVE  Renumber(p, x, y, t) = WithNumbers(p, x, y, t)
<1>1. PICK a, b, ra, rb, lt, fee :
        p = [token_a |-> a, token_b |-> b, reserve_a |-> ra, reserve_b |-> rb,
             total_lp_tokens |-> lt, fee_tier |-> fee]
  BY DEF PoolRecord
<1> DEFINE r1 == [token_a |-> a, token_b |-> b, reserve_a |-> x, reserve_b |-> rb,
                  total_lp_tokens |-> lt, fee_tier |-> fee]
           r2 == [token_a |-> a, token_b |-> b, reserve_a |-> x, reserve_b |-> y,
                  total_lp_tokens |-> lt, fee_tier |-> fee]
<1>2. [p EXCEPT !.reserve_a = x] = r1
  BY <1>1
<1>3. [r1 EXCEPT !.reserve_b = y] = r2
  OBVIOUS
<1>4. [r2 EXCEPT !.total_lp_tokens = t] = WithNumbers(p, x, y, t)
  BY <1>1 DEF WithNumbers
<1>5. QED
  BY <1>2, <1>3, <1>4 DEF Renumber

LEMMA UnchangedNotDiluted ==
  ASSUME NEW p, PoolOK(p) PROVE NotDiluted(p, p)
<1>1. /\ p.reserve_a \in Nat /\ p.reserve_b \in Nat /\ p.total_lp_tokens \in Nat
  BY PoolNumbers
<1>2. p.reserve_a * p.reserve_b * p.total_lp_tokens * p.total_lp_tokens \in Nat
  BY <1>1, MulNat
<1>3. QED
  BY <1>2 DEF NotDiluted

\* The fee takes a part of the amount, at most all of it.
LEMMA AfterFeeBounds ==
  ASSUME NEW p, PoolOK(p), NEW amount \in Nat
  PROVE  AfterFee(p, amount) \in Nat /\ AfterFee(p, amount) <= amount
<1> DEFINE part == 10000 - p.fee_tier
<1>1. part \in Nat /\ part <= 10000
  <2>1. p.fee_tier \in Nat /\ p.fee_tier <= 10000
    BY PoolNumbers
  <2>2. QED
    BY <2>1
<1> HIDE DEF part
<1>2. amount * part \in Nat /\ amount * part <= amount * 10000
  BY <1>1, MulNat, MulMono
<1>3. QED
  BY <1>2 DEF AfterFee, part

LEMMA TradedOK ==
  ASSUME NEW p, PoolOK(p), NEW amount \in Nat, NEW token \in {p.token_a, p.token_b}
  PROVE  LET q == Traded(p, token, amount, AmountOut(p, token, amount)) IN
         PoolOK(q) /\ q.total_lp_tokens = p.total_lp_tokens /\ NotDiluted(p, q)
<1> DEFINE out == AmountOut(p, token, amount)
           q == Traded(p, token, amount, out)
           t == p.total_lp_tokens
           xp == p.reserve_a
           yp == p.reserve_b
<1>1. /\ xp \in Nat /\ yp \in Nat /\ t \in Nat /\ xp > 0 /\ yp > 0 /\ t > 0
      /\ p \in PoolRecord
  BY PoolNumbers DEF PoolOK
<1>2. AfterFee(p, amount) \in Nat /\ AfterFee(p, amount) <= amount
  BY AfterFeeBounds
<1>3. PoolOK(q) /\ q.total_lp_tokens = t /\ xp * yp <= q.reserve_a * q.reserve_b
  <2>1. CASE token = p.token_a
    <3>1. out = (yp * AfterFee(p, amount)) \div (xp + AfterFee(p, amount))
      BY <2>1 DEF AmountOut, ReserveIn, ReserveOut
    <3>2. out \in Nat /\ out < yp /\ xp * yp <= (xp + amount) * (yp - out)
      BY <1>1, <1>2, <3>1, TradeKeepsProduct
    <3> DEFINE x2 == xp + amount
               y2 == yp - out
    <3>3. q = WithNumbers(p, x2, y2, t)
      BY <1>1, <2>1 DEF Traded, WithNumbers, PoolRecord
    <3>4. x2 \in Nat /\ x2 > 0 /\ y2 \in Nat /\ y2 > 0
      BY <1>1, <3>2
    <3> HIDE DEF out, q, x2, y2
    <3>5. PoolOK(q) /\ q.total_lp_tokens = t /\ q.reserve_a = x2 /\ q.reserve_b = y2
      BY <1>1, <3>3, <3>4 DEF WithNumbers, PoolOK, PoolRecord
    <3>6. QED
      BY <3>2, <3>5 DEF x2, y2
  <2>2. CASE token # p.token_a
    <3>1. out = (xp * AfterFee(p, amount)) \div (yp + AfterFee(p, amount))
      BY <2>2 DEF AmountOut, ReserveIn, ReserveOut
    <3>2. out \in Nat /\ out < xp /\ yp * xp <= (yp + amount) * (xp - out)
      BY <1>1, <1>2, <3>1, TradeKeepsProduct
    <3> DEFINE x2 == xp - out
               y2 == yp + amount
    <3>3. q = WithNumbers(p, x2, y2, t)
      BY <1>1, <2>2 DEF Traded, WithNumbers, PoolRecord
    <3>4. x2 \in Nat /\ x2 > 0 /\ y2 \in Nat /\ y2 > 0
      BY <1>1, <3>2
    <3> HIDE DEF out, q, x2, y2
    <3>5. PoolOK(q) /\ q.total_lp_tokens = t /\ q.reserve_a = x2 /\ q.reserve_b = y2
      BY <1>1, <3>3, <3>4 DEF WithNumbers, PoolOK, PoolRecord
    <3>6. y2 * x2 = x2 * y2 /\ yp * xp = xp * yp
      BY <1>1, <3>4
    <3>7. QED
      BY <3>2, <3>5, <3>6 DEF x2, y2
  <2>3. QED
    BY <2>1, <2>2
<1>4. NotDiluted(p, q)
  <2> HIDE DEF q
  <2>1. q.reserve_a \in Nat /\ q.reserve_b \in Nat
    BY <1>3, PoolNumbers
  <2> DEFINE k == xp * yp
             k2 == q.reserve_a * q.reserve_b
  <2>2. k \in Nat /\ k2 \in Nat /\ k <= k2 /\ t * t \in Nat
    BY <1>1, <1>3, <2>1, MulNat
  <2> HIDE DEF k, k2
  <2>3. k * (t * t) <= k2 * (t * t)
    BY <2>2, MulMono
  <2>4. k * t * t = k * (t * t) /\ k2 * t * t = k2 * (t * t)
    BY <1>1, <2>2
  <2>5. QED
    BY <1>3, <2>3, <2>4 DEF NotDiluted, k, k2
<1>5. QED
  BY <1>3, <1>4

\* A deposit of at least one LP token.
LEMMA DepositedOK ==
  ASSUME NEW p, PoolOK(p), NEW a \in Nat, NEW b \in Nat, a > 0, b > 0,
         NEW lp, lp = LPTokens(p, a, b), lp > 0,
         NEW q, q = WithNumbers(p, p.reserve_a + a, p.reserve_b + b, p.total_lp_tokens + lp)
  PROVE  lp \in Nat /\ PoolOK(q) /\ q.total_lp_tokens = p.total_lp_tokens + lp /\ NotDiluted(p, q)
<1> DEFINE x == p.reserve_a
           y == p.reserve_b
           t == p.total_lp_tokens
           lp_a == (a * t) \div x
           lp_b == (b * t) \div y
<1>1. x \in Nat /\ y \in Nat /\ t \in Nat /\ x > 0 /\ y > 0 /\ t > 0 /\ p \in PoolRecord
  BY PoolNumbers DEF PoolOK
<1>2. a * t \in Nat /\ b * t \in Nat
  BY <1>1, MulNat
<1>3. lp_a \in Nat /\ lp_b \in Nat
  BY <1>1, <1>2, DivNat
<1>4. lp = IF lp_a < lp_b THEN lp_a ELSE lp_b
  BY <1>1 DEF LPTokens
<1>5. lp \in Nat /\ lp <= lp_a /\ lp <= lp_b
  <2> HIDE DEF lp_a, lp_b
  <2>1. QED
    BY <1>3, <1>4
<1> DEFINE x2 == x + a
           y2 == y + b
           t2 == t + lp
<1>6. x2 \in Nat /\ y2 \in Nat /\ t2 \in Nat /\ x2 > 0 /\ y2 > 0 /\ t2 > 0
  BY <1>1, <1>5
<1>7. x * t2 <= x2 * t /\ y * t2 <= y2 * t
  BY <1>1, <1>5, DepositDilutesNot
<1>8. x * y * t2 * t2 <= x2 * y2 * t * t
  <2> HIDE DEF x2, y2, t2
  <2>1. QED
    BY <1>1, <1>6, <1>7, ProductPerSquare
<1>9. q.reserve_a = x2 /\ q.reserve_b = y2 /\ q.total_lp_tokens = t2
  BY DEF WithNumbers
<1>10. PoolOK(q)
  <2> HIDE DEF x2, y2, t2
  <2>1. q = WithNumbers(p, x2, y2, t2)
    BY DEF x2, y2, t2
  <2>2. QED
    BY <1>1, <1>6, <2>1 DEF WithNumbers, PoolOK, PoolRecord
<1>11. NotDiluted(p, q)
  <2> HIDE DEF x2, y2, t2
  <2>1. QED
    BY <1>7, <1>8, <1>9 DEF NotDiluted
<1>12. QED
  BY <1>5, <1>9, <1>10, <1>11

\* A withdrawal of less than all LP tokens.
LEMMA WithdrawnOK ==
  ASSUME NEW p, PoolOK(p), NEW lp \in Nat, lp < p.total_lp_tokens,
         NEW q, q = WithNumbers(p, p.reserve_a - Share(lp, p.reserve_a, p.total_lp_tokens),
                                   p.reserve_b - Share(lp, p.reserve_b, p.total_lp_tokens),
                                   p.total_lp_tokens - lp)
  PROVE  PoolOK(q) /\ q.total_lp_tokens = p.total_lp_tokens - lp /\ NotDiluted(p, q)
<1> DEFINE x == p.reserve_a
           y == p.reserve_b
           t == p.total_lp_tokens
           paid_a == (lp * x) \div t
           paid_b == (lp * y) \div t
<1>1. x \in Nat /\ y \in Nat /\ t \in Nat /\ x > 0 /\ y > 0 /\ t > 0 /\ p \in PoolRecord
  BY PoolNumbers DEF PoolOK
<1>2. paid_a \in Nat /\ paid_a < x /\ x * (t - lp) <= (x - paid_a) * t
  BY <1>1, WithdrawalDilutesNot
<1>3. paid_b \in Nat /\ paid_b < y /\ y * (t - lp) <= (y - paid_b) * t
  BY <1>1, WithdrawalDilutesNot
<1> DEFINE x2 == x - paid_a
           y2 == y - paid_b
           t2 == t - lp
<1> HIDE DEF paid_a, paid_b
<1>6. x2 \in Nat /\ y2 \in Nat /\ t2 \in Nat /\ x2 > 0 /\ y2 > 0 /\ t2 > 0
  BY <1>1, <1>2, <1>3
<1>7. x * t2 <= x2 * t /\ y * t2 <= y2 * t
  BY <1>2, <1>3
<1> HIDE DEF x2, y2, t2
<1>8. x * y * t2 * t2 <= x2 * y2 * t * t
  BY <1>1, <1>6, <1>7, ProductPerSquare
<1>9. q = WithNumbers(p, x2, y2, t2)
  BY DEF x2, y2, t2, paid_a, paid_b, Share
<1>10. q.reserve_a = x2 /\ q.reserve_b = y2 /\ q.total_lp_tokens = t2
  BY <1>9 DEF WithNumbers
<1>11. PoolOK(q)
  BY <1>1, <1>6, <1>9 DEF WithNumbers, PoolOK, PoolRecord
<1>12. NotDiluted(p, q)
  BY <1>7, <1>8, <1>10 DEF NotDiluted
<1>13. QED
  BY <1>10, <1>11, <1>12 DEF t2

-----------------------------------------------------------------------------
(* The registry *)

Holdings == [Users -> Nat]

\* The inductive invariant: every pool sound, and its total what its providers
\* hold plus a positive first part.
PoolInv ==
  /\ pools \in Seq(PoolRecord)
  /\ lpBalances \in Seq(Holdings)
  /\ seeded \in Seq(Nat)
  /\ Len(lpBalances) = Len(pools) /\ Len(seeded) = Len(pools)
  /\ \A id \in PoolIds :
       /\ PoolOK(pools[id])
       /\ seeded[id] > 0
       /\ pools[id].total_lp_tokens = seeded[id] + SumFunctionOnSet(lpBalances[id], Users)

\* Replacing a pool by a sound one that dilutes nobody, with the holdings that
\* account for its total, keeps the invariant.
LEMMA ChangeAt ==
  ASSUME PoolInv, NEW id \in PoolIds, NEW q, PoolOK(q), NotDiluted(pools[id], q),
         NEW h \in Holdings, q.total_lp_tokens = seeded[id] + SumFunctionOnSet(h, Users),
         pools' = [pools EXCEPT ![id] = q],
         lpBalances' = [lpBalances EXCEPT ![id] = h],
         seeded' = seeded
  PROVE  PoolInv' /\ \A n \in PoolIds : NotDiluted(pools[n], pools'[n])
<1>1. q \in PoolRecord
  BY DEF PoolOK
<1>2. /\ pools \in Seq(PoolRecord) /\ lpBalances \in Seq(Holdings) /\ id \in 1 .. Len(pools)
      /\ Len(lpBalances) = Len(pools)
  BY DEF PoolInv, PoolIds
<1>3. /\ pools' \in Seq(PoolRecord) /\ Len(pools') = Len(pools)
      /\ \A n \in 1 .. Len(pools) : pools'[n] = IF n = id THEN q ELSE pools[n]
  BY <1>1, <1>2, ExceptSeq
<1>4. /\ lpBalances' \in Seq(Holdings) /\ Len(lpBalances') = Len(lpBalances)
      /\ \A n \in 1 .. Len(pools) : lpBalances'[n] = IF n = id THEN h ELSE lpBalances[n]
  BY <1>2, ExceptSeq
<1>5. \A n \in PoolIds : NotDiluted(pools[n], pools'[n])
  BY <1>3, UnchangedNotDiluted DEF PoolInv, PoolIds
<1>6. ASSUME NEW n \in 1 .. Len(pools)
      PROVE  /\ PoolOK(pools'[n])
             /\ seeded[n] > 0
             /\ pools'[n].total_lp_tokens = seeded[n] + SumFunctionOnSet(lpBalances'[n], Users)
  <2>1. CASE n = id
    BY <2>1, <1>3, <1>4 DEF PoolInv, PoolIds
  <2>2. CASE n # id
    BY <2>2, <1>3, <1>4 DEF PoolInv, PoolIds
  <2>3. QED
    BY <2>1, <2>2
<1>7. PoolInv'
  BY <1>3, <1>4, <1>6 DEF PoolInv, PoolIds
<1>8. QED
  BY <1>5, <1>7

\* The holdings of one provider changed.
LEMMA HoldingsChange ==
  ASSUME PoolInv, NEW id \in PoolIds, NEW u \in Users, NEW n \in Nat,
         NEW h, h = [lpBalances[id] EXCEPT ![u] = n]
  PROVE  /\ h \in Holdings /\ lpBalances[id] \in Holdings
         /\ lpBalances[id][u] \in Nat
         /\ SumFunctionOnSet(h, Users) = SumFunctionOnSet(lpBalances[id], Users) - lpBalances[id][u] + n
         /\ SumFunctionOnSet(lpBalances[id], Users) \in Nat
         /\ lpBalances[id][u] <= SumFunctionOnSet(lpBalances[id], Users)
<1>1. lpBalances[id] \in [Users -> Nat]
  BY DEF PoolInv, PoolIds, Holdings
<1>2. h \in [Users -> Nat] /\ h[u] = n /\ \A v \in Users : u # v => h[v] = lpBalances[id][v]
  BY <1>1
<1>3. IsFiniteSet(Users)
  BY PoolAssumption
<1>4. SumFunctionOnSet(h, Users) = SumFunctionOnSet(lpBalances[id], Users) - lpBalances[id][u] + n
  BY <1>1, <1>2, <1>3, SumChange
<1>5. SumFunctionOnSet(lpBalances[id], Users) \in Nat
  BY <1>1, <1>3, SumType
<1>6. lpBalances[id][u] <= SumFunctionOnSet(lpBalances[id], Users)
  BY <1>1, <1>3, SumBounds
<1>7. QED
  BY <1>1, <1>2, <1>4, <1>5, <1>6 DEF Holdings

\* What a step keeps.
Kept == PoolInv' /\ \A n \in PoolIds : NotDiluted(pools[n], pools'[n])

LEMMA AddLiquidityKeeps ==
  ASSUME PoolInv, NEW id \in PoolIds, NEW a \in Amounts, NEW b \in Amounts, NEW u \in Users,
         AddLiquidity(id, a, b, u)
  PROVE  Kept
<1> DEFINE p == pools[id]
           lp == LPTokens(p, a, b)
           q == WithNumbers(p, p.reserve_a + a, p.reserve_b + b, p.total_lp_tokens + lp)
           h == [lpBalances[id] EXCEPT ![u] = lpBalances[id][u] + lp]
<1>1. PoolOK(p) /\ p \in PoolRecord /\ p.total_lp_tokens = seeded[id] + SumFunctionOnSet(lpBalances[id], Users)
      /\ seeded[id] \in Nat
  BY DEF PoolInv, PoolOK, PoolIds
<1>2. a \in Nat /\ b \in Nat /\ a > 0 /\ b > 0 /\ lp > 0
  BY PoolAssumption DEF AddLiquidity
<1>3. lp \in Nat /\ PoolOK(q) /\ q.total_lp_tokens = p.total_lp_tokens + lp /\ NotDiluted(p, q)
  BY <1>1, <1>2, DepositedOK
<1>4. lpBalances[id][u] \in Nat
  BY DEF PoolInv, PoolIds, Holdings
<1>5. lpBalances[id][u] + lp \in Nat
  BY <1>3, <1>4
<1>6. h \in Holdings /\ SumFunctionOnSet(h, Users) = SumFunctionOnSet(lpBalances[id], Users) + lp
  <2>1. /\ h \in Holdings
        /\ SumFunctionOnSet(h, Users) = SumFunctionOnSet(lpBalances[id], Users) - lpBalances[id][u] + (lpBalances[id][u] + lp)
        /\ SumFunctionOnSet(lpBalances[id], Users) \in Nat
    BY <1>5, HoldingsChange
  <2>2. QED
    BY <1>3, <1>4, <2>1
<1>7. pools' = [pools EXCEPT ![id] = q]
  <2>1. pools \in Seq(PoolRecord) /\ id \in 1 .. Len(pools)
    BY DEF PoolInv, PoolIds
  <2>2. pools' = [pools EXCEPT ![id] = [p EXCEPT !.reserve_a = @ + a, !.reserve_b = @ + b,
                                                  !.total_lp_tokens = @ + lp]]
    BY <2>1 DEF AddLiquidity
  <2>3. [p EXCEPT !.reserve_a = @ + a, !.reserve_b = @ + b, !.total_lp_tokens = @ + lp] = q
    <3>1. Renumber(p, p.reserve_a + a, p.reserve_b + b, p.total_lp_tokens + lp) = q
      BY <1>1, Renumbered
    <3>2. QED
      BY <3>1 DEF Renumber
  <2>4. QED
    BY <2>2, <2>3
<1>8. lpBalances' = [lpBalances EXCEPT ![id] = h]
  BY DEF AddLiquidity, Holding, PoolInv, PoolIds
<1>9. seeded' = seeded
  BY DEF AddLiquidity
<1> HIDE DEF q, h, lp
<1>10. q.total_lp_tokens = seeded[id] + SumFunctionOnSet(h, Users)
  <2>1. SumFunctionOnSet(lpBalances[id], Users) \in Nat
    BY <1>5, HoldingsChange
  <2>2. QED
    BY <1>1, <1>3, <1>6, <2>1
<1>11. QED
  BY <1>3, <1>6, <1>7, <1>8, <1>9, <1>10, ChangeAt DEF Kept

LEMMA RemoveLiquidityKeeps ==
  ASSUME PoolInv, NEW id \in PoolIds, NEW u \in Users, NEW lp \in 0 .. pools[id].total_lp_tokens,
         RemoveLiquidity(id, lp, u)
  PROVE  Kept
<1> DEFINE p == pools[id]
           x2 == p.reserve_a - Share(lp, p.reserve_a, p.total_lp_tokens)
           y2 == p.reserve_b - Share(lp, p.reserve_b, p.total_lp_tokens)
           t2 == p.total_lp_tokens - lp
           q == WithNumbers(p, x2, y2, t2)
           h == [lpBalances[id] EXCEPT ![u] = lpBalances[id][u] - lp]
<1>1. /\ PoolOK(p) /\ p \in PoolRecord
      /\ p.total_lp_tokens = seeded[id] + SumFunctionOnSet(lpBalances[id], Users)
      /\ p.total_lp_tokens \in Nat /\ seeded[id] \in Nat /\ seeded[id] > 0
  BY PoolNumbers DEF PoolInv, PoolOK, PoolIds
<1>2. lp \in Nat
  BY <1>1
<1>3. lpBalances[id][u] \in Nat /\ lp <= lpBalances[id][u]
  BY DEF PoolInv, PoolIds, Holdings, RemoveLiquidity, Owns
<1>4. lpBalances[id][u] - lp \in Nat
  BY <1>2, <1>3
<1>5. /\ h \in Holdings
      /\ SumFunctionOnSet(h, Users) = SumFunctionOnSet(lpBalances[id], Users) - lpBalances[id][u] + (lpBalances[id][u] - lp)
      /\ SumFunctionOnSet(lpBalances[id], Users) \in Nat
      /\ lpBalances[id][u] <= SumFunctionOnSet(lpBalances[id], Users)
  BY <1>4, HoldingsChange
<1>6. lp < p.total_lp_tokens
  BY <1>1, <1>2, <1>3, <1>5
<1>7. PoolOK(q) /\ q.total_lp_tokens = t2 /\ NotDiluted(p, q)
  BY <1>1, <1>2, <1>6, WithdrawnOK
<1>8. pools' = [pools EXCEPT ![id] = q]
  <2>1. pools \in Seq(PoolRecord) /\ id \in 1 .. Len(pools)
    BY DEF PoolInv, PoolIds
  <2>2. pools' = [pools EXCEPT ![id] = [p EXCEPT !.reserve_a = x2, !.reserve_b = y2,
                                                  !.total_lp_tokens = t2]]
    BY <2>1 DEF RemoveLiquidity
  <2>3. Renumber(p, x2, y2, t2) = q
    BY <1>1, Renumbered
  <2>4. QED
    BY <2>2, <2>3 DEF Renumber
<1>9. lpBalances' = [lpBalances EXCEPT ![id] = h]
  BY DEF RemoveLiquidity, PoolInv, PoolIds
<1>10. seeded' = seeded
  BY DEF RemoveLiquidity
<1> HIDE DEF q, h
<1>11. q.total_lp_tokens = seeded[id] + SumFunctionOnSet(h, Users)
  BY <1>1, <1>2, <1>3, <1>5, <1>7
<1>12. QED
  BY <1>5, <1>7, <1>8, <1>9, <1>10, <1>11, ChangeAt DEF Kept

LEMMA SwapKeeps ==
  ASSUME PoolInv, NEW id \in PoolIds, NEW token \in Tokens, NEW amount \in Amounts,
         NEW min_out \in Amounts, Swap(id, token, amount, min_out)
  PROVE  Kept
<1> DEFINE p == pools[id]
           q == Traded(p, token, amount, AmountOut(p, token, amount))
           h == lpBalances[id]
<1>1. PoolOK(p) /\ p.total_lp_tokens = seeded[id] + SumFunctionOnSet(h, Users)
  BY DEF PoolInv, PoolIds
<1>2. amount \in Nat /\ token \in {p.token_a, p.token_b}
  BY PoolAssumption DEF Swap, SwapAllowed
<1>3. PoolOK(q) /\ q.total_lp_tokens = p.total_lp_tokens /\ NotDiluted(p, q)
  BY <1>1, <1>2, TradedOK
<1>4. h \in Holdings
  BY DEF PoolInv, PoolIds
<1>5. pools' = [pools EXCEPT ![id] = q]
  BY DEF Swap, Swapped, PoolInv, PoolIds
<1>6. lpBalances' = [lpBalances EXCEPT ![id] = h]
  BY DEF Swap, PoolInv, PoolIds
<1>7. seeded' = seeded
  BY DEF Swap
<1> HIDE DEF q
<1>8. q.total_lp_tokens = seeded[id] + SumFunctionOnSet(h, Users)
  BY <1>1, <1>3
<1>9. QED
  BY <1>3, <1>4, <1>5, <1>6, <1>7, <1>8, ChangeAt DEF Kept

LEMMA RegisterPoolKeeps ==
  ASSUME PoolInv, NEW a \in Tokens, NEW b \in Tokens, NEW x \in SeedAmounts,
         NEW y \in SeedAmounts, NEW f \in FeeTiers, RegisterPool(a, b, x, y, f)
  PROVE  Kept
<1> DEFINE lp == Isqrt(x * y)
           none == [u \in Users |-> 0]
           q == IF a < b
                THEN [token_a |-> a, token_b |-> b, reserve_a |-> x, reserve_b |-> y,
                      total_lp_tokens |-> lp, fee_tier |-> f]
                ELSE [token_a |-> b, token_b |-> a, reserve_a |-> y, reserve_b |-> x,
                      total_lp_tokens |-> lp, fee_tier |-> f]
<1>1. x \in Nat /\ y \in Nat /\ x > 0 /\ y > 0 /\ f \in {1, 5, 30} /\ a # b /\ a \in Nat /\ b \in Nat
  BY PoolAssumption DEF RegisterPool
<1>2. lp \in Nat /\ lp > 0
  <2> DEFINE k == x * y
             r == Isqrt(k)
  <2>1. k \in Nat /\ k > 0
    BY <1>1
  <2> HIDE DEF k
  <2>2. r \in Nat /\ k < (r + 1) * (r + 1)
    BY <2>1, SqrtIsFloor
  <2> HIDE DEF r
  <2>3. r # 0
    BY <2>1, <2>2
  <2>4. QED
    BY <2>2, <2>3 DEF r, k
<1> HIDE DEF lp
<1>3. PoolOK(q)
  BY <1>1, <1>2 DEF PoolOK, PoolRecord
<1>4. none \in Holdings /\ SumFunctionOnSet(none, Users) = 0
  <2>1. IsFiniteSet(Users) /\ \A u \in Users : none[u] = 0
    BY PoolAssumption
  <2>2. SumFunctionOnSet(none, Users) = 0
    BY <2>1, SumZero
  <2>3. QED
    BY <2>2 DEF Holdings
<1>5. q.total_lp_tokens = lp
  OBVIOUS
<1>6. pools' = Append(pools, q) /\ lpBalances' = Append(lpBalances, none) /\ seeded' = Append(seeded, lp)
  BY DEF RegisterPool, lp
<1> HIDE DEF q, none
<1> DEFINE n == Len(pools)
<1>7. /\ pools \in Seq(PoolRecord) /\ lpBalances \in Seq(Holdings) /\ seeded \in Seq(Nat)
      /\ n \in Nat /\ Len(lpBalances) = n /\ Len(seeded) = n
  BY LenProperties DEF PoolInv
<1>8. /\ pools' \in Seq(PoolRecord) /\ Len(pools') = n + 1 /\ pools'[n + 1] = q
      /\ \A i \in 1 .. n : pools'[i] = pools[i]
  BY <1>3, <1>6, <1>7, AppendProperties DEF PoolOK
<1>9. /\ lpBalances' \in Seq(Holdings) /\ Len(lpBalances') = n + 1 /\ lpBalances'[n + 1] = none
      /\ \A i \in 1 .. n : lpBalances'[i] = lpBalances[i]
  BY <1>4, <1>6, <1>7, AppendProperties
<1>10. /\ seeded' \in Seq(Nat) /\ Len(seeded') = n + 1 /\ seeded'[n + 1] = lp
       /\ \A i \in 1 .. n : seeded'[i] = seeded[i]
  BY <1>2, <1>6, <1>7, AppendProperties
<1>11. ASSUME NEW i \in 1 .. n + 1
       PROVE  /\ PoolOK(pools'[i])
              /\ seeded'[i] > 0
              /\ pools'[i].total_lp_tokens = seeded'[i] + SumFunctionOnSet(lpBalances'[i], Users)
  <2>1. CASE i = n + 1
    BY <2>1, <1>2, <1>3, <1>4, <1>5, <1>8, <1>9, <1>10
  <2>2. CASE i \in 1 .. n
    BY <2>2, <1>8, <1>9, <1>10 DEF PoolInv, PoolIds
  <2>3. QED
    BY <2>1, <2>2, <1>7
<1>12. PoolInv'
  BY <1>8, <1>9, <1>10, <1>11 DEF PoolInv, PoolIds
<1>13. \A i \in PoolIds : NotDiluted(pools[i], pools'[i])
  BY <1>8, UnchangedNotDiluted DEF PoolInv, PoolIds
<1>14. QED
  BY <1>12, <1>13 DEF Kept

LEMMA PoolStepKeeps ==
  ASSUME PoolInv, [PoolNext]_poolVars
  PROVE  Kept
<1>1. CASE \E a, b \in Tokens, x, y \in SeedAmounts, f \in FeeTiers : RegisterPool(a, b, x, y, f)
  BY <1>1, RegisterPoolKeeps
<1>2. CASE \E id \in PoolIds, x, y \in Amounts, u \in Users : AddLiquidity(id, x, y, u)
  BY <1>2, AddLiquidityKeeps
<1>3. CASE \E id \in PoolIds, u \in Users : \E lp \in 0 .. pools[id].total_lp_tokens :
             RemoveLiquidity(id, lp, u)
  BY <1>3, RemoveLiquidityKeeps
<1>4. CASE \E id \in PoolIds, t \in Tokens, x, min_out \in Amounts : Swap(id, t, x, min_out)
  BY <1>4, SwapKeeps
<1>5. CASE UNCHANGED poolVars
  <2>1. pools' = pools /\ lpBalances' = lpBalances /\ seeded' = seeded
    BY <1>5 DEF poolVars
  <2>2. PoolInv'
    BY <2>1 DEF PoolInv, PoolIds
  <2>3. \A n \in PoolIds : NotDiluted(pools[n], pools'[n])
    BY <2>1, UnchangedNotDiluted DEF PoolInv
  <2>4. QED
    BY <2>2, <2>3 DEF Kept
<1>6. QED
  BY <1>1, <1>2, <1>3, <1>4, <1>5 DEF PoolNext

LEMMA PoolInvInitially == PoolInit => PoolInv
<1>1. SUFFICES ASSUME PoolInit PROVE PoolInv
  OBVIOUS
<1>2. Len(pools) = 0 /\ Len(lpBalances) = 0 /\ Len(seeded) = 0
  BY <1>1, EmptySeq DEF PoolInit
<1>3. pools \in Seq(PoolRecord) /\ lpBalances \in Seq(Holdings) /\ seeded \in Seq(Nat)
  BY <1>1, EmptySeq DEF PoolInit
<1>4. PoolIds = {}
  BY <1>2 DEF PoolIds
<1>5. QED
  BY <1>2, <1>3, <1>4 DEF PoolInv

LEMMA PoolInvSound == PoolInv => PoolSound
<1>1. SUFFICES ASSUME PoolInv PROVE PoolSound
  OBVIOUS
<1>2. pools \in Seq(PoolRecord) /\ lpBalances \in Seq(Holdings) /\ Len(lpBalances) = Len(pools)
  BY <1>1 DEF PoolInv
<1>3. lpBalances \in [PoolIds -> [Users -> Nat]]
  BY <1>2, LenProperties DEF PoolIds, Holdings
<1>4. PoolTypeOK
  BY <1>1, <1>2, <1>3 DEF PoolInv, PoolTypeOK, PoolOK
<1>5. SharesAccounted
  BY <1>1, <1>3 DEF PoolInv, SharesAccounted, SumFunction
<1>6. QED
  BY <1>4, <1>5 DEF PoolSound

\* Every reachable registry is sound, for any accounts, tokens and amounts:
\* reserves and totals stay positive, and a pool's total is what its providers
\* hold plus what it was registered with.
THEOREM PoolAlwaysSound == PoolSpec => []PoolSound
<1>1. PoolInv /\ [PoolNext]_poolVars => PoolInv'
  BY PoolStepKeeps DEF Kept
<1>2. QED
  BY <1>1, PoolInvInitially, PoolInvSound, PTL DEF PoolSpec

\* Whatever deposits, withdrawals and trades are mixed, rounding never takes
\* from those who stay.
THEOREM NobodyEverDiluted == PoolSpec => NobodyDiluted
<1>1. PoolInv /\ [PoolNext]_poolVars => PoolInv'
  BY PoolStepKeeps DEF Kept
<1> DEFINE Step == \A id \in PoolIds :
             LET p == pools[id]
                 q == pools'[id]
             IN
             /\ p.reserve_a * p.reserve_b * q.total_lp_tokens * q.total_lp_tokens
                  <= q.reserve_a * q.reserve_b * p.total_lp_tokens * p.total_lp_tokens
             /\ p.total_lp_tokens # q.total_lp_tokens =>
                  /\ p.reserve_a * q.total_lp_tokens <= q.reserve_a * p.total_lp_tokens
                  /\ p.reserve_b * q.total_lp_tokens <= q.reserve_b * p.total_lp_tokens
<1>2. PoolInv /\ [PoolNext]_poolVars => Step
  BY PoolStepKeeps DEF Kept, NotDiluted
<1> HIDE DEF Step
<1>3. PoolSpec => [][Step]_poolVars
  BY <1>1, <1>2, PoolInvInitially, PTL DEF PoolSpec
<1>4. QED
  BY <1>3 DEF NobodyDiluted, Step

-----------------------------------------------------------------------------
(* Routes *)

\* One hop of a route, as pool_swap executes it on what is in hand.
Hop(r, k, h) ==
  [reg |-> Swapped(h.reg, r.pools[k], r.tokens[k], h.amount),
   amount |-> AmountOut(h.reg[r.pools[k]], r.tokens[k], h.amount)]

InHand(amount) == [reg |-> pools, amount |-> amount]

\* The amounts in hand along a route, hop after hop.
HopsOf(r, amount, n, f) ==
  [k \in 0 .. n |-> IF k = 0 THEN InHand(amount) ELSE Hop(r, k, f[k - 1])]

\* Routes have one or two hops; the hops of such a route are what they should be.
LEMMA HopsUnfold ==
  ASSUME NEW r, NEW amount, NEW n \in {1, 2}
  PROVE  AfterHops(r, amount, n) =
           IF n = 1 THEN Hop(r, 1, InHand(amount)) ELSE Hop(r, 2, Hop(r, 1, InHand(amount)))
<1> DEFINE h0 == InHand(amount)
           h1 == Hop(r, 1, h0)
           h2 == Hop(r, 2, h1)
           f == CHOOSE f : f = HopsOf(r, amount, n, f)
           g == [k \in 0 .. n |-> IF k = 0 THEN h0 ELSE IF k = 1 THEN h1 ELSE h2]
<1>1. AfterHops(r, amount, n) = f[n]
  BY DEF AfterHops, HopsOf, Hop, InHand
<1>2. g = HopsOf(r, amount, n, g)
  <2>1. ASSUME NEW k \in 0 .. n
        PROVE  g[k] = IF k = 0 THEN h0 ELSE Hop(r, k, g[k - 1])
    <3>1. k = 0 \/ k = 1 \/ (k = 2 /\ n = 2)
      OBVIOUS
    <3>2. g[0] = h0 /\ g[1] = h1
      OBVIOUS
    <3>3. n = 2 => g[2] = h2
      OBVIOUS
    <3> HIDE DEF g, h0
    <3>4. QED
      BY <3>1, <3>2, <3>3
  <2>2. [k \in 0 .. n |-> g[k]] = [k \in 0 .. n |-> IF k = 0 THEN h0 ELSE Hop(r, k, g[k - 1])]
    BY <2>1
  <2>3. g = [k \in 0 .. n |-> g[k]]
    OBVIOUS
  <2> HIDE DEF g
  <2>4. QED
    BY <2>2, <2>3 DEF HopsOf
<1> HIDE DEF g
<1>3. f = HopsOf(r, amount, n, f)
  BY <1>2
<1> HIDE DEF f
<1>4. \A k \in 0 .. n : f[k] = IF k = 0 THEN h0 ELSE Hop(r, k, f[k - 1])
  BY <1>3 DEF HopsOf
<1>5. f[0] = h0
  BY <1>4
<1>6. f[1] = h1
  BY <1>4, <1>5
<1>7. n = 2 => f[2] = h2
  BY <1>4, <1>6
<1> HIDE DEF h0, h1, h2
<1>8. f[n] = IF n = 1 THEN h1 ELSE h2
  BY <1>6, <1>7
<1>9. QED
  BY <1>1, <1>8 DEF h0, h1, h2

\* A route of one hop.
LEMMA OneHopPays ==
  ASSUME NEW p, NEW x, NEW y, NEW amount, NEW out
  PROVE  LET r == [pools |-> << p >>, tokens |-> << x, y >>, expected_output |-> out]
         IN  AfterHops(r, amount, Len(r.pools)).amount = AmountOut(pools[p], x, amount)
<1> DEFINE r == [pools |-> << p >>, tokens |-> << x, y >>, expected_output |-> out]
<1>1. Len(r.pools) = 1 /\ r.pools[1] = p /\ r.tokens[1] = x
  OBVIOUS
<1> HIDE DEF r
<1>2. AfterHops(r, amount, 1) = Hop(r, 1, InHand(amount))
  BY HopsUnfold
<1>3. Hop(r, 1, InHand(amount)).amount = AmountOut(pools[p], x, amount)
  BY <1>1 DEF Hop, InHand
<1>4. AfterHops(r, amount, Len(r.pools)).amount = AmountOut(pools[p], x, amount)
  BY <1>1, <1>2, <1>3
<1>5. QED
  BY <1>4 DEF r

\* A route of two hops through different pools: the second is quoted before the
\* first is executed, and the first leaves its pool alone.
LEMMA TwoHopsPay ==
  ASSUME NEW p \in PoolIds, NEW q \in PoolIds, p # q, NEW x, NEW m, NEW y, NEW amount, NEW out,
         pools \in Seq(PoolRecord)
  PROVE  LET r == [pools |-> << p, q >>, tokens |-> << x, m, y >>, expected_output |-> out]
         IN  AfterHops(r, amount, Len(r.pools)).amount =
               AmountOut(pools[q], m, AmountOut(pools[p], x, amount))
<1> DEFINE r == [pools |-> << p, q >>, tokens |-> << x, m, y >>, expected_output |-> out]
           reg == Swapped(pools, p, x, amount)
           mid == AmountOut(pools[p], x, amount)
<1>1. Len(r.pools) = 2 /\ r.pools[1] = p /\ r.pools[2] = q /\ r.tokens[1] = x /\ r.tokens[2] = m
  OBVIOUS
<1> HIDE DEF r
<1>2. AfterHops(r, amount, 2) = Hop(r, 2, Hop(r, 1, InHand(amount)))
  BY HopsUnfold
<1>3. Hop(r, 1, InHand(amount)) = [reg |-> reg, amount |-> mid]
  BY <1>1 DEF Hop, InHand
<1>4. reg[q] = pools[q]
  BY DEF Swapped, PoolIds
<1> HIDE DEF reg, mid
<1>5. Hop(r, 2, [reg |-> reg, amount |-> mid]).amount = AmountOut(reg[q], m, mid)
  BY <1>1 DEF Hop
<1>6. AfterHops(r, amount, Len(r.pools)).amount = AmountOut(pools[q], m, mid)
  BY <1>1, <1>2, <1>3, <1>4, <1>5
<1>7. QED
  BY <1>6 DEF r, mid

\* The two legs of a candidate never go through the same pool, which could only
\* lead back to the token that was put in.
LEMMA LegsDiffer ==
  ASSUME PoolInv, NEW p \in PoolIds, NEW q \in PoolIds, NEW x, NEW y, x # y,
         x \in {pools[p].token_a, pools[p].token_b}, OtherToken(pools[p], x) # y,
         Trades(pools[q], OtherToken(pools[p], x), y)
  PROVE  p # q
<1>1. SUFFICES ASSUME p = q PROVE FALSE
  OBVIOUS
<1>2. {pools[p].token_a, pools[p].token_b} = {OtherToken(pools[p], x), y}
  BY <1>1 DEF Trades
<1>3. x # OtherToken(pools[p], x)
  <2>1. pools[p].token_a < pools[p].token_b /\ pools[p].token_a \in Int /\ pools[p].token_b \in Int
    <3>1. pools[p] \in PoolRecord
      BY ElementOfSeq DEF PoolInv, PoolIds
    <3>2. pools[p].token_a \in Int /\ pools[p].token_b \in Int
      <4>1. pools[p].token_a \in Tokens /\ pools[p].token_b \in Tokens
        BY <3>1 DEF PoolRecord
      <4>2. Tokens \subseteq Int
        BY PoolAssumption
      <4>3. QED
        BY <4>1, <4>2
    <3>3. pools[p].token_a < pools[p].token_b
      BY DEF PoolInv, PoolOK
    <3>4. QED
      BY <3>2, <3>3
  <2>2. pools[p].token_a # pools[p].token_b
    BY <2>1
  <2>3. QED
    BY <2>2 DEF OtherToken
<1>4. QED
  BY <1>2, <1>3

LEMMA CandidatesPay ==
  ASSUME PoolInv, NEW x, NEW y, x # y, NEW amount, NEW r \in Candidates(x, y, amount)
  PROVE  AfterHops(r, amount, Len(r.pools)).amount = r.expected_output
<1>1. ASSUME NEW p \in PoolIds,
             r = [pools |-> << p >>, tokens |-> << x, y >>,
                  expected_output |-> AmountOut(pools[p], x, amount)]
      PROVE  AfterHops(r, amount, Len(r.pools)).amount = r.expected_output
  <2>1. AfterHops(r, amount, Len(r.pools)).amount = AmountOut(pools[p], x, amount)
    BY <1>1, OneHopPays
  <2>2. r.expected_output = AmountOut(pools[p], x, amount)
    BY <1>1
  <2>3. QED
    BY <2>1, <2>2
<1>2. ASSUME NEW p \in PoolIds, NEW q \in PoolIds, NEW m, m = OtherToken(pools[p], x),
             x \in {pools[p].token_a, pools[p].token_b}, m # y, Trades(pools[q], m, y),
             r = [pools |-> << p, q >>, tokens |-> << x, m, y >>,
                  expected_output |-> HopQuote(p, q, x, amount)]
      PROVE  AfterHops(r, amount, Len(r.pools)).amount = r.expected_output
  <2>1. p # q /\ pools \in Seq(PoolRecord)
    BY <1>2, LegsDiffer DEF PoolInv
  <2>2. AfterHops(r, amount, Len(r.pools)).amount = AmountOut(pools[q], m, AmountOut(pools[p], x, amount))
    BY <1>2, <2>1, TwoHopsPay
  <2>3. r.expected_output = AmountOut(pools[q], m, AmountOut(pools[p], x, amount))
    BY <1>2 DEF HopQuote
  <2>4. QED
    BY <2>2, <2>3
<1>3. \/ \E p \in PoolIds :
           r = [pools |-> << p >>, tokens |-> << x, y >>,
                expected_output |-> AmountOut(pools[p], x, amount)]
      \/ \E h \in PoolIds \X PoolIds :
           /\ x \in {pools[h[1]].token_a, pools[h[1]].token_b}
           /\ OtherToken(pools[h[1]], x) # y
           /\ Trades(pools[h[2]], OtherToken(pools[h[1]], x), y)
           /\ r = [pools |-> h, tokens |-> << x, OtherToken(pools[h[1]], x), y >>,
                   expected_output |-> HopQuote(h[1], h[2], x, amount)]
  BY DEF Candidates
<1>4. ASSUME NEW h \in PoolIds \X PoolIds
      PROVE  h[1] \in PoolIds /\ h[2] \in PoolIds /\ h = << h[1], h[2] >>
  OBVIOUS
<1>5. QED
  BY <1>1, <1>2, <1>3, <1>4

\* A route find_best_route has just returned pays, hop after hop, exactly the
\* output it was quoted at, whatever pools share its tokens: no route goes
\* through one pool twice, so no hop moves the price of a later one.
THEOREM QuotesAlwaysHonoured == PoolSpec => []QuoteHonoured
<1>1. PoolInv /\ [PoolNext]_poolVars => PoolInv'
  BY PoolStepKeeps DEF Kept
<1>2. PoolInv => QuoteHonoured
  BY CandidatesPay DEF QuoteHonoured, BestRoutes
<1>3. QED
  BY <1>1, <1>2, PoolInvInitially, PTL DEF PoolSpec
=============================================================================
