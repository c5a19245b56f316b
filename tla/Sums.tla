-------------------------------- MODULE Sums --------------------------------
(***************************************************************************)
(* What several proofs need to know of integers, sums and folds.  The sum  *)
(* of a function over a finite set does not depend on the order its        *)
(* elements are taken in, and follows a change of the function at one      *)
(* point; the recursion a fold unfolds to has a solution.                  *)
(*                                                                         *)
(* Induction is by least counterexample: WFMin of WellFoundedInduction is  *)
(* first-order, unlike the induction theorems.                             *)
(***************************************************************************)
EXTENDS Integers, FiniteSetsExt, FiniteSetTheorems, SequenceTheorems, WellFoundedInduction,
        SeqFilter, TLAPS

-----------------------------------------------------------------------------
(* Arithmetic *)

\* What the provers need to know of integer division.
LEMMA DivFloor ==
  ASSUME NEW x \in Int, NEW y \in Nat, y > 0
  PROVE  x \div y \in Int /\ (x \div y) * y <= x /\ x < (x \div y) * y + y
OBVIOUS

LEMMA DivNat ==
  ASSUME NEW x \in Nat, NEW y \in Nat, y > 0
  PROVE  x \div y \in Nat
OBVIOUS

LEMMA MulNat == \A x, y \in Nat : x * y \in Nat
OBVIOUS

LEMMA MulMono ==
  ASSUME NEW x \in Nat, NEW y \in Nat, NEW z \in Nat, NEW w \in Nat, x <= z, y <= w
  PROVE  x * y <= z * w
OBVIOUS

LEMMA MulMinus == \A x, y, z \in Int : (x - y) * z = x * z - y * z
OBVIOUS

LEMMA MulCancel ==
  ASSUME NEW x \in Int, NEW y \in Int, NEW n \in Nat, n > 0, x * n < y * n
  PROVE  x < y
OBVIOUS

-----------------------------------------------------------------------------
(* Trades, deposits and withdrawals, in numbers *)

\* A trade: x and y are the reserves, in is added to the first and paid for
\* with out of the second, priced at the part of in that is left after the fee.
LEMMA TradeKeepsProduct ==
  ASSUME NEW x \in Nat, NEW y \in Nat, NEW in \in Nat, NEW net \in Nat,
         x > 0, y > 0, net <= in,
         NEW out, out = (y * net) \div (x + net)
  PROVE  out \in Nat /\ out < y /\ x * y <= (x + in) * (y - out)
<1>1. y * net \in Nat /\ x + net \in Nat /\ x + net > 0 /\ y * x \in Nat
  BY MulNat
<1>2. out \in Nat /\ out * (x + net) <= y * net
  BY <1>1, DivFloor, DivNat
<1>3. y * (x + net) = y * x + y * net /\ y * x > 0
  OBVIOUS
<1>4. out * (x + net) < y * (x + net)
  BY <1>1, <1>2, <1>3
<1>5. out < y
  BY <1>1, <1>2, <1>4, MulCancel
<1>6. (y - out) * (x + net) = y * (x + net) - out * (x + net)
  BY <1>1, <1>2, MulMinus
<1>7. out * (x + net) \in Int /\ (y - out) \in Nat
  BY <1>1, <1>2, <1>5
<1>8. y * x <= (y - out) * (x + net)
  BY <1>1, <1>2, <1>3, <1>6, <1>7
<1>9. (y - out) * (x + net) <= (y - out) * (x + in)
  BY <1>7, MulMono
<1>10. (y - out) * (x + net) \in Int /\ (y - out) * (x + in) \in Int
  BY <1>7
<1>11. (y - out) * (x + in) = (x + in) * (y - out) /\ y * x = x * y
  BY <1>7
<1>12. QED
  BY <1>1, <1>2, <1>5, <1>8, <1>9, <1>10, <1>11

\* A deposit: lp tokens for amount, at most in proportion.
LEMMA DepositDilutesNot ==
  ASSUME NEW x \in Nat, NEW t \in Nat, NEW amount \in Nat, NEW lp \in Nat,
         x > 0, lp <= (amount * t) \div x
  PROVE  x * (t + lp) <= (x + amount) * t
<1>1. amount * t \in Nat /\ lp * x \in Nat /\ x * t \in Nat
  BY MulNat
<1>2. (amount * t) \div x \in Nat /\ ((amount * t) \div x) * x <= amount * t
  BY <1>1, DivFloor, DivNat
<1>3. lp * x <= ((amount * t) \div x) * x
  BY <1>2, MulMono
<1>4. x * (t + lp) = x * t + lp * x /\ (x + amount) * t = x * t + amount * t
  OBVIOUS
<1>5. ((amount * t) \div x) * x \in Int
  BY <1>2
<1>6. QED
  BY <1>1, <1>2, <1>3, <1>4, <1>5

\* A withdrawal: what is paid for lp tokens leaves the rest its part, and if
\* there is a rest, something in the pool.
LEMMA WithdrawalDilutesNot ==
  ASSUME NEW x \in Nat, NEW t \in Nat, NEW lp \in Nat, t > 0, lp <= t,
         NEW paid, paid = (lp * x) \div t
  PROVE  /\ paid \in Nat /\ paid <= x /\ x * (t - lp) <= (x - paid) * t
         /\ x > 0 /\ lp < t => paid < x
<1>1. lp * x \in Nat /\ x * t \in Nat
  BY MulNat
<1>2. paid \in Nat /\ paid * t <= lp * x
  BY <1>1, DivFloor, DivNat
<1>3. x * (t - lp) = x * t - lp * x /\ (x - paid) * t = x * t - paid * t
  BY <1>2
<1>4. paid * t \in Int
  BY <1>2
<1>5. x * (t - lp) <= (x - paid) * t
  BY <1>1, <1>2, <1>3, <1>4
<1>6. ASSUME x > 0, lp < t PROVE paid < x
  <2>1. (t - lp) * x > 0 /\ (t - lp) * x = t * x - lp * x
    BY <1>6
  <2>2. lp * x < t * x
    BY <1>1, <2>1
  <2>3. paid * t < x * t
    BY <1>1, <1>2, <1>4, <2>2
  <2>4. QED
    BY <1>2, <2>3, MulCancel
<1>7. paid <= x
  <2>1. lp * x <= t * x
    BY MulMono
  <2>2. ~ (x < paid)
    <3>1. SUFFICES ASSUME x < paid PROVE FALSE
      OBVIOUS
    <3>2. (paid - x) * t > 0 /\ (paid - x) * t = paid * t - x * t
      BY <1>2, <3>1
    <3>3. QED
      BY <1>1, <1>2, <1>4, <2>1, <3>2
  <2>3. QED
    BY <1>2, <2>2
<1>8. QED
  BY <1>2, <1>5, <1>6, <1>7

-----------------------------------------------------------------------------
(* Induction *)

\* Every set of natural numbers that is not empty has a least element.
LEMMA LeastNatural ==
  ASSUME NEW T, T \subseteq Nat, T # {}
  PROVE  \E n \in T : \A k \in T : n <= k
<1> DEFINE R == OpToRel(<, Nat)
<1>1. IsWellFoundedOn(R, Nat)
  BY NatLessThanWellFounded
<1>2. \A x, y \in Nat : << x, y >> \in R <=> x < y
  BY DEF OpToRel
<1> HIDE DEF R
<1>3. PICK n \in T : \A k \in T : << k, n >> \notin R
  BY <1>1, WFMin
<1>4. ASSUME NEW k \in T PROVE n <= k
  <2>1. n \in Nat /\ k \in Nat
    OBVIOUS
  <2>2. ~ (k < n)
    BY <1>2, <1>3, <2>1
  <2>3. QED
    BY <2>1, <2>2
<1>5. QED
  BY <1>4

\* Induction on the size of the subsets of a finite set, as a set of those for
\* which the claim holds.
LEMMA SubsetInduction ==
  ASSUME NEW S, IsFiniteSet(S), NEW Good,
         \A s \in SUBSET S :
           (\A t \in SUBSET S : Cardinality(t) < Cardinality(s) => t \in Good) => s \in Good
  PROVE  \A s \in SUBSET S : s \in Good
<1> SUFFICES ASSUME NEW s0 \in SUBSET S, s0 \notin Good PROVE FALSE
  OBVIOUS
<1> DEFINE T == {Cardinality(s) : s \in {s \in SUBSET S : s \notin Good}}
<1>1. \A s \in SUBSET S : Cardinality(s) \in Nat
  BY FS_Subset, FS_CardinalityType
<1>2. T \subseteq Nat /\ T # {}
  BY <1>1
<1>3. PICK n \in T : \A k \in T : n <= k
  BY <1>2, LeastNatural
<1>4. PICK s \in SUBSET S : s \notin Good /\ Cardinality(s) = n
  BY <1>3
<1>5. ASSUME NEW t \in SUBSET S, Cardinality(t) < Cardinality(s) PROVE t \in Good
  <2>1. SUFFICES ASSUME t \notin Good PROVE FALSE
    OBVIOUS
  <2>2. Cardinality(t) \in T
    BY <2>1
  <2>3. n <= Cardinality(t)
    BY <1>3, <2>2
  <2>4. QED
    BY <1>1, <1>4, <1>5, <2>3
<1>6. QED
  BY <1>4, <1>5

LEMMA SmallerSubset ==
  ASSUME NEW S, IsFiniteSet(S), NEW s \in SUBSET S, NEW x \in s
  PROVE  s \ {x} \in SUBSET S /\ Cardinality(s \ {x}) < Cardinality(s)
<1>1. IsFiniteSet(s)
  BY FS_Subset
<1>2. Cardinality(s) \in Nat
  BY <1>1, FS_CardinalityType
<1>3. Cardinality(s \ {x}) = Cardinality(s) - 1
  BY <1>1, FS_RemoveElement
<1>4. QED
  BY <1>2, <1>3

-----------------------------------------------------------------------------
(* Sums *)

\* The element the sum takes first.
First(s) == CHOOSE x \in s : TRUE

LEMMA FirstIn ==
  ASSUME NEW s, s # {} PROVE First(s) \in s
BY DEF First

\* One round of the recursion that SumFunctionOnSet unfolds to.
Round(f, g, s) == IF s = {} THEN 0 ELSE f[First(s)] + g[s \ {First(s)}]

\* g solves the recursion over the subsets of S.
Solution(f, S, g) == g = [s \in SUBSET S |-> Round(f, g, s)]

\* The recursion has a solution: approximate it subset size by subset size.
LEMMA SolutionExists ==
  ASSUME NEW S, IsFiniteSet(S), NEW f, \A x \in S : f[x] \in Int
  PROVE  \E g \in [SUBSET S -> Int] : g = [s \in SUBSET S |-> Round(f, g, s)]
<1> DEFINE Solves(g, n) == \A s \in SUBSET S : Cardinality(s) <= n => g[s] = Round(f, g, s)
           Missing == {n \in Nat : ~ \E g \in [SUBSET S -> Int] : Solves(g, n)}
           next(g) == [s \in SUBSET S |-> Round(f, g, s)]
<1>1. \A s \in SUBSET S : IsFiniteSet(s) /\ Cardinality(s) \in Nat
  BY FS_Subset, FS_CardinalityType
<1>2. ASSUME NEW s \in SUBSET S, s # {}
      PROVE  /\ First(s) \in S
             /\ s \ {First(s)} \in SUBSET S
             /\ Cardinality(s \ {First(s)}) = Cardinality(s) - 1
  BY <1>1, <1>2, FirstIn, FS_RemoveElement
<1>3. ASSUME NEW g \in [SUBSET S -> Int] PROVE next(g) \in [SUBSET S -> Int]
  <2>1. ASSUME NEW s \in SUBSET S PROVE Round(f, g, s) \in Int
    <3>1. CASE s = {}
      BY <3>1 DEF Round
    <3>2. CASE s # {}
      <4>1. f[First(s)] \in Int /\ g[s \ {First(s)}] \in Int
        BY <1>2, <3>2
      <4>2. QED
        BY <3>2, <4>1 DEF Round
    <3>3. QED
      BY <3>1, <3>2
  <2>2. QED
    BY <2>1
<1>4. Missing = {}
  <2>1. SUFFICES ASSUME Missing # {} PROVE FALSE
    OBVIOUS
  <2>2. PICK n \in Missing : \A k \in Missing : n <= k
    BY <2>1, LeastNatural
  <2>3. n # 0
    <3>1. SUFFICES ASSUME n = 0 PROVE FALSE
      OBVIOUS
    <3> DEFINE g == [s \in SUBSET S |-> 0]
    <3>2. g \in [SUBSET S -> Int]
      OBVIOUS
    <3>3. \A s \in SUBSET S : Cardinality(s) <= 0 => s = {}
      BY <1>1, FS_EmptySet
    <3>4. Solves(g, 0)
      BY <3>3 DEF Round
    <3>5. QED
      BY <2>2, <3>1, <3>2, <3>4
  <2>4. n - 1 \in Nat /\ n - 1 \notin Missing
    <3>1. n \in Nat
      OBVIOUS
    <3>2. n - 1 \in Nat /\ ~ (n <= n - 1)
      BY <2>3, <3>1
    <3> HIDE DEF Missing
    <3>3. QED
      BY <2>2, <3>2
  <2>5. PICK g \in [SUBSET S -> Int] : Solves(g, n - 1)
    BY <2>4
  <2>6. ASSUME NEW s \in SUBSET S, Cardinality(s) <= n
        PROVE  next(g)[s] = Round(f, next(g), s)
    <3>1. CASE s = {}
      BY <3>1 DEF Round
    <3>2. CASE s # {}
      <4> DEFINE r == s \ {First(s)}
      <4>1. r \in SUBSET S /\ Cardinality(r) <= n - 1
        BY <1>1, <1>2, <2>2, <2>6, <3>2
      <4>2. g[r] = next(g)[r]
        BY <2>5, <4>1
      <4>3. QED
        BY <3>2, <4>1, <4>2 DEF Round
    <3>3. QED
      BY <3>1, <3>2
  <2>7. next(g) \in [SUBSET S -> Int] /\ Solves(next(g), n)
    BY <1>3, <2>6
  <2>8. QED
    BY <2>2, <2>7
<1>5. Cardinality(S) \in Nat
  BY FS_CardinalityType
<1>6. PICK g \in [SUBSET S -> Int] : Solves(g, Cardinality(S))
  BY <1>4, <1>5
<1>7. \A s \in SUBSET S : Cardinality(s) <= Cardinality(S)
  BY FS_Subset
<1>8. g = [s \in SUBSET S |-> Round(f, g, s)]
  BY <1>6, <1>7
<1>9. QED
  BY <1>8

\* So SumFunctionOnSet is the value, at the whole set, of some such solution.
LEMMA SumUnfolds ==
  ASSUME NEW S, IsFiniteSet(S), NEW f, \A x \in S : f[x] \in Int
  PROVE  \E g : Solution(f, S, g) /\ SumFunctionOnSet(f, S) = g[S]
<1> DEFINE g == CHOOSE g : g = [s \in SUBSET S |-> Round(f, g, s)]
<1>1. g = [s \in SUBSET S |-> Round(f, g, s)]
  BY SolutionExists
<1>2. SumFunctionOnSet(f, S) = g[S]
  BY DEF SumFunctionOnSet, FoldFunctionOnSet, MapThenFoldSet, Round, First
<1>3. Solution(f, S, g)
  BY <1>1 DEF Solution
<1> HIDE DEF g
<1>4. QED
  BY <1>2, <1>3

\* Solutions agree, and so the value of one at a subset is the sum over it.
LEMMA SolutionIsSum ==
  ASSUME NEW S, IsFiniteSet(S), NEW f, \A x \in S : f[x] \in Int,
         NEW g, Solution(f, S, g), NEW t \in SUBSET S
  PROVE  g[t] = SumFunctionOnSet(f, t)
<1>1. IsFiniteSet(t) /\ \A x \in t : f[x] \in Int
  BY FS_Subset
<1>2. PICK h : Solution(f, t, h) /\ SumFunctionOnSet(f, t) = h[t]
  BY <1>1, SumUnfolds
<1> DEFINE Good == {s \in SUBSET t : g[s] = h[s]}
<1>3. ASSUME NEW s \in SUBSET t,
             \A r \in SUBSET t : Cardinality(r) < Cardinality(s) => r \in Good
      PROVE  s \in Good
  <2>1. g[s] = Round(f, g, s) /\ h[s] = Round(f, h, s)
    BY <1>2 DEF Solution
  <2>2. CASE s = {}
    BY <2>1, <2>2 DEF Round
  <2>3. CASE s # {}
    <3> DEFINE r == s \ {First(s)}
    <3>1. First(s) \in s
      BY <2>3, FirstIn
    <3>2. r \in SUBSET t /\ Cardinality(r) < Cardinality(s)
      BY <1>1, <3>1, SmallerSubset
    <3>3. g[r] = h[r]
      BY <1>3, <3>2
    <3>4. QED
      BY <2>1, <2>3, <3>3 DEF Round
  <2>4. QED
    BY <2>2, <2>3
<1>4. \A s \in SUBSET t : s \in Good
  <2> HIDE DEF Good
  <2>1. QED
    BY <1>1, <1>3, SubsetInduction
<1>5. QED
  BY <1>2, <1>4

LEMMA SumEmpty == ASSUME NEW f PROVE SumFunctionOnSet(f, {}) = 0
<1>1. IsFiniteSet({})
  BY FS_EmptySet
<1>2. PICK g : Solution(f, {}, g) /\ SumFunctionOnSet(f, {}) = g[{}]
  BY <1>1, SumUnfolds
<1>3. QED
  BY <1>2 DEF Round, Solution

LEMMA SumFirst ==
  ASSUME NEW S, IsFiniteSet(S), NEW f, \A x \in S : f[x] \in Int, S # {}
  PROVE  SumFunctionOnSet(f, S) = f[First(S)] + SumFunctionOnSet(f, S \ {First(S)})
<1>1. PICK g : Solution(f, S, g) /\ SumFunctionOnSet(f, S) = g[S]
  BY SumUnfolds
<1> DEFINE T == S \ {First(S)}
<1>2. g[T] = SumFunctionOnSet(f, T)
  <2>1. T \in SUBSET S
    OBVIOUS
  <2> HIDE DEF T
  <2>2. QED
    BY <1>1, <2>1, SolutionIsSum
<1>3. g[S] = Round(f, g, S)
  BY <1>1 DEF Solution
<1>4. QED
  BY <1>1, <1>2, <1>3 DEF Round

\* A sum of integers is an integer, of naturals a natural.
LEMMA SumType ==
  ASSUME NEW S, IsFiniteSet(S), NEW f
  PROVE  /\ (\A x \in S : f[x] \in Int) => SumFunctionOnSet(f, S) \in Int
         /\ (\A x \in S : f[x] \in Nat) => SumFunctionOnSet(f, S) \in Nat
<1> DEFINE Typed(s, N) == (\A x \in s : f[x] \in N) => SumFunctionOnSet(f, s) \in N
           Good == {s \in SUBSET S : Typed(s, Int) /\ Typed(s, Nat)}
<1>1. ASSUME NEW s \in SUBSET S,
             \A r \in SUBSET S : Cardinality(r) < Cardinality(s) => r \in Good
      PROVE  s \in Good
  <2>1. CASE s = {}
    BY <2>1, SumEmpty
  <2>2. CASE s # {}
    <3> DEFINE r == s \ {First(s)}
    <3>1. IsFiniteSet(s) /\ First(s) \in s
      BY <2>2, FS_Subset, FirstIn
    <3>2. r \in SUBSET S /\ Cardinality(r) < Cardinality(s)
      BY <3>1, SmallerSubset
    <3>3. Typed(r, Int) /\ Typed(r, Nat)
      BY <1>1, <3>2
    <3>4. (\A x \in s : f[x] \in Int) => SumFunctionOnSet(f, s) = f[First(s)] + SumFunctionOnSet(f, r)
      BY <2>2, <3>1, SumFirst
    <3>5. Typed(s, Int)
      BY <3>1, <3>3, <3>4
    <3>6. Typed(s, Nat)
      BY <3>1, <3>3, <3>4
    <3>7. QED
      BY <3>5, <3>6
  <2>3. QED
    BY <2>1, <2>2
<1>2. \A s \in SUBSET S : s \in Good
  <2> HIDE DEF Good
  <2>1. QED
    BY <1>1, SubsetInduction
<1>3. QED
  BY <1>2

\* Any element may be taken out first.
LEMMA SumRemove ==
  ASSUME NEW S, IsFiniteSet(S), NEW f, \A x \in S : f[x] \in Int, NEW y \in S
  PROVE  SumFunctionOnSet(f, S) = f[y] + SumFunctionOnSet(f, S \ {y})
<1> DEFINE Good == {s \in SUBSET S : \A x \in s : SumFunctionOnSet(f, s) = f[x] + SumFunctionOnSet(f, s \ {x})}
<1>1. ASSUME NEW s \in SUBSET S,
             \A r \in SUBSET S : Cardinality(r) < Cardinality(s) => r \in Good,
             NEW x \in s
      PROVE  SumFunctionOnSet(f, s) = f[x] + SumFunctionOnSet(f, s \ {x})
  <2> DEFINE c == First(s)
             r == s \ {c}
             q == s \ {x}
  <2>1. IsFiniteSet(s) /\ c \in s
    BY FS_Subset, FirstIn
  <2>2. /\ r \in SUBSET S /\ Cardinality(r) < Cardinality(s)
        /\ q \in SUBSET S /\ Cardinality(q) < Cardinality(s)
    BY <2>1, SmallerSubset
  <2>3. SumFunctionOnSet(f, s) = f[c] + SumFunctionOnSet(f, r)
    BY <2>1, SumFirst
  <2>4. CASE x = c
    BY <2>3, <2>4
  <2>5. CASE x # c
    <3>1. SumFunctionOnSet(f, r) = f[x] + SumFunctionOnSet(f, r \ {x})
      BY <1>1, <2>2, <2>5
    <3>2. SumFunctionOnSet(f, q) = f[c] + SumFunctionOnSet(f, q \ {c})
      BY <1>1, <2>1, <2>2, <2>5
    <3>3. r \ {x} = q \ {c}
      OBVIOUS
    <3>4. f[x] \in Int /\ f[c] \in Int
      BY <2>1
    <3>5. IsFiniteSet(q \ {c}) /\ \A z \in q \ {c} : f[z] \in Int
      BY <2>1, FS_Subset
    <3> DEFINE rest == SumFunctionOnSet(f, q \ {c})
    <3>6. rest \in Int
      BY <3>5, SumType
    <3>7. SumFunctionOnSet(f, s) = f[c] + (f[x] + rest) /\ SumFunctionOnSet(f, s \ {x}) = f[c] + rest
      BY <2>3, <3>1, <3>2, <3>3
    <3> HIDE DEF c, rest
    <3>8. QED
      BY <3>4, <3>6, <3>7
  <2>6. QED
    BY <2>4, <2>5
<1>2. \A s \in SUBSET S : s \in Good
  <2>1. \A s \in SUBSET S :
          (\A r \in SUBSET S : Cardinality(r) < Cardinality(s) => r \in Good) => s \in Good
    BY <1>1
  <2> HIDE DEF Good
  <2>2. QED
    BY <2>1, SubsetInduction
<1>3. S \in Good
  BY <1>2
<1>4. QED
  BY <1>3

\* Functions that agree on the set have the same sum.
LEMMA SumAgree ==
  ASSUME NEW S, IsFiniteSet(S), NEW f, \A x \in S : f[x] \in Int,
         NEW g, \A x \in S : g[x] = f[x]
  PROVE  SumFunctionOnSet(g, S) = SumFunctionOnSet(f, S)
<1> DEFINE Good == {s \in SUBSET S : SumFunctionOnSet(g, s) = SumFunctionOnSet(f, s)}
<1>1. ASSUME NEW s \in SUBSET S,
             \A r \in SUBSET S : Cardinality(r) < Cardinality(s) => r \in Good
      PROVE  s \in Good
  <2>1. CASE s = {}
    BY <2>1, SumEmpty
  <2>2. CASE s # {}
    <3> DEFINE r == s \ {First(s)}
    <3>1. IsFiniteSet(s) /\ First(s) \in s
      BY <2>2, FS_Subset, FirstIn
    <3>2. r \in SUBSET S /\ Cardinality(r) < Cardinality(s)
      BY <3>1, SmallerSubset
    <3>3. SumFunctionOnSet(g, r) = SumFunctionOnSet(f, r)
      BY <1>1, <3>2
    <3>4. SumFunctionOnSet(f, s) = f[First(s)] + SumFunctionOnSet(f, r)
      BY <2>2, <3>1, SumFirst
    <3>5. SumFunctionOnSet(g, s) = g[First(s)] + SumFunctionOnSet(g, r)
      BY <2>2, <3>1, SumFirst
    <3>6. QED
      BY <3>1, <3>3, <3>4, <3>5
  <2>3. QED
    BY <2>1, <2>2
<1>2. \A s \in SUBSET S : s \in Good
  <2> HIDE DEF Good
  <2>1. QED
    BY <1>1, SubsetInduction
<1>3. QED
  BY <1>2

\* A change at one point changes the sum by as much.
LEMMA SumChange ==
  ASSUME NEW S, IsFiniteSet(S), NEW f, \A x \in S : f[x] \in Int, NEW y \in S,
         NEW g, g[y] \in Int, \A x \in S : x # y => g[x] = f[x]
  PROVE  SumFunctionOnSet(g, S) = SumFunctionOnSet(f, S) - f[y] + g[y]
<1> DEFINE r == S \ {y}
<1>1. IsFiniteSet(r) /\ \A x \in r : f[x] \in Int /\ g[x] = f[x]
  BY FS_Subset
<1>2. SumFunctionOnSet(g, r) = SumFunctionOnSet(f, r) /\ SumFunctionOnSet(f, r) \in Int
  BY <1>1, SumAgree, SumType
<1>3. \A x \in S : g[x] \in Int
  OBVIOUS
<1>4. SumFunctionOnSet(f, S) = f[y] + SumFunctionOnSet(f, r) /\ SumFunctionOnSet(g, S) = g[y] + SumFunctionOnSet(g, r)
  BY <1>3, SumRemove
<1> HIDE DEF r
<1>5. QED
  BY <1>2, <1>4

\* No term of a sum of naturals exceeds it.
LEMMA SumBounds ==
  ASSUME NEW S, IsFiniteSet(S), NEW f, \A x \in S : f[x] \in Nat, NEW y \in S
  PROVE  f[y] <= SumFunctionOnSet(f, S)
<1>1. IsFiniteSet(S \ {y}) /\ \A x \in S \ {y} : f[x] \in Nat
  BY FS_Subset
<1>2. SumFunctionOnSet(f, S \ {y}) \in Nat
  BY <1>1, SumType
<1>3. SumFunctionOnSet(f, S) = f[y] + SumFunctionOnSet(f, S \ {y})
  BY SumRemove
<1>4. QED
  BY <1>2, <1>3

LEMMA SumZero ==
  ASSUME NEW S, IsFiniteSet(S), NEW f, \A x \in S : f[x] = 0
  PROVE  SumFunctionOnSet(f, S) = 0
<1> DEFINE Good == {s \in SUBSET S : SumFunctionOnSet(f, s) = 0}
<1>1. ASSUME NEW s \in SUBSET S,
             \A r \in SUBSET S : Cardinality(r) < Cardinality(s) => r \in Good
      PROVE  s \in Good
  <2>1. CASE s = {}
    BY <2>1, SumEmpty
  <2>2. CASE s # {}
    <3>1. IsFiniteSet(s) /\ First(s) \in s
      BY <2>2, FS_Subset, FirstIn
    <3>2. s \ {First(s)} \in Good
      BY <1>1, <3>1, SmallerSubset
    <3>3. \A x \in s : f[x] \in Int
      OBVIOUS
    <3> HIDE DEF Good
    <3>4. SumFunctionOnSet(f, s) = f[First(s)] + SumFunctionOnSet(f, s \ {First(s)})
      BY <2>2, <3>1, <3>3, SumFirst
    <3>5. QED
      BY <3>1, <3>2, <3>4 DEF Good
  <2>3. QED
    BY <2>1, <2>2
<1>2. \A s \in SUBSET S : s \in Good
  <2> HIDE DEF Good
  <2>1. QED
    BY <1>1, SubsetInduction
<1>3. QED
  BY <1>2

\* A function that is zero but at one place.
LEMMA SumAtOne ==
  ASSUME NEW S, IsFiniteSet(S), NEW r, NEW x \in Int, NEW f,
         \A y \in S : f[y] = IF y = r THEN x ELSE 0
  PROVE  SumFunctionOnSet(f, S) = IF r \in S THEN x ELSE 0
<1> DEFINE z == [y \in S |-> 0]
<1>1. \A y \in S : z[y] = 0
  OBVIOUS
<1> HIDE DEF z
<1>2. SumFunctionOnSet(z, S) = 0
  BY <1>1, SumZero
<1>3. CASE r \in S
  <2>1. SumFunctionOnSet(f, S) = SumFunctionOnSet(z, S) - z[r] + f[r]
    <3>1. f[r] \in Int /\ (\A y \in S : z[y] \in Int) /\ (\A y \in S : y # r => f[y] = z[y])
      BY <1>1, <1>3
    <3>2. QED
      BY <1>3, <3>1, SumChange
  <2>2. QED
    BY <1>1, <1>2, <1>3, <2>1
<1>4. CASE r \notin S
  <2>1. \A y \in S : f[y] = 0
    BY <1>4
  <2>2. QED
    BY <1>4, <2>1, SumZero
<1>5. QED
  BY <1>3, <1>4

\* A sum of terms between lo and hi.
LEMMA SumWithin ==
  ASSUME NEW S, IsFiniteSet(S), NEW f, NEW lo \in Nat, NEW hi \in Nat,
         \A x \in S : f[x] \in Nat /\ lo <= f[x] /\ f[x] <= hi
  PROVE  Cardinality(S) * lo <= SumFunctionOnSet(f, S) /\ SumFunctionOnSet(f, S) <= Cardinality(S) * hi
<1> DEFINE Good == {s \in SUBSET S : /\ Cardinality(s) * lo <= SumFunctionOnSet(f, s)
                                     /\ SumFunctionOnSet(f, s) <= Cardinality(s) * hi}
<1>1. ASSUME NEW s \in SUBSET S,
             \A r \in SUBSET S : Cardinality(r) < Cardinality(s) => r \in Good
      PROVE  s \in Good
  <2>1. CASE s = {}
    BY <2>1, SumEmpty, FS_EmptySet
  <2>2. CASE s # {}
    <3> DEFINE r == s \ {First(s)}
               c == Cardinality(r)
               a == SumFunctionOnSet(f, r)
               b == f[First(s)]
    <3>1. IsFiniteSet(s) /\ First(s) \in s
      BY <2>2, FS_Subset, FirstIn
    <3>2. r \in SUBSET S /\ Cardinality(r) < Cardinality(s)
      BY <3>1, SmallerSubset
    <3>3. c * lo <= a /\ a <= c * hi
      BY <1>1, <3>2
    <3>4. SumFunctionOnSet(f, s) = b + a
      BY <2>2, <3>1, SumFirst
    <3>5. Cardinality(s) = c + 1 /\ c \in Nat
      <4>1. Cardinality(r) = Cardinality(s) - 1 /\ Cardinality(s) \in Nat
        BY <3>1, FS_RemoveElement, FS_CardinalityType
      <4>2. IsFiniteSet(r)
        BY <3>2, FS_Subset
      <4>3. QED
        BY <4>1, <4>2, FS_CardinalityType
    <3>6. a \in Nat /\ b \in Nat /\ lo <= b /\ b <= hi
      BY <3>1, <3>2, FS_Subset, SumType
    <3> HIDE DEF r, c, a, b
    <3>7. /\ (c + 1) * lo = c * lo + lo /\ (c + 1) * hi = c * hi + hi
          /\ c * lo \in Nat /\ c * hi \in Nat
      BY <3>5, MulNat
    <3>8. (c + 1) * lo <= b + a /\ b + a <= (c + 1) * hi
      BY <3>3, <3>6, <3>7
    <3>9. QED
      BY <3>4, <3>5, <3>8
  <2>3. QED
    BY <2>1, <2>2
<1>2. \A s \in SUBSET S : s \in Good
  <2> HIDE DEF Good
  <2>1. QED
    BY <1>1, SubsetInduction
<1>3. QED
  BY <1>2

\* The average of n terms between lo and hi, rounded down, is between them.
LEMMA AverageWithin ==
  ASSUME NEW n \in Nat, n > 0, NEW f, NEW lo \in Nat, NEW hi \in Nat,
         \A i \in 1 .. n : f[i] \in Nat /\ lo <= f[i] /\ f[i] <= hi
  PROVE  LET mean == SumFunctionOnSet(f, 1 .. n) \div n IN
         mean \in Nat /\ lo <= mean /\ mean <= hi
<1> DEFINE D == 1 .. n
           a == SumFunctionOnSet(f, D)
           mean == a \div n
<1>1. IsFiniteSet(D) /\ Cardinality(D) = n
  BY FS_Interval
<1>2. \A x \in D : f[x] \in Nat /\ lo <= f[x] /\ f[x] <= hi
  OBVIOUS
<1> HIDE DEF D
<1>3. n * lo <= a /\ a <= n * hi /\ a \in Nat
  BY <1>1, <1>2, SumWithin, SumType
<1> HIDE DEF a
<1>4. mean \in Nat /\ mean * n <= a /\ a < mean * n + n
  BY <1>3, DivFloor, DivNat
<1> HIDE DEF mean
<1>5. /\ lo * n = n * lo /\ hi * n = n * hi /\ (mean + 1) * n = mean * n + n
      /\ (hi + 1) * n = hi * n + n
      /\ lo * n \in Nat /\ mean * n \in Nat /\ hi * n \in Nat
  BY <1>4, MulNat
<1>6. lo * n < (mean + 1) * n /\ mean * n < (hi + 1) * n
  BY <1>3, <1>4, <1>5
<1>7. lo < mean + 1 /\ mean < hi + 1
  BY <1>4, <1>6, MulCancel
<1>8. lo <= mean /\ mean <= hi
  BY <1>4, <1>7
<1>9. QED
  BY <1>4, <1>8 DEF mean, a, D

\* Sums add up pointwise.
LEMMA SumPlus ==
  ASSUME NEW S, IsFiniteSet(S), NEW f, \A x \in S : f[x] \in Int,
         NEW g, \A x \in S : g[x] \in Int, NEW h, \A x \in S : h[x] = f[x] + g[x]
  PROVE  SumFunctionOnSet(h, S) = SumFunctionOnSet(f, S) + SumFunctionOnSet(g, S)
<1> DEFINE Good == {s \in SUBSET S :
             SumFunctionOnSet(h, s) = SumFunctionOnSet(f, s) + SumFunctionOnSet(g, s)}
<1>1. ASSUME NEW s \in SUBSET S,
             \A r \in SUBSET S : Cardinality(r) < Cardinality(s) => r \in Good
      PROVE  s \in Good
  <2>1. IsFiniteSet(s)
    BY FS_Subset
  <2>2. CASE s = {}
    BY <2>2, SumEmpty
  <2>3. CASE s # {}
    <3> DEFINE x == First(s)
               r == s \ {x}
    <3>1. x \in s /\ x \in S
      BY <2>3, FirstIn
    <3>2. r \in SUBSET S /\ Cardinality(r) < Cardinality(s)
      BY <3>1, SmallerSubset
    <3>3. SumFunctionOnSet(h, r) = SumFunctionOnSet(f, r) + SumFunctionOnSet(g, r)
      BY <1>1, <3>2
    <3>4. /\ \A y \in s : f[y] \in Int /\ g[y] \in Int /\ h[y] \in Int
          /\ \A y \in r : f[y] \in Int /\ g[y] \in Int
          /\ IsFiniteSet(r)
      BY <2>1, FS_Subset
    <3>5. /\ SumFunctionOnSet(f, s) = f[x] + SumFunctionOnSet(f, r)
          /\ SumFunctionOnSet(g, s) = g[x] + SumFunctionOnSet(g, r)
          /\ SumFunctionOnSet(h, s) = h[x] + SumFunctionOnSet(h, r)
      BY <2>1, <2>3, <3>4, SumFirst
    <3>6. SumFunctionOnSet(f, r) \in Int /\ SumFunctionOnSet(g, r) \in Int
      BY <3>4, SumType
    <3> HIDE DEF x, r
    <3>7. f[x] \in Int /\ g[x] \in Int /\ h[x] = f[x] + g[x]
      BY <3>1
    <3>8. QED
      BY <3>3, <3>5, <3>6, <3>7
  <2>4. QED
    BY <2>2, <2>3
<1>2. \A s \in SUBSET S : s \in Good
  <2> HIDE DEF Good
  <2>1. QED
    BY <1>1, SubsetInduction
<1>3. QED
  BY <1>2

\* The sum over a sequence that grew by one element.
LEMMA SumAppend ==
  ASSUME NEW n \in Nat, NEW f, \A i \in 1 .. n : f[i] \in Int,
         NEW g, \A i \in 1 .. n : g[i] = f[i], g[n + 1] \in Int
  PROVE  SumFunctionOnSet(g, 1 .. n + 1) = SumFunctionOnSet(f, 1 .. n) + g[n + 1]
<1>1. IsFiniteSet(1 .. n) /\ IsFiniteSet(1 .. n + 1)
  BY FS_Interval
<1>2. \A i \in 1 .. n + 1 : g[i] \in Int
  <2>1. \A i \in 1 .. n + 1 : i \in 1 .. n \/ i = n + 1
    OBVIOUS
  <2>2. QED
    BY <2>1
<1>3. (1 .. n + 1) \ {n + 1} = 1 .. n /\ n + 1 \in 1 .. n + 1
  OBVIOUS
<1>4. SumFunctionOnSet(g, 1 .. n + 1) = g[n + 1] + SumFunctionOnSet(g, 1 .. n)
  BY <1>1, <1>2, <1>3, SumRemove
<1>5. SumFunctionOnSet(g, 1 .. n) = SumFunctionOnSet(f, 1 .. n)
  BY <1>1, SumAgree
<1>6. SumFunctionOnSet(f, 1 .. n) \in Int
  BY <1>1, SumType
<1>7. QED
  BY <1>4, <1>5, <1>6

\* The sum over a sequence of which one element changed.
LEMMA SumChangeAt ==
  ASSUME NEW n \in Nat, NEW f, \A i \in 1 .. n : f[i] \in Int, NEW k \in 1 .. n,
         NEW g, g[k] \in Int, \A i \in 1 .. n : i # k => g[i] = f[i]
  PROVE  SumFunctionOnSet(g, 1 .. n) = SumFunctionOnSet(f, 1 .. n) - f[k] + g[k]
<1> DEFINE D == 1 .. n
           y == k
<1>1. IsFiniteSet(D)
  BY FS_Interval
<1>2. /\ y \in D /\ g[y] \in Int
      /\ \A i \in D : f[i] \in Int
      /\ \A i \in D : i # y => g[i] = f[i]
  OBVIOUS
<1> HIDE DEF D, y
<1>3. SumFunctionOnSet(g, D) = SumFunctionOnSet(f, D) - f[y] + g[y]
  BY <1>1, <1>2, SumChange
<1>4. QED
  BY <1>3 DEF D, y

-----------------------------------------------------------------------------
(* Folds *)

\* The greatest element of a set of positions.
LEMMA MaxIn ==
  ASSUME NEW n \in Nat, NEW s \in SUBSET (1 .. n), s # {}
  PROVE  Max(s) \in s /\ \A y \in s : y <= Max(s)
<1> DEFINE T == {n - y : y \in s}
<1>0. \A y \in s : n - y \in Nat /\ y \in Int
  OBVIOUS
<1>1. T \subseteq Nat /\ T # {}
  BY <1>0
<1>2. PICK k \in T : \A j \in T : k <= j
  BY <1>1, LeastNatural
<1>3. PICK x \in s : k = n - x
  OBVIOUS
<1>4. ASSUME NEW y \in s PROVE x >= y
  <2>1. n - y \in T
    OBVIOUS
  <2> HIDE DEF T
  <2>2. k <= n - y
    BY <1>2, <2>1
  <2>3. QED
    BY <1>0, <1>3, <2>2
<1>5. Max(s) \in s /\ \A y \in s : Max(s) >= y
  BY <1>4 DEF Max
<1>6. QED
  BY <1>5

\* So has every finite set of naturals.
LEMMA FiniteBound ==
  ASSUME NEW S, IsFiniteSet(S), S \subseteq Nat
  PROVE  \E m \in Nat : \A x \in S : x <= m
<1> DEFINE Good == {s \in SUBSET S : \E m \in Nat : \A x \in s : x <= m}
<1>1. ASSUME NEW s \in SUBSET S,
             \A r \in SUBSET S : Cardinality(r) < Cardinality(s) => r \in Good
      PROVE  s \in Good
  <2>1. CASE s = {}
    BY <2>1
  <2>2. CASE s # {}
    <3>1. First(s) \in s
      BY <2>2, FirstIn
    <3>2. s \ {First(s)} \in Good
      BY <1>1, <3>1, SmallerSubset
    <3>3. PICK m \in Nat : \A x \in s \ {First(s)} : x <= m
      BY <3>2
    <3>4. CASE First(s) <= m
      BY <3>1, <3>3, <3>4
    <3>5. CASE m <= First(s)
      <4>1. First(s) \in Nat /\ \A x \in s : x \in Nat
        BY <3>1
      <4>2. \A x \in s : x <= First(s)
        BY <3>3, <3>5, <4>1
      <4>3. QED
        BY <4>1, <4>2
    <3>6. First(s) \in Nat
      BY <3>1
    <3>7. First(s) <= m \/ m <= First(s)
      BY <3>6
    <3>8. QED
      BY <3>4, <3>5, <3>7
  <2>3. QED
    BY <2>1, <2>2
<1>2. \A s \in SUBSET S : s \in Good
  <2> HIDE DEF Good
  <2>1. QED
    BY <1>1, SubsetInduction
<1>3. QED
  BY <1>2

LEMMA FiniteMax ==
  ASSUME NEW S, IsFiniteSet(S), S \subseteq Nat, S # {}
  PROVE  Max(S) \in S /\ \A y \in S : y <= Max(S)
<1>1. PICK m \in Nat : \A x \in S : x <= m
  BY FiniteBound
<1> DEFINE T == {m - y : y \in S}
<1>2. \A y \in S : m - y \in Nat /\ y \in Nat
  BY <1>1
<1>3. T \subseteq Nat /\ T # {}
  BY <1>2
<1>4. PICK k \in T : \A j \in T : k <= j
  BY <1>3, LeastNatural
<1>5. PICK x \in S : k = m - x
  OBVIOUS
<1>6. ASSUME NEW y \in S PROVE x >= y
  <2>1. m - y \in T
    OBVIOUS
  <2> HIDE DEF T
  <2>2. k <= m - y
    BY <1>4, <2>1
  <2>3. QED
    BY <1>2, <1>5, <2>2
<1>7. Max(S) \in S /\ \A y \in S : Max(S) >= y
  BY <1>6 DEF Max
<1>8. QED
  BY <1>2, <1>7

LEMMA MaxOfPrefix ==
  ASSUME NEW n \in Nat, n > 0
  PROVE  Max(1 .. n) = n /\ (1 .. n) \ {n} = 1 .. n - 1
<1>1. n \in 1 .. n /\ 1 .. n \in SUBSET (1 .. n)
  OBVIOUS
<1>2. Max(1 .. n) \in 1 .. n /\ n <= Max(1 .. n)
  BY <1>1, MaxIn
<1>3. QED
  BY <1>2

\* FoldLeft unfolds to a recursion over sets of positions, which takes the last
\* one first.  With a step that maps states T and elements E to states, given as
\* a function, it has a solution: approximate it size by size.
FoldRound(F, base, seq, g, s) ==
  IF s = {} THEN base ELSE F[<< g[s \ {Max(s)}], seq[Max(s)] >>]

Folds(F, base, seq, n, T, g) ==
  /\ g \in [SUBSET (1 .. n) -> T]
  /\ \A s \in SUBSET (1 .. n) : g[s] = FoldRound(F, base, seq, g, s)

LEMMA FoldSolution ==
  ASSUME NEW n \in Nat, NEW T, NEW E, NEW F \in [T \X E -> T], NEW base \in T,
         NEW seq, \A i \in 1 .. n : seq[i] \in E
  PROVE  \E g : Folds(F, base, seq, n, T, g)
<1> DEFINE D == 1 .. n
           Solves(g, m) == \A s \in SUBSET D : Cardinality(s) <= m => g[s] = FoldRound(F, base, seq, g, s)
           Missing == {m \in Nat : ~ \E g \in [SUBSET D -> T] : Solves(g, m)}
           next(g) == [s \in SUBSET D |-> FoldRound(F, base, seq, g, s)]
<1>0. IsFiniteSet(D)
  BY FS_Interval
<1>1. \A s \in SUBSET D : IsFiniteSet(s) /\ Cardinality(s) \in Nat
  BY <1>0, FS_Subset, FS_CardinalityType
<1>2. ASSUME NEW s \in SUBSET D, s # {}
      PROVE  /\ Max(s) \in D
             /\ s \ {Max(s)} \in SUBSET D
             /\ Cardinality(s \ {Max(s)}) = Cardinality(s) - 1
  <2>1. Max(s) \in s
    BY <1>2, MaxIn
  <2>2. QED
    BY <1>1, <2>1, FS_RemoveElement
<1>3. ASSUME NEW g \in [SUBSET D -> T] PROVE next(g) \in [SUBSET D -> T]
  <2>1. ASSUME NEW s \in SUBSET D PROVE FoldRound(F, base, seq, g, s) \in T
    <3>1. CASE s = {}
      BY <3>1 DEF FoldRound
    <3>2. CASE s # {}
      <4>1. seq[Max(s)] \in E /\ g[s \ {Max(s)}] \in T
        BY <1>2, <3>2
      <4>2. QED
        BY <3>2, <4>1 DEF FoldRound
    <3>3. QED
      BY <3>1, <3>2
  <2>2. QED
    BY <2>1
<1>4. Missing = {}
  <2>1. SUFFICES ASSUME Missing # {} PROVE FALSE
    OBVIOUS
  <2>2. PICK m \in Missing : \A k \in Missing : m <= k
    BY <2>1, LeastNatural
  <2>3. m # 0
    <3>1. SUFFICES ASSUME m = 0 PROVE FALSE
      OBVIOUS
    <3> DEFINE g == [s \in SUBSET D |-> base]
    <3>2. g \in [SUBSET D -> T]
      OBVIOUS
    <3>3. \A s \in SUBSET D : Cardinality(s) <= 0 => s = {}
      BY <1>1, FS_EmptySet
    <3>4. Solves(g, 0)
      BY <3>3 DEF FoldRound
    <3>5. QED
      BY <2>2, <3>1, <3>2, <3>4
  <2>4. m - 1 \in Nat /\ m - 1 \notin Missing
    <3>1. m \in Nat
      OBVIOUS
    <3>2. m - 1 \in Nat /\ ~ (m <= m - 1)
      BY <2>3, <3>1
    <3> HIDE DEF Missing
    <3>3. QED
      BY <2>2, <3>2
  <2>5. PICK g \in [SUBSET D -> T] : Solves(g, m - 1)
    BY <2>4
  <2>6. ASSUME NEW s \in SUBSET D, Cardinality(s) <= m
        PROVE  next(g)[s] = FoldRound(F, base, seq, next(g), s)
    <3>1. CASE s = {}
      BY <3>1 DEF FoldRound
    <3>2. CASE s # {}
      <4> DEFINE r == s \ {Max(s)}
      <4>1. r \in SUBSET D /\ Cardinality(r) <= m - 1
        BY <1>1, <1>2, <2>2, <2>6, <3>2
      <4>2. g[r] = next(g)[r]
        BY <2>5, <4>1
      <4>3. QED
        BY <3>2, <4>1, <4>2 DEF FoldRound
    <3>3. QED
      BY <3>1, <3>2
  <2>7. next(g) \in [SUBSET D -> T] /\ Solves(next(g), m)
    BY <1>3, <2>6
  <2>8. QED
    BY <2>2, <2>7
<1>5. Cardinality(D) \in Nat
  BY <1>0, FS_CardinalityType
<1>6. PICK g \in [SUBSET D -> T] : Solves(g, Cardinality(D))
  BY <1>4, <1>5
<1>7. \A s \in SUBSET D : Cardinality(s) <= Cardinality(D)
  BY <1>0, FS_Subset
<1>8. \A s \in SUBSET D : g[s] = FoldRound(F, base, seq, g, s)
  BY <1>6, <1>7
<1>9. QED
  BY <1>8 DEF Folds

\* Any solution stays in T, whatever its step makes of values outside T.
LEMMA FoldStays ==
  ASSUME NEW n \in Nat, NEW T, NEW it, it[{}] \in T,
         \A s \in SUBSET (1 .. n) : s # {} /\ it[s \ {Max(s)}] \in T => it[s] \in T
  PROVE  it[1 .. n] \in T
<1> DEFINE D == 1 .. n
           Good == {s \in SUBSET D : it[s] \in T}
<1>1. IsFiniteSet(D)
  BY FS_Interval
<1>2. ASSUME NEW s \in SUBSET D,
             \A r \in SUBSET D : Cardinality(r) < Cardinality(s) => r \in Good
      PROVE  s \in Good
  <2>1. CASE s = {}
    BY <2>1
  <2>2. CASE s # {}
    <3>1. Max(s) \in s
      BY <2>2, MaxIn
    <3>2. s \ {Max(s)} \in SUBSET D /\ Cardinality(s \ {Max(s)}) < Cardinality(s)
      BY <1>1, <3>1, SmallerSubset
    <3>3. it[s \ {Max(s)}] \in T
      BY <1>2, <3>2
    <3>4. QED
      BY <2>2, <3>3
  <2>3. QED
    BY <2>1, <2>2
<1>3. \A s \in SUBSET D : s \in Good
  <2> HIDE DEF Good
  <2>1. QED
    BY <1>1, <1>2, SubsetInduction
<1>4. D \in Good
  <2> HIDE DEF Good
  <2>1. QED
    BY <1>3
<1>5. QED
  BY <1>4

\* What holds of the fold of a prefix, as a set for each length of it.
LEMMA FoldPrefixes ==
  ASSUME NEW n \in Nat, NEW it, NEW Good, it[{}] \in Good[0],
         \A k \in 1 .. n : it[1 .. k - 1] \in Good[k - 1] => it[1 .. k] \in Good[k]
  PROVE  it[1 .. n] \in Good[n]
<1> DEFINE Bad == {k \in 0 .. n : it[1 .. k] \notin Good[k]}
<1>1. SUFFICES ASSUME Bad # {} PROVE FALSE
  BY <1>1
<1>2. Bad \subseteq Nat
  OBVIOUS
<1>3. PICK k \in Bad : \A j \in Bad : k <= j
  BY <1>1, <1>2, LeastNatural
<1>4. k # 0
  <2>1. 1 .. 0 = {}
    OBVIOUS
  <2>2. it[1 .. 0] \in Good[0]
    BY <2>1
  <2>3. QED
    BY <2>2
<1>5. k \in 1 .. n /\ k - 1 \in 0 .. n /\ ~ (k <= k - 1)
  BY <1>4
<1>6. k - 1 \notin Bad
  <2> HIDE DEF Bad
  <2>1. QED
    BY <1>3, <1>5
<1>7. QED
  BY <1>5, <1>6

-----------------------------------------------------------------------------
(* Entries taken out of a list *)

\* r keeps of the first n entries of list those in S: h gives their places.
Picks(list, S, n, r, h) ==
  /\ h \in [1 .. Len(r) -> 1 .. n]
  /\ \A i \in 1 .. Len(r) : r[i] = list[h[i]] /\ r[i] \in S
  /\ \A i, j \in 1 .. Len(r) : i < j => h[i] < h[j]
  /\ \A k \in 1 .. n : list[k] \in S => \E i \in 1 .. Len(r) : h[i] = k

LEMMA PicksOneMore ==
  ASSUME NEW T, NEW list, NEW S, NEW n \in Nat, NEW r \in Seq(T), NEW h, Picks(list, S, n, r, h),
         list[n + 1] \in T
  PROVE  /\ list[n + 1] \notin S => Picks(list, S, n + 1, r, h)
         /\ list[n + 1] \in S => \E g : Picks(list, S, n + 1, Append(r, list[n + 1]), g)
<1> DEFINE m == Len(r)
           x == list[n + 1]
<1>1. m \in Nat
  BY LenProperties
<1>2. /\ h \in [1 .. m -> 1 .. n]
      /\ \A i \in 1 .. m : r[i] = list[h[i]] /\ r[i] \in S
      /\ \A i, j \in 1 .. m : i < j => h[i] < h[j]
      /\ \A k \in 1 .. n : list[k] \in S => \E i \in 1 .. m : h[i] = k
  BY DEF Picks
<1>3. \A k \in 1 .. n + 1 : k \in 1 .. n \/ k = n + 1
  OBVIOUS
<1>4. CASE x \notin S
  <2>1. h \in [1 .. m -> 1 .. n + 1]
    BY <1>2
  <2>2. \A k \in 1 .. n + 1 : list[k] \in S => \E i \in 1 .. m : h[i] = k
    BY <1>2, <1>3, <1>4
  <2>3. QED
    BY <1>2, <1>4, <2>1, <2>2 DEF Picks
<1>5. CASE x \in S
  <2> DEFINE q == Append(r, x)
             g == [i \in 1 .. m + 1 |-> IF i = m + 1 THEN n + 1 ELSE h[i]]
  <2>1. Len(q) = m + 1 /\ q[m + 1] = x /\ \A i \in 1 .. m : q[i] = r[i]
    BY AppendProperties
  <2>2. \A i \in 1 .. m + 1 : i \in 1 .. m \/ i = m + 1
    BY <1>1
  <2>3. \A i \in 1 .. m : i \in 1 .. m + 1 /\ g[i] = h[i] /\ g[i] \in 1 .. n
    BY <1>1, <1>2
  <2>4. g[m + 1] = n + 1 /\ m + 1 \in 1 .. m + 1
    BY <1>1
  <2>5. g \in [1 .. m + 1 -> 1 .. n + 1]
    BY <1>1, <1>2
  <2> HIDE DEF g, q, m, x
  <2>6. \A i \in 1 .. m + 1 : q[i] = list[g[i]] /\ q[i] \in S
    BY <1>2, <1>5, <2>1, <2>2, <2>3, <2>4 DEF x
  <2>7. \A i, j \in 1 .. m + 1 : i < j => g[i] < g[j]
    <3>1. ASSUME NEW i \in 1 .. m + 1, NEW j \in 1 .. m + 1, i < j PROVE g[i] < g[j]
      <4>1. i \in 1 .. m
        BY <1>1, <3>1
      <4>2. CASE j \in 1 .. m
        BY <1>2, <2>3, <3>1, <4>1, <4>2
      <4>3. CASE j = m + 1
        BY <2>3, <2>4, <4>1, <4>3
      <4>4. QED
        BY <2>2, <4>2, <4>3
    <3>2. QED
      BY <3>1
  <2>8. \A k \in 1 .. n + 1 : list[k] \in S => \E i \in 1 .. m + 1 : g[i] = k
    <3>1. ASSUME NEW k \in 1 .. n + 1, list[k] \in S PROVE \E i \in 1 .. m + 1 : g[i] = k
      <4>1. CASE k \in 1 .. n
        BY <1>2, <2>3, <3>1, <4>1
      <4>2. CASE k = n + 1
        BY <2>4, <4>2
      <4>3. QED
        BY <1>3, <4>1, <4>2
    <3>2. QED
      BY <3>1
  <2>9. Picks(list, S, n + 1, q, g)
    BY <2>1, <2>5, <2>6, <2>7, <2>8 DEF Picks
  <2>10. QED
    BY <1>5, <2>9 DEF q, x
<1>6. QED
  BY <1>4, <1>5

\* What Only keeps, and where it was.
LEMMA OnlyPicks ==
  ASSUME NEW T, NEW list \in Seq(T), NEW S
  PROVE  Only(list, S) \in Seq(T) /\ \E h : Picks(list, S, Len(list), Only(list, S), h)
<1> DEFINE n == Len(list)
           E == Seq(T)
           F == [x \in E \X T |-> IF x[2] \in S THEN Append(x[1], x[2]) ELSE x[1]]
           Solves(g) == g = [s \in SUBSET (1 .. n) |->
                               IF s = {} THEN << >>
                               ELSE IF list[Max(s)] \in S THEN Append(g[s \ {Max(s)}], list[Max(s)])
                               ELSE g[s \ {Max(s)}]]
           iter == CHOOSE g : Solves(g)
           Good == [k \in 0 .. n |-> {r \in E : \E h : Picks(list, S, k, r, h)}]
<1>1. n \in Nat /\ DOMAIN list = 1 .. n /\ \A i \in 1 .. n : list[i] \in T
  BY LenProperties, ElementOfSeq
<1>2. Only(list, S) = iter[1 .. n]
  BY <1>1 DEF Only, FoldLeft, MapThenFoldSet
<1>3. << >> \in E /\ Len(<< >>) = 0 /\ \A r \in E, x \in T : Append(r, x) \in E
  BY EmptySeq, AppendProperties
<1> HIDE DEF E, n
<1>4. F \in [E \X T -> E]
      /\ \A r \in E : \A x \in T : F[<< r, x >>] = IF x \in S THEN Append(r, x) ELSE r
  BY <1>3
<1> HIDE DEF F
<1>5. PICK g : Folds(F, << >>, list, n, E, g)
  BY <1>1, <1>3, <1>4, FoldSolution
<1>6. Solves(g)
  <2>1. g \in [SUBSET (1 .. n) -> E]
        /\ \A s \in SUBSET (1 .. n) : g[s] = FoldRound(F, << >>, list, g, s)
    BY <1>5 DEF Folds
  <2>2. ASSUME NEW s \in SUBSET (1 .. n)
        PROVE  g[s] = IF s = {} THEN << >>
                      ELSE IF list[Max(s)] \in S THEN Append(g[s \ {Max(s)}], list[Max(s)])
                      ELSE g[s \ {Max(s)}]
    <3>1. CASE s = {}
      BY <2>1, <3>1 DEF FoldRound
    <3>2. CASE s # {}
      <4>1. Max(s) \in 1 .. n
        BY <1>1, <3>2, MaxIn
      <4>2. g[s \ {Max(s)}] \in E /\ list[Max(s)] \in T
        BY <1>1, <2>1, <4>1
      <4>3. g[s] = F[<< g[s \ {Max(s)}], list[Max(s)] >>]
        BY <2>1, <3>2 DEF FoldRound
      <4>4. QED
        BY <1>4, <3>2, <4>2, <4>3
    <3>3. QED
      BY <3>1, <3>2
  <2>3. g = [s \in SUBSET (1 .. n) |-> g[s]]
    BY <2>1
  <2>4. QED
    BY <2>2, <2>3
<1>7. Solves(iter)
  BY <1>6
<1> HIDE DEF iter
<1>8. iter[{}] \in Good[0]
  <2> DEFINE h == [i \in 1 .. 0 |-> i]
  <2>1. iter[{}] = << >> /\ 0 \in 0 .. n
    BY <1>1, <1>7
  <2>2. Picks(list, S, 0, << >>, h)
    BY <1>3 DEF Picks
  <2> HIDE DEF h
  <2>3. QED
    BY <1>3, <2>1, <2>2
<1>9. ASSUME NEW k \in 1 .. n, iter[1 .. k - 1] \in Good[k - 1] PROVE iter[1 .. k] \in Good[k]
  <2> DEFINE r == iter[1 .. k - 1]
             j == k - 1
  <2>1. j \in Nat /\ j + 1 = k /\ k \in Nat /\ k > 0 /\ k \in 0 .. n /\ j \in 0 .. n
    BY <1>1
  <2>2. Max(1 .. k) = k /\ (1 .. k) \ {k} = 1 .. k - 1
    BY <2>1, MaxOfPrefix
  <2>3. 1 .. k \in SUBSET (1 .. n) /\ 1 .. k # {}
    BY <1>1, <2>1
  <2>4. iter[1 .. k] = IF list[k] \in S THEN Append(r, list[k]) ELSE r
    BY <1>7, <2>2, <2>3
  <2>5. r \in E /\ \E h : Picks(list, S, j, r, h)
    BY <1>9, <2>1
  <2> HIDE DEF r
  <2>6. PICK h : Picks(list, S, j, r, h)
    BY <2>5
  <2>7. list[j + 1] \in T /\ r \in Seq(T)
    BY <1>1, <2>1, <2>5 DEF E
  <2> HIDE DEF j
  <2>8. /\ list[j + 1] \notin S => Picks(list, S, j + 1, r, h)
        /\ list[j + 1] \in S => \E f : Picks(list, S, j + 1, Append(r, list[j + 1]), f)
    BY <2>1, <2>6, <2>7, PicksOneMore
  <2>9. iter[1 .. k] \in E /\ \E f : Picks(list, S, k, iter[1 .. k], f)
    <3>1. CASE list[k] \in S
      BY <1>3, <2>1, <2>4, <2>5, <2>7, <2>8, <3>1
    <3>2. CASE list[k] \notin S
      BY <2>1, <2>4, <2>5, <2>8, <3>2
    <3>3. QED
      BY <3>1, <3>2
  <2>10. QED
    BY <2>1, <2>9
<1> HIDE DEF Good
<1>10. iter[1 .. n] \in Good[n]
  BY <1>1, <1>8, <1>9, FoldPrefixes
<1>11. QED
  BY <1>1, <1>2, <1>10 DEF Good, E, n
=============================================================================
