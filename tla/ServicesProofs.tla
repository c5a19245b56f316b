---------------------------- MODULE ServicesProofs ----------------------------
(***************************************************************************)
(* Theorems about the services beside the exchange, for every set of       *)
(* accounts, every configuration and every bound.  Each service keeps its  *)
(* own invariant through its own calls; the others leave it alone, and the *)
(* clock they share only goes forward.                                     *)
(***************************************************************************)
EXTENDS Services, SequenceTheorems, Sums

-----------------------------------------------------------------------------
(* What the services share *)

\* Somebody else's step: these variables stay, and the clock goes forward.
TimeGoesOn == now \in Nat /\ now' \in Nat /\ now' >= now

LEMMA AdminStepKeeps ==
  ASSUME AdminTypeOK,
         \/ UNCHANGED adminVars
         \/ \E a \in Addresses : RecordSensitive(a) /\ UNCHANGED << now, admin >>
         \/ \E a, b \in Addresses : SetAdmin(a, b)
         \/ \E dt \in TimeSteps : AdvanceTime(dt)
  PROVE  AdminTypeOK' /\ TimeGoesOn
<1>1. CASE UNCHANGED adminVars
  BY <1>1 DEF AdminTypeOK, adminVars, TimeGoesOn
<1>2. ASSUME NEW a \in Addresses, RecordSensitive(a), UNCHANGED << now, admin >>
      PROVE  AdminTypeOK' /\ TimeGoesOn
  BY <1>2, AdminAssumption DEF AdminTypeOK, RecordSensitive, TimeGoesOn
<1>3. ASSUME NEW a \in Addresses, NEW b \in Addresses, SetAdmin(a, b)
      PROVE  AdminTypeOK' /\ TimeGoesOn
  BY <1>3, AdminAssumption DEF AdminTypeOK, SetAdmin, RecordSensitive, TimeGoesOn
<1>4. ASSUME NEW dt \in TimeSteps, AdvanceTime(dt)
      PROVE  AdminTypeOK' /\ TimeGoesOn
  BY <1>4, AdminAssumption DEF AdminTypeOK, AdvanceTime, TimeGoesOn
<1>5. QED
  BY <1>1, <1>2, <1>3, <1>4

LEMMA ClockStep == AdminTypeOK /\ [ServicesNext]_servicesVars => AdminTypeOK' /\ TimeGoesOn
<1> SUFFICES ASSUME AdminTypeOK, [ServicesNext]_servicesVars PROVE AdminTypeOK' /\ TimeGoesOn
  OBVIOUS
<1>1. \/ UNCHANGED adminVars
      \/ ReferralNext
      \/ \E dt \in TimeSteps : AdvanceTime(dt)
  BY DEF ServicesNext, Focused, servicesVars
<1>2. CASE ReferralNext
  BY <1>2, AdminStepKeeps DEF ReferralNext, WithdrawCommission
<1>3. QED
  BY <1>1, <1>2, AdminStepKeeps

\* The least element of a set of positions.
LEMMA MinIn ==
  ASSUME NEW S, S \subseteq Nat, S # {}
  PROVE  Min(S) \in S /\ \A y \in S : Min(S) <= y
BY LeastNatural DEF Min

LEMMA MinIs ==
  ASSUME NEW S, S \subseteq Nat, NEW m \in S, \A y \in S : m <= y
  PROVE  Min(S) = m
<1>1. Min(S) \in S /\ Min(S) <= m
  BY MinIn
<1>2. m <= Min(S) /\ Min(S) \in Nat /\ m \in Nat
  BY <1>1
<1>3. QED
  BY <1>1, <1>2

-----------------------------------------------------------------------------
(* Orders *)

Event ==
  [event : {"Placed", "Cancelled", "Match"}, id : Nat, pair : Pairs, price : OrderPrices, at : Nat]

Announced(i) == \E j \in DOMAIN story : story[j].event = "Placed" /\ story[j].id = i

\* What the story makes of order i.
Follows(i) ==
  LET o == orders[i] IN
  IF Decided(i) = {} THEN o.status = "Pending" /\ o.filledAt = NoTime
  ELSE LET first == Min(Decided(i)) IN
       /\ o.status # "Pending"
       /\ o.filledAt = IF first \in FilledIn(i) THEN story[first].at ELSE NoTime
       /\ o.status = "Expired" <=> ExpiredIn(i) # {}
       /\ o.status = "Filled" => first \in FilledIn(i)
       /\ o.status = "Cancelled" => first \in CancelledIn(i)

\* Every order was placed in the story, once it exists at all.
OrdersInv ==
  /\ OrdersTypeOK /\ story \in Seq(Event)
  /\ \A i \in DOMAIN orders : Announced(i) /\ Follows(i)
  /\ \A k \in DOMAIN story : story[k].event = "Placed" => story[k].id \in DOMAIN orders

LEMMA OrdersInvSound == OrdersInv => OrdersFollowStory
BY DEF OrdersInv, OrdersFollowStory, Follows

LEMMA OrdersInvInit == OrdersInit => OrdersInv
<1> SUFFICES ASSUME OrdersInit PROVE OrdersInv
  OBVIOUS
<1>1. orders \in Seq(OrderRecord) /\ DOMAIN orders = {} /\ story \in Seq(Event) /\ DOMAIN story = {}
  BY EmptySeq DEF OrdersInit
<1>2. QED
  BY <1>1 DEF OrdersInit, OrdersInv, OrdersTypeOK

\* One more event, and what it decides of an order whose terms stay.
Adds(set, new, yes, n) == new = IF yes THEN set \union {n + 1} ELSE set

LEMMA AddsLast ==
  ASSUME NEW n \in Nat, NEW set, set \subseteq 1 .. n, NEW new, new \subseteq 1 .. n + 1,
         NEW yes \in BOOLEAN, \A k \in 1 .. n : k \in new <=> k \in set, n + 1 \in new <=> yes
  PROVE  Adds(set, new, yes, n)
<1>1. \A k \in 1 .. n + 1 : k \in 1 .. n \/ k = n + 1
  OBVIOUS
<1>2. QED
  BY <1>1 DEF Adds

LEMMA EventTold ==
  ASSUME story \in Seq(Event), NEW e \in Event, story' = Append(story, e), NEW i, Announced(i),
         orders'[i].pair = orders[i].pair, orders'[i].price = orders[i].price,
         orders'[i].expires = orders[i].expires
  PROVE  /\ ExpiredIn(i) \subseteq 1 .. Len(story) /\ FilledIn(i) \subseteq 1 .. Len(story)
         /\ CancelledIn(i) \subseteq 1 .. Len(story)
         /\ Adds(ExpiredIn(i), ExpiredIn(i)',
                 e.event = "Match" /\ e.pair = orders[i].pair /\ RunOut(orders[i], e.at), Len(story))
         /\ Adds(FilledIn(i), FilledIn(i)',
                 e.event = "Match" /\ e.pair = orders[i].pair /\ ~RunOut(orders[i], e.at)
                   /\ e.price <= orders[i].price, Len(story))
         /\ Adds(CancelledIn(i), CancelledIn(i)', e.event = "Cancelled" /\ e.id = i, Len(story))
<1> DEFINE n == Len(story)
<1>1. n \in Nat /\ DOMAIN story = 1 .. n /\ Len(story') = n + 1 /\ DOMAIN story' = 1 .. n + 1
      /\ story'[n + 1] = e /\ \A k \in 1 .. n : story'[k] = story[k]
  <2>1. n \in Nat /\ DOMAIN story = 1 .. n
    BY LenProperties
  <2>2. story' \in Seq(Event) /\ Len(story') = n + 1 /\ story'[n + 1] = e
        /\ \A k \in 1 .. n : story'[k] = story[k]
    BY AppendProperties
  <2>3. QED
    BY <2>1, <2>2, LenProperties
<1> HIDE DEF n
<1>2. Since(i) \subseteq 1 .. n /\ Since(i)' = Since(i) \union {n + 1}
  <2>1. \A k \in 1 .. n : k \in Since(i)' <=> k \in Since(i)
    BY <1>1 DEF Since
  <2>2. n + 1 \in Since(i)'
    BY <1>1 DEF Since, Announced
  <2>3. QED
    BY <1>1, <2>1, <2>2 DEF Since
<1>3. \A t : RunOut(orders[i], t)' <=> RunOut(orders[i], t)
  BY DEF RunOut
<1>4. /\ ExpiredIn(i) \subseteq 1 .. n /\ FilledIn(i) \subseteq 1 .. n /\ CancelledIn(i) \subseteq 1 .. n
  BY <1>2 DEF ExpiredIn, FilledIn, CancelledIn
<1>5. \A k \in 1 .. n : /\ k \in ExpiredIn(i)' <=> k \in ExpiredIn(i)
                        /\ k \in FilledIn(i)' <=> k \in FilledIn(i)
                        /\ k \in CancelledIn(i)' <=> k \in CancelledIn(i)
  BY <1>1, <1>2 DEF ExpiredIn, FilledIn, CancelledIn, RunOut
<1>6. /\ n + 1 \in ExpiredIn(i)' <=> e.event = "Match" /\ e.pair = orders[i].pair /\ RunOut(orders[i], e.at)
      /\ n + 1 \in FilledIn(i)' <=> e.event = "Match" /\ e.pair = orders[i].pair /\ ~RunOut(orders[i], e.at)
                                      /\ e.price <= orders[i].price
      /\ n + 1 \in CancelledIn(i)' <=> e.event = "Cancelled" /\ e.id = i
  BY <1>1, <1>2 DEF ExpiredIn, FilledIn, CancelledIn, RunOut
<1>7. ExpiredIn(i)' \subseteq 1 .. n + 1 /\ FilledIn(i)' \subseteq 1 .. n + 1 /\ CancelledIn(i)' \subseteq 1 .. n + 1
  BY <1>1, <1>2 DEF ExpiredIn, FilledIn, CancelledIn
<1> DEFINE expired == e.event = "Match" /\ e.pair = orders[i].pair /\ RunOut(orders[i], e.at)
           filled == e.event = "Match" /\ e.pair = orders[i].pair /\ ~RunOut(orders[i], e.at)
                       /\ e.price <= orders[i].price
           cancelled == e.event = "Cancelled" /\ e.id = i
<1>8. expired \in BOOLEAN /\ filled \in BOOLEAN /\ cancelled \in BOOLEAN
  OBVIOUS
<1>9. (n + 1 \in ExpiredIn(i)' <=> expired) /\ (n + 1 \in FilledIn(i)' <=> filled)
      /\ (n + 1 \in CancelledIn(i)' <=> cancelled)
  BY <1>6
<1> HIDE DEF expired, filled, cancelled
<1>10. Adds(ExpiredIn(i), ExpiredIn(i)', expired, n)
  BY <1>1, <1>4, <1>5, <1>7, <1>8, <1>9, AddsLast
<1>11. Adds(FilledIn(i), FilledIn(i)', filled, n)
  BY <1>1, <1>4, <1>5, <1>7, <1>8, <1>9, AddsLast
<1>12. Adds(CancelledIn(i), CancelledIn(i)', cancelled, n)
  BY <1>1, <1>4, <1>5, <1>7, <1>8, <1>9, AddsLast
<1>13. QED
  BY <1>4, <1>10, <1>11, <1>12 DEF n, expired, filled, cancelled

\* The first decision stands; an undecided order is decided by the event or not at all.
Decision(i, expired, filled, cancelled) ==
  /\ Decided(i) # {} => /\ Decided(i)' # {}
                        /\ Min(Decided(i))' = Min(Decided(i))
                        /\ Min(Decided(i)) \in DOMAIN story
                        /\ Min(Decided(i)) \in FilledIn(i)' <=> Min(Decided(i)) \in FilledIn(i)
                        /\ Min(Decided(i)) \in CancelledIn(i)' <=> Min(Decided(i)) \in CancelledIn(i)
                        /\ (ExpiredIn(i)' # {} <=> ExpiredIn(i) # {} \/ expired)
  /\ Decided(i) = {} /\ (expired \/ filled \/ cancelled) =>
       /\ Decided(i)' # {}
       /\ Min(Decided(i))' = Len(story) + 1
       /\ Len(story) + 1 \in FilledIn(i)' <=> filled
       /\ Len(story) + 1 \in CancelledIn(i)' <=> cancelled
       /\ ExpiredIn(i)' # {} <=> expired
  /\ Decided(i) = {} /\ ~(expired \/ filled \/ cancelled) => Decided(i)' = {}

LEMMA EventDecides ==
  ASSUME NEW n \in Nat, n = Len(story), DOMAIN story = 1 .. n, NEW i,
         NEW expired \in BOOLEAN, NEW filled \in BOOLEAN, NEW cancelled \in BOOLEAN,
         ExpiredIn(i) \subseteq 1 .. n, FilledIn(i) \subseteq 1 .. n, CancelledIn(i) \subseteq 1 .. n,
         Adds(ExpiredIn(i), ExpiredIn(i)', expired, n), Adds(FilledIn(i), FilledIn(i)', filled, n),
         Adds(CancelledIn(i), CancelledIn(i)', cancelled, n)
  PROVE  Decision(i, expired, filled, cancelled)
<1> DEFINE D == Decided(i)
           E == Decided(i)'
           yes == expired \/ filled \/ cancelled
<1>1. D \subseteq 1 .. n /\ E = IF yes THEN D \union {n + 1} ELSE D
  BY DEF Adds, Decided
<1>2. D \subseteq Nat /\ E \subseteq Nat
  BY <1>1
<1>3. \A k \in 1 .. n : (k \in FilledIn(i)' <=> k \in FilledIn(i))
                       /\ (k \in CancelledIn(i)' <=> k \in CancelledIn(i))
  BY DEF Adds
<1>4. (n + 1 \in FilledIn(i)' <=> filled) /\ (n + 1 \in CancelledIn(i)' <=> cancelled)
  BY DEF Adds
<1>5. ExpiredIn(i)' # {} <=> ExpiredIn(i) # {} \/ expired
  BY DEF Adds
<1>6. ExpiredIn(i) \subseteq D
  BY DEF Decided
<1> HIDE DEF D, E
<1>7. ASSUME D # {} PROVE E # {} /\ Min(E) = Min(D) /\ Min(D) \in 1 .. n
  <2>1. Min(D) \in D /\ \A y \in D : Min(D) <= y
    BY <1>2, <1>7, MinIn
  <2>2. Min(D) \in E /\ \A y \in E : Min(D) <= y
    <3>1. Min(D) \in 1 .. n /\ Min(D) \in E
      BY <1>1, <2>1
    <3>2. \A y \in E : y \in D \/ y = n + 1
      BY <1>1
    <3>3. Min(D) <= n + 1
      BY <3>1
    <3>4. QED
      BY <2>1, <3>1, <3>2, <3>3
  <2>3. Min(E) = Min(D)
    BY <1>2, <2>2, MinIs
  <2>4. QED
    BY <1>1, <2>1, <2>2, <2>3
<1>8. ASSUME D = {}, yes PROVE E # {} /\ Min(E) = n + 1
  <2>1. E = {n + 1}
    BY <1>1, <1>8
  <2>2. n + 1 \in E /\ \A y \in E : n + 1 <= y
    BY <2>1
  <2>3. Min(E) = n + 1
    BY <1>2, <2>2, MinIs
  <2>4. QED
    BY <2>1, <2>3
<1>9. ASSUME D # {}
      PROVE  /\ Decided(i)' # {} /\ Min(Decided(i))' = Min(Decided(i))
             /\ Min(Decided(i)) \in DOMAIN story
             /\ Min(Decided(i)) \in FilledIn(i)' <=> Min(Decided(i)) \in FilledIn(i)
             /\ Min(Decided(i)) \in CancelledIn(i)' <=> Min(Decided(i)) \in CancelledIn(i)
             /\ ExpiredIn(i)' # {} <=> ExpiredIn(i) # {} \/ expired
  BY <1>3, <1>5, <1>7, <1>9 DEF D, E
<1>10. ASSUME D = {}, yes
       PROVE  /\ Decided(i)' # {} /\ Min(Decided(i))' = Len(story) + 1
              /\ Len(story) + 1 \in FilledIn(i)' <=> filled
              /\ Len(story) + 1 \in CancelledIn(i)' <=> cancelled
              /\ ExpiredIn(i)' # {} <=> expired
  BY <1>4, <1>5, <1>6, <1>8, <1>10 DEF D, E
<1>11. D = {} /\ ~yes => Decided(i)' = {}
  BY <1>1 DEF E
<1>12. QED
  BY <1>9, <1>10, <1>11 DEF Decision, D

\* The two together, for an order the event finds on record.
Tells(i, e) ==
  Decision(i, e.event = "Match" /\ e.pair = orders[i].pair /\ RunOut(orders[i], e.at),
           e.event = "Match" /\ e.pair = orders[i].pair /\ ~RunOut(orders[i], e.at)
             /\ e.price <= orders[i].price,
           e.event = "Cancelled" /\ e.id = i)

LEMMA EventTells ==
  ASSUME story \in Seq(Event), NEW e \in Event, story' = Append(story, e), NEW i, Announced(i),
         orders'[i].pair = orders[i].pair, orders'[i].price = orders[i].price,
         orders'[i].expires = orders[i].expires
  PROVE  Tells(i, e)
<1> DEFINE n == Len(story)
           expired == e.event = "Match" /\ e.pair = orders[i].pair /\ RunOut(orders[i], e.at)
           filled == e.event = "Match" /\ e.pair = orders[i].pair /\ ~RunOut(orders[i], e.at)
                       /\ e.price <= orders[i].price
           cancelled == e.event = "Cancelled" /\ e.id = i
<1>1. n \in Nat /\ DOMAIN story = 1 .. n
  BY LenProperties
<1>2. /\ ExpiredIn(i) \subseteq 1 .. n /\ FilledIn(i) \subseteq 1 .. n /\ CancelledIn(i) \subseteq 1 .. n
      /\ Adds(ExpiredIn(i), ExpiredIn(i)', expired, n)
      /\ Adds(FilledIn(i), FilledIn(i)', filled, n)
      /\ Adds(CancelledIn(i), CancelledIn(i)', cancelled, n)
  BY EventTold
<1>3. expired \in BOOLEAN /\ filled \in BOOLEAN /\ cancelled \in BOOLEAN
  OBVIOUS
<1> HIDE DEF expired, filled, cancelled
<1>4. Decision(i, expired, filled, cancelled)
  BY <1>1, <1>2, <1>3, EventDecides
<1>5. QED
  BY <1>4 DEF Tells, expired, filled, cancelled

\* An event leaves a story, and the placements in it, as they are.
LEMMA StoryGrows ==
  ASSUME OrdersInv, NEW e \in Event, story' = Append(story, e)
  PROVE  /\ story' \in Seq(Event) /\ Len(story) \in Nat /\ DOMAIN story = 1 .. Len(story)
         /\ DOMAIN story' = 1 .. Len(story) + 1 /\ story'[Len(story) + 1] = e
         /\ \A k \in DOMAIN story : story'[k] = story[k]
         /\ \A i \in DOMAIN orders : Announced(i)'
<1>1. story \in Seq(Event) /\ Len(story) \in Nat /\ DOMAIN story = 1 .. Len(story)
  BY LenProperties DEF OrdersInv
<1>2. story' \in Seq(Event) /\ Len(story') = Len(story) + 1 /\ story'[Len(story) + 1] = e
      /\ \A k \in 1 .. Len(story) : story'[k] = story[k]
  BY <1>1, AppendProperties
<1>3. DOMAIN story' = 1 .. Len(story) + 1
  BY <1>2, LenProperties
<1>4. \A i \in DOMAIN orders : Announced(i)'
  BY <1>1, <1>2, <1>3 DEF OrdersInv, Announced
<1>5. QED
  BY <1>1, <1>2, <1>3, <1>4

\* What the event decides is what becomes of the order.
LEMMA FollowsOn ==
  ASSUME NEW i, Follows(i), NEW expired, NEW filled, NEW cancelled,
         Decision(i, expired, filled, cancelled), Len(story) \in Nat,
         \A k \in DOMAIN story : story'[k] = story[k],
         Decided(i) # {} =>
           /\ orders'[i].status = IF expired THEN "Expired" ELSE orders[i].status
           /\ orders'[i].filledAt = orders[i].filledAt,
         Decided(i) = {} =>
           /\ orders'[i].status = IF expired THEN "Expired" ELSE IF filled THEN "Filled"
                                  ELSE IF cancelled THEN "Cancelled" ELSE orders[i].status
           /\ orders'[i].filledAt = IF filled THEN story'[Len(story) + 1].at ELSE orders[i].filledAt,
         ~(expired /\ filled), ~(expired /\ cancelled), ~(filled /\ cancelled)
  PROVE  Follows(i)'
<1>1. CASE Decided(i) # {}
  <2> DEFINE first == Min(Decided(i))
  <2>1. /\ Decided(i)' # {} /\ first' = first /\ first \in DOMAIN story
        /\ first \in FilledIn(i)' <=> first \in FilledIn(i)
        /\ first \in CancelledIn(i)' <=> first \in CancelledIn(i)
        /\ (ExpiredIn(i)' # {} <=> ExpiredIn(i) # {} \/ expired)
    BY <1>1 DEF Decision
  <2>2. /\ orders[i].status # "Pending"
        /\ orders[i].filledAt = IF first \in FilledIn(i) THEN story[first].at ELSE NoTime
        /\ orders[i].status = "Expired" <=> ExpiredIn(i) # {}
        /\ orders[i].status = "Filled" => first \in FilledIn(i)
        /\ orders[i].status = "Cancelled" => first \in CancelledIn(i)
    BY <1>1 DEF Follows
  <2> HIDE DEF first
  <2>3. /\ orders'[i].status # "Pending"
        /\ orders'[i].filledAt = IF first \in FilledIn(i)' THEN story'[first].at ELSE NoTime
        /\ orders'[i].status = "Expired" <=> ExpiredIn(i)' # {}
        /\ orders'[i].status = "Filled" => first \in FilledIn(i)'
        /\ orders'[i].status = "Cancelled" => first \in CancelledIn(i)'
    BY <1>1, <2>1, <2>2
  <2>4. QED
    BY <2>1, <2>3 DEF Follows, first
<1>2. CASE Decided(i) = {} /\ (expired \/ filled \/ cancelled)
  <2> DEFINE first == Min(Decided(i))
  <2>1. /\ Decided(i)' # {} /\ first' = Len(story) + 1
        /\ Len(story) + 1 \in FilledIn(i)' <=> filled
        /\ Len(story) + 1 \in CancelledIn(i)' <=> cancelled
        /\ ExpiredIn(i)' # {} <=> expired
    BY <1>2 DEF Decision
  <2>2. orders[i].filledAt = NoTime /\ orders[i].status = "Pending"
    BY <1>2 DEF Follows
  <2> HIDE DEF first
  <2>3. /\ orders'[i].status # "Pending"
        /\ orders'[i].filledAt = IF first' \in FilledIn(i)' THEN story'[first'].at ELSE NoTime
        /\ orders'[i].status = "Expired" <=> ExpiredIn(i)' # {}
        /\ orders'[i].status = "Filled" => first' \in FilledIn(i)'
        /\ orders'[i].status = "Cancelled" => first' \in CancelledIn(i)'
    BY <1>2, <2>1, <2>2
  <2>4. QED
    BY <2>1, <2>3 DEF Follows, first
<1>3. CASE Decided(i) = {} /\ ~(expired \/ filled \/ cancelled)
  <2>1. Decided(i)' = {}
    BY <1>3 DEF Decision
  <2>2. orders[i].filledAt = NoTime /\ orders[i].status = "Pending"
    BY <1>3 DEF Follows
  <2>3. QED
    BY <1>3, <2>1, <2>2 DEF Follows
<1>4. QED
  BY <1>1, <1>2, <1>3

LEMMA VerifiedStep ==
  ASSUME OrdersInv, NEW u \in Makers, NEW yes \in BOOLEAN, SetVerified(u, yes)
  PROVE  OrdersInv'
<1>1. verified' \subseteq Makers
  BY DEF SetVerified, OrdersInv, OrdersTypeOK
<1>2. orders' = orders /\ story' = story
  BY DEF SetVerified
<1>3. \A i : (Follows(i)' <=> Follows(i)) /\ (Announced(i)' <=> Announced(i))
  BY <1>2 DEF Follows, Announced, Decided, ExpiredIn, FilledIn, CancelledIn, Since, RunOut
<1>4. QED
  BY <1>1, <1>2, <1>3 DEF OrdersInv, OrdersTypeOK

LEMMA PlaceOrderStep ==
  ASSUME OrdersInv, AdminTypeOK, NEW u \in Makers, NEW pair \in Pairs, NEW price \in OrderPrices,
         NEW expires \in Expiries \union {NoTime}, PlaceOrder(u, pair, price, expires)
  PROVE  OrdersInv'
<1>1. PICK m \in Nat : m = Len(orders)
  BY LenProperties DEF OrdersInv, OrdersTypeOK
<1> DEFINE n == Len(story)
           o == [owner |-> u, pair |-> pair, price |-> price, at |-> now,
                 expires |-> expires, filledAt |-> NoTime, status |-> "Pending"]
           e == [event |-> "Placed", id |-> m + 1, pair |-> pair, price |-> price, at |-> now]
<1>2. orders \in Seq(OrderRecord) /\ DOMAIN orders = 1 .. m /\ o \in OrderRecord
  BY <1>1, LenProperties DEF OrdersInv, OrdersTypeOK, OrderRecord, AdminTypeOK
<1>3. e \in Event /\ story' = Append(story, e) /\ orders' = Append(orders, o) /\ verified' = verified
  BY <1>1, <1>2 DEF PlaceOrder, Tell, Event, AdminTypeOK
<1> HIDE DEF o
<1>4. orders' \in Seq(OrderRecord) /\ DOMAIN orders' = 1 .. m + 1 /\ orders'[m + 1] = o
      /\ \A i \in 1 .. m : orders'[i] = orders[i]
  <2>1. orders' \in Seq(OrderRecord) /\ Len(orders') = m + 1 /\ orders'[m + 1] = o
        /\ \A i \in 1 .. m : orders'[i] = orders[i]
    BY <1>1, <1>2, <1>3, AppendProperties
  <2>2. QED
    BY <2>1, LenProperties
<1> HIDE DEF e
<1>5. /\ story' \in Seq(Event) /\ n \in Nat /\ DOMAIN story = 1 .. n
      /\ DOMAIN story' = 1 .. n + 1 /\ story'[n + 1] = e
      /\ \A k \in DOMAIN story : story'[k] = story[k]
      /\ \A i \in DOMAIN orders : Announced(i)'
  BY <1>3, StoryGrows
<1>6. e.event = "Placed" /\ e.id = m + 1
  BY DEF e
<1>7. ASSUME NEW i \in DOMAIN orders PROVE Follows(i)'
  <2>1. Announced(i) /\ Follows(i) /\ orders'[i] = orders[i] /\ story \in Seq(Event)
    BY <1>1, <1>2, <1>4 DEF OrdersInv
  <2>2. Tells(i, e)
    BY <1>3, <2>1, EventTells
  <2>3. Decision(i, FALSE, FALSE, FALSE)
    BY <1>6, <2>2 DEF Tells
  <2> HIDE DEF n
  <2>4. QED
    BY <1>5, <2>1, <2>3, FollowsOn DEF n
<1>8. Announced(m + 1)' /\ Follows(m + 1)'
  <2>1. Announced(m + 1)'
    BY <1>5, <1>6 DEF Announced
  <2>2. \A j \in 1 .. n : ~(story'[j].event = "Placed" /\ story'[j].id = m + 1)
    <3>1. \A j \in 1 .. n : story[j].event = "Placed" => story[j].id \in 1 .. m
      BY <1>1, <1>2, <1>5 DEF OrdersInv
    <3>2. m + 1 \notin 1 .. m
      BY <1>1, <1>2
    <3>3. QED
      BY <1>5, <3>1, <3>2
  <2>3. Since(m + 1)' = {}
    <3>1. \A k \in 1 .. n + 1 : \A j \in 1 .. k - 1 : j \in 1 .. n
      BY <1>5
    <3>2. QED
      BY <1>5, <2>2, <3>1 DEF Since
  <2>4. Decided(m + 1)' = {}
    BY <2>3 DEF Decided, ExpiredIn, FilledIn, CancelledIn
  <2>5. orders'[m + 1].status = "Pending" /\ orders'[m + 1].filledAt = NoTime
    BY <1>4 DEF o
  <2>6. QED
    BY <2>1, <2>4, <2>5 DEF Follows
<1>9. \A k \in DOMAIN story' : story'[k].event = "Placed" => story'[k].id \in DOMAIN orders'
  <2>1. \A k \in 1 .. n : story[k].event = "Placed" => story[k].id \in 1 .. m
    BY <1>1, <1>2, <1>5 DEF OrdersInv
  <2>2. \A k \in 1 .. n + 1 : k \in 1 .. n \/ k = n + 1
    BY <1>5
  <2>3. \A x \in 1 .. m : x \in 1 .. m + 1
    BY <1>1, <1>2
  <2>4. m + 1 \in 1 .. m + 1
    BY <1>1, <1>2
  <2>5. QED
    BY <1>4, <1>5, <1>6, <2>1, <2>2, <2>3, <2>4
<1>10. \A i \in DOMAIN orders' : i \in DOMAIN orders \/ i = m + 1
  BY <1>1, <1>2, <1>4
<1>11. QED
  BY <1>3, <1>4, <1>5, <1>7, <1>8, <1>9, <1>10 DEF OrdersInv, OrdersTypeOK

LEMMA CancelOrderStep ==
  ASSUME OrdersInv, AdminTypeOK, NEW u \in Makers, NEW c \in DOMAIN orders, CancelOrder(u, c)
  PROVE  OrdersInv'
<1> DEFINE m == Len(orders)
           n == Len(story)
           o == [orders[c] EXCEPT !.status = "Cancelled"]
           e == [event |-> "Cancelled", id |-> c, pair |-> orders[c].pair, price |-> orders[c].price, at |-> now]
<1>1. orders \in Seq(OrderRecord) /\ m \in Nat /\ DOMAIN orders = 1 .. m
  BY LenProperties DEF OrdersInv, OrdersTypeOK
<1>2. orders[c] \in OrderRecord /\ c \in 1 .. m
  BY <1>1, ElementOfSeq
<1>3. o \in OrderRecord /\ o.pair = orders[c].pair /\ o.price = orders[c].price
      /\ o.expires = orders[c].expires /\ o.filledAt = orders[c].filledAt /\ o.status = "Cancelled"
  BY <1>2 DEF OrderRecord
<1>4. e \in Event /\ story' = Append(story, e) /\ verified' = verified
  BY <1>2 DEF CancelOrder, Tell, Event, OrderRecord, AdminTypeOK
<1>5. orders' = [orders EXCEPT ![c] = o] /\ orders[c].status = "Pending"
  BY DEF CancelOrder
<1> HIDE DEF o
<1>6. orders' \in Seq(OrderRecord) /\ DOMAIN orders' = 1 .. m
      /\ \A i \in 1 .. m : orders'[i] = IF i = c THEN o ELSE orders[i]
  <2>1. orders' \in Seq(OrderRecord) /\ Len(orders') = m
        /\ \A i \in 1 .. m : orders'[i] = IF i = c THEN o ELSE orders[i]
    BY <1>1, <1>2, <1>3, <1>5, ExceptSeq
  <2>2. QED
    BY <2>1, LenProperties
<1> HIDE DEF e, m
<1>7. /\ story' \in Seq(Event) /\ n \in Nat /\ DOMAIN story = 1 .. n
      /\ DOMAIN story' = 1 .. n + 1 /\ story'[n + 1] = e
      /\ \A k \in DOMAIN story : story'[k] = story[k]
      /\ \A i \in DOMAIN orders : Announced(i)'
  BY <1>4, StoryGrows
<1>8. e.event = "Cancelled" /\ e.id = c
  BY DEF e
<1>9. ASSUME NEW i \in DOMAIN orders PROVE Follows(i)'
  <2>1. Announced(i) /\ Follows(i) /\ story \in Seq(Event)
    BY DEF OrdersInv
  <2>2. orders'[i].pair = orders[i].pair /\ orders'[i].price = orders[i].price
        /\ orders'[i].expires = orders[i].expires /\ orders'[i].filledAt = orders[i].filledAt
        /\ orders'[i].status = IF i = c THEN "Cancelled" ELSE orders[i].status
    BY <1>1, <1>3, <1>6
  <2>3. Tells(i, e)
    BY <1>4, <2>1, <2>2, EventTells
  <2>4. Decision(i, FALSE, FALSE, c = i)
    BY <1>8, <2>3 DEF Tells
  <2>5. i = c => Decided(i) = {}
    BY <1>5, <2>1 DEF Follows
  <2> HIDE DEF n
  <2>6. QED
    BY <1>7, <2>1, <2>2, <2>4, <2>5, FollowsOn DEF n
<1>10. \A k \in DOMAIN story' : story'[k].event = "Placed" => story'[k].id \in DOMAIN orders'
  <2>1. \A k \in 1 .. n + 1 : k \in 1 .. n \/ k = n + 1
    BY <1>7
  <2>2. QED
    BY <1>1, <1>6, <1>7, <1>8, <2>1 DEF OrdersInv
<1>11. QED
  BY <1>1, <1>4, <1>6, <1>7, <1>9, <1>10 DEF OrdersInv, OrdersTypeOK

LEMMA MatchStep ==
  ASSUME OrdersInv, AdminTypeOK, NEW pair \in Pairs, NEW price \in OrderPrices,
         MatchPendingOrders(pair, price)
  PROVE  OrdersInv'
<1> DEFINE n == Len(story)
           e == [event |-> "Match", id |-> 0, pair |-> pair, price |-> price, at |-> now]
<1>1. orders \in Seq(OrderRecord) /\ Len(orders) \in Nat /\ DOMAIN orders = 1 .. Len(orders)
  BY LenProperties DEF OrdersInv, OrdersTypeOK
<1>2. e \in Event /\ story' = Append(story, e) /\ verified' = verified
  BY DEF MatchPendingOrders, Tell, Event, AdminTypeOK
<1>3. e.event = "Match" /\ e.pair = pair /\ e.price = price /\ e.at = now
  OBVIOUS
<1> HIDE DEF e
<1>4. /\ story' \in Seq(Event) /\ n \in Nat /\ DOMAIN story = 1 .. n
      /\ DOMAIN story' = 1 .. n + 1 /\ story'[n + 1] = e
      /\ \A k \in DOMAIN story : story'[k] = story[k]
      /\ \A i \in DOMAIN orders : Announced(i)'
  BY <1>2, StoryGrows
<1> DEFINE runs(i) == orders[i].pair = pair /\ RunOut(orders[i], now)
           fills(i) == orders[i].pair = pair /\ ~RunOut(orders[i], now) /\ price <= orders[i].price
<1>5. DOMAIN orders' = DOMAIN orders
      /\ \A i \in DOMAIN orders : orders'[i] = IF orders[i].pair = pair THEN Matched(orders[i], price) ELSE orders[i]
  BY DEF MatchPendingOrders
<1>6. ASSUME NEW i \in DOMAIN orders
      PROVE  /\ orders'[i] \in OrderRecord
             /\ orders'[i].pair = orders[i].pair /\ orders'[i].price = orders[i].price
             /\ orders'[i].expires = orders[i].expires
             /\ orders'[i].status = IF runs(i) THEN "Expired"
                                    ELSE IF orders[i].status = "Pending" /\ fills(i) THEN "Filled"
                                    ELSE orders[i].status
             /\ orders'[i].filledAt = IF orders[i].status = "Pending" /\ fills(i) THEN now
                                      ELSE orders[i].filledAt
  <2> DEFINE o == orders[i]
  <2>1. o \in OrderRecord
    BY <1>1, ElementOfSeq
  <2>2. orders'[i] = IF o.pair = pair THEN Matched(o, price) ELSE o
    BY <1>5
  <2> HIDE DEF o
  <2>3. CASE o.pair # pair
    BY <2>1, <2>2, <2>3 DEF o
  <2>4. CASE o.pair = pair /\ RunOut(o, now)
    <3>1. orders'[i] = [o EXCEPT !.status = "Expired"]
      BY <2>2, <2>4 DEF Matched
    <3>2. QED
      BY <2>1, <2>4, <3>1 DEF o, OrderRecord
  <2>5. CASE o.pair = pair /\ ~RunOut(o, now) /\ o.status = "Pending" /\ price <= o.price
    <3>1. orders'[i] = [o EXCEPT !.status = "Filled", !.filledAt = now]
      BY <2>2, <2>5 DEF Matched
    <3>2. QED
      BY <2>1, <2>5, <3>1 DEF o, OrderRecord, AdminTypeOK
  <2>6. CASE o.pair = pair /\ ~RunOut(o, now) /\ ~(o.status = "Pending" /\ price <= o.price)
    <3>1. orders'[i] = o
      BY <2>2, <2>6 DEF Matched
    <3>2. QED
      BY <2>1, <2>6, <3>1 DEF o
  <2>7. QED
    BY <2>3, <2>4, <2>5, <2>6
<1>7. ASSUME NEW i \in DOMAIN orders PROVE Follows(i)'
  <2>1. Announced(i) /\ Follows(i) /\ story \in Seq(Event)
    BY DEF OrdersInv
  <2>2. Tells(i, e)
    BY <1>2, <1>6, <2>1, EventTells
  <2>3. Decision(i, runs(i), fills(i), FALSE)
    BY <1>3, <2>2 DEF Tells
  <2>4. story'[n + 1].at = now
    BY <1>3, <1>4
  <2>5. /\ Decided(i) # {} => orders[i].status # "Pending"
        /\ Decided(i) = {} => orders[i].status = "Pending"
    BY <2>1 DEF Follows
  <2> DEFINE ran == runs(i)
             filled == fills(i)
             cancelled == FALSE
  <2>6. ~(ran /\ filled) /\ ~(ran /\ cancelled) /\ ~(filled /\ cancelled)
    OBVIOUS
  <2>7. /\ Decided(i) # {} =>
           /\ orders'[i].status = IF ran THEN "Expired" ELSE orders[i].status
           /\ orders'[i].filledAt = orders[i].filledAt
        /\ Decided(i) = {} =>
           /\ orders'[i].status = IF ran THEN "Expired" ELSE IF filled THEN "Filled"
                                  ELSE IF cancelled THEN "Cancelled" ELSE orders[i].status
           /\ orders'[i].filledAt = IF filled THEN story'[n + 1].at ELSE orders[i].filledAt
    BY <1>6, <2>4, <2>5
  <2>8. Decision(i, ran, filled, cancelled)
    BY <2>3
  <2> HIDE DEF n, ran, filled, cancelled
  <2>9. QED
    BY <1>4, <2>1, <2>6, <2>7, <2>8, FollowsOn DEF n
<1>8. orders' \in Seq(OrderRecord)
  <2>1. orders' = [i \in 1 .. Len(orders) |-> orders'[i]]
    BY <1>1, <1>5 DEF MatchPendingOrders
  <2>2. \A i \in 1 .. Len(orders) : orders'[i] \in OrderRecord
    BY <1>1, <1>6
  <2> DEFINE f(i) == orders'[i]
  <2> HIDE DEF f
  <2>3. [i \in 1 .. Len(orders) |-> f(i)] \in Seq(OrderRecord)
    BY <1>1, <2>2, IsASeq DEF f
  <2>4. QED
    BY <2>1, <2>3 DEF f
<1>9. \A k \in DOMAIN story' : story'[k].event = "Placed" => story'[k].id \in DOMAIN orders'
  <2>1. \A k \in 1 .. n + 1 : k \in 1 .. n \/ k = n + 1
    BY <1>4
  <2>2. QED
    BY <1>3, <1>4, <1>5, <2>1 DEF OrdersInv
<1>10. QED
  BY <1>2, <1>4, <1>5, <1>7, <1>8, <1>9 DEF OrdersInv, OrdersTypeOK

LEMMA OrdersStay ==
  ASSUME OrdersInv, UNCHANGED ordersVars
  PROVE  OrdersInv'
<1>1. orders' = orders /\ story' = story /\ verified' = verified
  BY DEF ordersVars
<1>2. \A i : (Follows(i)' <=> Follows(i)) /\ (Announced(i)' <=> Announced(i))
  BY <1>1 DEF Follows, Announced, Decided, ExpiredIn, FilledIn, CancelledIn, Since, RunOut
<1>3. QED
  BY <1>1, <1>2 DEF OrdersInv, OrdersTypeOK

LEMMA OrdersStep == AdminTypeOK /\ OrdersInv /\ [ServicesNext]_servicesVars => OrdersInv'
<1> SUFFICES ASSUME AdminTypeOK, OrdersInv, [ServicesNext]_servicesVars PROVE OrdersInv'
  OBVIOUS
<1>1. OrdersNext \/ UNCHANGED ordersVars
  BY DEF ServicesNext, Focused, servicesVars
<1>2. CASE OrdersNext
  BY <1>2, VerifiedStep, PlaceOrderStep, CancelOrderStep, MatchStep DEF OrdersNext
<1>3. QED
  BY <1>1, <1>2, OrdersStay

LEMMA ClockInit == ServicesInit => AdminTypeOK
BY AdminAssumption DEF ServicesInit, AdminInit, AdminTypeOK

\* Every limit and stop order of any number of makers is what its story makes of
\* it: pending while nothing was decided and never again, Filled or Cancelled only
\* by its first decision, and Expired only if a pass found it run out, be it after
\* a fill, of which filled_at then tells.
THEOREM OrdersAlwaysFollowStory == ServicesSpec => []OrdersFollowStory
<1>1. ServicesInit => AdminTypeOK /\ OrdersInv
  BY ClockInit, OrdersInvInit DEF ServicesInit
<1>2. (AdminTypeOK /\ OrdersInv) /\ [ServicesNext]_servicesVars => (AdminTypeOK /\ OrdersInv)'
  BY ClockStep, OrdersStep
<1>3. QED
  BY <1>1, <1>2, OrdersInvSound, PTL DEF ServicesSpec

-----------------------------------------------------------------------------
(* Referrals *)

LEMMA ReferralInvInit == ReferralInit => ReferralSound
<1> SUFFICES ASSUME ReferralInit PROVE ReferralSound
  OBVIOUS
<1>1. ReferralTypeOK
  BY ReferralAssumption DEF ReferralInit, ReferralTypeOK
<1>2. NoShortCircle
  BY ReferralAssumption DEF ReferralInit, NoShortCircle, ReferrerOf
<1>3. CommissionsAccounted
  <2>1. \A a \in Addresses : earned[a] = 0 /\ commission[a] = 0 /\ withdrawn[a] = 0
    BY DEF ReferralInit
  <2>2. ASSUME NEW a \in Addresses PROVE earned[a] = commission[a] + withdrawn[a]
    BY <2>1
  <2>3. QED
    BY <2>2 DEF CommissionsAccounted
<1>4. DirectsCounted
  <2>1. ASSUME NEW a \in Addresses PROVE directs[a] = Cardinality({b \in Addresses : referrer[b] = a})
    <3>1. {b \in Addresses : referrer[b] = a} = {}
      BY ReferralAssumption DEF ReferralInit
    <3>2. QED
      BY <3>1, FS_EmptySet DEF ReferralInit
  <2>2. QED
    BY <2>1 DEF DirectsCounted
<1>5. WithinTopTier
  <2>1. IsFiniteSet(Addresses) /\ DOMAIN earned = Addresses /\ DOMAIN feeVolume = Addresses
        /\ \A a \in Addresses : earned[a] = 0 /\ feeVolume[a] = 0
    BY ReferralAssumption DEF ReferralInit
  <2>2. SumFunctionOnSet(earned, Addresses) = 0 /\ SumFunctionOnSet(feeVolume, Addresses) = 0
    BY <2>1, SumZero
  <2>3. SumFunction(earned) = 0 /\ SumFunction(feeVolume) = 0
    BY <2>1, <2>2 DEF SumFunction
  <2>4. QED
    BY <2>3 DEF WithinTopTier
<1>6. QED
  BY <1>1, <1>2, <1>3, <1>4, <1>5 DEF ReferralSound

\* A registration closes no circle of up to three accounts: the new edge would
\* have to be in it, and the two accounts above the new referrer are looked up.
LEMMA RegisterStep ==
  ASSUME ReferralSound, NEW by \in Addresses, NEW a \in Addresses, RegisterReferral(by, a)
  PROVE  ReferralSound'
<1>1. /\ referrer \in [Addresses -> Addresses \union {NoOne}] /\ NoOne \notin Addresses
      /\ directs \in [Addresses -> Nat]
  BY ReferralAssumption DEF ReferralSound, ReferralTypeOK
<1>2. by # a /\ referrer[a] = NoOne /\ ReferrerOf(by) # a /\ ReferrerOf(ReferrerOf(by)) # a
  BY DEF RegisterReferral, IsCircular
<1>3. referrer' = [referrer EXCEPT ![a] = by] /\ directs' = [directs EXCEPT ![by] = @ + 1]
  BY DEF RegisterReferral
<1>4. ReferralTypeOK'
  BY <1>1, <1>3 DEF RegisterReferral, ReferralSound, ReferralTypeOK
<1>5. NoShortCircle'
  <2>1. \A x \in Addresses : referrer'[x] = IF x = a THEN by ELSE referrer[x]
    BY <1>1, <1>3
  <2>2. \A x : ReferrerOf(x)' = IF x = NoOne THEN NoOne ELSE referrer'[x]
    BY DEF ReferrerOf
  <2>3. \A x : ReferrerOf(x) = IF x = NoOne THEN NoOne ELSE referrer[x]
    BY DEF ReferrerOf
  <2>4. \A x \in Addresses : referrer[x] \in Addresses \/ referrer[x] = NoOne
    BY <1>1
  <2>5. \A x \in Addresses :
          x \notin {referrer[x], ReferrerOf(referrer[x]), ReferrerOf(ReferrerOf(referrer[x]))}
    BY DEF ReferralSound, NoShortCircle
  <2>6. ASSUME NEW x \in Addresses
        PROVE  x # referrer'[x] /\ x # ReferrerOf(referrer[x])' /\ x # ReferrerOf(ReferrerOf(referrer[x]))'
    <3> DEFINE R(y) == IF y = NoOne THEN NoOne ELSE referrer[y]
               Q(y) == IF y = NoOne THEN NoOne ELSE IF y = a THEN by ELSE referrer[y]
    <3>1. \A y \in Addresses \union {NoOne} : R(y) \in Addresses \union {NoOne} /\ Q(y) \in Addresses \union {NoOne}
      BY <1>1
    <3>2. R(by) # a /\ R(R(by)) # a /\ R(a) = NoOne /\ R(NoOne) = NoOne
      BY <1>1, <1>2 DEF ReferrerOf
    <3>3. \A y \in Addresses : y # R(y) /\ y # R(R(y)) /\ y # R(R(R(y)))
      BY <1>1, <2>5 DEF ReferrerOf
    <3>4. \A y \in Addresses \union {NoOne} : Q(y) = IF y = a THEN by ELSE R(y)
      BY <1>1
    <3> HIDE DEF R, Q
    <3>5. x # Q(x) /\ x # Q(Q(x)) /\ x # Q(Q(Q(x)))
      BY <1>1, <1>2, <3>1, <3>2, <3>3, <3>4
    <3>6. referrer'[x] = Q(x) /\ ReferrerOf(referrer[x])' = Q(Q(x))
          /\ ReferrerOf(ReferrerOf(referrer[x]))' = Q(Q(Q(x)))
      BY <1>1, <2>1, <2>4 DEF Q, ReferrerOf
    <3>7. QED
      BY <3>5, <3>6
  <2>7. QED
    BY <2>6 DEF NoShortCircle
<1>6. ASSUME NEW x \in Addresses PROVE directs'[x] = Cardinality({b \in Addresses : referrer'[b] = x})
  <2> DEFINE D == {b \in Addresses : referrer[b] = x}
             E == {b \in Addresses : referrer'[b] = x}
  <2>1. directs[x] = Cardinality(D)
    BY DEF ReferralSound, DirectsCounted
  <2>2. IsFiniteSet(D) /\ a \notin D
    <3>1. D \subseteq Addresses
      OBVIOUS
    <3>2. a \notin D
      BY <1>1, <1>2
    <3>3. QED
      BY <3>1, <3>2, ReferralAssumption, FS_Subset
  <2>3. E = IF x = by THEN D \union {a} ELSE D
    BY <1>1, <1>2, <1>3
  <2>4. directs'[x] = IF x = by THEN directs[x] + 1 ELSE directs[x]
    BY <1>1, <1>3
  <2> HIDE DEF D
  <2>5. Cardinality(D \union {a}) = Cardinality(D) + 1
    BY <2>2, FS_AddElement
  <2> HIDE DEF E
  <2>6. directs'[x] = Cardinality(E)
    BY <2>1, <2>3, <2>4, <2>5
  <2>7. QED
    BY <2>6 DEF E
<1>7. DirectsCounted'
  BY <1>6, Zenon DEF DirectsCounted
<1>8. CommissionsAccounted' /\ WithinTopTier'
  BY DEF ReferralSound, CommissionsAccounted, WithinTopTier, RegisterReferral
<1>9. QED
  BY <1>4, <1>5, <1>7, <1>8 DEF ReferralSound

\* What one fee earns its referrers is within the top tier's shares of it.
LEMMA FeeSplits ==
  ASSUME NEW trader \in Addresses, NEW paid \in Nat, feeVolume[trader] \in Nat, NEW c,
         \A a \in Addresses : c[a] = Commission(a, trader, paid)
  PROVE  /\ \A a \in Addresses : c[a] \in Nat
         /\ 10000 * SumFunctionOnSet(c, Addresses) <= 140 * paid
<1> DEFINE v == feeVolume[trader]
           t1 == TierFor(v)[1]
           t2 == TierFor(v)[2]
           r1 == referrer[trader]
           r2 == ReferrerOf(referrer[trader])
           x1 == (paid * t1) \div 10000
           x2 == (paid * t2) \div 10000
           f == [a \in Addresses |-> IF a = r1 THEN x1 ELSE 0]
           g == [a \in Addresses |-> IF a = r2 THEN x2 ELSE 0]
<1>1. t1 \in Nat /\ t2 \in Nat /\ t1 <= 100 /\ t2 <= 40
  BY DEF TierFor
<1>2. \A a \in Addresses : c[a] = (IF a = r1 THEN x1 ELSE 0) + (IF a = r2 THEN x2 ELSE 0)
  <2>1. ASSUME NEW a \in Addresses
        PROVE  Commission(a, trader, paid) = (IF a = r1 THEN x1 ELSE 0) + (IF a = r2 THEN x2 ELSE 0)
    BY DEF Commission
  <2> HIDE DEF x1, x2, r1, r2
  <2>2. QED
    BY <2>1
<1> HIDE DEF t1, t2
<1>3. /\ paid * t1 \in Nat /\ paid * t2 \in Nat
      /\ paid * t1 <= paid * 100 /\ paid * t2 <= paid * 40
  BY <1>1, MulNat, MulMono
<1>4. x1 \in Nat /\ x2 \in Nat /\ 10000 * x1 <= paid * 100 /\ 10000 * x2 <= paid * 40
  <2> DEFINE p1 == paid * t1
             p2 == paid * t2
  <2>1. x1 = p1 \div 10000 /\ x2 = p2 \div 10000
        /\ p1 \in Nat /\ p2 \in Nat /\ p1 <= paid * 100 /\ p2 <= paid * 40
    BY <1>3
  <2> HIDE DEF p1, p2, x1, x2
  <2>2. QED
    BY <2>1
<1> HIDE DEF x1, x2, r1, r2
<1>5. /\ \A a \in Addresses : f[a] = IF a = r1 THEN x1 ELSE 0
      /\ \A a \in Addresses : g[a] = IF a = r2 THEN x2 ELSE 0
  OBVIOUS
<1> HIDE DEF f, g
<1>6. ASSUME NEW a \in Addresses PROVE f[a] \in Nat /\ g[a] \in Nat /\ c[a] = f[a] + g[a]
  BY <1>2, <1>4, <1>5
<1>7. /\ SumFunctionOnSet(f, Addresses) = IF r1 \in Addresses THEN x1 ELSE 0
      /\ SumFunctionOnSet(g, Addresses) = IF r2 \in Addresses THEN x2 ELSE 0
  <2>1. IsFiniteSet(Addresses) /\ x1 \in Int /\ x2 \in Int
    BY <1>4, ReferralAssumption
  <2>2. SumFunctionOnSet(f, Addresses) = IF r1 \in Addresses THEN x1 ELSE 0
    BY <1>5, <2>1, SumAtOne
  <2>3. SumFunctionOnSet(g, Addresses) = IF r2 \in Addresses THEN x2 ELSE 0
    BY <1>5, <2>1, SumAtOne
  <2>4. QED
    BY <2>2, <2>3
<1>8. SumFunctionOnSet(c, Addresses) = SumFunctionOnSet(f, Addresses) + SumFunctionOnSet(g, Addresses)
  BY <1>6, ReferralAssumption, SumPlus
<1>9. QED
  BY <1>4, <1>6, <1>7, <1>8

LEMMA PayFeeStep ==
  ASSUME ReferralSound, NEW trader \in Addresses, NEW paid \in SwapFees, PayFee(trader, paid)
  PROVE  ReferralSound'
<1> DEFINE c == [a \in Addresses |-> Commission(a, trader, paid)]
<1>1. paid \in Nat /\ IsFiniteSet(Addresses) /\ MaxVolume \in Nat
  BY ReferralAssumption
<1>2. /\ feeVolume \in [Addresses -> Nat] /\ feeVolume \in [Addresses -> 0 .. MaxVolume]
      /\ earned \in [Addresses -> Nat] /\ commission \in [Addresses -> Nat]
  BY <1>1 DEF ReferralSound, ReferralTypeOK
<1>3. /\ \A a \in Addresses : c[a] \in Nat
      /\ 10000 * SumFunctionOnSet(c, Addresses) <= 140 * paid
  <2>1. (\A a \in Addresses : c[a] = Commission(a, trader, paid)) /\ feeVolume[trader] \in Nat
    BY <1>2
  <2> HIDE DEF c
  <2>2. QED
    BY <1>1, <2>1, FeeSplits
<1>4. /\ commission' = [a \in Addresses |-> commission[a] + c[a]]
      /\ earned' = [a \in Addresses |-> earned[a] + c[a]]
      /\ feeVolume' = [feeVolume EXCEPT ![trader] = @ + paid]
      /\ SumFunction(feeVolume) + paid <= MaxVolume
      /\ UNCHANGED << referrer, directs, withdrawn >>
  BY DEF PayFee
<1> HIDE DEF c
<1>5. /\ SumFunction(feeVolume) = SumFunctionOnSet(feeVolume, Addresses)
      /\ SumFunction(earned) = SumFunctionOnSet(earned, Addresses)
      /\ SumFunction(feeVolume)' = SumFunctionOnSet(feeVolume', Addresses)
      /\ SumFunction(earned)' = SumFunctionOnSet(earned', Addresses)
  BY <1>2, <1>4 DEF SumFunction
<1>6. /\ SumFunctionOnSet(feeVolume, Addresses) \in Nat
      /\ SumFunctionOnSet(earned, Addresses) \in Nat
      /\ SumFunctionOnSet(c, Addresses) \in Nat
      /\ feeVolume[trader] <= SumFunctionOnSet(feeVolume, Addresses)
  <2>1. /\ \A a \in Addresses : feeVolume[a] \in Nat
        /\ \A a \in Addresses : earned[a] \in Nat
    BY <1>2
  <2>2. QED
    BY <1>1, <1>3, <2>1, SumType, SumBounds
<1>7. SumFunctionOnSet(feeVolume', Addresses) = SumFunctionOnSet(feeVolume, Addresses) + paid
  <2>1. /\ \A a \in Addresses : feeVolume[a] \in Int
        /\ feeVolume'[trader] = feeVolume[trader] + paid
        /\ \A a \in Addresses : a # trader => feeVolume'[a] = feeVolume[a]
        /\ feeVolume'[trader] \in Int
    BY <1>1, <1>2, <1>4
  <2>2. SumFunctionOnSet(feeVolume', Addresses)
          = SumFunctionOnSet(feeVolume, Addresses) - feeVolume[trader] + feeVolume'[trader]
    BY <1>1, <2>1, SumChange
  <2>3. QED
    BY <1>1, <1>2, <1>6, <2>1, <2>2
<1>8. SumFunctionOnSet(earned', Addresses)
        = SumFunctionOnSet(earned, Addresses) + SumFunctionOnSet(c, Addresses)
  <2>1. /\ \A a \in Addresses : earned[a] \in Int
        /\ \A a \in Addresses : c[a] \in Int
        /\ \A a \in Addresses : earned'[a] = earned[a] + c[a]
    BY <1>2, <1>3, <1>4
  <2>2. QED
    BY <1>1, <2>1, SumPlus
<1>9. WithinTopTier'
  <2>1. 10000 * SumFunctionOnSet(earned, Addresses) <= 140 * SumFunctionOnSet(feeVolume, Addresses)
    BY <1>5 DEF ReferralSound, WithinTopTier
  <2>2. 10000 * SumFunctionOnSet(earned', Addresses) <= 140 * SumFunctionOnSet(feeVolume', Addresses)
    BY <1>1, <1>3, <1>6, <1>7, <1>8, <2>1
  <2>3. QED
    BY <1>5, <2>2 DEF WithinTopTier
<1>10. ReferralTypeOK'
  <2>1. commission' \in [Addresses -> Nat] /\ earned' \in [Addresses -> Nat]
    BY <1>2, <1>3, <1>4
  <2>2. feeVolume' \in [Addresses -> 0 .. MaxVolume]
    BY <1>1, <1>2, <1>4, <1>5, <1>6
  <2>3. QED
    BY <1>4, <2>1, <2>2 DEF ReferralSound, ReferralTypeOK
<1>11. CommissionsAccounted'
  <2>1. ASSUME NEW a \in Addresses PROVE earned'[a] = commission'[a] + withdrawn'[a]
    <3>1. earned[a] = commission[a] + withdrawn[a] /\ withdrawn[a] \in Nat
          /\ commission[a] \in Nat /\ earned[a] \in Nat /\ c[a] \in Nat
      BY <1>2, <1>3 DEF ReferralSound, ReferralTypeOK, CommissionsAccounted
    <3>2. QED
      BY <1>4, <3>1
  <2>2. QED
    BY <2>1 DEF CommissionsAccounted
<1>12. NoShortCircle' /\ DirectsCounted'
  BY <1>4 DEF ReferralSound, NoShortCircle, DirectsCounted, ReferrerOf
<1>13. QED
  BY <1>9, <1>10, <1>11, <1>12 DEF ReferralSound

LEMMA WithdrawCommissionStep ==
  ASSUME ReferralSound, NEW a \in Addresses, WithdrawCommission(a)
  PROVE  ReferralSound'
<1>1. /\ commission' = [commission EXCEPT ![a] = 0]
      /\ withdrawn' = [withdrawn EXCEPT ![a] = @ + commission[a]]
      /\ UNCHANGED << referrer, directs, earned, feeVolume >>
  BY DEF WithdrawCommission, Reset
<1>2. ReferralTypeOK'
  BY <1>1 DEF ReferralSound, ReferralTypeOK
<1>3. CommissionsAccounted'
  BY <1>1 DEF ReferralSound, ReferralTypeOK, CommissionsAccounted
<1>4. NoShortCircle' /\ DirectsCounted' /\ WithinTopTier'
  BY <1>1 DEF ReferralSound, NoShortCircle, DirectsCounted, ReferrerOf, WithinTopTier
<1>5. QED
  BY <1>2, <1>3, <1>4 DEF ReferralSound

LEMMA ReferralStay ==
  ASSUME ReferralSound, UNCHANGED referralVars
  PROVE  ReferralSound'
<1>1. UNCHANGED << referrer, directs, earned, commission, feeVolume, withdrawn >>
  BY DEF referralVars
<1>2. ReferralTypeOK' /\ NoShortCircle' /\ CommissionsAccounted' /\ DirectsCounted' /\ WithinTopTier'
  BY <1>1 DEF ReferralSound, ReferralTypeOK, NoShortCircle, CommissionsAccounted, DirectsCounted,
              WithinTopTier, ReferrerOf
<1>3. QED
  BY <1>2 DEF ReferralSound

LEMMA ReferralStep == ReferralSound /\ [ServicesNext]_servicesVars => ReferralSound'
<1> SUFFICES ASSUME ReferralSound, [ServicesNext]_servicesVars PROVE ReferralSound'
  OBVIOUS
<1>1. ReferralNext \/ UNCHANGED referralVars
  BY DEF ServicesNext, Focused, servicesVars
<1>2. CASE ReferralNext
  BY <1>2, RegisterStep, PayFeeStep, WithdrawCommissionStep, ReferralStay DEF ReferralNext
<1>3. QED
  BY <1>1, <1>2, ReferralStay

\* For any accounts and fees: nobody earns from its own fees within three steps
\* of referral, direct referrals and commissions are counted to the last one, and
\* the commissions stay within the top tier's shares of the fees.
THEOREM ReferralsAlwaysSound == ServicesSpec => []ReferralSound
<1>1. ServicesInit => ReferralSound
  BY ReferralInvInit DEF ServicesInit
<1>2. QED
  BY <1>1, ReferralStep, PTL DEF ServicesSpec

-----------------------------------------------------------------------------
(* The price feed *)

\* What the feed took is what it holds, and the fallback of a tripped breaker is
\* the price in force at the trip.
FeedOf(S) ==
  [current : S, history : Seq(S), last : Nat, tripped : BOOLEAN, fallback : S]

AdapterInv ==
  /\ settings \in FeedConfig
  /\ IsFiniteSet(accepted) /\ accepted \subseteq Nat
  /\ feed \in FeedOf(accepted) /\ feed.last <= now
  /\ feed.tripped => feed.fallback = heldSince /\ feed.fallback > 0

LEMMA SeqWidens ==
  ASSUME NEW S, NEW T, S \subseteq T, NEW s \in Seq(S)
  PROVE  s \in Seq(T)
<1>1. Len(s) \in Nat /\ s \in [1 .. Len(s) -> S]
  BY LenProperties
<1>2. s \in [1 .. Len(s) -> T]
  BY <1>1
<1>3. QED
  BY <1>1, <1>2

LEMMA LastOfIn ==
  ASSUME NEW S, NEW s \in Seq(S), NEW w \in Nat
  PROVE  LastOf(s, w) \in Seq(S) /\ Len(LastOf(s, w)) = IF Len(s) > w THEN w ELSE Len(s)
<1>1. Len(s) \in Nat
  BY LenProperties
<1>2. CASE Len(s) > w
  <2> DEFINE m == Len(s) - w + 1
             n == Len(s)
  <2>1. m \in Int /\ n \in Int /\ \A i \in m .. n : s[i] \in S
    BY <1>1, <1>2, ElementOfSeq
  <2>2. SubSeq(s, m, n) \in Seq(S) /\ Len(SubSeq(s, m, n)) = IF m <= n THEN n - m + 1 ELSE 0
    <3> HIDE DEF m, n
    <3>1. QED
      BY <2>1, SubSeqProperties
  <2>3. Len(SubSeq(s, m, n)) = w
    BY <1>1, <1>2, <2>2
  <2>4. QED
    BY <1>2, <2>2, <2>3 DEF LastOf
<1>3. CASE ~ (Len(s) > w)
  BY <1>3 DEF LastOf
<1>4. QED
  BY <1>2, <1>3

\* The average of prices the feed took is between prices the feed took.
LEMMA TwapWithin ==
  ASSUME AdapterInv, Len(feed.history) >= settings.window
  PROVE  LET p == Twap(feed.history, settings.window) IN
         p \in Nat /\ Min(accepted) <= p /\ p <= Max(accepted)
<1> DEFINE w == settings.window
           recent == LastOf(feed.history, w)
<1>0. feed \in FeedOf(accepted)
  BY DEF AdapterInv
<1>1. w \in Nat /\ w > 0 /\ feed.history \in Seq(accepted) /\ accepted \subseteq Nat
      /\ IsFiniteSet(accepted) /\ accepted # {}
  <2>1. settings \in FeedConfig
    BY DEF AdapterInv
  <2>2. w \in 1 .. 100
    BY <2>1 DEF FeedConfig
  <2> HIDE DEF w
  <2>3. w \in Nat /\ w > 0
    BY <2>2
  <2>4. QED
    BY <1>0, <2>3 DEF AdapterInv, FeedOf
<1>2. recent \in Seq(accepted) /\ Len(recent) = w
  <2>1. Len(feed.history) \in Nat
    BY <1>1, LenProperties
  <2>2. recent \in Seq(accepted)
        /\ Len(recent) = IF Len(feed.history) > w THEN w ELSE Len(feed.history)
    <3> HIDE DEF w
    <3>1. QED
      BY <1>1, LastOfIn
  <2>3. QED
    BY <1>1, <2>1, <2>2
<1>3. Twap(feed.history, w) = SumFunctionOnSet(recent, 1 .. w) \div w
  <2>1. DOMAIN recent = 1 .. w
    BY <1>2, LenProperties
  <2> HIDE DEF w
  <2>2. QED
    BY <1>2, <2>1 DEF Twap, SumFunction
<1>4. Min(accepted) \in accepted /\ Max(accepted) \in accepted
      /\ \A p \in accepted : Min(accepted) <= p /\ p <= Max(accepted)
  BY <1>1, MinIn, FiniteMax
<1> HIDE DEF recent, w
<1>5. \A i \in 1 .. w : recent[i] \in Nat /\ Min(accepted) <= recent[i] /\ recent[i] <= Max(accepted)
  <2>1. \A i \in 1 .. w : recent[i] \in accepted
    BY <1>2, ElementOfSeq
  <2>2. QED
    BY <1>1, <1>4, <2>1
<1>6. LET mean == SumFunctionOnSet(recent, 1 .. w) \div w IN
      mean \in Nat /\ Min(accepted) <= mean /\ mean <= Max(accepted)
  <2>1. Min(accepted) \in Nat /\ Max(accepted) \in Nat
    BY <1>1, <1>4
  <2>2. QED
    BY <1>1, <1>5, <2>1, AverageWithin
<1>7. QED
  BY <1>3, <1>6 DEF w

LEMMA AdapterInvSound == AdapterInv /\ now \in Nat => FeedSound
<1> SUFFICES ASSUME AdapterInv, now \in Nat PROVE FeedSound
  OBVIOUS
<1>1. /\ IsFiniteSet(accepted) /\ accepted \subseteq Nat /\ accepted # {}
      /\ feed.current \in accepted /\ feed.fallback \in accepted
      /\ feed.history \in Seq(accepted)
      /\ feed.last \in Nat /\ feed.tripped \in BOOLEAN
      /\ feed.tripped => feed.fallback = heldSince /\ feed.fallback > 0
  BY DEF AdapterInv, FeedOf
<1>2. AdapterTypeOK
  <2>1. feed.history \in Seq(Nat)
    BY <1>1, SeqWidens
  <2>2. QED
    BY <1>1, <2>1 DEF AdapterInv, AdapterTypeOK
<1>3. \A p \in accepted : Min(accepted) <= p /\ p <= Max(accepted)
  BY <1>1, MinIn, FiniteMax
<1>4. ReportedIsAccepted
  <2>1. CASE ~settings.active
    BY <2>1, AdapterAssumption DEF ReportedIsAccepted, Reported
  <2>2. CASE settings.active /\ (Stale \/ feed.tripped)
    BY <1>1, <1>3, <2>2, AdapterAssumption DEF ReportedIsAccepted, Reported
  <2>3. CASE settings.active /\ ~(Stale \/ feed.tripped) /\ Len(feed.history) >= settings.window
    <3>1. Reported = Twap(feed.history, settings.window)
      BY <2>3 DEF Reported
    <3>2. QED
      BY <2>3, <3>1, TwapWithin DEF ReportedIsAccepted
  <2>4. CASE settings.active /\ ~(Stale \/ feed.tripped) /\ ~(Len(feed.history) >= settings.window)
    <3>1. Reported = feed.current
      BY <2>4 DEF Reported
    <3>2. QED
      BY <1>1, <1>3, <3>1 DEF ReportedIsAccepted
  <2>5. QED
    BY <2>1, <2>2, <2>3, <2>4
<1>5. HeldWhileTripped
  BY <1>1 DEF HeldWhileTripped, Reported
<1>6. QED
  BY <1>2, <1>4, <1>5 DEF FeedSound

LEMMA AdapterInvInit == AdminInit /\ AdapterInit => AdapterInv
<1> SUFFICES ASSUME AdminInit, AdapterInit PROVE AdapterInv
  OBVIOUS
<1>1. FirstPrice \in Nat /\ DefaultFeed \in FeedConfig
  BY AdapterAssumption
<1>2. feed = [current |-> FirstPrice, history |-> << >>, last |-> 0, tripped |-> FALSE,
              fallback |-> FirstPrice] /\ now = 0
  BY DEF AdminInit, AdapterInit, NewFeed
<1>3. << >> \in Seq(accepted) /\ IsFiniteSet({FirstPrice}) /\ accepted = {FirstPrice}
  BY EmptySeq, FS_Singleton DEF AdapterInit
<1>4. feed \in FeedOf(accepted)
  BY <1>1, <1>2, <1>3 DEF FeedOf
<1>5. QED
  BY <1>1, <1>2, <1>3, <1>4 DEF AdapterInit, AdapterInv

LEMMA UpdatePriceStep ==
  ASSUME AdapterInv, now \in Nat, NEW price \in FeedPrices, UpdatePrice(price), UNCHANGED now
  PROVE  AdapterInv'
<1> DEFINE w == settings.window
           h == LastOf(Append(feed.history, price), w)
<1>1. /\ accepted' = accepted \union {price} /\ settings' = settings /\ heldSince' = heldSince
      /\ price \in Nat
  BY AdapterAssumption DEF UpdatePrice
<1> DEFINE t == feed.tripped /\ Deviation(feed.fallback, price) > settings.threshold \div 2
<1>0. feed \in FeedOf(accepted)
  BY DEF AdapterInv
<1>2. feed' = [current |-> price, last |-> now, fallback |-> feed.fallback, history |-> h,
               tripped |-> t]
  BY DEF UpdatePrice, Held
<1>3. IsFiniteSet(accepted') /\ accepted' \subseteq Nat
  BY <1>1, FS_AddElement DEF AdapterInv
<1>4. h \in Seq(accepted')
  <2>1. accepted \subseteq accepted' /\ price \in accepted'
    BY <1>1
  <2>2. feed.history \in Seq(accepted')
    BY <1>0, <2>1, SeqWidens DEF FeedOf
  <2>3. Append(feed.history, price) \in Seq(accepted')
    BY <2>1, <2>2, AppendProperties
  <2>4. w \in Nat
    <3>1. settings \in FeedConfig
      BY DEF AdapterInv
    <3>2. w \in 1 .. 100
      BY <3>1 DEF FeedConfig
    <3>3. QED
      BY <3>2
  <2> HIDE DEF w
  <2>5. QED
    BY <2>3, <2>4, LastOfIn
<1> HIDE DEF h
<1>5. t \in BOOLEAN /\ (t => feed.tripped)
  OBVIOUS
<1> HIDE DEF t
<1>6. feed' \in FeedOf(accepted')
  BY <1>0, <1>1, <1>2, <1>4, <1>5 DEF FeedOf
<1>7. QED
  BY <1>1, <1>2, <1>3, <1>5, <1>6 DEF AdapterInv

LEMMA TripBreakerStep ==
  ASSUME AdapterInv, NEW price \in FeedPrices, TripBreaker(price), UNCHANGED now
  PROVE  AdapterInv'
<1>1. /\ UNCHANGED << settings, accepted, now >> /\ heldSince' = feed.current /\ feed.current > 0
      /\ feed' = [feed EXCEPT !.tripped = TRUE, !.fallback = feed.current]
  BY DEF TripBreaker, Trips
<1>2. /\ feed' \in FeedOf(accepted) /\ feed'.last = feed.last
      /\ feed'.fallback = feed.current /\ feed \in FeedOf(accepted)
  BY <1>1 DEF AdapterInv, FeedOf
<1>3. QED
  BY <1>1, <1>2 DEF AdapterInv

LEMMA AdapterCallStep ==
  ASSUME AdapterInv, now \in Nat, AdapterNext, UNCHANGED now
  PROVE  AdapterInv'
<1>1. ASSUME NEW price \in FeedPrices, TripBreaker(price) \/ UpdatePrice(price) PROVE AdapterInv'
  BY <1>1, TripBreakerStep, UpdatePriceStep
<1>2. ASSUME NEW price \in FeedPrices, InitializeOracle(price) PROVE AdapterInv'
  <2>1. /\ settings' = DefaultFeed /\ accepted' = {price} /\ heldSince' = price
        /\ feed' = [current |-> price, history |-> << >>, last |-> now, tripped |-> FALSE,
                    fallback |-> price]
    BY <1>2 DEF InitializeOracle, NewFeed
  <2>2. << >> \in Seq(accepted') /\ IsFiniteSet({price}) /\ price \in Nat /\ DefaultFeed \in FeedConfig
    BY EmptySeq, FS_Singleton, AdapterAssumption
  <2>3. feed' \in FeedOf(accepted')
    BY <2>1, <2>2 DEF FeedOf
  <2>4. QED
    BY <2>1, <2>2, <2>3 DEF AdapterInv
<1>3. ASSUME NEW c \in FeedConfigs, UpdateConfig(c) PROVE AdapterInv'
  <2>1. /\ c \in [stale : Nat, threshold : Nat, window : Nat, active : BOOLEAN]
        /\ c.window > 0 /\ c.window <= 100 /\ settings \in FeedConfig
        /\ settings' = [c EXCEPT !.active = settings.active]
        /\ UNCHANGED << feed, accepted, heldSince, now >>
    BY <1>3, AdapterAssumption DEF UpdateConfig, ValidWindow, AdapterInv
  <2>2. settings' \in FeedConfig
    BY <2>1 DEF FeedConfig
  <2>3. QED
    BY <2>1, <2>2 DEF AdapterInv
<1>4. ASSUME NEW active \in BOOLEAN, SetOracleActive(active) PROVE AdapterInv'
  <2>1. /\ settings \in FeedConfig /\ settings' = [settings EXCEPT !.active = active]
        /\ UNCHANGED << feed, accepted, heldSince, now >>
    BY <1>4 DEF SetOracleActive, AdapterInv
  <2>2. settings' \in FeedConfig
    BY <2>1 DEF FeedConfig
  <2>3. QED
    BY <2>1, <2>2 DEF AdapterInv
<1>5. CASE ResetCircuitBreaker
  <2>1. /\ feed' = [feed EXCEPT !.tripped = FALSE] /\ feed \in FeedOf(accepted)
        /\ UNCHANGED << settings, accepted, heldSince, now >>
    BY <1>5 DEF ResetCircuitBreaker, AdapterInv
  <2>2. feed' \in FeedOf(accepted) /\ feed'.last = feed.last /\ feed'.tripped = FALSE
    BY <2>1 DEF FeedOf
  <2>3. QED
    BY <2>1, <2>2 DEF AdapterInv
<1>6. QED
  BY <1>1, <1>2, <1>3, <1>4, <1>5 DEF AdapterNext

LEMMA AdapterStep == AdminTypeOK /\ AdapterInv /\ [ServicesNext]_servicesVars => AdapterInv'
<1> SUFFICES ASSUME AdminTypeOK, AdapterInv, [ServicesNext]_servicesVars PROVE AdapterInv'
  OBVIOUS
<1>1. TimeGoesOn
  BY ClockStep
<1>2. (AdapterNext /\ UNCHANGED now) \/ UNCHANGED adapterVars
  BY DEF ServicesNext, Focused, servicesVars, adminVars
<1>3. CASE AdapterNext /\ UNCHANGED now
  BY <1>1, <1>3, AdapterCallStep DEF TimeGoesOn
<1>4. CASE UNCHANGED adapterVars
  <2>1. UNCHANGED << settings, feed, accepted, heldSince >>
    BY <1>4 DEF adapterVars
  <2>2. feed.last \in Nat /\ feed.last <= now
    BY DEF AdapterInv, FeedOf
  <2>3. feed.last <= now'
    BY <1>1, <2>2 DEF TimeGoesOn
  <2>4. QED
    BY <2>1, <2>3 DEF AdapterInv
<1>5. QED
  BY <1>2, <1>3, <1>4

\* Whatever prices are posted, in any order and under settings changed at any
\* time, the price reported is one the feed took or an average of such, and while
\* the breaker is tripped the one in force at the trip.
THEOREM FeedAlwaysSound == ServicesSpec => []FeedSound
<1>1. ServicesInit => AdminTypeOK /\ AdapterInv
  BY ClockInit, AdapterInvInit DEF ServicesInit
<1>2. (AdminTypeOK /\ AdapterInv) /\ [ServicesNext]_servicesVars => (AdminTypeOK /\ AdapterInv)'
  BY ClockStep, AdapterStep
<1>3. AdminTypeOK /\ AdapterInv => FeedSound
  BY AdapterInvSound DEF AdminTypeOK
<1>4. QED
  BY <1>1, <1>2, <1>3, PTL DEF ServicesSpec

-----------------------------------------------------------------------------
(* Badges *)

Names == {"FirstTrade", "Trader", "LiquidityProvider"}
Badge == Traders \X Names
Portfolios == [trades : [Traders -> Nat], deposits : [Traders -> Nat], held : SUBSET Badge]
Works == [on : Portfolios, buffer : Seq(Badge)]

\* Badges and activity of a Portfolio agree.
EarnedIn(r) ==
  \A u \in Traders :
    /\ << u, "FirstTrade" >> \in r.held <=> r.trades[u] > 0
    /\ << u, "Trader" >> \in r.held => r.trades[u] >= TraderBadgeAt
    /\ << u, "LiquidityProvider" >> \in r.held => r.deposits[u] > 0

\* A Portfolio in progress that began with the badges h and the announcements b.
WorkFrom(h, b) ==
  {w \in Works : /\ EarnedIn(w.on)
                 /\ w.on.held \subseteq h \union Range(w.buffer)
                 /\ b \subseteq Range(w.buffer)}

BadgesInv ==
  /\ record \in Portfolios /\ buffer \in Seq(Badge) /\ EarnedIn(record)
  /\ record.trades \in [Traders -> 0 .. MaxTrades]
  /\ record.held \subseteq announced \union Range(buffer) \union lost
  /\ logsInfo \in BOOLEAN

LEMMA BadgesInvSound == BadgesInv => BadgesSound
BY DEF BadgesInv, BadgesSound, BadgesTypeOK, EarnedIn, Portfolios, Badge, Names

LEMMA BadgesInvInit == BadgesInit => BadgesInv
<1> SUFFICES ASSUME BadgesInit PROVE BadgesInv
  OBVIOUS
<1>1. record \in Portfolios /\ record.held = {} /\ record.trades \in [Traders -> 0 .. MaxTrades]
      /\ \A u \in Traders : record.trades[u] = 0
  BY BadgesAssumption DEF BadgesInit, Portfolios
<1>2. buffer \in Seq(Badge) /\ logsInfo \in BOOLEAN
  BY EmptySeq DEF BadgesInit
<1>3. EarnedIn(record)
  BY <1>1 DEF EarnedIn
<1>4. QED
  BY <1>1, <1>2, <1>3 DEF BadgesInv

\* What award_badge makes of w.
AwardOf(w, v, b) ==
  /\ v \in Works
  /\ v.on.trades = w.on.trades /\ v.on.deposits = w.on.deposits
  /\ v.on.held = w.on.held \union {b}
  /\ Range(w.buffer) \subseteq Range(v.buffer)
  /\ v.on.held \subseteq w.on.held \union Range(v.buffer)

LEMMA AwardedIs ==
  ASSUME NEW w \in Works, NEW u \in Traders, NEW name \in Names
  PROVE  AwardOf(w, Awarded(w, u, name), << u, name >>)
<1> DEFINE b == << u, name >>
           p == [w.on EXCEPT !.held = @ \union {b}]
           q == Append(w.buffer, b)
<1>1. b \in Badge /\ w.on \in Portfolios /\ w.buffer \in Seq(Badge)
  BY DEF Badge, Works
<1>2. CASE b \in w.on.held
  <2>1. Awarded(w, u, name) = w
    BY <1>2 DEF Awarded
  <2> HIDE DEF b
  <2>2. AwardOf(w, w, b)
    BY <1>2 DEF AwardOf
  <2>3. QED
    BY <2>1, <2>2 DEF b
<1>3. CASE b \notin w.on.held
  <2>1. Awarded(w, u, name) = [on |-> p, buffer |-> q]
    BY <1>3 DEF Awarded
  <2> HIDE DEF b
  <2>2. p \in Portfolios /\ p.trades = w.on.trades /\ p.deposits = w.on.deposits
        /\ p.held = w.on.held \union {b}
    BY <1>1 DEF Portfolios
  <2>3. q \in Seq(Badge) /\ Range(q) = Range(w.buffer) \union {b}
    <3>1. /\ Len(w.buffer) \in Nat /\ DOMAIN w.buffer = 1 .. Len(w.buffer)
          /\ q \in Seq(Badge) /\ Len(q) = Len(w.buffer) + 1 /\ DOMAIN q = 1 .. Len(q)
          /\ \A i \in 1 .. Len(w.buffer) : q[i] = w.buffer[i]
          /\ q[Len(w.buffer) + 1] = b
      BY <1>1, LenProperties, AppendProperties
    <3> HIDE DEF q
    <3>2. \A i \in DOMAIN q : i \in DOMAIN w.buffer \/ i = Len(w.buffer) + 1
      BY <3>1
    <3>3. \A i \in DOMAIN w.buffer : i \in DOMAIN q
      BY <3>1
    <3>4. QED
      BY <3>1, <3>2, <3>3 DEF Range
  <2> HIDE DEF p, q
  <2>4. AwardOf(w, [on |-> p, buffer |-> q], b)
    BY <2>2, <2>3 DEF AwardOf, Works
  <2>5. QED
    BY <2>1, <2>4 DEF b
<1>4. QED
  BY <1>2, <1>3

LEMMA TradedKeeps ==
  ASSUME NEW h, NEW b, NEW w \in WorkFrom(h, b), NEW u \in Traders
  PROVE  Traded(w, u) \in WorkFrom(h, b)
<1> DEFINE t == [w.on.trades EXCEPT ![u] = @ + 1]
           n == [w EXCEPT !.on.trades[u] = @ + 1]
<1>1. w \in Works /\ w.on \in Portfolios /\ EarnedIn(w.on)
      /\ w.on.held \subseteq h \union Range(w.buffer) /\ b \subseteq Range(w.buffer)
  BY DEF WorkFrom, Works
<1>2. t \in [Traders -> Nat] /\ \A x \in Traders : t[x] = IF x = u THEN w.on.trades[x] + 1 ELSE w.on.trades[x]
  BY <1>1 DEF Portfolios
<1>3. n = [w EXCEPT !.on = [w.on EXCEPT !.trades = t]]
  OBVIOUS
<1> HIDE DEF t, n
<1>4. /\ n \in Works /\ n.buffer = w.buffer /\ n.on.held = w.on.held
      /\ n.on.deposits = w.on.deposits /\ n.on.trades = t
  BY <1>1, <1>2, <1>3 DEF Works, Portfolios
<1>5. w.on.trades \in [Traders -> Nat]
  BY <1>1 DEF Portfolios
<1>6. CASE w.on.trades[u] = 0
  <2> DEFINE v == Awarded(n, u, "FirstTrade")
  <2>1. Traded(w, u) = v
    BY <1>6 DEF Traded, n
  <2>2. AwardOf(n, v, << u, "FirstTrade" >>)
    BY <1>4, AwardedIs DEF Names
  <2> HIDE DEF v
  <2>3. /\ v \in Works /\ v.on.trades = t /\ v.on.deposits = w.on.deposits
        /\ v.on.held = w.on.held \union {<< u, "FirstTrade" >>}
        /\ Range(w.buffer) \subseteq Range(v.buffer)
        /\ v.on.held \subseteq w.on.held \union Range(v.buffer)
    BY <1>4, <2>2 DEF AwardOf
  <2>4. EarnedIn(v.on)
    <3>1. \A x \in Traders : /\ << x, "Trader" >> \in v.on.held => << x, "Trader" >> \in w.on.held
                             /\ << x, "LiquidityProvider" >> \in v.on.held => << x, "LiquidityProvider" >> \in w.on.held
                             /\ << x, "FirstTrade" >> \in v.on.held <=> (x = u \/ << x, "FirstTrade" >> \in w.on.held)
      BY <2>3
    <3>2. ASSUME NEW x \in Traders
          PROVE  /\ << x, "FirstTrade" >> \in v.on.held <=> v.on.trades[x] > 0
                 /\ << x, "Trader" >> \in v.on.held => v.on.trades[x] >= TraderBadgeAt
                 /\ << x, "LiquidityProvider" >> \in v.on.held => v.on.deposits[x] > 0
      <4>1. /\ << x, "FirstTrade" >> \in w.on.held <=> w.on.trades[x] > 0
            /\ << x, "Trader" >> \in w.on.held => w.on.trades[x] >= TraderBadgeAt
            /\ << x, "LiquidityProvider" >> \in w.on.held => w.on.deposits[x] > 0
        BY <1>1 DEF EarnedIn
      <4>2. w.on.trades[x] \in Nat /\ v.on.trades[x] = (IF x = u THEN w.on.trades[x] + 1 ELSE w.on.trades[x])
            /\ v.on.deposits[x] = w.on.deposits[x] /\ TraderBadgeAt \in Nat
        BY <1>2, <1>5, <2>3, BadgesAssumption
      <4>3. v.on.trades[x] \in Nat /\ v.on.trades[x] >= w.on.trades[x]
            /\ (x = u => v.on.trades[x] > 0) /\ (x # u => v.on.trades[x] = w.on.trades[x])
        BY <4>2
      <4>4. QED
        BY <3>1, <4>1, <4>2, <4>3
    <3>3. QED
      BY <3>2 DEF EarnedIn
  <2>5. QED
    BY <1>1, <2>1, <2>3, <2>4 DEF WorkFrom
<1>7. CASE w.on.trades[u] # 0
  <2>1. Traded(w, u) = n
    BY <1>7 DEF Traded, n
  <2>2. EarnedIn(n.on)
    <3>1. ASSUME NEW x \in Traders
          PROVE  /\ << x, "FirstTrade" >> \in n.on.held <=> n.on.trades[x] > 0
                 /\ << x, "Trader" >> \in n.on.held => n.on.trades[x] >= TraderBadgeAt
                 /\ << x, "LiquidityProvider" >> \in n.on.held => n.on.deposits[x] > 0
      <4>1. /\ << x, "FirstTrade" >> \in w.on.held <=> w.on.trades[x] > 0
            /\ << x, "Trader" >> \in w.on.held => w.on.trades[x] >= TraderBadgeAt
            /\ << x, "LiquidityProvider" >> \in w.on.held => w.on.deposits[x] > 0
        BY <1>1 DEF EarnedIn
      <4>2. w.on.trades[x] \in Nat /\ t[x] = (IF x = u THEN w.on.trades[x] + 1 ELSE w.on.trades[x])
            /\ TraderBadgeAt \in Nat
        BY <1>2, <1>5, BadgesAssumption
      <4>3. t[x] \in Nat /\ t[x] >= w.on.trades[x] /\ (t[x] > 0 <=> w.on.trades[x] > 0)
        BY <1>7, <4>2
      <4>4. QED
        BY <1>4, <4>1, <4>2, <4>3
    <3>2. QED
      BY <3>1 DEF EarnedIn
  <2>3. QED
    BY <1>1, <1>4, <2>1, <2>2 DEF WorkFrom
<1>8. QED
  BY <1>6, <1>7

LEMMA DepositedKeeps ==
  ASSUME NEW h, NEW b, NEW w \in WorkFrom(h, b), NEW u \in Traders
  PROVE  Deposited(w, u) \in WorkFrom(h, b)
<1> DEFINE t == [w.on.deposits EXCEPT ![u] = @ + 1]
           n == [w EXCEPT !.on.deposits[u] = @ + 1]
<1>1. w \in Works /\ w.on \in Portfolios /\ EarnedIn(w.on)
      /\ w.on.held \subseteq h \union Range(w.buffer) /\ b \subseteq Range(w.buffer)
  BY DEF WorkFrom, Works
<1>2. t \in [Traders -> Nat] /\ \A x \in Traders : t[x] = IF x = u THEN w.on.deposits[x] + 1 ELSE w.on.deposits[x]
  BY <1>1 DEF Portfolios
<1>3. n = [w EXCEPT !.on = [w.on EXCEPT !.deposits = t]]
  OBVIOUS
<1> HIDE DEF t, n
<1>4. /\ n \in Works /\ n.buffer = w.buffer /\ n.on.held = w.on.held
      /\ n.on.trades = w.on.trades /\ n.on.deposits = t
  BY <1>1, <1>2, <1>3 DEF Works, Portfolios
<1>5. w.on.deposits \in [Traders -> Nat]
  BY <1>1 DEF Portfolios
<1>6. EarnedIn(n.on)
  <2>1. ASSUME NEW x \in Traders
        PROVE  /\ << x, "FirstTrade" >> \in n.on.held <=> n.on.trades[x] > 0
               /\ << x, "Trader" >> \in n.on.held => n.on.trades[x] >= TraderBadgeAt
               /\ << x, "LiquidityProvider" >> \in n.on.held => n.on.deposits[x] > 0
    <3>1. /\ << x, "FirstTrade" >> \in w.on.held <=> w.on.trades[x] > 0
          /\ << x, "Trader" >> \in w.on.held => w.on.trades[x] >= TraderBadgeAt
          /\ << x, "LiquidityProvider" >> \in w.on.held => w.on.deposits[x] > 0
      BY <1>1 DEF EarnedIn
    <3>2. w.on.deposits[x] > 0 => t[x] > 0
      BY <1>2, <1>5
    <3>3. QED
      BY <1>4, <3>1, <3>2
  <2>2. QED
    BY <2>1 DEF EarnedIn
<1>7. Deposited(w, u) = n
  BY DEF Deposited, n
<1>8. QED
  BY <1>1, <1>4, <1>6, <1>7 DEF WorkFrom

\* A badge whose terms are met may be awarded.
LEMMA AwardKeeps ==
  ASSUME NEW h, NEW b, NEW w \in WorkFrom(h, b), NEW u \in Traders, NEW name \in Names,
         name # "FirstTrade",
         name = "Trader" => w.on.trades[u] >= TraderBadgeAt,
         name = "LiquidityProvider" => w.on.deposits[u] > 0
  PROVE  Awarded(w, u, name) \in WorkFrom(h, b)
<1> DEFINE v == Awarded(w, u, name)
<1>1. w \in Works /\ EarnedIn(w.on)
      /\ w.on.held \subseteq h \union Range(w.buffer) /\ b \subseteq Range(w.buffer)
  BY DEF WorkFrom
<1>2. AwardOf(w, v, << u, name >>)
  BY <1>1, AwardedIs
<1> HIDE DEF v
<1>3. EarnedIn(v.on)
  <2>1. \A x \in Traders, n \in Names :
          << x, n >> \in v.on.held <=> (x = u /\ n = name) \/ << x, n >> \in w.on.held
    BY <1>2 DEF AwardOf
  <2>2. ASSUME NEW x \in Traders
        PROVE  /\ << x, "FirstTrade" >> \in v.on.held <=> v.on.trades[x] > 0
               /\ << x, "Trader" >> \in v.on.held => v.on.trades[x] >= TraderBadgeAt
               /\ << x, "LiquidityProvider" >> \in v.on.held => v.on.deposits[x] > 0
    BY <1>1, <1>2, <2>1 DEF AwardOf, EarnedIn, Names
  <2>3. QED
    BY <2>2 DEF EarnedIn
<1>4. v \in WorkFrom(h, b)
  BY <1>1, <1>2, <1>3 DEF AwardOf, WorkFrom
<1>5. QED
  BY <1>4 DEF v

LEMMA CheckedKeeps ==
  ASSUME NEW h, NEW b, NEW w \in WorkFrom(h, b), NEW u \in Traders
  PROVE  Checked(w, u) \in WorkFrom(h, b)
<1> DEFINE t == IF w.on.trades[u] >= TraderBadgeAt THEN Awarded(w, u, "Trader") ELSE w
<1>1. t \in WorkFrom(h, b)
  BY AwardKeeps DEF Names
<1>2. Checked(w, u) = IF t.on.deposits[u] >= 1 THEN Awarded(t, u, "LiquidityProvider") ELSE t
  BY DEF Checked
<1> HIDE DEF t
<1>3. t.on.deposits[u] \in Nat
  BY <1>1 DEF WorkFrom, Works, Portfolios
<1>4. CASE t.on.deposits[u] >= 1
  BY <1>1, <1>2, <1>3, <1>4, AwardKeeps DEF Names
<1>5. CASE ~ (t.on.deposits[u] >= 1)
  BY <1>1, <1>2, <1>5
<1>6. QED
  BY <1>4, <1>5

LEMMA ExecutedKeeps ==
  ASSUME NEW h, NEW b, NEW w \in WorkFrom(h, b), NEW op \in Operations
  PROVE  Executed(w, op) \in WorkFrom(h, b)
<1>1. op.user \in Traders /\ op.kind \in {"swap", "deposit", "failing"}
  BY DEF Operations
<1>2. CASE op.kind = "swap"
  BY <1>1, <1>2, TradedKeeps DEF Executed
<1>3. CASE op.kind = "deposit"
  BY <1>1, <1>3, DepositedKeeps DEF Executed
<1>4. CASE op.kind = "failing"
  BY <1>4 DEF Executed
<1>5. QED
  BY <1>1, <1>2, <1>3, <1>4

\* Whatever the operations, in whatever order.
LEMMA OperationsKeep ==
  ASSUME NEW h, NEW b, NEW base \in WorkFrom(h, b), NEW ops \in Seq(Operations)
  PROVE  FoldLeft(Executed, base, ops) \in WorkFrom(h, b)
<1> DEFINE n == Len(ops)
           T == WorkFrom(h, b)
           E == Operations
           F == [x \in T \X E |-> Executed(x[1], x[2])]
           Solves(g) == g = [s \in SUBSET (1 .. n) |->
                               IF s = {} THEN base ELSE Executed(g[s \ {Max(s)}], ops[Max(s)])]
           iter == CHOOSE g : Solves(g)
<1>1. n \in Nat /\ DOMAIN ops = 1 .. n /\ \A i \in 1 .. n : ops[i] \in E
  BY LenProperties, ElementOfSeq
<1>2. FoldLeft(Executed, base, ops) = iter[1 .. n]
  BY <1>1 DEF FoldLeft, MapThenFoldSet
<1>3. base \in T /\ \A w \in T : \A op \in E : Executed(w, op) \in T
  BY ExecutedKeeps
<1> HIDE DEF T, E, n
<1>4. F \in [T \X E -> T] /\ \A w \in T : \A op \in E : F[<< w, op >>] = Executed(w, op)
  BY <1>3
<1> HIDE DEF F
<1>5. PICK g : Folds(F, base, ops, n, T, g)
  BY <1>1, <1>3, <1>4, FoldSolution
<1>6. Solves(g)
  <2>1. g \in [SUBSET (1 .. n) -> T] /\ \A s \in SUBSET (1 .. n) : g[s] = FoldRound(F, base, ops, g, s)
    BY <1>5 DEF Folds
  <2>2. ASSUME NEW s \in SUBSET (1 .. n)
        PROVE  g[s] = IF s = {} THEN base ELSE Executed(g[s \ {Max(s)}], ops[Max(s)])
    <3>1. CASE s = {}
      BY <2>1, <3>1 DEF FoldRound
    <3>2. CASE s # {}
      <4>1. Max(s) \in 1 .. n
        BY <1>1, <3>2, MaxIn
      <4>2. g[s \ {Max(s)}] \in T /\ ops[Max(s)] \in E
        BY <1>1, <2>1, <4>1
      <4>3. g[s] = F[<< g[s \ {Max(s)}], ops[Max(s)] >>]
        BY <2>1, <3>2 DEF FoldRound
      <4>4. QED
        BY <1>4, <3>2, <4>2, <4>3
    <3>3. QED
      BY <3>1, <3>2
  <2>3. g = [s \in SUBSET (1 .. n) |-> g[s]]
    BY <2>1
  <2>4. QED
    BY <2>2, <2>3
<1>7. Solves(iter)
  BY <1>6
<1> HIDE DEF iter
<1>8. iter[{}] \in T
  BY <1>3, <1>7
<1>9. ASSUME NEW s \in SUBSET (1 .. n), s # {}, iter[s \ {Max(s)}] \in T PROVE iter[s] \in T
  <2>1. Max(s) \in 1 .. n
    BY <1>1, <1>9, MaxIn
  <2>2. iter[s] = Executed(iter[s \ {Max(s)}], ops[Max(s)])
    BY <1>7, <1>9
  <2>3. QED
    BY <1>1, <1>3, <1>9, <2>1, <2>2
<1>10. iter[1 .. n] \in T
  BY <1>1, <1>8, <1>9, FoldStays
<1>11. QED
  BY <1>2, <1>10 DEF T

LEMMA BeforeFailureIn ==
  ASSUME NEW ops \in Seq(Operations)
  PROVE  BeforeFailure(ops) \in Seq(Operations)
<1> DEFINE I == {i \in 1 .. Len(ops) : ops[i].kind = "failing"}
           first == IF I # {} THEN Min(I) ELSE 0
<1>1. Len(ops) \in Nat
  BY LenProperties
<1>2. BeforeFailure(ops) = IF first = 0 THEN ops ELSE SubSeq(ops, 1, first - 1)
  BY DEF BeforeFailure, SelectInSeq
<1>3. first \in 0 .. Len(ops)
  <2>1. I # {} => Min(I) \in I
    <3>1. I \subseteq Nat
      OBVIOUS
    <3> HIDE DEF I
    <3>2. QED
      BY <3>1, MinIn
  <2>2. QED
    BY <1>1, <2>1
<1> HIDE DEF first
<1>4. CASE first = 0
  BY <1>2, <1>4
<1>5. CASE first # 0
  <2>1. \A i \in 1 .. first - 1 : ops[i] \in Operations
    BY <1>1, <1>3, ElementOfSeq
  <2> DEFINE m == 1
             k == first - 1
  <2>2. m \in Int /\ k \in Int /\ \A i \in m .. k : ops[i] \in Operations
    BY <1>3, <2>1
  <2>3. SubSeq(ops, m, k) \in Seq(Operations)
    <3> HIDE DEF m, k
    <3>1. QED
      BY <2>2, SubSeqProperties
  <2>4. QED
    BY <1>2, <1>5, <2>3
<1>6. QED
  BY <1>4, <1>5

LEMMA WorkStarts ==
  ASSUME BadgesInv
  PROVE  Work \in WorkFrom(record.held, Range(buffer))
BY DEF BadgesInv, Work, WorkFrom, Works

\* Saving the Portfolio and publishing the buffer.
LEMMA SaveAndFlush ==
  ASSUME BadgesInv, NEW w \in WorkFrom(record.held, Range(buffer)), Save(w),
         \/ Flush(w.buffer)
         \/ buffer' = w.buffer /\ UNCHANGED << logsInfo, announced, lost >>
  PROVE  BadgesInv'
<1>1. /\ w \in Works /\ EarnedIn(w.on) /\ w.on \in Portfolios /\ w.buffer \in Seq(Badge)
      /\ w.on.held \subseteq record.held \union Range(w.buffer) /\ Range(buffer) \subseteq Range(w.buffer)
  BY DEF WorkFrom, Works
<1>2. record' = w.on /\ logsInfo' = logsInfo /\ logsInfo \in BOOLEAN /\ \A u \in Traders : w.on.trades[u] <= MaxTrades
  BY DEF Save, Flush, WithinBounds, BadgesInv
<1>3. w.on.trades \in [Traders -> 0 .. MaxTrades]
  <2>1. w.on.trades \in [Traders -> Nat] /\ MaxTrades \in Nat
    BY <1>1, BadgesAssumption DEF Portfolios
  <2>2. QED
    BY <1>2, <2>1
<1>4. record.held \subseteq announced \union Range(buffer) \union lost
  BY DEF BadgesInv
<1>5. CASE Flush(w.buffer)
  <2>1. /\ buffer' = << >>
        /\ announced' = announced \union (IF logsInfo THEN Range(w.buffer) ELSE {})
        /\ lost' = lost \union (IF logsInfo THEN {} ELSE Range(w.buffer))
    BY <1>5 DEF Flush
  <2>2. buffer' \in Seq(Badge)
    BY <2>1, EmptySeq
  <2>3. record'.held \subseteq announced' \union Range(buffer') \union lost'
    BY <1>1, <1>2, <1>4, <2>1
  <2>4. EarnedIn(record') /\ record' \in Portfolios /\ record'.trades \in [Traders -> 0 .. MaxTrades]
    BY <1>1, <1>2, <1>3
  <2>5. QED
    BY <1>2, <2>2, <2>3, <2>4 DEF BadgesInv
<1>6. CASE buffer' = w.buffer /\ UNCHANGED << logsInfo, announced, lost >>
  <2>1. record'.held \subseteq announced' \union Range(buffer') \union lost'
    BY <1>1, <1>2, <1>4, <1>6
  <2>2. EarnedIn(record') /\ record' \in Portfolios /\ record'.trades \in [Traders -> 0 .. MaxTrades]
    BY <1>1, <1>2, <1>3
  <2>3. QED
    BY <1>1, <1>2, <1>6, <2>1, <2>2 DEF BadgesInv
<1>7. QED
  BY <1>5, <1>6

LEMMA BadgesCallStep == BadgesInv /\ BadgesNext => BadgesInv'
<1> SUFFICES ASSUME BadgesInv, BadgesNext PROVE BadgesInv'
  OBVIOUS
<1> DEFINE T == WorkFrom(record.held, Range(buffer))
<1>1. Work \in T
  BY WorkStarts
<1>2. ASSUME NEW u \in Traders, SwapForBadge(u) \/ RecordTradeForBadge(u) PROVE BadgesInv'
  <2> DEFINE w == Traded(Work, u)
  <2>1. w \in T
    BY <1>1, TradedKeeps
  <2>2. /\ Save(w)
        /\ \/ Flush(w.buffer)
           \/ buffer' = w.buffer /\ UNCHANGED << logsInfo, announced, lost >>
    BY <1>2 DEF SwapForBadge, RecordTradeForBadge
  <2> HIDE DEF w
  <2>3. QED
    BY <2>1, <2>2, SaveAndFlush
<1>3. ASSUME NEW u \in Traders, AddLiquidityForBadge(u) PROVE BadgesInv'
  <2> DEFINE d == Deposited(Work, u)
             w == Checked(d, u)
  <2>1. w \in T
    <3>1. d \in T
      BY <1>1, DepositedKeeps
    <3> HIDE DEF d
    <3>2. QED
      BY <3>1, CheckedKeeps
  <2>2. Save(w) /\ Flush(w.buffer)
    BY <1>3 DEF AddLiquidityForBadge
  <2> HIDE DEF w
  <2>3. QED
    BY <2>1, <2>2, SaveAndFlush
<1>4. ASSUME NEW ops \in Batches, BatchAtomic(ops) \/ BatchBestEffort(ops) PROVE BadgesInv'
  <2>1. ops \in Seq(Operations)
    <3>1. PICK n \in 1 .. BatchSize : ops \in [1 .. n -> Operations]
      BY DEF Batches
    <3>2. n \in Nat
      BY BadgesAssumption
    <3>3. QED
      BY <3>1, <3>2
  <2> DEFINE v == FoldLeft(Executed, Work, BeforeFailure(ops))
             w == FoldLeft(Executed, Work, ops)
  <2>2. v \in T /\ w \in T
    BY <1>1, <2>1, BeforeFailureIn, OperationsKeep
  <2>3. \/ Save(v) /\ Flush(v.buffer)
        \/ Save(w) /\ Flush(w.buffer)
        \/ buffer' = v.buffer /\ UNCHANGED << record, logsInfo, announced, lost >>
    BY <1>4 DEF BatchAtomic, BatchBestEffort, BufferAfterFailure
  <2> HIDE DEF v, w
  <2>4. CASE buffer' = v.buffer /\ UNCHANGED << record, logsInfo, announced, lost >>
    <3>1. v.buffer \in Seq(Badge) /\ Range(buffer) \subseteq Range(v.buffer)
      BY <2>2 DEF WorkFrom, Works
    <3>2. record.held \subseteq announced \union Range(buffer) \union lost
      BY DEF BadgesInv
    <3>3. record'.held \subseteq announced' \union Range(buffer') \union lost'
      BY <2>4, <3>1, <3>2
    <3>4. EarnedIn(record') /\ record' \in Portfolios /\ record'.trades \in [Traders -> 0 .. MaxTrades]
      BY <2>4 DEF BadgesInv
    <3>5. QED
      BY <2>4, <3>1, <3>3, <3>4 DEF BadgesInv
  <2>5. QED
    BY <2>2, <2>3, <2>4, SaveAndFlush
<1>5. CASE BufferRunsOut
  <2>1. /\ buffer' = << >> /\ lost' = lost \union Range(buffer)
        /\ UNCHANGED << record, logsInfo, announced >>
    BY <1>5 DEF BufferRunsOut
  <2>2. buffer' \in Seq(Badge)
    BY <2>1, EmptySeq
  <2>3. EarnedIn(record') /\ record' \in Portfolios /\ record'.trades \in [Traders -> 0 .. MaxTrades]
    BY <2>1 DEF BadgesInv
  <2>4. record'.held \subseteq announced' \union Range(buffer') \union lost'
    BY <2>1 DEF BadgesInv
  <2>5. QED
    BY <2>1, <2>2, <2>3, <2>4 DEF BadgesInv
<1>6. ASSUME NEW a \in Addresses, NEW info \in BOOLEAN, SetLogLevel(a, info) PROVE BadgesInv'
  <2>1. UNCHANGED << record, buffer, announced, lost >> /\ logsInfo' \in BOOLEAN
    BY <1>6 DEF SetLogLevel
  <2>2. QED
    BY <2>1 DEF BadgesInv, EarnedIn
<1>7. QED
  BY <1>2, <1>3, <1>4, <1>5, <1>6 DEF BadgesNext

LEMMA BadgesStep == BadgesInv /\ [ServicesNext]_servicesVars => BadgesInv'
<1> SUFFICES ASSUME BadgesInv, [ServicesNext]_servicesVars PROVE BadgesInv'
  OBVIOUS
<1>1. BadgesNext \/ UNCHANGED badgesVars
  BY DEF ServicesNext, Focused, servicesVars
<1>2. CASE UNCHANGED badgesVars
  BY <1>2 DEF badgesVars, BadgesInv, EarnedIn
<1>3. QED
  BY <1>1, <1>2, BadgesCallStep

\* For any traders, batches of any length and whatever the log level is set to in
\* between: badges are held exactly on their terms, and none held was lost on the
\* way to its announcement, but for buffers that ran out of their lifetime or
\* were flushed while the log level held their event back.
THEOREM BadgesAlwaysSound == ServicesSpec => []BadgesSound
<1>1. ServicesInit => BadgesInv
  BY BadgesInvInit DEF ServicesInit
<1>2. QED
  BY <1>1, BadgesInvSound, BadgesStep, PTL DEF ServicesSpec

-----------------------------------------------------------------------------
(* Congestion fees *)

Entry == [fee : FeeNumbers, before : FeeNumbers, at : Nat]

\* Each entry starts from what the one before it set, in the order of time.
StoryOf(H) ==
  /\ H \in Seq(Entry)
  /\ \A i, j \in 1 .. Len(H) : i < j => H[i].at <= H[j].at
  /\ \A i, j \in 1 .. Len(H) : j = i + 1 => H[j].before = H[i].fee

\* It ends with the fee in force.
EndsWith(H, f, b) == H # << >> => H[Len(H)].fee = f /\ H[Len(H)].before = b

\* A history as of time t, with f and b the fee in force and the fee before it.
Told(H, f, b, t) == StoryOf(H) /\ EndsWith(H, f, b) /\ \A i \in 1 .. Len(H) : H[i].at <= t

FeesInv ==
  /\ clock \in 0 .. MaxFeeTime /\ lastUpdate \in 0 .. clock
  /\ feeConfig \in FeeConfig
  /\ fee \in FeeNumbers /\ feeBefore \in FeeNumbers
  /\ metricsBefore \in Metrics \union {Never}
  /\ override \in [active : BOOLEAN, until : Nat \union {Never}]
  /\ override.active => override.until \in Nat
  /\ authorized \subseteq Operators
  /\ Told(feeHistory, fee, feeBefore, clock) /\ Len(feeHistory) <= HistoryCap

\* The end of a story is a story with the same end.
LEMMA StoryTail ==
  ASSUME NEW H, NEW f, NEW b, NEW t, Told(H, f, b, t),
         NEW r \in Seq(Entry), NEW d \in Nat, Len(r) = Len(H) - d,
         \A i \in 1 .. Len(r) : r[i] = H[i + d]
  PROVE  Told(r, f, b, t)
<1> DEFINE n == Len(H)
           m == Len(r)
<1>0. StoryOf(H) /\ EndsWith(H, f, b) /\ \A i \in 1 .. n : H[i].at <= t
  BY DEF Told
<1>1. n \in Nat /\ m \in Nat /\ m = n - d
  BY <1>0, LenProperties DEF StoryOf
<1>2. \A i \in 1 .. m : i + d \in 1 .. n /\ r[i] = H[i + d]
  BY <1>1
<1>3. /\ \A i, j \in 1 .. n : i < j => H[i].at <= H[j].at
      /\ \A i, j \in 1 .. n : j = i + 1 => H[j].before = H[i].fee
  BY <1>0 DEF StoryOf
<1> HIDE DEF n, m
<1>4. \A i, j \in 1 .. m : i < j => r[i].at <= r[j].at
  <2>1. ASSUME NEW i \in 1 .. m, NEW j \in 1 .. m, i < j PROVE r[i].at <= r[j].at
    <3>1. i + d < j + d
      BY <2>1, <1>1
    <3>2. QED
      BY <1>2, <1>3, <3>1
  <2>2. QED
    BY <2>1
<1>5. \A i, j \in 1 .. m : j = i + 1 => r[j].before = r[i].fee
  <2>1. ASSUME NEW i \in 1 .. m, NEW j \in 1 .. m, j = i + 1 PROVE r[j].before = r[i].fee
    <3> DEFINE x == i + d
               y == j + d
    <3>1. x \in 1 .. n /\ y \in 1 .. n /\ y = x + 1 /\ r[i] = H[x] /\ r[j] = H[y]
      BY <2>1, <1>1, <1>2
    <3> HIDE DEF x, y
    <3>2. H[y].before = H[x].fee
      BY <1>3, <3>1
    <3>3. QED
      BY <3>1, <3>2
  <2>2. QED
    BY <2>1
<1>6. EndsWith(r, f, b)
  <2>1. SUFFICES ASSUME r # << >> PROVE r[m].fee = f /\ r[m].before = b
    BY DEF EndsWith, m
  <2>2. m # 0
    BY <2>1, EmptySeq DEF m
  <2>3. m \in 1 .. m /\ m + d = n /\ n # 0
    BY <1>1, <2>2
  <2>4. r[m] = H[n]
    BY <1>2, <2>3
  <2>5. H # << >>
    BY <2>3, EmptySeq DEF n
  <2>6. QED
    BY <1>0, <2>4, <2>5 DEF EndsWith, n
<1>7. StoryOf(r)
  BY <1>4, <1>5 DEF StoryOf, m
<1>8. \A i \in 1 .. Len(r) : r[i].at <= t
  BY <1>0, <1>2 DEF m
<1>9. QED
  BY <1>6, <1>7, <1>8 DEF Told

\* The entry of a change of the fee.
EntryOf(new, f, t) == [fee |-> new, before |-> f, at |-> t]

\* An entry that starts from the fee in force continues the story.
LEMMA StoryGoesOn ==
  ASSUME NEW H, NEW f \in FeeNumbers, NEW b, NEW new \in FeeNumbers, NEW t \in Nat,
         Told(H, f, b, t), NEW q, q = Append(H, EntryOf(new, f, t))
  PROVE  Told(q, new, f, t)
<1> DEFINE e == EntryOf(new, f, t)
           n == Len(H)
<1>0. StoryOf(H) /\ EndsWith(H, f, b) /\ \A i \in 1 .. n : H[i].at <= t
  BY DEF Told
<1>1. e \in Entry /\ H \in Seq(Entry)
  BY <1>0 DEF Entry, EntryOf, StoryOf
<1>2. e.fee = new /\ e.before = f /\ e.at = t
  BY DEF EntryOf
<1>3. q = Append(H, e)
  OBVIOUS
<1> HIDE DEF e
<1>4. /\ n \in Nat /\ q \in Seq(Entry) /\ Len(q) = n + 1 /\ q # << >> /\ q[n + 1] = e
      /\ \A i \in 1 .. n : q[i] = H[i]
  BY <1>1, <1>3, AppendProperties, LenProperties
<1>5. /\ \A i, j \in 1 .. n : i < j => H[i].at <= H[j].at
      /\ \A i, j \in 1 .. n : j = i + 1 => H[j].before = H[i].fee
      /\ \A i \in 1 .. n : H[i].at <= t
  BY <1>0 DEF StoryOf
<1>6. n # 0 => H[n].fee = f
  <2>1. n # 0 => H # << >>
    BY EmptySeq
  <2>2. QED
    BY <1>0, <2>1 DEF EndsWith
<1> HIDE DEF n
<1>7. \A i \in 1 .. n + 1 : i \in 1 .. n \/ i = n + 1
  BY <1>4
<1>8. \A i \in 1 .. n + 1 : q[i].at <= t
  <2>1. t <= t
    OBVIOUS
  <2>2. QED
    BY <1>2, <1>4, <1>5, <1>7, <2>1
<1>9. ASSUME NEW i \in 1 .. n + 1, NEW j \in 1 .. n + 1, i < j PROVE q[i].at <= q[j].at
  <2>1. i \in 1 .. n
    BY <1>4, <1>9
  <2>2. QED
    BY <1>2, <1>4, <1>5, <1>7, <1>8, <1>9, <2>1
<1>10. ASSUME NEW i \in 1 .. n + 1, NEW j \in 1 .. n + 1, j = i + 1 PROVE q[j].before = q[i].fee
  <2>1. i \in 1 .. n /\ (j = n + 1 => i = n /\ n # 0)
    BY <1>4, <1>10
  <2>2. QED
    BY <1>2, <1>4, <1>5, <1>6, <1>7, <1>10, <2>1
<1>11. StoryOf(q)
  BY <1>4, <1>9, <1>10 DEF StoryOf
<1>12. EndsWith(q, new, f)
  BY <1>2, <1>4 DEF EndsWith
<1>13. QED
  BY <1>4, <1>8, <1>11, <1>12 DEF Told

\* What record_fee_adjustment keeps of the history.
LEMMA KeepIsTail ==
  ASSUME NEW H, NEW f, NEW b, NEW t, Told(H, f, b, t), NEW cap \in Nat
  PROVE  Told(Keep(H, cap), f, b, t) /\ Len(Keep(H, cap)) <= cap
<1>1. H \in Seq(Entry) /\ Len(H) \in Nat
  BY LenProperties DEF Told, StoryOf
<1>2. CASE Len(H) > cap
  <2> DEFINE m == Len(H) - cap + 1
             n == Len(H)
             r == SubSeq(H, m, n)
             d == Len(H) - cap
  <2>1. m \in Int /\ n \in Int /\ m <= n + 1 /\ n - m + 1 = cap /\ \A i \in m .. n : H[i] \in Entry
    BY <1>1, <1>2, ElementOfSeq
  <2>2. /\ r \in Seq(Entry) /\ Len(r) = IF m <= n THEN n - m + 1 ELSE 0
        /\ \A i \in 1 .. n - m + 1 : r[i] = H[m + i - 1]
    <3> HIDE DEF m, n
    <3>1. QED
      BY <2>1, SubSeqProperties
  <2>3. Len(r) = cap
    BY <1>1, <1>2, <2>1, <2>2
  <2>4. d \in Nat /\ Len(r) = Len(H) - d /\ m = d + 1
    BY <1>1, <1>2, <2>3
  <2>5. \A i \in 1 .. Len(r) : r[i] = H[i + d]
    <3>1. ASSUME NEW i \in 1 .. Len(r) PROVE r[i] = H[i + d]
      <4>1. i \in 1 .. n - m + 1 /\ m + i - 1 = i + d
        BY <2>1, <2>3, <2>4
      <4> HIDE DEF r, m, n, d
      <4>2. r[i] = H[m + i - 1]
        BY <2>2, <4>1
      <4>3. QED
        BY <4>1, <4>2
    <3>2. QED
      BY <3>1
  <2>6. Keep(H, cap) = r
    BY <1>2 DEF Keep
  <2> HIDE DEF r, d
  <2>7. Told(r, f, b, t)
    BY <2>2, <2>4, <2>5, StoryTail
  <2>8. QED
    BY <2>3, <2>6, <2>7
<1>3. CASE ~ (Len(H) > cap)
  <2>1. Keep(H, cap) = H
    BY <1>3 DEF Keep
  <2>2. QED
    BY <1>1, <1>3, <2>1
<1>4. QED
  BY <1>2, <1>3

\* Entries as old as the cutoff go: what stays is the end of the history, since
\* they stand in the order of time.
LEMMA OnlyIsTail ==
  ASSUME NEW H, NEW f, NEW b, NEW t, Told(H, f, b, t), NEW cutoff \in Int, NEW S,
         S = {e \in Range(H) : e.at >= cutoff}
  PROVE  Told(Only(H, S), f, b, t) /\ Len(Only(H, S)) <= Len(H)
<1> DEFINE r == Only(H, S)
           n == Len(H)
           m == Len(r)
<1>1. /\ H \in Seq(Entry) /\ n \in Nat /\ DOMAIN H = 1 .. n
      /\ \A i \in 1 .. n : H[i] \in Entry /\ H[i].at \in Nat
  <2>1. H \in Seq(Entry)
    BY DEF Told, StoryOf
  <2>2. n \in Nat /\ DOMAIN H = 1 .. n /\ \A i \in 1 .. n : H[i] \in Entry
    BY <2>1, LenProperties, ElementOfSeq
  <2>3. \A e \in Entry : e.at \in Nat
    BY DEF Entry
  <2>4. QED
    BY <2>1, <2>2, <2>3
<1>2. r \in Seq(Entry) /\ \E h : Picks(H, S, n, r, h)
  BY <1>1, OnlyPicks
<1> HIDE DEF r
<1>3. PICK h : Picks(H, S, n, r, h)
  BY <1>2
<1>4. m \in Nat
  BY <1>2, LenProperties
<1>5. /\ h \in [1 .. m -> 1 .. n]
      /\ \A i \in 1 .. m : r[i] = H[h[i]] /\ H[h[i]] \in S
      /\ \A i, j \in 1 .. m : i < j => h[i] < h[j]
      /\ \A k \in 1 .. n : H[k] \in S => \E i \in 1 .. m : h[i] = k
  BY <1>3 DEF Picks
<1>6. ASSUME NEW k \in 1 .. n, NEW l \in 1 .. n, k < l, H[k] \in S PROVE H[l] \in S
  <2>1. H[k].at <= H[l].at /\ H[k].at >= cutoff
    BY <1>6 DEF Told, StoryOf
  <2>2. H[l].at >= cutoff /\ H[l] \in Range(H)
    BY <1>1, <2>1 DEF Range
  <2>3. QED
    BY <2>2
<1> HIDE DEF n, m
<1>7. ASSUME NEW i \in 1 .. m, NEW j \in 1 .. m, j = i + 1 PROVE h[j] = h[i] + 1
  <2>1. h[i] \in 1 .. n /\ h[j] \in 1 .. n /\ h[i] < h[j]
    BY <1>4, <1>5, <1>7
  <2>2. h[i] + 1 \in 1 .. n /\ h[i] < h[i] + 1
    BY <1>1, <2>1
  <2>3. H[h[i] + 1] \in S
    BY <1>5, <1>6, <2>1, <2>2
  <2>4. PICK k \in 1 .. m : h[k] = h[i] + 1
    BY <1>5, <2>2, <2>3
  <2>5. ~ (k < i) /\ k # i
    <3>1. k < i => h[k] < h[i]
      BY <1>5
    <3>2. QED
      BY <2>1, <2>4, <3>1
  <2>6. k = j \/ j < k
    BY <1>4, <1>7, <2>5
  <2>7. ~ (j < k)
    <3>1. j < k => h[j] < h[k]
      BY <1>5
    <3>2. QED
      BY <2>1, <2>4, <3>1
  <2>8. QED
    BY <2>4, <2>6, <2>7
<1>8. m > 0 => h[m] = n
  <2>1. SUFFICES ASSUME m > 0, h[m] # n PROVE FALSE
    OBVIOUS
  <2>2. m \in 1 .. m /\ h[m] \in 1 .. n /\ n \in 1 .. n /\ h[m] < n
    BY <1>1, <1>4, <1>5, <2>1
  <2>3. H[n] \in S
    BY <1>5, <1>6, <2>2
  <2>4. PICK k \in 1 .. m : h[k] = n
    BY <1>5, <2>2, <2>3
  <2>5. k # m /\ k < m
    BY <1>4, <2>1, <2>4
  <2>6. h[k] < h[m]
    BY <1>5, <2>2, <2>5
  <2>7. QED
    BY <1>1, <2>2, <2>4, <2>6
<1> DEFINE Bad == {k \in 0 .. m - 1 : h[m - k] # n - k}
<1>9. Bad = {}
  <2>1. SUFFICES ASSUME Bad # {} PROVE FALSE
    OBVIOUS
  <2>2. Bad \subseteq Nat
    OBVIOUS
  <2>3. PICK k \in Bad : \A j \in Bad : k <= j
    BY <2>1, <2>2, LeastNatural
  <2>4. k \in 0 .. m - 1 /\ h[m - k] # n - k
    OBVIOUS
  <2>5. k # 0
    BY <1>1, <1>4, <1>8, <2>4
  <2>6. k - 1 \in 0 .. m - 1 /\ ~ (k <= k - 1)
    BY <1>4, <2>4, <2>5
  <2>7. h[m - (k - 1)] = n - (k - 1)
    <3>1. k - 1 \notin Bad
      <4> HIDE DEF Bad
      <4>1. QED
        BY <2>3, <2>6
    <3>2. QED
      BY <2>6, <3>1
  <2> DEFINE i == m - k
             j == m - (k - 1)
  <2>8. i \in 1 .. m /\ j \in 1 .. m /\ j = i + 1
    BY <1>4, <2>4, <2>5
  <2> HIDE DEF i, j
  <2>9. h[j] = h[i] + 1 /\ h[i] \in Nat
    BY <1>5, <1>7, <2>8
  <2>10. h[i] = n - k
    BY <1>1, <2>4, <2>7, <2>9 DEF j
  <2>11. QED
    BY <2>4, <2>10 DEF i
<1> DEFINE d == n - m
<1>10. \A i \in 1 .. m : h[i] = i + d
  <2>1. ASSUME NEW i \in 1 .. m PROVE h[i] = i + d
    <3> DEFINE k == m - i
    <3>1. k \in 0 .. m - 1 /\ m - k = i /\ n - k = i + d
      BY <1>1, <1>4
    <3> HIDE DEF k, d
    <3>2. h[m - k] = n - k
      BY <1>9, <3>1
    <3>3. QED
      BY <3>1, <3>2
  <2>2. QED
    BY <2>1
<1>11. d \in Nat /\ m = n - d
  <2>1. CASE m = 0
    BY <1>1, <2>1
  <2>2. CASE m # 0
    <3>1. 1 \in 1 .. m /\ h[1] \in 1 .. n
      BY <1>4, <1>5, <2>2
    <3>2. h[1] = 1 + d
      BY <1>10, <3>1
    <3>3. QED
      BY <1>1, <1>4, <3>1, <3>2
  <2>3. QED
    BY <2>1, <2>2
<1> HIDE DEF d
<1>12. \A i \in 1 .. m : r[i] = H[i + d]
  BY <1>5, <1>10
<1>13. Told(r, f, b, t)
  BY <1>2, <1>11, <1>12, StoryTail DEF m, n
<1>14. Len(r) <= Len(H)
  BY <1>1, <1>4, <1>11 DEF m, n
<1>15. QED
  BY <1>13, <1>14 DEF r

\* The share of n in most, in percent, grows with n.
LEMMA DivGrows ==
  ASSUME NEW x \in Int, NEW y \in Int, x <= y, NEW k \in Nat, k > 0
  PROVE  x \div k \in Int /\ y \div k \in Int /\ x \div k <= y \div k
<1>1. x \div k \in Int /\ y \div k \in Int
      /\ (x \div k) * k <= x /\ y < (y \div k) * k + k
  BY DivFloor
<1> DEFINE p == x \div k
           q == y \div k
<1>2. p \in Int /\ q \in Int /\ p * k <= x /\ y < q * k + k
  BY <1>1
<1> HIDE DEF p, q
<1>3. (q + 1) * k = q * k + k /\ p * k \in Int /\ q * k \in Int
  BY <1>2
<1>4. p * k < (q + 1) * k
  BY <1>2, <1>3
<1>5. p < q + 1
  BY <1>2, <1>4, MulCancel
<1>6. p <= q
  BY <1>2, <1>5
<1>7. QED
  BY <1>2, <1>6 DEF p, q

LEMMA LoadGrows ==
  ASSUME NEW x \in Nat, NEW y \in Nat, x <= y, NEW most \in Nat, most > 0
  PROVE  LoadFactor(x, most) \in 0 .. 100 /\ LoadFactor(x, most) <= LoadFactor(y, most)
<1> DEFINE p == (x * 100) \div most
           q == (y * 100) \div most
<1>1. p \in Int /\ q \in Int /\ p <= q
  BY DivGrows
<1>2. p \in Nat /\ (x < most => p <= 100)
  <2>1. x * 100 \in Nat
    OBVIOUS
  <2>2. p \in Nat /\ p * most <= x * 100
    BY <2>1, DivFloor, DivNat
  <2> HIDE DEF p
  <2>3. ASSUME x < most PROVE p <= 100
    <3>1. p * most < (100 + 1) * most
      BY <2>2, <2>3
    <3>2. QED
      BY <2>2, <3>1, MulCancel
  <2>4. QED
    BY <2>2, <2>3
<1>3. q \in Nat /\ (y < most => q <= 100)
  <2>1. y * 100 \in Nat
    OBVIOUS
  <2>2. q \in Nat /\ q * most <= y * 100
    BY <2>1, DivFloor, DivNat
  <2> HIDE DEF q
  <2>3. ASSUME y < most PROVE q <= 100
    <3>1. q * most < (100 + 1) * most
      BY <2>2, <2>3
    <3>2. QED
      BY <2>2, <3>1, MulCancel
  <2>4. QED
    BY <2>2, <2>3
<1>4. LoadFactor(x, most) = (IF x >= most THEN 100 ELSE p) /\ LoadFactor(y, most) = IF y >= most THEN 100 ELSE q
  BY DEF LoadFactor
<1> HIDE DEF p, q
<1>5. QED
  BY <1>1, <1>2, <1>3, <1>4

LEMMA GasGrows ==
  ASSUME NEW x \in Nat, NEW y \in Nat, x <= y
  PROVE  GasFactor(x) \in 0 .. 100 /\ GasFactor(x) <= GasFactor(y)
BY DEF GasFactor

LEMMA ScoreGrows ==
  ASSUME NEW m \in NetworkMetrics, NEW k \in NetworkMetrics,
         m.gas <= k.gas, m.tps <= k.tps, m.pending <= k.pending, m.capacity <= k.capacity
  PROVE  Score(m) \in Int /\ Score(k) \in Int /\ Score(m) <= Score(k)
<1>1. /\ m.gas \in Nat /\ m.tps \in Nat /\ m.pending \in Nat /\ m.capacity \in Nat
      /\ k.gas \in Nat /\ k.tps \in Nat /\ k.pending \in Nat /\ k.capacity \in Nat
  BY DEF NetworkMetrics
<1> DEFINE a1 == GasFactor(m.gas)
           a2 == GasFactor(k.gas)
           b1 == LoadFactor(m.tps, 1000)
           b2 == LoadFactor(k.tps, 1000)
           c1 == LoadFactor(m.pending, 10000)
           c2 == LoadFactor(k.pending, 10000)
           d1 == LoadFactor(m.capacity, 100)
           d2 == LoadFactor(k.capacity, 100)
           s1 == a1 * 30 + b1 * 25 + c1 * 25 + d1 * 20
           s2 == a2 * 30 + b2 * 25 + c2 * 25 + d2 * 20
<1>2. a1 \in Int /\ a2 \in Int /\ a1 <= a2
  BY <1>1, GasGrows
<1>3. b1 \in Int /\ b2 \in Int /\ b1 <= b2
  <2> DEFINE most == 1000
             x == m.tps
             y == k.tps
  <2>1. most \in Nat /\ most > 0 /\ x \in Nat /\ y \in Nat /\ x <= y /\ y <= y
    BY <1>1
  <2> HIDE DEF most, x, y
  <2>2. LoadFactor(x, most) \in 0 .. 100 /\ LoadFactor(x, most) <= LoadFactor(y, most)
    BY <2>1, LoadGrows
  <2>3. LoadFactor(y, most) \in 0 .. 100
    BY <2>1, LoadGrows
  <2>4. QED
    BY <2>2, <2>3 DEF most, x, y
<1>4. c1 \in Int /\ c2 \in Int /\ c1 <= c2
  <2> DEFINE most == 10000
             x == m.pending
             y == k.pending
  <2>1. most \in Nat /\ most > 0 /\ x \in Nat /\ y \in Nat /\ x <= y /\ y <= y
    BY <1>1
  <2> HIDE DEF most, x, y
  <2>2. LoadFactor(x, most) \in 0 .. 100 /\ LoadFactor(x, most) <= LoadFactor(y, most)
    BY <2>1, LoadGrows
  <2>3. LoadFactor(y, most) \in 0 .. 100
    BY <2>1, LoadGrows
  <2>4. QED
    BY <2>2, <2>3 DEF most, x, y
<1>5. d1 \in Int /\ d2 \in Int /\ d1 <= d2
  <2> DEFINE most == 100
             x == m.capacity
             y == k.capacity
  <2>1. most \in Nat /\ most > 0 /\ x \in Nat /\ y \in Nat /\ x <= y /\ y <= y
    BY <1>1
  <2> HIDE DEF most, x, y
  <2>2. LoadFactor(x, most) \in 0 .. 100 /\ LoadFactor(x, most) <= LoadFactor(y, most)
    BY <2>1, LoadGrows
  <2>3. LoadFactor(y, most) \in 0 .. 100
    BY <2>1, LoadGrows
  <2>4. QED
    BY <2>2, <2>3 DEF most, x, y
<1>6. Score(m) = s1 \div 100 /\ Score(k) = s2 \div 100
  BY DEF Score
<1> HIDE DEF a1, a2, b1, b2, c1, c2, d1, d2
<1>7. s1 \in Int /\ s2 \in Int /\ s1 <= s2
  BY <1>2, <1>3, <1>4, <1>5
<1> HIDE DEF s1, s2
<1>8. QED
  BY <1>6, <1>7, DivGrows

\* The level is a level, and grows with the metrics.
LEMMA LevelGrows ==
  ASSUME NEW m \in Metrics, NEW k \in Metrics,
         m.gas <= k.gas, m.tps <= k.tps, m.pending <= k.pending, m.capacity <= k.capacity
  PROVE  level[m] \in 1 .. 5 /\ level[k] \in 1 .. 5 /\ level[m] <= level[k]
<1> DEFINE s1 == Score(m)
           s2 == Score(k)
<1>1. s1 \in Int /\ s2 \in Int /\ s1 <= s2
  BY FeesAssumption, ScoreGrows
<1>2. level[m] = LevelOf(s1) /\ level[k] = LevelOf(s2)
  BY DEF level
<1>3. \A s \in Int : LevelOf(s) = IF s <= 20 THEN 1 ELSE IF s <= 40 THEN 2 ELSE IF s <= 60 THEN 3
                                  ELSE IF s <= 80 THEN 4 ELSE 5
  BY DEF LevelOf
<1> HIDE DEF s1, s2
<1>4. QED
  BY <1>1, <1>2, <1>3

LEMMA LevelIsOne == \A m \in Metrics : level[m] \in 1 .. 5
<1>1. ASSUME NEW m \in Metrics PROVE level[m] \in 1 .. 5
  <2>1. m.gas <= m.gas /\ m.tps <= m.tps /\ m.pending <= m.pending /\ m.capacity <= m.capacity
    BY FeesAssumption DEF NetworkMetrics
  <2>2. QED
    BY <2>1, LevelGrows
<1>2. QED
  BY <1>1

\* A rising trend never lowers what a falling or level one adds.
LEMMA EffectGrows ==
  ASSUME NEW c \in FeeConfig, NEW m \in Metrics, NEW k \in Metrics, level[m] <= level[k],
         NEW past \in Metrics \union {Never}
  PROVE  LET e == TrendEffect(c, Trend(m, past))
             g == TrendEffect(c, Trend(k, past))
         IN  /\ e.points \in Int /\ g.points \in Int /\ e.points <= g.points /\ g.points <= 5
             /\ e.bps \in Int /\ g.bps \in Int /\ e.bps <= g.bps
<1> DEFINE step == (c.base * AtMost(50, c.percent)) \div 100
           half == step \div 2
           P(t) == IF ~c.trend \/ t = "Stable" THEN 0 ELSE IF t = "Increasing" THEN 5 ELSE -3
           B(t) == IF ~c.trend \/ t = "Stable" THEN 0 ELSE IF t = "Increasing" THEN step ELSE -half
           e == TrendEffect(c, Trend(m, past))
           g == TrendEffect(c, Trend(k, past))
<1>1. \A t : TrendEffect(c, t).points = P(t) /\ TrendEffect(c, t).bps = B(t)
  BY DEF TrendEffect
<1>2. step \in Nat /\ half \in Nat
  <2>1. c.base \in Nat /\ AtMost(50, c.percent) \in Nat
    BY DEF FeeConfig, FeeNumbers, AtMost
  <2> DEFINE x == c.base * AtMost(50, c.percent)
  <2>2. x \in Nat
    BY <2>1, MulNat
  <2> HIDE DEF x
  <2>3. x \div 100 \in Nat
    BY <2>2
  <2>4. step \in Nat
    BY <2>3 DEF x
  <2> HIDE DEF step
  <2>5. QED
    BY <2>4
<1> HIDE DEF step, half
<1>3. /\ level[m] \in Int /\ level[k] \in Int
      /\ past # Never => level[past] \in Int
  BY LevelIsOne
<1> DEFINE rank(t) == IF t = "Increasing" THEN 1 ELSE IF t = "Stable" THEN 0 ELSE -1
<1>4. \A t, u \in {"Stable", "Increasing", "Decreasing"} :
        rank(t) <= rank(u) => P(t) \in Int /\ P(u) \in Int /\ P(t) <= P(u) /\ P(u) <= 5
                              /\ B(t) \in Int /\ B(u) \in Int /\ B(t) <= B(u)
  BY <1>2
<1>5. /\ Trend(m, past) \in {"Stable", "Increasing", "Decreasing"}
      /\ Trend(k, past) \in {"Stable", "Increasing", "Decreasing"}
      /\ rank(Trend(m, past)) <= rank(Trend(k, past))
  <2>1. CASE past = Never
    BY <2>1 DEF Trend
  <2>2. CASE past # Never
    BY <1>3, <2>2 DEF Trend
  <2>3. QED
    BY <2>1, <2>2
<1> HIDE DEF P, B, rank
<1>6. QED
  BY <1>1, <1>4, <1>5

LEMMA AtLeastGrows ==
  ASSUME NEW low \in Int, NEW x \in Int, NEW y \in Int, x <= y
  PROVE  /\ AtLeast(low, x) \in Int /\ AtLeast(low, x) <= AtLeast(low, y)
         /\ AtLeast(low, x) >= low /\ AtLeast(low, x) >= x
BY DEF AtLeast

LEMMA AtMostGrows ==
  ASSUME NEW high \in Int, NEW x \in Int, NEW y \in Int, x <= y
  PROVE  /\ AtMost(high, x) \in Int /\ AtMost(high, x) <= AtMost(high, y)
         /\ AtMost(high, x) <= high /\ AtMost(high, x) <= x
BY DEF AtMost

LEMMA SaturatedGrows ==
  ASSUME NEW x \in Int, NEW y \in Int, x <= y
  PROVE  /\ Saturated(x) \in FeeNumbers /\ Saturated(y) \in FeeNumbers
         /\ Saturated(x) <= Saturated(y) /\ Saturated(y) <= AtLeast(0, y)
BY FeesAssumption DEF Saturated, AtLeast, AtMost, FeeNumbers

LEMMA MultipliedFits ==
  ASSUME NEW x \in Nat, NEW y \in Nat
  PROVE  Multiplied(x, y) \in FeeNumbers
<1> DEFINE z == (x * y) \div 100
<1>1. z \in Int
  <2> DEFINE w == x * y
  <2>1. w \in Nat
    BY MulNat
  <2> HIDE DEF w
  <2>2. w \div 100 \in Int
    BY <2>1
  <2>3. QED
    BY <2>2 DEF w
<1>2. Multiplied(x, y) = z % FeeWord
  BY DEF Multiplied
<1> HIDE DEF z
<1>3. z % FeeWord \in 0 .. FeeWord - 1
  BY <1>1, FeesAssumption
<1>4. QED
  BY <1>2, <1>3 DEF FeeNumbers

\* Products that fit are not cut, and grow with the multiplier.
LEMMA MultipliedGrows ==
  ASSUME NEW x \in Nat, NEW y \in Nat, NEW z \in Nat, NEW most \in Nat, y <= z, z <= most,
         (x * most) \div 100 < FeeWord
  PROVE  Multiplied(x, y) <= Multiplied(x, z)
<1> DEFINE a == x * y
           b == x * z
           c == x * most
<1>1. a \in Nat /\ b \in Nat /\ c \in Nat /\ a <= b /\ b <= c
  BY MulNat, MulMono
<1>2. Multiplied(x, y) = (a \div 100) % FeeWord /\ Multiplied(x, z) = (b \div 100) % FeeWord
  BY DEF Multiplied
<1>3. c \div 100 < FeeWord
  OBVIOUS
<1> HIDE DEF a, b, c
<1> DEFINE s == a \div 100
           t == b \div 100
<1>4. s \in Nat /\ t \in Nat /\ s <= t /\ t < FeeWord
  <2>1. s \in Nat /\ t \in Nat /\ t <= c \div 100 /\ c \div 100 \in Int
    BY <1>1, DivGrows
  <2>2. s <= t
    BY <1>1, DivGrows
  <2> HIDE DEF s, t
  <2>3. QED
    BY <1>3, <2>1, <2>2, FeesAssumption
<1> HIDE DEF s, t
<1>5. \A n \in Nat : n < FeeWord => n % FeeWord = n
  BY FeesAssumption
<1>6. s % FeeWord = s /\ t % FeeWord = t
  BY <1>4, <1>5, FeesAssumption
<1>7. QED
  BY <1>2, <1>4, <1>6 DEF s, t

\* Under multipliers that rise and fit, the fee grows with the level, whatever
\* the rest of the configuration, the last metrics and the override.
LEMMA FeeGrows ==
  ASSUME NEW c \in FeeConfig, Rising(c), NEW m \in Metrics, NEW k \in Metrics,
         level[m] <= level[k], NEW past \in Metrics \union {Never}, NEW on \in BOOLEAN
  PROVE  AdjustedFee(c, m, past, on) <= AdjustedFee(c, k, past, on)
<1> DEFINE e == TrendEffect(c, Trend(m, past))
           g == TrendEffect(c, Trend(k, past))
           p1 == Saturated(c.multiplier[level[m]] + e.points)
           p2 == Saturated(c.multiplier[level[k]] + g.points)
           x1 == Multiplied(c.base, p1)
           x2 == Multiplied(c.base, p2)
           t1 == Saturated(x1 + e.bps)
           t2 == Saturated(x2 + g.bps)
           c1 == IF on /\ c.override THEN AtMost(c.cap, t1) ELSE t1
           c2 == IF on /\ c.override THEN AtMost(c.cap, t2) ELSE t2
           most == c.multiplier[5] + 5
<1>1. /\ \A i \in 1 .. 4 : c.multiplier[i] <= c.multiplier[i + 1]
      /\ (c.base * most) \div 100 < FeeWord
  BY DEF Rising
<1>2. /\ c.base \in Nat /\ c.cap \in Nat /\ c.min \in Nat /\ c.max \in Nat
      /\ \A i \in 1 .. 5 : c.multiplier[i] \in Nat
  BY DEF FeeConfig, FeeNumbers
<1>3. /\ e.points \in Int /\ g.points \in Int /\ e.points <= g.points /\ g.points <= 5
      /\ e.bps \in Int /\ g.bps \in Int /\ e.bps <= g.bps
  BY EffectGrows
<1>4. /\ AdjustedFee(c, m, past, on) = AtMost(c.max, AtLeast(c.min, c1))
      /\ AdjustedFee(c, k, past, on) = AtMost(c.max, AtLeast(c.min, c2))
  BY DEF AdjustedFee
<1> HIDE DEF e, g
<1>5. /\ c.multiplier[level[m]] \in Nat /\ c.multiplier[level[k]] \in Nat
      /\ c.multiplier[level[m]] <= c.multiplier[level[k]]
      /\ c.multiplier[level[k]] <= c.multiplier[5]
  <2>1. level[m] \in 1 .. 5 /\ level[k] \in 1 .. 5
    BY LevelIsOne
  <2>2. \A i, j \in 1 .. 5 : i <= j => c.multiplier[i] <= c.multiplier[j]
    <3>1. /\ c.multiplier[1] <= c.multiplier[2] /\ c.multiplier[2] <= c.multiplier[3]
          /\ c.multiplier[3] <= c.multiplier[4] /\ c.multiplier[4] <= c.multiplier[5]
      <4>1. \A i \in {1, 2, 3, 4} : c.multiplier[i] <= c.multiplier[i + 1]
        BY <1>1
      <4>2. QED
        BY <4>1
    <3>2. \A i \in 1 .. 5 : i \in {1, 2, 3, 4, 5}
      OBVIOUS
    <3>3. QED
      BY <1>2, <3>1, <3>2
  <2>3. QED
    BY <1>2, <2>1, <2>2
<1>6. p1 \in Nat /\ p2 \in Nat /\ p1 <= p2 /\ p2 <= most /\ most \in Nat
  <2> DEFINE y == c.multiplier[level[m]] + e.points
             z == c.multiplier[level[k]] + g.points
  <2>1. y \in Int /\ z \in Int /\ y <= z /\ most \in Nat
    BY <1>2, <1>3, <1>5
  <2>2. z <= most
    BY <1>2, <1>3, <1>5
  <2> HIDE DEF most, y, z
  <2>3. /\ Saturated(y) \in FeeNumbers /\ Saturated(z) \in FeeNumbers
        /\ Saturated(y) <= Saturated(z) /\ Saturated(z) <= AtLeast(0, z)
    BY <2>1, SaturatedGrows
  <2>4. AtLeast(0, z) <= most
    BY <2>1, <2>2 DEF AtLeast
  <2>5. Saturated(y) \in Nat /\ Saturated(z) \in Nat /\ AtLeast(0, z) \in Int
    BY <2>1, <2>3 DEF AtLeast, FeeNumbers
  <2>6. Saturated(z) <= most
    BY <2>1, <2>3, <2>4, <2>5
  <2>7. QED
    BY <2>1, <2>3, <2>5, <2>6 DEF y, z
<1> HIDE DEF p1, p2, most
<1>7. x1 \in Nat /\ x2 \in Nat /\ x1 <= x2
  <2> DEFINE base == c.base
  <2>1. base \in Nat /\ (base * most) \div 100 < FeeWord
    BY <1>1, <1>2
  <2> HIDE DEF base
  <2>2. Multiplied(base, p1) <= Multiplied(base, p2)
    BY <1>6, <2>1, MultipliedGrows
  <2>3. Multiplied(base, p1) \in FeeNumbers /\ Multiplied(base, p2) \in FeeNumbers
    BY <1>6, <2>1, MultipliedFits
  <2>4. QED
    BY <2>2, <2>3 DEF base, FeeNumbers
<1> HIDE DEF x1, x2
<1>8. x1 + e.bps \in Int /\ x2 + g.bps \in Int /\ x1 + e.bps <= x2 + g.bps
  BY <1>3, <1>7
<1>9. t1 \in Int /\ t2 \in Int /\ t1 <= t2
  BY <1>8, SaturatedGrows DEF FeeNumbers
<1> HIDE DEF t1, t2
<1>10. c1 \in Int /\ c2 \in Int /\ c1 <= c2
  BY <1>2, <1>9 DEF AtMost
<1> HIDE DEF c1, c2
<1>11. QED
  BY <1>2, <1>4, <1>10 DEF AtLeast, AtMost

\* A fee is a number of its width, and under the cap of an override.
Bounded(v, c, on) ==
  /\ v \in FeeNumbers
  /\ on /\ c.override => v <= AtLeast(c.min, c.cap)

LEMMA FeeWithin ==
  ASSUME NEW c \in FeeConfig, NEW m \in Metrics,
         NEW past \in Metrics \union {Never}, NEW on \in BOOLEAN
  PROVE  Bounded(AdjustedFee(c, m, past, on), c, on)
<1> DEFINE e == TrendEffect(c, Trend(m, past))
           p == Saturated(c.multiplier[level[m]] + e.points)
           x == Multiplied(c.base, p)
           t == Saturated(x + e.bps)
           d == IF on /\ c.override THEN AtMost(c.cap, t) ELSE t
<1>1. FeeWord \in Nat
  BY FeesAssumption
<1>2. /\ c.base \in FeeNumbers /\ c.cap \in FeeNumbers /\ c.min \in FeeNumbers /\ c.max \in FeeNumbers
      /\ \A i \in 1 .. 5 : c.multiplier[i] \in FeeNumbers
  BY DEF FeeConfig
<1>3. e.points \in Int /\ e.bps \in Int
  <2>1. level[m] <= level[m]
    BY LevelIsOne
  <2>2. QED
    BY <2>1, EffectGrows
<1>4. AdjustedFee(c, m, past, on) = AtMost(c.max, AtLeast(c.min, d))
  BY DEF AdjustedFee
<1> HIDE DEF e
<1>5. p \in Nat
  <2> DEFINE y == c.multiplier[level[m]] + e.points
  <2>1. y \in Int /\ y <= y
    BY <1>1, <1>2, <1>3, LevelIsOne DEF FeeNumbers
  <2> HIDE DEF y
  <2>2. Saturated(y) \in FeeNumbers
    BY <2>1, SaturatedGrows
  <2>3. QED
    BY <1>1, <2>2 DEF y, FeeNumbers
<1> HIDE DEF p
<1>6. x \in Int
  <2>1. c.base \in Nat
    BY <1>1, <1>2 DEF FeeNumbers
  <2>2. x \in FeeNumbers
    BY <1>5, <2>1, MultipliedFits
  <2>3. QED
    BY <1>1, <2>2 DEF FeeNumbers
<1> HIDE DEF x
<1>7. t \in FeeNumbers
  <2> DEFINE y == x + e.bps
  <2>1. y \in Int /\ y <= y
    BY <1>3, <1>6
  <2> HIDE DEF y
  <2>2. Saturated(y) \in FeeNumbers
    BY <2>1, SaturatedGrows
  <2>3. QED
    BY <2>2 DEF y
<1> HIDE DEF t
<1> DEFINE lo == c.min
           hi == c.max
           cap == c.cap
           v == AtMost(hi, AtLeast(lo, d))
<1>8. d \in FeeNumbers /\ (on /\ c.override => d <= cap)
  BY <1>1, <1>2, <1>7 DEF AtMost, FeeNumbers
<1> HIDE DEF d
<1>9. lo \in FeeNumbers /\ hi \in FeeNumbers /\ cap \in FeeNumbers
  BY <1>2
<1> HIDE DEF lo, hi, cap
<1>10. v \in FeeNumbers /\ (d <= cap => v <= AtLeast(lo, cap))
  BY <1>1, <1>8, <1>9 DEF AtLeast, AtMost, FeeNumbers
<1> HIDE DEF v
<1>11. QED
  BY <1>4, <1>8, <1>10 DEF v, lo, hi, cap, Bounded

LEMMA FeesInvSound == FeesInv => FeesSound
<1> SUFFICES ASSUME FeesInv PROVE FeesSound
  OBVIOUS
<1>1. feeConfig \in FeeConfig
  BY DEF FeesInv
<1>2. FeesTypeOK
  BY <1>1 DEF FeesInv, FeesTypeOK
<1> DEFINE n == Len(feeHistory)
<1>3. n \in Nat /\ feeHistory \in Seq(Entry)
  BY LenProperties DEF FeesInv, Told, StoryOf
<1>4. FeeStoryKept
  <2>1. ASSUME NEW k \in 1 .. n - 1
        PROVE  feeHistory[k + 1].before = feeHistory[k].fee /\ feeHistory[k].at <= feeHistory[k + 1].at
    <3>1. k \in 1 .. n /\ k + 1 \in 1 .. n /\ k < k + 1
      BY <1>3, <2>1
    <3>2. QED
      BY <3>1 DEF FeesInv, Told, StoryOf
  <2>2. feeHistory # << >> => Last(feeHistory).fee = fee /\ Last(feeHistory).before = feeBefore
    BY DEF FeesInv, Told, EndsWith, Last
  <2>3. QED
    BY <2>1, <2>2 DEF FeeStoryKept
<1>5. ASSUME Rising(feeConfig) PROVE DearerWhenBusier
  <2>1. ASSUME NEW pair \in Busier, NEW active \in BOOLEAN
        PROVE  AdjustedFee(feeConfig, pair[1], metricsBefore, active)
                 <= AdjustedFee(feeConfig, pair[2], metricsBefore, active)
    <3> DEFINE m == pair[1]
               k == pair[2]
    <3>1. /\ m \in Metrics /\ k \in Metrics
          /\ \A x \in {"gas", "tps", "pending", "capacity"} : m[x] <= k[x]
      BY DEF Busier
    <3> HIDE DEF m, k
    <3>2. m.gas <= k.gas /\ m.tps <= k.tps /\ m.pending <= k.pending /\ m.capacity <= k.capacity
      BY <3>1
    <3>3. level[m] <= level[k]
      BY <3>1, <3>2, LevelGrows
    <3>4. feeConfig \in FeeConfig /\ metricsBefore \in Metrics \union {Never}
      BY DEF FeesInv
    <3>5. AdjustedFee(feeConfig, m, metricsBefore, active) <= AdjustedFee(feeConfig, k, metricsBefore, active)
      BY <1>5, <3>1, <3>3, <3>4, FeeGrows
    <3>6. QED
      BY <3>5 DEF m, k
  <2>2. QED
    BY <2>1 DEF DearerWhenBusier
<1>6. DearerWhenBusier
  BY <1>5 DEF DearerWhenBusier
<1>7. QED
  BY <1>2, <1>4, <1>6 DEF FeesSound

LEMMA FeesInvInit == FeesInit => FeesInv
<1> SUFFICES ASSUME FeesInit PROVE FeesInv
  OBVIOUS
<1> DEFINE b == feeConfig.base
           e == [fee |-> b, before |-> b, at |-> 0]
<1>1. feeConfig \in FeeConfig /\ b \in FeeNumbers
  BY FeesAssumption DEF FeesInit, FeeConfig
<1>2. feeHistory = << e >>
  BY DEF FeesInit
<1> HIDE DEF b
<1>3. e \in Entry /\ e.at = 0 /\ e.fee = b /\ e.before = b
  BY <1>1 DEF Entry
<1> HIDE DEF e
<1>4. << e >> \in Seq(Entry) /\ Len(<< e >>) = 1 /\ << e >>[1] = e
  BY <1>3
<1>5. Told(feeHistory, b, b, 0) /\ Len(feeHistory) = 1
  BY <1>2, <1>3, <1>4 DEF Told, StoryOf, EndsWith
<1>6. fee = b /\ feeBefore = b
  BY DEF FeesInit, b
<1>7. QED
  BY <1>1, <1>5, <1>6, FeesAssumption DEF FeesInit, FeesInv, NoOverride

\* A change of the fee: set_fee and record_fee_adjustment.
LEMMA SetFeeTells ==
  ASSUME FeesInv, NEW new \in FeeNumbers, SetFee(new)
  PROVE  /\ fee' = new /\ feeBefore' = fee
         /\ Told(feeHistory', new, fee, clock) /\ Len(feeHistory') <= HistoryCap
<1> DEFINE q == Append(feeHistory, EntryOf(new, fee, clock))
<1>1. /\ Told(feeHistory, fee, feeBefore, clock)
      /\ fee \in FeeNumbers /\ clock \in Nat /\ HistoryCap \in Nat
  BY FeesAssumption DEF FeesInv
<1>2. fee' = new /\ feeBefore' = fee /\ feeHistory' = Keep(q, HistoryCap)
  BY DEF SetFee, Recorded, EntryOf
<1>3. q = Append(feeHistory, EntryOf(new, fee, clock))
  OBVIOUS
<1> HIDE DEF q
<1>4. Told(q, new, fee, clock)
  <2> DEFINE H == feeHistory
             f == fee
             b == feeBefore
             t == clock
  <2>1. f \in FeeNumbers /\ new \in FeeNumbers /\ t \in Nat /\ Told(H, f, b, t) /\ q = Append(H, EntryOf(new, f, t))
    BY <1>1, <1>3
  <2> HIDE DEF H, f, b, t
  <2>2. Told(q, new, f, t)
    BY <2>1, StoryGoesOn
  <2>3. QED
    BY <2>2 DEF f, t
<1>5. Told(Keep(q, HistoryCap), new, fee, clock) /\ Len(Keep(q, HistoryCap)) <= HistoryCap
  BY <1>1, <1>4, KeepIsTail
<1>6. QED
  BY <1>2, <1>5

\* An override in force has an end, and has not run out at an update.
LEMMA OverrideStep ==
  ASSUME FeesInv, NEW m
  PROVE  LET o == OverrideAfter(m) IN
         /\ o \in [active : BOOLEAN, until : Nat \union {Never}]
         /\ o.active => o.until \in Nat /\ clock < o.until
<1>1. /\ override \in [active : BOOLEAN, until : Nat \union {Never}]
      /\ override.active => override.until \in Nat
      /\ clock \in Nat /\ RecoveryTimeout \in Nat /\ RecoveryTimeout # 0 /\ Never \notin Nat
  BY FeesAssumption DEF FeesInv
<1> DEFINE end == clock + RecoveryTimeout
           o == OverrideAfter(m)
<1>2. end \in Nat /\ clock < end
  BY <1>1
<1> HIDE DEF end
<1>3. CASE Triggers(m) /\ ~override.active
  <2>1. o = [override EXCEPT !.active = TRUE, !.until = end]
    BY <1>3 DEF OverrideAfter, Activated, end
  <2>2. QED
    BY <1>1, <1>2, <2>1
<1>4. CASE ~(Triggers(m) /\ ~override.active) /\ override.active /\ override.until # Never /\ clock >= override.until
  <2>1. o = [active |-> FALSE, until |-> Never]
    BY <1>4 DEF OverrideAfter, Deactivated, NoOverride
  <2>2. QED
    BY <2>1
<1>5. CASE ~(Triggers(m) /\ ~override.active) /\ ~(override.active /\ override.until # Never /\ clock >= override.until)
  <2>1. o = override
    BY <1>5 DEF OverrideAfter
  <2>2. QED
    BY <1>1, <1>5, <2>1
<1>6. QED
  BY <1>3, <1>4, <1>5

\* An automatic update, seen from what only it sets, and what it leaves.
Updates == << lastUpdate, metricsBefore >>' # << lastUpdate, metricsBefore >>

UpdateKeeps ==
  override'.active => /\ clock < override'.until
                      /\ feeConfig.override => fee' <= AtLeast(feeConfig.min, feeConfig.cap)

LEMMA UpdateFeesStep ==
  ASSUME FeesInv, NEW m \in Metrics, UpdateFees(m)
  PROVE  FeesInv' /\ UpdateKeeps
<1> DEFINE o == OverrideAfter(m)
           new == AdjustedFee(feeConfig, m, metricsBefore, o.active)
<1>1. o \in [active : BOOLEAN, until : Nat \union {Never}]
      /\ (o.active => o.until \in Nat /\ clock < o.until)
  BY OverrideStep
<1>2. /\ override' = o /\ metricsBefore' = m /\ lastUpdate' = clock
      /\ UNCHANGED << clock, feeConfig, authorized >>
      /\ IF new # fee THEN SetFee(new) ELSE UNCHANGED << fee, feeBefore, feeHistory >>
  BY DEF UpdateFees
<1> HIDE DEF o
<1>3. Bounded(new, feeConfig, o.active)
  <2>1. /\ feeConfig \in FeeConfig
        /\ metricsBefore \in Metrics \union {Never} /\ o.active \in BOOLEAN
    BY <1>1 DEF FeesInv
  <2> DEFINE c == feeConfig
             past == metricsBefore
             on == o.active
  <2>2. /\ c \in FeeConfig
        /\ past \in Metrics \union {Never} /\ on \in BOOLEAN
    BY <2>1
  <2> HIDE DEF c, past, on
  <2>3. Bounded(AdjustedFee(c, m, past, on), c, on)
    BY <2>2, FeeWithin
  <2>4. QED
    BY <2>3 DEF c, past, on
<1> HIDE DEF new
<1>4. fee' = new /\ fee' \in FeeNumbers /\ feeBefore' \in FeeNumbers
      /\ Told(feeHistory', fee', feeBefore', clock) /\ Len(feeHistory') <= HistoryCap
  <2>1. CASE new # fee
    <3>1. SetFee(new)
      BY <1>2, <2>1
    <3>2. new \in FeeNumbers
      BY <1>3 DEF Bounded
    <3>3. /\ fee' = new /\ feeBefore' = fee
          /\ Told(feeHistory', new, fee, clock) /\ Len(feeHistory') <= HistoryCap
      BY <3>1, <3>2, SetFeeTells
    <3>4. QED
      BY <1>2, <3>2, <3>3 DEF FeesInv
  <2>2. CASE new = fee
    BY <1>2, <2>2 DEF FeesInv
  <2>3. QED
    BY <2>1, <2>2
<1>5. FeesInv'
  BY <1>1, <1>2, <1>4 DEF FeesInv
<1>6. UpdateKeeps
  BY <1>1, <1>2, <1>3, <1>4 DEF UpdateKeeps, Bounded
<1>7. QED
  BY <1>5, <1>6

LEMMA FeesCallStep ==
  ASSUME FeesInv, FeesNext
  PROVE  FeesInv' /\ (Updates => UpdateKeeps)
<1>1. ASSUME NEW m \in Metrics, UpdateFees(m) PROVE FeesInv' /\ UpdateKeeps
  BY <1>1, UpdateFeesStep
<1>2. ASSUME NEW new \in ManualFees, UpdateFeesManual(new) PROVE FeesInv' /\ lastUpdate' = lastUpdate /\ metricsBefore' = metricsBefore
  <2>1. /\ SetFee(new) /\ feeConfig.min <= new /\ new <= feeConfig.max
        /\ UNCHANGED << clock, feeConfig, metricsBefore, lastUpdate, override, authorized >>
    BY <1>2 DEF UpdateFeesManual, Admissible
  <2>2. new \in FeeNumbers
    BY FeesAssumption
  <2>3. /\ fee' = new /\ feeBefore' = fee
        /\ Told(feeHistory', new, fee, clock) /\ Len(feeHistory') <= HistoryCap
    BY <2>1, <2>2, SetFeeTells
  <2>4. QED
    BY <2>1, <2>2, <2>3 DEF FeesInv
<1>3. ASSUME NEW c \in FeeConfigs, UpdateFeeConfig(c)
      PROVE  FeesInv' /\ lastUpdate' = lastUpdate /\ metricsBefore' = metricsBefore
  BY <1>3, FeesAssumption DEF UpdateFeeConfig, FeesInv
<1>4. ASSUME NEW a \in Operators, ActivateOverride(a) \/ DeactivateOverride(a)
      PROVE  FeesInv' /\ lastUpdate' = lastUpdate /\ metricsBefore' = metricsBefore
  <2>1. UNCHANGED << clock, feeConfig, fee, feeBefore, metricsBefore, lastUpdate, authorized, feeHistory >>
    BY <1>4 DEF ActivateOverride, DeactivateOverride
  <2>2. override' \in [active : BOOLEAN, until : Nat \union {Never}]
        /\ (override'.active => override'.until \in Nat)
    <3>1. CASE ActivateOverride(a)
      <4> DEFINE end == clock + RecoveryTimeout
      <4>1. end \in Nat /\ override \in [active : BOOLEAN, until : Nat \union {Never}]
        BY FeesAssumption DEF FeesInv
      <4>2. override' = [override EXCEPT !.active = TRUE, !.until = end]
        BY <3>1 DEF ActivateOverride, Activated
      <4> HIDE DEF end
      <4>3. QED
        BY <4>1, <4>2
    <3>2. CASE DeactivateOverride(a)
      BY <3>2 DEF DeactivateOverride, Deactivated, NoOverride
    <3>3. QED
      BY <1>4, <3>1, <3>2
  <2>3. QED
    BY <2>1, <2>2 DEF FeesInv
<1>5. ASSUME NEW a \in Operators, NEW yes \in BOOLEAN, SetAuthorized(a, yes)
      PROVE  FeesInv' /\ lastUpdate' = lastUpdate /\ metricsBefore' = metricsBefore
  <2>1. /\ UNCHANGED << clock, feeConfig, fee, feeBefore, metricsBefore, lastUpdate, override, feeHistory >>
        /\ authorized' \subseteq authorized \union {a}
    BY <1>5 DEF SetAuthorized
  <2>2. authorized' \subseteq Operators
    BY <2>1 DEF FeesInv
  <2>3. QED
    BY <2>1, <2>2 DEF FeesInv
<1>6. ASSUME NEW retention \in RetentionPeriods, CleanupOldHistory(retention)
      PROVE  FeesInv' /\ lastUpdate' = lastUpdate /\ metricsBefore' = metricsBefore
  <2> DEFINE cutoff == AtLeast(0, clock - retention)
             S == {x \in Range(feeHistory) : x.at >= cutoff}
  <2>1. /\ feeHistory' = Only(feeHistory, S)
        /\ UNCHANGED << clock, feeConfig, fee, feeBefore, metricsBefore, lastUpdate, override, authorized >>
    BY <1>6 DEF CleanupOldHistory
  <2>2. cutoff \in Int /\ S = {x \in Range(feeHistory) : x.at >= cutoff}
    BY FeesAssumption DEF FeesInv, AtLeast
  <2>3. /\ Told(feeHistory, fee, feeBefore, clock)
        /\ Len(feeHistory) <= HistoryCap /\ HistoryCap \in Nat
    BY FeesAssumption DEF FeesInv
  <2> HIDE DEF S, cutoff
  <2>4. /\ Told(Only(feeHistory, S), fee, feeBefore, clock)
        /\ Len(Only(feeHistory, S)) <= Len(feeHistory)
    BY <2>2, <2>3, OnlyIsTail
  <2>5. Len(feeHistory') <= HistoryCap
    <3>1. Len(feeHistory) \in Nat /\ Len(feeHistory') \in Nat
      BY <2>1, <2>3, <2>4, LenProperties DEF Told, StoryOf
    <3>2. QED
      BY <2>1, <2>3, <2>4, <3>1
  <2>6. QED
    BY <2>1, <2>4, <2>5 DEF FeesInv
<1>7. ASSUME NEW dt \in FeeTimeSteps, FeeTimePasses(dt) PROVE FeesInv' /\ lastUpdate' = lastUpdate /\ metricsBefore' = metricsBefore
  <2>1. /\ clock' = clock + dt /\ clock + dt <= MaxFeeTime /\ dt \in Nat
        /\ UNCHANGED << feeConfig, fee, feeBefore, metricsBefore, lastUpdate, override, authorized, feeHistory >>
    BY <1>7, FeesAssumption DEF FeeTimePasses
  <2>2. clock' \in 0 .. MaxFeeTime /\ lastUpdate' \in 0 .. clock' /\ clock \in Nat /\ clock <= clock'
    BY <2>1, FeesAssumption DEF FeesInv
  <2>3. \A i \in 1 .. Len(feeHistory) : feeHistory[i].at \in Nat
    <3>1. feeHistory \in Seq(Entry)
      BY DEF FeesInv, Told, StoryOf
    <3>2. \A i \in 1 .. Len(feeHistory) : feeHistory[i] \in Entry
      BY <3>1, ElementOfSeq
    <3>3. \A x \in Entry : x.at \in Nat
      BY DEF Entry
    <3>4. QED
      BY <3>2, <3>3
  <2>4. \A i \in 1 .. Len(feeHistory') : feeHistory'[i].at <= clock'
    <3>1. ASSUME NEW i \in 1 .. Len(feeHistory) PROVE feeHistory[i].at <= clock'
      <4>1. feeHistory[i].at <= clock
        BY DEF FeesInv, Told
      <4>2. clock' \in Nat
        BY <2>2
      <4>3. QED
        BY <2>2, <2>3, <4>1, <4>2
    <3>2. QED
      BY <2>1, <3>1
  <2>5. Told(feeHistory, fee, feeBefore, clock')
    BY <2>1, <2>4 DEF FeesInv, Told
  <2>6. QED
    BY <2>1, <2>2, <2>5 DEF FeesInv
<1>8. QED
  BY <1>1, <1>2, <1>3, <1>4, <1>5, <1>6, <1>7 DEF FeesNext, Updates

LEMMA FeesStep ==
  ASSUME FeesInv, [ServicesNext]_servicesVars
  PROVE  FeesInv' /\ (Updates => UpdateKeeps)
<1>1. FeesNext \/ UNCHANGED feeVars
  BY DEF ServicesNext, Focused, servicesVars
<1>2. CASE UNCHANGED feeVars
  BY <1>2 DEF feeVars, FeesInv, Updates
<1>3. QED
  BY <1>1, <1>2, FeesCallStep

\* The congestion fees: the history of the fee manager is the story of the fee
\* whatever changed it and whatever was trimmed or cleaned, and under every
\* configuration whose multipliers rise and whose products fit 32 bits, no
\* reported metric that rises lowers the fee that would come next.
THEOREM FeesAlwaysSound == ServicesSpec => []FeesSound
<1>1. ServicesInit => FeesInv
  BY FeesInvInit DEF ServicesInit
<1>2. FeesInv /\ [ServicesNext]_servicesVars => FeesInv'
  BY FeesStep
<1>3. QED
  BY <1>1, <1>2, FeesInvSound, PTL DEF ServicesSpec

\* No automatic update leaves an override in force that has run out, nor a fee
\* above the cap of one in force.
THEOREM OverrideAlwaysKept == ServicesSpec => OverrideKept
<1> DEFINE Step == Updates => UpdateKeeps
<1>1. ServicesInit => FeesInv
  BY FeesInvInit DEF ServicesInit
<1>2. FeesInv /\ [ServicesNext]_servicesVars => FeesInv' /\ Step
  BY FeesStep
<1>3. Step => [<< lastUpdate, metricsBefore >>' # << lastUpdate, metricsBefore >> /\ override'.active =>
                 /\ clock < override'.until
                 /\ feeConfig.override => fee' <= AtLeast(feeConfig.min, feeConfig.cap)]_feeVars
  BY DEF Updates, UpdateKeeps
<1> HIDE DEF Step
<1>4. QED
  BY <1>1, <1>2, <1>3, PTL DEF ServicesSpec, OverrideKept

-----------------------------------------------------------------------------
(* Achievements and the discounts they give *)

Achievement == [category : Categories, bps : Nat, earned : Nat, until : Nat, active : BOOLEAN]
Status ==
  [achievements : Seq(Achievement), streak : Nat, lastDay : Nat, maxLoss : Nat, volume : Nat]

\* A risk achievement runs for a term and was earned before the loss of day o
\* above the limit, unless it is one of the bonuses g.
OnRecord(a, o, g) ==
  a.category = "RiskManagement" /\ a \notin g =>
    a.until = a.earned + AchievementTerm /\ (o # NoLoss => a.earned <= o)

\* Of the active ones.
OnePerCategory(l) ==
  \A i, j \in 1 .. Len(l) : l[i].active /\ l[j].active /\ l[i].category = l[j].category => i = j

\* Achievements held on day d.
HeldOn(l, o, g, d) ==
  /\ l \in Seq(Achievement) /\ OnePerCategory(l)
  /\ \A i \in 1 .. Len(l) : l[i].earned <= d /\ OnRecord(l[i], o, g)

\* A trader's record on day d.
Stands(s, o, g, d) ==
  /\ s \in Status /\ HeldOn(s.achievements, o, g, d)
  /\ s.lastDay <= d
  /\ o # NoLoss => s.maxLoss > 5

ProgressionInv ==
  /\ standing \in [Earners -> Status]
  /\ overLoss \in [Earners -> Nat \union {NoLoss}]
  /\ given \in [Earners -> SUBSET Achievement]
  /\ \A u \in Earners : Stands(standing[u], overLoss[u], given[u], Day)

LEMMA MinOfTwo == \A x, y \in Int : Min({x, y}) = IF x <= y THEN x ELSE y
BY DEF Min

LEMMA MaxOfTwo == \A x, y \in Int : Max({x, y}) = IF x >= y THEN x ELSE y
BY DEF Max

\* What is held without some of it.
LEMMA OnlyHeld ==
  ASSUME NEW l, NEW o, NEW g, NEW d, HeldOn(l, o, g, d), NEW S
  PROVE  HeldOn(Only(l, S), o, g, d) /\ \A i \in 1 .. Len(Only(l, S)) : Only(l, S)[i] \in S
<1> DEFINE r == Only(l, S)
           n == Len(l)
           m == Len(r)
<1>1. /\ l \in Seq(Achievement)
      /\ \A i, j \in 1 .. n : l[i].active /\ l[j].active /\ l[i].category = l[j].category => i = j
      /\ \A i \in 1 .. n : l[i].earned <= d /\ OnRecord(l[i], o, g)
  BY DEF HeldOn, OnePerCategory
<1>2. r \in Seq(Achievement) /\ \E h : Picks(l, S, n, r, h)
  BY <1>1, OnlyPicks
<1> HIDE DEF r
<1>3. PICK h : Picks(l, S, n, r, h)
  BY <1>2
<1>4. m \in Nat /\ n \in Nat
  BY <1>1, <1>2, LenProperties
<1>5. /\ \A i \in 1 .. m : h[i] \in 1 .. n /\ r[i] = l[h[i]] /\ r[i] \in S
      /\ \A i, j \in 1 .. m : i < j => h[i] < h[j]
  BY <1>3 DEF Picks
<1> HIDE DEF n, m
<1>6. ASSUME NEW i \in 1 .. m, NEW j \in 1 .. m, r[i].active, r[j].active,
             r[i].category = r[j].category
      PROVE  i = j
  <2>1. h[i] = h[j]
    BY <1>1, <1>5, <1>6
  <2>2. ~(i < j) /\ ~(j < i)
    BY <1>4, <1>5, <2>1
  <2>3. QED
    BY <1>4, <2>2
<1>7. \A i \in 1 .. m : r[i].earned <= d /\ OnRecord(r[i], o, g)
  BY <1>1, <1>5
<1>8. HeldOn(r, o, g, d)
  BY <1>2, <1>6, <1>7 DEF HeldOn, OnePerCategory, m
<1>9. QED
  BY <1>5, <1>8 DEF r, m

\* What is held and one more of another category.
LEMMA AppendHeld ==
  ASSUME NEW l, NEW o, NEW g, NEW d, HeldOn(l, o, g, d), NEW a \in Achievement,
         a.earned <= d, OnRecord(a, o, g),
         \A i \in 1 .. Len(l) : l[i].active => l[i].category # a.category
  PROVE  HeldOn(Append(l, a), o, g, d)
<1> DEFINE n == Len(l)
           q == Append(l, a)
<1>1. /\ l \in Seq(Achievement)
      /\ \A i, j \in 1 .. n : l[i].active /\ l[j].active /\ l[i].category = l[j].category => i = j
      /\ \A i \in 1 .. n : l[i].earned <= d /\ OnRecord(l[i], o, g)
  BY DEF HeldOn, OnePerCategory
<1>2. /\ n \in Nat /\ q \in Seq(Achievement) /\ Len(q) = n + 1 /\ q[n + 1] = a
      /\ \A i \in 1 .. n : q[i] = l[i]
  BY <1>1, AppendProperties, LenProperties
<1>3. \A i \in 1 .. n : l[i].active => l[i].category # a.category
  OBVIOUS
<1> HIDE DEF n, q
<1>4. \A i \in 1 .. n + 1 : i \in 1 .. n \/ i = n + 1
  BY <1>2
<1>5. \A i, j \in 1 .. n + 1 : q[i].active /\ q[j].active /\ q[i].category = q[j].category => i = j
  BY <1>1, <1>2, <1>3, <1>4
<1>6. \A i \in 1 .. n + 1 : q[i].earned <= d /\ OnRecord(q[i], o, g)
  BY <1>1, <1>2, <1>4
<1>7. HeldOn(q, o, g, d)
  BY <1>2, <1>5, <1>6 DEF HeldOn, OnePerCategory
<1>8. QED
  BY <1>7 DEF q

\* A record that got other achievements.
LEMMA RecordWith ==
  ASSUME NEW s, NEW o, NEW g, NEW d, Stands(s, o, g, d), NEW l, HeldOn(l, o, g, d)
  PROVE  /\ Stands([s EXCEPT !.achievements = l], o, g, d)
         /\ [s EXCEPT !.achievements = l].achievements = l
         /\ [s EXCEPT !.achievements = l].maxLoss = s.maxLoss
<1>1. s \in Status /\ l \in Seq(Achievement)
  BY DEF Stands, HeldOn
<1> DEFINE t == [s EXCEPT !.achievements = l]
<1>2. /\ t \in Status /\ t.achievements = l /\ t.lastDay = s.lastDay /\ t.maxLoss = s.maxLoss
  BY <1>1 DEF Status
<1> HIDE DEF t
<1>3. Stands(t, o, g, d)
  BY <1>2 DEF Stands
<1>4. QED
  BY <1>2, <1>3 DEF t

\* An achievement earned on the day's record.
LEMMA EarnStands ==
  ASSUME NEW s, NEW o, NEW g, Day \in Nat, Stands(s, o, g, Day),
         NEW c \in Categories, NEW bps \in Nat, ~Has(s, c), c = "RiskManagement" => o = NoLoss
  PROVE  Stands(Earn(s, c, bps), o, g, Day)
<1> DEFINE d == Day
           u == d + AchievementTerm
           a == [category |-> c, bps |-> bps, earned |-> d, until |-> u, active |-> TRUE]
           l == s.achievements
<1>1. HeldOn(l, o, g, d) /\ s \in Status
  BY DEF Stands
<1>2. u \in Nat /\ d \in Nat /\ d <= d
  BY ProgressionAssumption
<1>3. Earn(s, c, bps) = [s EXCEPT !.achievements = Append(l, a)]
  BY <1>1 DEF Earn, Status
<1>4. u = d + AchievementTerm
  OBVIOUS
<1> HIDE DEF u, d
<1>5. a \in Achievement /\ a.category = c /\ a.earned = d /\ a.until = u
  BY <1>2 DEF Achievement
<1> HIDE DEF a
<1>6. OnRecord(a, o, g)
  BY <1>4, <1>5 DEF OnRecord
<1>7. \A i \in 1 .. Len(l) : l[i].active => l[i].category # a.category
  <2>1. DOMAIN l = 1 .. Len(l)
    BY <1>1, LenProperties DEF HeldOn
  <2>2. QED
    BY <1>5, <2>1 DEF Has
<1> HIDE DEF l
<1>8. HeldOn(Append(l, a), o, g, d)
  BY <1>1, <1>2, <1>5, <1>6, <1>7, AppendHeld
<1>9. Stands(s, o, g, d)
  BY DEF d
<1> DEFINE k == Append(l, a)
<1>10. HeldOn(k, o, g, d)
  BY <1>8
<1> HIDE DEF k
<1>11. Stands([s EXCEPT !.achievements = k], o, g, d)
  BY <1>9, <1>10, RecordWith
<1>12. QED
  BY <1>3, <1>11 DEF k, d

LEMMA WithoutStands ==
  ASSUME NEW s, NEW o, NEW g, NEW d, Stands(s, o, g, d), NEW c
  PROVE  /\ Stands(WithoutCategory(s, c), o, g, d)
         /\ ~Has(WithoutCategory(s, c), c)
<1> DEFINE S == {a \in Range(s.achievements) : a.category # c}
           l == Only(s.achievements, S)
           t == [s EXCEPT !.achievements = l]
<1>1. s \in Status /\ HeldOn(s.achievements, o, g, d)
  BY DEF Stands
<1>2. WithoutCategory(s, c) = t
  BY <1>1 DEF WithoutCategory, Status
<1>3. \A a \in S : a.category # c
  OBVIOUS
<1> HIDE DEF S
<1>4. HeldOn(l, o, g, d) /\ \A i \in 1 .. Len(l) : l[i] \in S
  BY <1>1, OnlyHeld
<1> HIDE DEF l
<1>5. Stands(t, o, g, d) /\ t.achievements = l
  BY <1>4, RecordWith
<1> HIDE DEF t
<1>6. DOMAIN l = 1 .. Len(l)
  BY <1>4, LenProperties DEF HeldOn
<1>7. ~Has(t, c)
  BY <1>3, <1>4, <1>5, <1>6 DEF Has
<1>8. QED
  BY <1>2, <1>5, <1>7

LEMMA ConsistencyStands ==
  ASSUME NEW s, NEW o, NEW g, Day \in Nat, Stands(s, o, g, Day)
  PROVE  Stands(ConsistencyChecked(s), o, g, Day)
<1> DEFINE d == Day
           streak == IF s.lastDay = d THEN s.streak + 1
                     ELSE IF d > s.lastDay + 1 THEN 1 ELSE s.streak
           t == [s EXCEPT !.streak = streak, !.lastDay = d]
           w == WithoutCategory(t, "Consistency")
<1>1. ConsistencyChecked(s) = IF streak >= StreakDays THEN Earn(w, "Consistency", 2) ELSE t
  BY DEF ConsistencyChecked
<1>2. s \in Status /\ HeldOn(s.achievements, o, g, d) /\ (o # NoLoss => s.maxLoss > 5)
  BY DEF Stands
<1>3. streak \in Nat
  BY <1>2 DEF Status
<1>4. d \in Nat /\ d <= d
  OBVIOUS
<1> HIDE DEF streak
<1>5. Stands(t, o, g, d)
  <2> HIDE DEF d
  <2>1. t \in Status /\ t.achievements = s.achievements /\ t.lastDay = d /\ t.maxLoss = s.maxLoss
    BY <1>2, <1>3, <1>4 DEF Status
  <2> HIDE DEF t
  <2>2. QED
    BY <1>2, <1>4, <2>1 DEF Stands
<1> HIDE DEF t
<1>6. Stands(w, o, g, d) /\ ~Has(w, "Consistency")
  <2> HIDE DEF d
  <2>1. QED
    BY <1>5, WithoutStands
<1> HIDE DEF w
<1>7. Stands(Earn(w, "Consistency", 2), o, g, d)
  <2>1. "Consistency" \in Categories /\ "Consistency" # "RiskManagement"
    BY DEF Categories
  <2>2. QED
    BY <1>6, <2>1, EarnStands
<1>8. QED
  BY <1>1, <1>5, <1>7

LEMMA RiskStands ==
  ASSUME NEW s, NEW o, NEW g, Day \in Nat, Stands(s, o, g, Day)
  PROVE  Stands(RiskChecked(s), o, g, Day)
<1>1. CASE LossWithinLimit(s) /\ ~Has(s, "RiskManagement")
  <2>1. o = NoLoss
    <3>1. s.maxLoss \in Nat /\ (o # NoLoss => s.maxLoss > 5)
      BY DEF Stands, Status
    <3>2. QED
      BY <1>1, <3>1 DEF LossWithinLimit
  <2>2. "RiskManagement" \in Categories
    BY DEF Categories
  <2>3. Stands(Earn(s, "RiskManagement", 3), o, g, Day)
    BY <1>1, <2>1, <2>2, EarnStands
  <2>4. QED
    BY <1>1, <2>3 DEF RiskChecked
<1>2. CASE ~(LossWithinLimit(s) /\ ~Has(s, "RiskManagement"))
  BY <1>2 DEF RiskChecked
<1>3. QED
  BY <1>1, <1>2

LEMMA VolumeStands ==
  ASSUME NEW s, NEW o, NEW g, Day \in Nat, Stands(s, o, g, Day)
  PROVE  Stands(VolumeChecked(s), o, g, Day)
<1>1. CASE s.volume >= VolumeGoal /\ ~Has(s, "Volume")
  <2>1. "Volume" \in Categories /\ "Volume" # "RiskManagement"
    BY DEF Categories
  <2>2. Stands(Earn(s, "Volume", 4), o, g, Day)
    BY <1>1, <2>1, EarnStands
  <2>3. QED
    BY <1>1, <2>2 DEF VolumeChecked
<1>2. CASE ~(s.volume >= VolumeGoal /\ ~Has(s, "Volume"))
  BY <1>2 DEF VolumeChecked
<1>3. QED
  BY <1>1, <1>2

\* update_achievement_status.
LEMMA UpdatedStands ==
  ASSUME NEW s, NEW o, NEW g, Day \in Nat, Stands(s, o, g, Day)
  PROVE  Stands(Updated(s), o, g, Day)
<1> DEFINE v == VolumeChecked(RiskChecked(ConsistencyChecked(s)))
           S == {a \in Range(v.achievements) : Day < a.until}
           l == Only(v.achievements, S)
           t == [v EXCEPT !.achievements = l]
           d == Day
<1>1. Stands(ConsistencyChecked(s), o, g, Day)
  BY ConsistencyStands
<1>2. Stands(RiskChecked(ConsistencyChecked(s)), o, g, Day)
  BY <1>1, RiskStands
<1>3. Stands(v, o, g, Day)
  BY <1>2, VolumeStands
<1>4. v \in Status /\ HeldOn(v.achievements, o, g, d)
  BY <1>3 DEF Stands
<1>5. Updated(s) = Unexpired(v)
  BY DEF Updated
<1>6. Stands(v, o, g, d)
  BY <1>3
<1> HIDE DEF v
<1>7. Updated(s) = t
  BY <1>4, <1>5 DEF Unexpired, Status
<1> HIDE DEF S, d
<1>8. HeldOn(l, o, g, d)
  BY <1>4, OnlyHeld
<1> HIDE DEF l
<1>9. Stands(t, o, g, d)
  BY <1>6, <1>8, RecordWith
<1>10. QED
  BY <1>7, <1>9 DEF d

\* What holds on a day holds on a later one.
LEMMA StandsLater ==
  ASSUME NEW s, NEW o, NEW g, NEW d \in Nat, Stands(s, o, g, d), NEW k \in Nat, d <= k
  PROVE  Stands(s, o, g, k)
<1>1. s \in Status /\ HeldOn(s.achievements, o, g, d) /\ s.lastDay <= d /\ (o # NoLoss => s.maxLoss > 5)
  BY DEF Stands
<1>2. s.lastDay <= k
  <2>1. s.lastDay \in Nat
    BY <1>1 DEF Status
  <2>2. QED
    BY <1>1, <2>1
<1> DEFINE l == s.achievements
<1>3. l \in Seq(Achievement) /\ OnePerCategory(l) /\ \A i \in 1 .. Len(l) : l[i].earned <= d /\ OnRecord(l[i], o, g)
  BY <1>1 DEF HeldOn
<1> HIDE DEF l
<1>4. \A i \in 1 .. Len(l) : l[i].earned <= k
  <2>1. \A i \in 1 .. Len(l) : l[i] \in Achievement
    BY <1>3, ElementOfSeq
  <2>2. \A a \in Achievement : a.earned \in Nat
    BY DEF Achievement
  <2>3. QED
    BY <1>3, <2>1, <2>2
<1>5. HeldOn(l, o, g, k)
  BY <1>3, <1>4 DEF HeldOn
<1>6. QED
  BY <1>1, <1>2, <1>5 DEF Stands, l

\* A loss above the limit breaks the record from today.
LEMMA LossBreaks ==
  ASSUME NEW s, NEW o \in Nat \union {NoLoss}, NEW g, NEW d \in Nat, Stands(s, o, g, d),
         NEW volume \in Nat, NEW loss \in Nat \union {NoLoss}
  PROVE  Stands([s EXCEPT !.volume = @ + volume,
                          !.maxLoss = IF loss = NoLoss THEN @ ELSE Max({@, loss})],
                IF o = NoLoss /\ loss # NoLoss /\ loss > 5 THEN d ELSE o, g, d)
<1> DEFINE most == IF loss = NoLoss THEN s.maxLoss ELSE Max({s.maxLoss, loss})
           sum == s.volume + volume
           t == [s EXCEPT !.volume = sum, !.maxLoss = most]
           p == IF o = NoLoss /\ loss # NoLoss /\ loss > 5 THEN d ELSE o
<1>1. s \in Status /\ HeldOn(s.achievements, o, g, d) /\ s.lastDay <= d /\ (o # NoLoss => s.maxLoss > 5)
  BY DEF Stands
<1>2. [s EXCEPT !.volume = @ + volume, !.maxLoss = IF loss = NoLoss THEN @ ELSE Max({@, loss})] = t
  BY <1>1 DEF Status
<1>3. s.maxLoss \in Nat /\ s.volume \in Nat /\ NoLoss \notin Nat
  BY <1>1, ProgressionAssumption DEF Status
<1>4. sum \in Nat /\ most \in Nat /\ (loss # NoLoss => most >= loss) /\ most >= s.maxLoss
  BY <1>3, MaxOfTwo
<1>5. p # NoLoss => most > 5
  BY <1>1, <1>3, <1>4
<1>6. HeldOn(s.achievements, p, g, d)
  <2> DEFINE l == s.achievements
  <2>1. /\ l \in Seq(Achievement) /\ OnePerCategory(l)
        /\ \A i \in 1 .. Len(l) : l[i].earned <= d /\ OnRecord(l[i], o, g)
    BY <1>1 DEF HeldOn
  <2> HIDE DEF l
  <2>2. \A i \in 1 .. Len(l) : OnRecord(l[i], p, g)
    BY <2>1 DEF OnRecord
  <2> HIDE DEF p
  <2>3. HeldOn(l, p, g, d)
    BY <2>1, <2>2 DEF HeldOn
  <2>4. QED
    BY <2>3 DEF l
<1> HIDE DEF sum, most, p
<1>7. t \in Status /\ t.achievements = s.achievements /\ t.lastDay = s.lastDay /\ t.maxLoss = most
  BY <1>1, <1>4 DEF Status
<1> HIDE DEF t
<1>8. Stands(t, p, g, d)
  BY <1>1, <1>5, <1>6, <1>7 DEF Stands
<1>9. QED
  BY <1>2, <1>8 DEF p

LEMMA ProgressionInvInit == AdminTypeOK /\ ProgressionInit => ProgressionInv
<1> SUFFICES ASSUME AdminTypeOK, ProgressionInit PROVE ProgressionInv
  OBVIOUS
<1> DEFINE s == [achievements |-> << >>, streak |-> 0, lastDay |-> 0, maxLoss |-> 0, volume |-> 0]
           d == Day
<1>1. standing = [u \in Earners |-> s] /\ overLoss = [u \in Earners |-> NoLoss] /\ given = [u \in Earners |-> {}]
  BY DEF ProgressionInit
<1>2. << >> \in Seq(Achievement) /\ Len(<< >>) = 0
  BY EmptySeq
<1>3. s \in Status /\ s.achievements = << >> /\ s.lastDay = 0
  BY <1>2 DEF Status
<1>4. d \in Nat
  BY ProgressionAssumption DEF AdminTypeOK, Day
<1> HIDE DEF s, d
<1>5. ASSUME NEW g PROVE Stands(s, NoLoss, g, d)
  BY <1>2, <1>3, <1>4 DEF Stands, HeldOn, OnePerCategory
<1>6. \A u \in Earners : Stands(standing[u], overLoss[u], given[u], d)
  BY <1>1, <1>5
<1>7. QED
  BY <1>1, <1>3, <1>6 DEF ProgressionInv, d

LEMMA CalculateStep ==
  ASSUME Day \in Nat, Day' = Day, ProgressionInv, NEW u \in Earners, CalculateEffectiveFee(u)
  PROVE  ProgressionInv'
<1> DEFINE s == Updated(standing[u])
<1>1. standing' = [standing EXCEPT ![u] = s] /\ overLoss' = overLoss /\ given' = given
  BY DEF CalculateEffectiveFee
<1>2. Stands(standing[u], overLoss[u], given[u], Day)
  BY DEF ProgressionInv
<1>3. Stands(s, overLoss[u], given[u], Day)
  BY <1>2, UpdatedStands
<1>4. s \in Status
  BY <1>3 DEF Stands
<1> HIDE DEF s
<1>5. standing' \in [Earners -> Status] /\ standing'[u] = s /\ \A w \in Earners : w # u => standing'[w] = standing[w]
  BY <1>1, <1>4 DEF ProgressionInv
<1>6. ASSUME NEW w \in Earners PROVE Stands(standing'[w], overLoss'[w], given'[w], Day')
  <2>1. CASE w = u
    BY <1>1, <1>3, <1>5, <2>1
  <2>2. CASE w # u
    BY <1>1, <1>5, <2>2 DEF ProgressionInv
  <2>3. QED
    BY <2>1, <2>2
<1>7. QED
  BY <1>1, <1>5, <1>6 DEF ProgressionInv

LEMMA TradingStep ==
  ASSUME Day \in Nat, Day' = Day, ProgressionInv, NEW u \in Earners,
         NEW volume \in TradeVolumes, NEW loss \in Losses \union {NoLoss},
         UpdateTradingActivity(u, volume, loss)
  PROVE  ProgressionInv'
<1> DEFINE b == standing[u]
           o == overLoss[u]
           d == Day
           a == [b EXCEPT !.volume = @ + volume, !.maxLoss = IF loss = NoLoss THEN @ ELSE Max({@, loss})]
           p == IF o = NoLoss /\ loss # NoLoss /\ loss > 5 THEN d ELSE o
           g == given[u]
           s == Updated(a)
<1>0. overLoss \in [Earners -> Nat \union {NoLoss}] /\ standing \in [Earners -> Status]
  BY DEF ProgressionInv
<1>1. standing' = [standing EXCEPT ![u] = s] /\ overLoss' = [overLoss EXCEPT ![u] = p] /\ given' = given
  BY <1>0 DEF UpdateTradingActivity
<1>2. Stands(b, o, g, d) /\ o \in Nat \union {NoLoss} /\ d \in Nat
  BY <1>0 DEF ProgressionInv
<1>3. volume \in Nat /\ loss \in Nat \union {NoLoss}
  BY ProgressionAssumption
<1>4. p \in Nat \union {NoLoss}
  BY <1>2
<1>5. Stands(a, p, g, d)
  <2> HIDE DEF b, o, d, g
  <2>1. QED
    BY <1>2, <1>3, LossBreaks
<1> HIDE DEF a, p, g
<1>6. Stands(s, p, g, Day)
  BY <1>5, UpdatedStands
<1>7. s \in Status
  BY <1>6 DEF Stands
<1> HIDE DEF s
<1>8. /\ standing' \in [Earners -> Status] /\ standing'[u] = s
      /\ \A w \in Earners : w # u => standing'[w] = standing[w]
      /\ overLoss' \in [Earners -> Nat \union {NoLoss}] /\ overLoss'[u] = p
      /\ \A w \in Earners : w # u => overLoss'[w] = overLoss[w]
  BY <1>0, <1>1, <1>4, <1>7
<1>9. ASSUME NEW w \in Earners PROVE Stands(standing'[w], overLoss'[w], given'[w], Day')
  <2>1. CASE w = u
    BY <1>1, <1>6, <1>8, <2>1 DEF g
  <2>2. CASE w # u
    BY <1>1, <1>8, <2>2 DEF ProgressionInv
  <2>3. QED
    BY <2>1, <2>2
<1>10. QED
  BY <1>1, <1>8, <1>9 DEF ProgressionInv

\* apply_achievement_bonus.
LEMMA BonusStep ==
  ASSUME Day \in Nat, Day' = Day, ProgressionInv, NEW u \in Earners, NEW bonus \in Bonuses,
         ApplyAchievementBonus(u, bonus)
  PROVE  ProgressionInv'
<1> DEFINE d == Day
           c == bonus.category
           end == d + bonus.term
           a == [category |-> c, bps |-> bonus.bps, earned |-> d, until |-> end, active |-> bonus.active]
           s == standing[u]
           l == s.achievements
           o == overLoss[u]
           g == given[u]
           h == given'[u]
           k == Append(l, a)
           t == [s EXCEPT !.achievements = k]
<1>0. /\ standing \in [Earners -> Status] /\ given \in [Earners -> SUBSET Achievement]
      /\ overLoss \in [Earners -> Nat \union {NoLoss}]
      /\ Stands(s, o, g, d) /\ d \in Nat /\ d <= d /\ s \in Status
  BY DEF ProgressionInv
<1>1. /\ Addable(s, a)
      /\ standing' = [standing EXCEPT ![u] = t]
      /\ given' = [given EXCEPT ![u] = @ \union {x \in {a} : x.category = "RiskManagement"}]
      /\ overLoss' = overLoss
  BY <1>0 DEF ApplyAchievementBonus, Status
<1>2. c \in Categories /\ bonus.bps \in Nat /\ bonus.active \in BOOLEAN /\ end \in Nat
  BY <1>0, ProgressionAssumption
<1> HIDE DEF c, end, d
<1>3. a \in Achievement /\ a.category = c /\ a.earned = d
  BY <1>0, <1>2 DEF Achievement
<1> HIDE DEF a
<1>4. /\ given' \in [Earners -> SUBSET Achievement]
      /\ \A w \in Earners : w # u => given'[w] = given[w]
      /\ h = g \union {x \in {a} : x.category = "RiskManagement"}
  BY <1>0, <1>1, <1>3
<1>5. OnRecord(a, o, h) /\ g \subseteq h
  BY <1>4 DEF OnRecord
<1> HIDE DEF g, h
<1>6. HeldOn(l, o, h, d)
  <2>1. HeldOn(l, o, g, d)
    BY <1>0 DEF Stands
  <2>2. \A x : OnRecord(x, o, g) => OnRecord(x, o, h)
    BY <1>5 DEF OnRecord
  <2> HIDE DEF l, o
  <2>3. QED
    BY <2>1, <2>2 DEF HeldOn
<1>7. \A i \in 1 .. Len(l) : l[i].active => l[i].category # a.category
  <2>1. DOMAIN l = 1 .. Len(l)
    BY <1>6, LenProperties DEF HeldOn
  <2>2. QED
    BY <1>1, <2>1 DEF Addable, Has
<1>8. Stands(s, o, h, d)
  BY <1>0, <1>6 DEF Stands
<1> HIDE DEF l, o
<1>9. HeldOn(k, o, h, d)
  BY <1>0, <1>3, <1>5, <1>6, <1>7, AppendHeld
<1> HIDE DEF s, k
<1>10. Stands(t, o, h, d)
  BY <1>8, <1>9, RecordWith
<1>11. t \in Status
  BY <1>10 DEF Stands
<1> HIDE DEF t
<1>12. standing' \in [Earners -> Status] /\ standing'[u] = t /\ \A w \in Earners : w # u => standing'[w] = standing[w]
  BY <1>0, <1>1, <1>11
<1>13. ASSUME NEW w \in Earners PROVE Stands(standing'[w], overLoss'[w], given'[w], Day')
  <2>1. CASE w = u
    BY <1>1, <1>10, <1>12, <2>1 DEF o, h, d
  <2>2. CASE w # u
    BY <1>1, <1>4, <1>12, <2>2 DEF ProgressionInv
  <2>3. QED
    BY <2>1, <2>2
<1>14. QED
  BY <1>0, <1>1, <1>4, <1>12, <1>13 DEF ProgressionInv

LEMMA ProgressionStep == AdminTypeOK /\ ProgressionInv /\ [ServicesNext]_servicesVars => ProgressionInv'
<1> SUFFICES ASSUME AdminTypeOK, ProgressionInv, [ServicesNext]_servicesVars PROVE ProgressionInv'
  OBVIOUS
<1>1. TimeGoesOn /\ now \in Nat
  BY ClockStep DEF AdminTypeOK
<1>2. (ProgressionNext /\ UNCHANGED now) \/ UNCHANGED progressionVars
  BY DEF ServicesNext, Focused, servicesVars, adminVars
<1>3. Day \in Nat /\ Day' \in Nat /\ Day <= Day' /\ (now' = now => Day' = Day)
  <2>1. Day = FirstDay + now /\ Day' = FirstDay + now' /\ FirstDay \in Nat
    BY ProgressionAssumption DEF Day
  <2>2. now' \in Nat /\ now <= now'
    BY <1>1 DEF TimeGoesOn
  <2>3. FirstDay + now \in Nat /\ FirstDay + now' \in Nat /\ FirstDay + now <= FirstDay + now'
    <3>1. \A d, x, y \in Nat : x <= y => d + x \in Nat /\ d + y \in Nat /\ d + x <= d + y
      OBVIOUS
    <3>2. FirstDay \in Nat /\ now \in Nat /\ now' \in Nat /\ now <= now'
      BY <1>1, <2>1, <2>2
    <3>3. QED
      BY <3>1, <3>2
  <2>4. now' = now => Day' = Day
    BY <2>1
  <2>5. QED
    BY <2>1, <2>3, <2>4
<1>4. CASE ProgressionNext /\ UNCHANGED now
  BY <1>3, <1>4, CalculateStep, TradingStep, BonusStep DEF ProgressionNext
<1>5. CASE UNCHANGED progressionVars
  <2>1. standing' = standing /\ overLoss' = overLoss /\ given' = given
    BY <1>5 DEF progressionVars
  <2>2. ASSUME NEW w \in Earners PROVE Stands(standing[w], overLoss[w], given[w], Day')
    <3> DEFINE s == standing[w]
               o == overLoss[w]
               g == given[w]
               d == Day
               k == Day'
    <3>1. Stands(s, o, g, d) /\ d \in Nat /\ k \in Nat /\ d <= k
      BY <1>3 DEF ProgressionInv
    <3> HIDE DEF s, o, g, d, k
    <3>2. Stands(s, o, g, k)
      BY <3>1, StandsLater
    <3>3. QED
      BY <3>2 DEF s, o, g, k
  <2>3. QED
    BY <2>1, <2>2 DEF ProgressionInv
<1>6. QED
  BY <1>2, <1>4, <1>5

\* calculate_effective_fee adds up the discounts in the order they came in; the
\* stackable one may be cut by what stands before it, but only where the total is
\* beyond what any tier allows.
Totals(t, v) == t \in Nat /\ v \in Nat /\ (t = v \/ (t >= 9 /\ v >= 9))

LEMMA StackedTotals ==
  ASSUME NEW t, NEW v, Totals(t, v), NEW a \in Achievement
  PROVE  Stacked(t, a) \in Nat /\ Worth(a) \in Nat /\ Totals(Stacked(t, a), v + Worth(a))
<1> DEFINE w == Worth(a)
           cut == Min({2, 10 - t})
<1>1. t \in Nat /\ v \in Nat /\ (t = v \/ (t >= 9 /\ v >= 9))
  BY DEF Totals
<1>2. /\ w \in Nat /\ (~a.active => w = 0)
      /\ a.active /\ a.category = "Consistency" => w = 2
      /\ a.active /\ a.category # "Consistency" => w = a.bps
  BY DEF Worth, Achievement
<1>3. cut = IF 2 <= 10 - t THEN 2 ELSE 10 - t
  BY <1>1, MinOfTwo
<1>4. Stacked(t, a) = IF ~a.active THEN t
                      ELSE IF a.category # "Consistency" THEN t + w ELSE IF t < 10 THEN t + cut ELSE t
  BY <1>2 DEF Stacked
<1> HIDE DEF w, cut
<1> DEFINE z == Stacked(t, a)
<1>5. CASE ~a.active \/ a.category # "Consistency"
  BY <1>1, <1>2, <1>4, <1>5 DEF Totals, w
<1>6. CASE a.active /\ a.category = "Consistency"
  BY <1>1, <1>2, <1>3, <1>4, <1>6 DEF Totals, w
<1>7. QED
  BY <1>5, <1>6

LEMMA AddedUp ==
  ASSUME NEW l \in Seq(Achievement)
  PROVE  Totals(FoldLeft(Stacked, 0, l), SumFunction([i \in DOMAIN l |-> Worth(l[i])]))
<1> DEFINE n == Len(l)
           E == Achievement
           F == [x \in Nat \X E |-> Stacked(x[1], x[2])]
           Solves(g) == g = [s \in SUBSET (1 .. n) |->
                               IF s = {} THEN 0 ELSE Stacked(g[s \ {Max(s)}], l[Max(s)])]
           iter == CHOOSE g : Solves(g)
           w == [i \in DOMAIN l |-> Worth(l[i])]
           Good == [k \in 0 .. n |-> {t \in Nat : Totals(t, SumFunctionOnSet(w, 1 .. k))}]
<1>1. n \in Nat /\ DOMAIN l = 1 .. n /\ \A i \in 1 .. n : l[i] \in E
  BY LenProperties, ElementOfSeq
<1>2. FoldLeft(Stacked, 0, l) = iter[1 .. n]
  BY <1>1 DEF FoldLeft, MapThenFoldSet
<1>3. \A t \in Nat : \A a \in E : Stacked(t, a) \in Nat /\ Worth(a) \in Nat
  <2>1. \A t \in Nat : Totals(t, t)
    BY DEF Totals
  <2>2. QED
    BY <2>1, StackedTotals
<1>4. SumFunction(w) = SumFunctionOnSet(w, 1 .. n)
  BY <1>1 DEF SumFunction
<1>5. \A i \in 1 .. n : w[i] = Worth(l[i]) /\ w[i] \in Int
  BY <1>1, <1>3
<1> HIDE DEF E, n, w
<1>6. F \in [Nat \X E -> Nat] /\ \A t \in Nat : \A a \in E : F[<< t, a >>] = Stacked(t, a)
  BY <1>3
<1> HIDE DEF F
<1>7. PICK g : Folds(F, 0, l, n, Nat, g)
  BY <1>1, <1>6, FoldSolution
<1>8. Solves(g)
  <2>1. g \in [SUBSET (1 .. n) -> Nat] /\ \A s \in SUBSET (1 .. n) : g[s] = FoldRound(F, 0, l, g, s)
    BY <1>7 DEF Folds
  <2>2. ASSUME NEW s \in SUBSET (1 .. n)
        PROVE  g[s] = IF s = {} THEN 0 ELSE Stacked(g[s \ {Max(s)}], l[Max(s)])
    <3>1. CASE s = {}
      BY <2>1, <3>1 DEF FoldRound
    <3>2. CASE s # {}
      <4>1. Max(s) \in 1 .. n
        BY <1>1, <3>2, MaxIn
      <4>2. g[s \ {Max(s)}] \in Nat /\ l[Max(s)] \in E
        BY <1>1, <2>1, <4>1
      <4>3. g[s] = F[<< g[s \ {Max(s)}], l[Max(s)] >>]
        BY <2>1, <3>2 DEF FoldRound
      <4>4. QED
        BY <1>6, <3>2, <4>2, <4>3
    <3>3. QED
      BY <3>1, <3>2
  <2>3. g = [s \in SUBSET (1 .. n) |-> g[s]]
    BY <2>1
  <2>4. QED
    BY <2>2, <2>3
<1>9. Solves(iter)
  BY <1>8
<1> HIDE DEF iter
<1>10. iter[{}] \in Good[0]
  <2>1. iter[{}] = 0 /\ 0 \in 0 .. n /\ 1 .. 0 = {}
    BY <1>1, <1>9
  <2>2. SumFunctionOnSet(w, 1 .. 0) = 0
    BY <2>1, SumEmpty
  <2>3. QED
    BY <2>1, <2>2 DEF Totals
<1>11. ASSUME NEW k \in 1 .. n, iter[1 .. k - 1] \in Good[k - 1] PROVE iter[1 .. k] \in Good[k]
  <2> DEFINE t == iter[1 .. k - 1]
             j == k - 1
             v == SumFunctionOnSet(w, 1 .. j)
             a == l[k]
  <2>1. j \in Nat /\ j + 1 = k /\ k \in Nat /\ k > 0 /\ k \in 0 .. n /\ j \in 0 .. n
    BY <1>1
  <2>2. Max(1 .. k) = k /\ (1 .. k) \ {k} = 1 .. k - 1
    BY <2>1, MaxOfPrefix
  <2>3. 1 .. k \in SUBSET (1 .. n) /\ 1 .. k # {}
    BY <1>1, <2>1
  <2>4. iter[1 .. k] = Stacked(t, a)
    BY <1>9, <2>2, <2>3
  <2>5. t \in Nat /\ Totals(t, v) /\ a \in E
    BY <1>1, <1>11, <2>1
  <2>6. SumFunctionOnSet(w, 1 .. k) = v + Worth(a)
    <3>1. (\A i \in 1 .. j : w[i] \in Int) /\ w[j + 1] \in Int /\ w[j + 1] = Worth(a)
      BY <1>1, <1>5, <2>1
    <3>2. SumFunctionOnSet(w, 1 .. j + 1) = SumFunctionOnSet(w, 1 .. j) + w[j + 1]
      <4> HIDE DEF j
      <4>1. QED
        BY <2>1, <3>1, SumAppend
    <3>3. QED
      BY <2>1, <3>1, <3>2
  <2> HIDE DEF t, v, a
  <2>7. Stacked(t, a) \in Nat /\ Totals(Stacked(t, a), v + Worth(a))
    BY <2>5, StackedTotals DEF E
  <2>8. QED
    BY <2>1, <2>4, <2>6, <2>7
<1> HIDE DEF Good
<1>12. iter[1 .. n] \in Good[n]
  BY <1>1, <1>10, <1>11, FoldPrefixes
<1>13. Totals(iter[1 .. n], SumFunctionOnSet(w, 1 .. n))
  BY <1>1, <1>12 DEF Good
<1>14. QED
  BY <1>2, <1>4, <1>13 DEF w

LEMMA ProgressionInvSound == Day \in Nat /\ ProgressionInv => DiscountsSound
<1> SUFFICES ASSUME Day \in Nat, ProgressionInv PROVE DiscountsSound
  OBVIOUS
<1>1. ASSUME NEW u \in Earners
      PROVE  /\ standing[u] \in Status /\ overLoss[u] \in Nat \union {NoLoss}
             /\ standing[u].lastDay <= Day
             /\ HeldOn(standing[u].achievements, overLoss[u], given[u], Day)
             /\ DOMAIN standing[u].achievements = 1 .. Len(standing[u].achievements)
  <2>1. Stands(standing[u], overLoss[u], given[u], Day) /\ overLoss[u] \in Nat \union {NoLoss}
    BY DEF ProgressionInv
  <2>2. HeldOn(standing[u].achievements, overLoss[u], given[u], Day)
    BY <2>1 DEF Stands
  <2>3. DOMAIN standing[u].achievements = 1 .. Len(standing[u].achievements)
    BY <2>2, LenProperties DEF HeldOn
  <2>4. QED
    BY <2>1, <2>2, <2>3 DEF Stands
<1>2. ProgressionTypeOK
  <2>1. ASSUME NEW u \in Earners
        PROVE  /\ standing[u].streak \in Nat /\ standing[u].volume \in Nat /\ standing[u].lastDay \in 0 .. Day
               /\ \A i \in DOMAIN standing[u].achievements :
                    /\ standing[u].achievements[i].category \in Categories
                    /\ standing[u].achievements[i].active \in BOOLEAN
    <3> DEFINE s == standing[u]
               l == s.achievements
    <3>1. s \in Status /\ s.lastDay <= Day /\ l \in Seq(Achievement) /\ DOMAIN l = 1 .. Len(l)
      BY <1>1 DEF HeldOn
    <3> HIDE DEF s
    <3>2. s.streak \in Nat /\ s.volume \in Nat /\ s.lastDay \in Nat
      BY <3>1 DEF Status
    <3> HIDE DEF l
    <3>3. \A i \in 1 .. Len(l) : l[i] \in Achievement
      BY <3>1, ElementOfSeq
    <3>4. \A i \in DOMAIN l : l[i].category \in Categories /\ l[i].active \in BOOLEAN
      BY <3>1, <3>3 DEF Achievement
    <3>5. QED
      BY <3>1, <3>2, <3>4 DEF s, l
  <2>2. QED
    BY <2>1 DEF ProgressionTypeOK
<1>3. ASSUME NEW u \in Earners, NEW base \in {30, 25, 20, 15}
      PROVE  Discount(standing[u], base) =
               Min({(base * 30) \div 100,
                    SumFunction([i \in DOMAIN standing[u].achievements |-> Worth(standing[u].achievements[i])])})
  <2> DEFINE l == standing[u].achievements
             t == FoldLeft(Stacked, 0, l)
             v == SumFunction([i \in DOMAIN l |-> Worth(l[i])])
             most == (base * 30) \div 100
  <2>1. l \in Seq(Achievement)
    BY <1>1 DEF HeldOn
  <2>2. Totals(t, v)
    <3> HIDE DEF l
    <3>1. QED
      BY <2>1, AddedUp
  <2>3. Discount(standing[u], base) = Min({t, most})
    BY DEF Discount, MaxDiscount
  <2>4. most \in 0 .. 9
    OBVIOUS
  <2> HIDE DEF t, v, most
  <2>5. /\ Min({t, most}) = (IF t <= most THEN t ELSE most)
        /\ Min({most, v}) = (IF most <= v THEN most ELSE v)
    BY <2>2, <2>4, MinOfTwo DEF Totals
  <2>6. Min({t, most}) = Min({most, v})
    BY <2>2, <2>4, <2>5 DEF Totals
  <2>7. QED
    BY <2>3, <2>6 DEF most, v
<1>4. ASSUME NEW u \in Earners
      PROVE  \A i, j \in DOMAIN standing[u].achievements :
               standing[u].achievements[i].active /\ standing[u].achievements[j].active
                 /\ standing[u].achievements[i].category = standing[u].achievements[j].category => i = j
  BY <1>1 DEF HeldOn, OnePerCategory
<1>5. DiscountIsSum
  BY <1>3, <1>4 DEF DiscountIsSum
<1>6. LossEndsRiskDiscount
  <2>1. ASSUME NEW u \in Earners, NEW i \in DOMAIN standing[u].achievements,
               standing[u].achievements[i].category = "RiskManagement", overLoss[u] # NoLoss,
               standing[u].achievements[i] \notin given[u]
        PROVE  /\ standing[u].achievements[i].earned <= overLoss[u]
               /\ standing[u].achievements[i].until <= overLoss[u] + AchievementTerm
    <3> DEFINE l == standing[u].achievements
               a == l[i]
               o == overLoss[u]
               g == given[u]
    <3>1. HeldOn(l, o, g, Day) /\ i \in 1 .. Len(l) /\ o \in Nat
      BY <1>1, <2>1
    <3>2. a.category = "RiskManagement" /\ o # NoLoss /\ a \notin g
      BY <2>1
    <3>3. l \in Seq(Achievement) /\ OnRecord(a, o, g)
      BY <3>1 DEF HeldOn
    <3> HIDE DEF l
    <3>4. a \in Achievement
      BY <3>1, <3>3, ElementOfSeq
    <3> HIDE DEF a, o, g
    <3>5. a.earned \in Nat /\ a.earned <= o /\ a.until = a.earned + AchievementTerm /\ AchievementTerm \in Nat
      BY <3>2, <3>3, <3>4, ProgressionAssumption DEF OnRecord, Achievement
    <3>6. a.earned <= o /\ a.until <= o + AchievementTerm
      BY <3>1, <3>5
    <3>7. QED
      BY <3>6 DEF a, o, l
  <2>2. QED
    BY <2>1 DEF LossEndsRiskDiscount
<1>7. QED
  BY <1>2, <1>5, <1>6 DEF DiscountsSound

\* For any traders, trades and bonuses: the discount of a tier is the sum of one
\* per category of what is active, in whatever order it came, and after a loss
\* above the limit no risk discount outlives the term of one earned before it.
THEOREM DiscountsAlwaysSound == ServicesSpec => []DiscountsSound
<1>1. ServicesInit => AdminTypeOK /\ ProgressionInv
  BY ClockInit, ProgressionInvInit DEF ServicesInit
<1>2. AdminTypeOK /\ ProgressionInv /\ [ServicesNext]_servicesVars => AdminTypeOK' /\ ProgressionInv'
  BY ClockStep, ProgressionStep
<1>3. AdminTypeOK /\ ProgressionInv => DiscountsSound
  <2>1. AdminTypeOK => Day \in Nat
    BY ProgressionAssumption DEF AdminTypeOK, Day
  <2>2. QED
    BY <2>1, ProgressionInvSound
<1>4. QED
  BY <1>1, <1>2, <1>3, PTL DEF ServicesSpec

-----------------------------------------------------------------------------
(* Alerts *)

Alert == [id : Nat, kind : AlertKinds, expires : AlertExpiries, active : BOOLEAN, last : Nat]
Term == [owner : Owners, kind : AlertKinds, expires : AlertExpiries]

\* An alert as created on the terms t, one of n: on if d has it, and not among g.
OnTerms(a, o, t, n, d, g) ==
  /\ a.id \in 1 .. n /\ a.id \notin g
  /\ t[a.id].owner = o /\ t[a.id].kind = a.kind /\ t[a.id].expires = a.expires
  /\ a.active <=> a.id \in d
  /\ a.expires # 0 => a.last < a.expires

\* The list of owner o: its alerts but for those of g, in the order of creation.
ListOf(l, o, t, n, d, g) ==
  /\ l \in Seq(Alert)
  /\ \A i \in 1 .. Len(l) : OnTerms(l[i], o, t, n, d, g)
  /\ \A i, j \in 1 .. Len(l) : i < j => l[i].id < l[j].id
  /\ \A k \in 1 .. n : k \notin g /\ t[k].owner = o => \E i \in 1 .. Len(l) : l[i].id = k

AlertsInv ==
  /\ lastAlert \in 0 .. MaxAlerts
  /\ terms \in Seq(Term) /\ Len(terms) = lastAlert
  /\ gone \subseteq 1 .. lastAlert
  /\ alerts \in [Owners -> Seq(Alert)]
  /\ \A o \in Owners : ListOf(alerts[o], o, terms, lastAlert, due, gone)

LEMMA AlertsInvInit == AlertsInit => AlertsInv
<1> SUFFICES ASSUME AlertsInit PROVE AlertsInv
  OBVIOUS
<1>1. << >> \in Seq(Alert) /\ << >> \in Seq(Term) /\ Len(<< >>) = 0 /\ 1 .. 0 = {}
  BY EmptySeq
<1>2. ASSUME NEW o PROVE ListOf(<< >>, o, << >>, 0, {}, {})
  BY <1>1 DEF ListOf
<1>3. MaxAlerts \in Nat
  BY AlertsAssumption
<1>4. alerts = [o \in Owners |-> << >>] /\ lastAlert = 0 /\ terms = << >> /\ due = {} /\ gone = {}
  BY DEF AlertsInit
<1>5. QED
  BY <1>1, <1>2, <1>3, <1>4 DEF AlertsInv

\* Nothing the list is about has changed.
LEMMA ListSame ==
  ASSUME NEW l, NEW o, NEW t, NEW n, NEW d, NEW g, ListOf(l, o, t, n, d, g), NEW e, NEW h,
         \A k \in 1 .. n : t[k].owner = o => (k \in d <=> k \in e) /\ (k \in g <=> k \in h)
  PROVE  ListOf(l, o, t, n, e, h)
<1>1. \A i \in 1 .. Len(l) : OnTerms(l[i], o, t, n, e, h)
  BY DEF ListOf, OnTerms
<1>2. \A k \in 1 .. n : k \notin h /\ t[k].owner = o => \E i \in 1 .. Len(l) : l[i].id = k
  BY DEF ListOf
<1>3. QED
  BY <1>1, <1>2 DEF ListOf

\* Alerts changed in place.
LEMMA ListMapped ==
  ASSUME NEW l, NEW o, NEW t, NEW n, NEW d, NEW g, ListOf(l, o, t, n, d, g), NEW e,
         NEW m, m \in [1 .. Len(l) -> Alert],
         \A i \in 1 .. Len(l) : m[i].id = l[i].id /\ OnTerms(m[i], o, t, n, e, g)
  PROVE  ListOf(m, o, t, n, e, g)
<1>1. Len(l) \in Nat
  BY LenProperties DEF ListOf
<1>2. m \in Seq(Alert) /\ Len(m) = Len(l)
  BY <1>1, SeqDef, LenProperties
<1>3. \A i, j \in 1 .. Len(m) : i < j => m[i].id < m[j].id
  BY <1>2 DEF ListOf
<1>4. \A k \in 1 .. n : k \notin g /\ t[k].owner = o => \E i \in 1 .. Len(m) : m[i].id = k
  BY <1>2 DEF ListOf
<1>5. QED
  BY <1>2, <1>3, <1>4 DEF ListOf

\* Terms are added at the end, and the alert with them to its owner's list.
LEMMA ListLonger ==
  ASSUME NEW l, NEW o, NEW t \in Seq(Term), NEW n, NEW d, NEW g, ListOf(l, o, t, n, d, g), n = Len(t),
         g \subseteq 1 .. n, NEW x \in Term, NEW e, e = d \union {n + 1}
  PROVE  /\ x.owner # o => ListOf(l, o, Append(t, x), n + 1, e, g)
         /\ \A a \in Alert :
              /\ a.id = n + 1 /\ a.kind = x.kind /\ a.expires = x.expires /\ a.active /\ a.last = 0
              /\ x.owner = o
              => ListOf(Append(l, a), o, Append(t, x), n + 1, e, g)
<1> DEFINE u == Append(t, x)
           m == Len(l)
<1>1. /\ n \in Nat /\ m \in Nat /\ l \in Seq(Alert)
      /\ u[n + 1] = x /\ \A k \in 1 .. n : u[k] = t[k]
  BY AppendProperties, LenProperties DEF ListOf
<1>2. /\ \A i \in 1 .. m : OnTerms(l[i], o, t, n, d, g)
      /\ \A i, j \in 1 .. m : i < j => l[i].id < l[j].id
      /\ \A k \in 1 .. n : k \notin g /\ t[k].owner = o => \E i \in 1 .. m : l[i].id = k
  BY DEF ListOf
<1> HIDE DEF u
<1>3. \A k \in 1 .. n + 1 : k \in 1 .. n \/ k = n + 1
  BY <1>1
<1>4. \A k \in 1 .. n : k \in 1 .. n + 1 /\ k # n + 1
  BY <1>1
<1>5. \A i \in 1 .. m : OnTerms(l[i], o, u, n + 1, e, g) /\ l[i].id \in 1 .. n
  BY <1>1, <1>2, <1>4 DEF OnTerms
<1>6. ASSUME x.owner # o PROVE ListOf(l, o, u, n + 1, e, g)
  <2>1. \A k \in 1 .. n + 1 : k \notin g /\ u[k].owner = o => \E i \in 1 .. m : l[i].id = k
    BY <1>1, <1>2, <1>3, <1>6
  <2>2. QED
    BY <1>1, <1>2, <1>5, <2>1 DEF ListOf
<1>7. ASSUME NEW a \in Alert, a.id = n + 1, a.kind = x.kind, a.expires = x.expires, a.active, a.last = 0,
             x.owner = o
      PROVE  ListOf(Append(l, a), o, u, n + 1, e, g)
  <2> DEFINE q == Append(l, a)
  <2>1. q \in Seq(Alert) /\ Len(q) = m + 1 /\ q[m + 1] = a /\ \A i \in 1 .. m : q[i] = l[i]
    BY <1>1, AppendProperties
  <2>2. \A i \in 1 .. m + 1 : i \in 1 .. m \/ i = m + 1
    BY <1>1
  <2>3. n + 1 \notin g /\ n + 1 \in 1 .. n + 1 /\ n + 1 \in e /\ m + 1 \in 1 .. m + 1
    BY <1>1
  <2>4. a.expires \in Nat
    BY AlertsAssumption DEF Alert
  <2> HIDE DEF q, m
  <2>5. OnTerms(a, o, u, n + 1, e, g)
    BY <1>1, <1>7, <2>3, <2>4 DEF OnTerms
  <2>6. \A i \in 1 .. m + 1 : OnTerms(q[i], o, u, n + 1, e, g)
    BY <1>5, <2>1, <2>2, <2>5
  <2>7. ASSUME NEW i \in 1 .. m + 1, NEW j \in 1 .. m + 1, i < j PROVE q[i].id < q[j].id
    <3>1. i \in 1 .. m
      BY <1>1, <2>7
    <3>2. CASE j \in 1 .. m
      BY <1>2, <2>1, <2>7, <3>1, <3>2
    <3>3. CASE j = m + 1
      <4>1. l[i].id \in 1 .. n
        BY <1>5, <3>1
      <4>2. l[i].id < n + 1
        BY <1>1, <4>1
      <4>3. QED
        BY <1>7, <2>1, <3>1, <3>3, <4>2
    <3>4. QED
      BY <2>2, <3>2, <3>3
  <2>8. ASSUME NEW k \in 1 .. n + 1, k \notin g, u[k].owner = o PROVE \E i \in 1 .. m + 1 : q[i].id = k
    <3>1. CASE k \in 1 .. n
      <4>1. PICK i \in 1 .. m : l[i].id = k
        BY <1>1, <1>2, <2>8, <3>1
      <4>2. i \in 1 .. m + 1
        BY <1>1
      <4>3. QED
        BY <2>1, <4>1, <4>2
    <3>2. CASE k = n + 1
      BY <1>7, <2>1, <2>3, <3>2
    <3>3. QED
      BY <1>3, <3>1, <3>2
  <2>9. QED
    BY <2>1, <2>6, <2>7, <2>8 DEF ListOf, q
<1>8. QED
  BY <1>6, <1>7 DEF u

LEMMA CreateAlertStep ==
  ASSUME AlertsInv, NEW o \in Owners, NEW kind \in AlertKinds, NEW e \in AlertExpiries,
         CreateAlert(o, kind, e)
  PROVE  AlertsInv'
<1> DEFINE n == lastAlert
           x == [owner |-> o, kind |-> kind, expires |-> e]
           a == [id |-> n + 1, kind |-> kind, expires |-> e, active |-> TRUE, last |-> 0]
           t == terms
           d == due \union {n + 1}
           q == Append(alerts[o], a)
<1>1. /\ n \in Nat /\ t \in Seq(Term) /\ n = Len(t) /\ gone \subseteq 1 .. n
      /\ alerts \in [Owners -> Seq(Alert)] /\ MaxAlerts \in Nat
      /\ \A w \in Owners : ListOf(alerts[w], w, t, n, due, gone)
  BY AlertsAssumption DEF AlertsInv
<1>2. /\ n < MaxAlerts /\ lastAlert' = n + 1 /\ alerts' = [alerts EXCEPT ![o] = q]
      /\ terms' = Append(t, x) /\ due' = d /\ gone' = gone
  BY <1>1 DEF CreateAlert
<1>3. /\ x \in Term /\ x.owner = o /\ x.kind = kind /\ x.expires = e
      /\ a \in Alert /\ a.id = n + 1 /\ a.kind = kind /\ a.expires = e /\ a.active /\ a.last = 0
  BY <1>1 DEF Term, Alert
<1> HIDE DEF a, x
<1>4. q \in Seq(Alert)
  BY <1>1, <1>3, AppendProperties
<1>5. d = due \union {n + 1}
  OBVIOUS
<1> HIDE DEF d, t, n
<1>6. ASSUME NEW w \in Owners PROVE ListOf(alerts'[w], w, Append(t, x), n + 1, d, gone)
  <2> DEFINE l == alerts[w]
             g == gone
             c == due
  <2>1. ListOf(l, w, t, n, c, g) /\ g \subseteq 1 .. n /\ d = c \union {n + 1}
    BY <1>1, <1>5
  <2> HIDE DEF l, g, c
  <2>2. /\ x.owner # w => ListOf(l, w, Append(t, x), n + 1, d, g)
        /\ \A y \in Alert :
              /\ y.id = n + 1 /\ y.kind = x.kind /\ y.expires = x.expires /\ y.active /\ y.last = 0
              /\ x.owner = w
              => ListOf(Append(l, y), w, Append(t, x), n + 1, d, g)
    BY <1>1, <1>3, <2>1, ListLonger
  <2>3. CASE w = o
    <3>1. ListOf(Append(l, a), w, Append(t, x), n + 1, d, g)
      BY <1>3, <2>2, <2>3
    <3>2. alerts'[w] = Append(l, a)
      BY <1>1, <1>2, <2>3 DEF l
    <3>3. QED
      BY <3>1, <3>2 DEF g
  <2>4. CASE w # o
    <3>1. ListOf(l, w, Append(t, x), n + 1, d, g)
      BY <1>3, <2>2, <2>4
    <3>2. alerts'[w] = l
      BY <1>1, <1>2, <2>4 DEF l
    <3>3. QED
      BY <3>1, <3>2 DEF g
  <2>5. QED
    BY <2>3, <2>4
<1>7. n + 1 \in 0 .. MaxAlerts /\ gone \subseteq 1 .. n + 1
  BY <1>1, <1>2
<1>8. Append(t, x) \in Seq(Term) /\ Len(Append(t, x)) = n + 1
  BY <1>1, <1>3, AppendProperties
<1>9. alerts' \in [Owners -> Seq(Alert)]
  BY <1>1, <1>2, <1>4
<1>10. QED
  BY <1>2, <1>6, <1>7, <1>8, <1>9 DEF AlertsInv

LEMMA SubscribeStep ==
  ASSUME AlertsInv, NEW o \in Owners, NEW ids \in SUBSET (1 .. lastAlert), SubscribeAlerts(o, ids)
  PROVE  AlertsInv'
<1> DEFINE n == lastAlert
           t == terms
           g == gone
           d == due
           e == due \union {k \in ids \ gone : terms[k].owner = o}
           l == alerts[o]
           m == [i \in DOMAIN l |-> IF l[i].id \in ids THEN [l[i] EXCEPT !.active = TRUE] ELSE l[i]]
<1>1. /\ alerts \in [Owners -> Seq(Alert)]
      /\ \A w \in Owners : ListOf(alerts[w], w, t, n, d, g)
  BY DEF AlertsInv
<1>2. /\ alerts' = [alerts EXCEPT ![o] = m] /\ due' = e
      /\ lastAlert' = n /\ terms' = t /\ gone' = g
  BY <1>1 DEF SubscribeAlerts
<1>3. l \in Seq(Alert) /\ DOMAIN l = 1 .. Len(l) /\ ListOf(l, o, t, n, d, g)
  BY <1>1, LenProperties
<1>4. \A k : k \in e <=> k \in d \/ (k \in ids /\ k \notin g /\ t[k].owner = o)
  OBVIOUS
<1> HIDE DEF e, l, n, t, g, d
<1>5. ASSUME NEW i \in 1 .. Len(l)
      PROVE  m[i] \in Alert /\ m[i].id = l[i].id /\ OnTerms(m[i], o, t, n, e, g)
  <2> DEFINE a == l[i]
             b == [a EXCEPT !.active = TRUE]
  <2>1. a \in Alert /\ OnTerms(a, o, t, n, d, g)
    BY <1>3, ElementOfSeq DEF ListOf
  <2>2. m[i] = IF a.id \in ids THEN b ELSE a
    BY <1>3
  <2> HIDE DEF a, m
  <2>3. /\ b \in Alert /\ b.id = a.id /\ b.kind = a.kind /\ b.expires = a.expires
        /\ b.active /\ b.last = a.last
    BY <2>1 DEF Alert
  <2> HIDE DEF b
  <2>4. CASE a.id \in ids
    BY <1>4, <2>1, <2>2, <2>3, <2>4 DEF OnTerms, a
  <2>5. CASE a.id \notin ids
    BY <1>4, <2>1, <2>2, <2>5 DEF OnTerms, a
  <2>6. QED
    BY <2>4, <2>5
<1>6. m \in [1 .. Len(l) -> Alert]
  <2>1. m = [i \in 1 .. Len(l) |-> m[i]]
    BY <1>3
  <2> HIDE DEF m
  <2>2. QED
    BY <1>5, <2>1
<1> HIDE DEF m
<1>7. ListOf(m, o, t, n, e, g)
  BY <1>3, <1>5, <1>6, ListMapped
<1>8. m \in Seq(Alert)
  BY <1>7 DEF ListOf
<1>9. ASSUME NEW w \in Owners PROVE ListOf(alerts'[w], w, t, n, e, g)
  <2>1. CASE w = o
    BY <1>1, <1>2, <1>7, <2>1
  <2>2. CASE w # o
    <3> DEFINE r == alerts[w]
    <3>1. ListOf(r, w, t, n, d, g) /\ alerts'[w] = r
      BY <1>1, <1>2, <2>2
    <3>2. \A k \in 1 .. n : t[k].owner = w => (k \in d <=> k \in e) /\ (k \in g <=> k \in g)
      BY <1>4, <2>2
    <3> HIDE DEF r
    <3>3. ListOf(r, w, t, n, e, g)
      BY <3>1, <3>2, ListSame
    <3>4. QED
      BY <3>1, <3>3
  <2>3. QED
    BY <2>1, <2>2
<1>10. alerts' \in [Owners -> Seq(Alert)]
  BY <1>1, <1>2, <1>8
<1>11. QED
  BY <1>2, <1>9, <1>10 DEF AlertsInv, n, t, g

\* One alert under a check, against what the checks make of what is due.
LEMMA CheckedOnTerms ==
  ASSUME now \in Nat, NEW a \in Alert, NEW o, NEW t, NEW n, NEW d, NEW g, OnTerms(a, o, t, n, d, g),
         NEW event, NEW e,
         a.id \in e <=> a.id \in d /\ (a.expires = 0 \/ ~(Expired(a) \/ Meets(a.kind, event)))
  PROVE  LET c == CheckedAlert(a, event) IN c \in Alert /\ c.id = a.id /\ OnTerms(c, o, t, n, e, g)
<1> DEFINE c == CheckedAlert(a, event)
           forever == a.expires = 0
<1>1. /\ a.id \in 1 .. n /\ a.id \notin g
      /\ t[a.id].owner = o /\ t[a.id].kind = a.kind /\ t[a.id].expires = a.expires
      /\ a.active <=> a.id \in d
      /\ a.expires # 0 => a.last < a.expires
  BY DEF OnTerms
<1>2. a.expires \in Nat /\ a.last \in Nat /\ a.active \in BOOLEAN
  BY AlertsAssumption DEF Alert
<1>3. CASE ~a.active
  <2>1. c = a /\ a.id \notin e
    BY <1>1, <1>3 DEF CheckedAlert
  <2>2. QED
    BY <1>1, <1>3, <2>1 DEF OnTerms
<1>4. CASE a.active /\ Expired(a)
  <2>1. c = [a EXCEPT !.active = FALSE] /\ a.id \notin e
    BY <1>1, <1>4 DEF CheckedAlert, Expired
  <2> HIDE DEF c
  <2>2. /\ c \in Alert /\ c.id = a.id /\ c.kind = a.kind /\ c.expires = a.expires
        /\ c.active = FALSE /\ c.last = a.last
    BY <2>1 DEF Alert
  <2>3. OnTerms(c, o, t, n, e, g)
    BY <1>1, <2>1, <2>2 DEF OnTerms
  <2>4. QED
    BY <2>2, <2>3 DEF c
<1>5. CASE a.active /\ ~Expired(a) /\ Meets(a.kind, event)
  <2>1. c = [a EXCEPT !.last = now, !.active = forever] /\ forever \in BOOLEAN
    BY <1>5 DEF CheckedAlert
  <2>2. (forever <=> a.expires = 0) /\ (a.id \in e <=> forever)
    BY <1>1, <1>5
  <2> HIDE DEF c, forever
  <2>3. /\ c \in Alert /\ c.id = a.id /\ c.kind = a.kind /\ c.expires = a.expires
        /\ c.active = forever /\ c.last = now
    BY <2>1 DEF Alert
  <2>4. a.expires # 0 => now < a.expires
    BY <1>2, <1>5 DEF Expired
  <2>5. OnTerms(c, o, t, n, e, g)
    BY <1>1, <2>2, <2>3, <2>4 DEF OnTerms
  <2>6. QED
    BY <2>3, <2>5 DEF c
<1>6. CASE a.active /\ ~Expired(a) /\ ~Meets(a.kind, event)
  <2>1. c = a /\ (a.id \in e <=> a.id \in d)
    BY <1>6 DEF CheckedAlert
  <2>2. QED
    BY <1>1, <2>1 DEF OnTerms
<1>7. QED
  BY <1>3, <1>4, <1>5, <1>6

LEMMA CheckAlertsStep ==
  ASSUME now \in Nat, AlertsInv, NEW event \in AlertEvents, CheckAlerts(event)
  PROVE  AlertsInv'
<1> DEFINE whose == IF event.on = "portfolio" THEN {event.user} ELSE Owners
           n == lastAlert
           t == terms
           g == gone
           d == due
           e == {k \in due : \/ terms[k].owner \notin whose
                             \/ terms[k].expires = 0
                             \/ ~(Expired(terms[k]) \/ Meets(terms[k].kind, event))}
<1>1. /\ alerts \in [Owners -> Seq(Alert)]
      /\ \A w \in Owners : ListOf(alerts[w], w, t, n, d, g)
  BY DEF AlertsInv
<1>2. /\ alerts' = [o \in Owners |-> IF o \in whose THEN Walked(alerts[o], event) ELSE alerts[o]]
      /\ due' = e /\ lastAlert' = n /\ terms' = t /\ gone' = g
  BY DEF CheckAlerts
<1>3. \A k : k \in e <=> k \in d /\ \/ t[k].owner \notin whose
                                    \/ t[k].expires = 0
                                    \/ ~(Expired(t[k]) \/ Meets(t[k].kind, event))
  OBVIOUS
<1> HIDE DEF e, n, t, g, d, whose
<1>4. ASSUME NEW w \in Owners
      PROVE  ListOf(alerts'[w], w, t, n, e, g) /\ alerts'[w] \in Seq(Alert)
  <2> DEFINE l == alerts[w]
             m == Walked(l, event)
  <2>1. l \in Seq(Alert) /\ DOMAIN l = 1 .. Len(l) /\ ListOf(l, w, t, n, d, g)
    BY <1>1, LenProperties
  <2>2. CASE w \in whose
    <3>1. alerts'[w] = m /\ m = [i \in 1 .. Len(l) |-> CheckedAlert(l[i], event)]
      BY <1>2, <2>1, <2>2 DEF Walked
    <3> HIDE DEF l, m
    <3>2. ASSUME NEW i \in 1 .. Len(l)
          PROVE  m[i] \in Alert /\ m[i].id = l[i].id /\ OnTerms(m[i], w, t, n, e, g)
      <4> DEFINE a == l[i]
                 c == CheckedAlert(a, event)
      <4>1. a \in Alert /\ OnTerms(a, w, t, n, d, g)
        BY <2>1, ElementOfSeq DEF ListOf
      <4>2. m[i] = c
        BY <3>1
      <4> HIDE DEF a
      <4>3. a.id \in e <=> a.id \in d /\ (a.expires = 0 \/ ~(Expired(a) \/ Meets(a.kind, event)))
        <5>1. t[a.id].owner = w /\ t[a.id].kind = a.kind /\ t[a.id].expires = a.expires
          BY <4>1 DEF OnTerms
        <5>2. Expired(t[a.id]) <=> Expired(a)
          BY <5>1 DEF Expired
        <5>3. QED
          BY <1>3, <2>2, <5>1, <5>2
      <4>4. c \in Alert /\ c.id = a.id /\ OnTerms(c, w, t, n, e, g)
        BY <4>1, <4>3, CheckedOnTerms
      <4>5. QED
        BY <4>2, <4>4 DEF a
    <3>3. m \in [1 .. Len(l) -> Alert]
      <4>1. m = [i \in 1 .. Len(l) |-> m[i]]
        BY <3>1
      <4>2. QED
        BY <3>2, <4>1
    <3>4. ListOf(m, w, t, n, e, g)
      BY <2>1, <3>2, <3>3, ListMapped
    <3>5. QED
      BY <3>1, <3>4 DEF ListOf
  <2>3. CASE w \notin whose
    <3>1. alerts'[w] = l
      BY <1>2, <2>3
    <3>2. \A k \in 1 .. n : t[k].owner = w => (k \in d <=> k \in e) /\ (k \in g <=> k \in g)
      BY <1>3, <2>3
    <3> HIDE DEF l
    <3>3. ListOf(l, w, t, n, e, g)
      BY <2>1, <3>2, ListSame
    <3>4. QED
      BY <2>1, <3>1, <3>3
  <2>4. QED
    BY <2>2, <2>3
<1>5. alerts' \in [Owners -> Seq(Alert)]
  <2>1. alerts' = [o \in Owners |-> alerts'[o]]
    BY <1>2
  <2>2. QED
    BY <1>4, <2>1
<1>6. QED
  BY <1>2, <1>4, <1>5 DEF AlertsInv, n, t, g

LEMMA CleanupAlertsStep ==
  ASSUME AlertsInv, NEW o \in Owners, CleanupAlerts(o)
  PROVE  AlertsInv'
<1> DEFINE n == lastAlert
           t == terms
           g == gone
           d == due
           l == alerts[o]
           S == {a \in Range(l) : Live(a)}
           m == Only(l, S)
           h == gone \union {k \in DOMAIN terms : terms[k].owner = o /\ (k \notin due \/ Expired(terms[k]))}
<1>1. /\ alerts \in [Owners -> Seq(Alert)]
      /\ \A w \in Owners : ListOf(alerts[w], w, t, n, d, g)
      /\ g \subseteq 1 .. n /\ DOMAIN t = 1 .. n /\ n \in Nat
  BY LenProperties, AlertsAssumption DEF AlertsInv
<1>2. /\ alerts' = [alerts EXCEPT ![o] = m] /\ gone' = h
      /\ lastAlert' = n /\ terms' = t /\ due' = d
  BY <1>1 DEF CleanupAlerts
<1>3. l \in Seq(Alert) /\ DOMAIN l = 1 .. Len(l) /\ ListOf(l, o, t, n, d, g) /\ Len(l) \in Nat
  BY <1>1, LenProperties
<1>4. \A k : k \in h <=> k \in g \/ (k \in DOMAIN t /\ t[k].owner = o /\ (k \notin d \/ Expired(t[k])))
  OBVIOUS
<1>5. \A i \in 1 .. Len(l) : l[i] \in S <=> Live(l[i])
  BY <1>3 DEF Range
<1>6. \A a \in S : Live(a)
  OBVIOUS
<1> HIDE DEF h, n, t, g, d, S, l
<1>7. m \in Seq(Alert) /\ \E p : Picks(l, S, Len(l), m, p)
  BY <1>3, OnlyPicks
<1> HIDE DEF m
<1>8. PICK p : Picks(l, S, Len(l), m, p)
  BY <1>7
<1>9. Len(m) \in Nat
  BY <1>7, LenProperties
<1>10. /\ \A i \in 1 .. Len(m) : p[i] \in 1 .. Len(l) /\ m[i] = l[p[i]] /\ m[i] \in S
       /\ \A i, j \in 1 .. Len(m) : i < j => p[i] < p[j]
       /\ \A k \in 1 .. Len(l) : l[k] \in S => \E i \in 1 .. Len(m) : p[i] = k
  BY <1>8 DEF Picks
<1>11. /\ \A i \in 1 .. Len(l) : OnTerms(l[i], o, t, n, d, g)
       /\ \A i, j \in 1 .. Len(l) : i < j => l[i].id < l[j].id
       /\ \A k \in 1 .. n : k \notin g /\ t[k].owner = o => \E i \in 1 .. Len(l) : l[i].id = k
  BY <1>3 DEF ListOf
<1>12. \A i \in 1 .. Len(l) : (Live(l[i]) <=> l[i].id \notin h)
  <2>1. ASSUME NEW i \in 1 .. Len(l) PROVE Live(l[i]) <=> l[i].id \notin h
    <3> DEFINE a == l[i]
    <3>1. OnTerms(a, o, t, n, d, g)
      BY <1>11
    <3> HIDE DEF a
    <3>2. /\ a.id \in 1 .. n /\ a.id \notin g /\ t[a.id].owner = o /\ t[a.id].expires = a.expires
          /\ a.active <=> a.id \in d
      BY <3>1 DEF OnTerms
    <3>3. Expired(t[a.id]) <=> Expired(a)
      BY <3>2 DEF Expired
    <3>4. a.id \in h <=> (a.id \notin d \/ Expired(a))
      BY <1>1, <1>4, <3>2, <3>3
    <3>5. QED
      BY <3>2, <3>4 DEF Live, a
  <2>2. QED
    BY <2>1
<1>13. \A i \in 1 .. Len(m) : OnTerms(m[i], o, t, n, d, h)
  <2>1. ASSUME NEW i \in 1 .. Len(m) PROVE OnTerms(m[i], o, t, n, d, h)
    <3> DEFINE j == p[i]
               a == l[j]
    <3>1. j \in 1 .. Len(l) /\ m[i] = a /\ a \in S
      BY <1>10
    <3> HIDE DEF j
    <3>2. OnTerms(a, o, t, n, d, g) /\ a.id \notin h
      BY <1>6, <1>11, <1>12, <3>1
    <3> HIDE DEF a
    <3>3. OnTerms(a, o, t, n, d, h)
      BY <3>2 DEF OnTerms
    <3>4. QED
      BY <3>1, <3>3
  <2>2. QED
    BY <2>1
<1>14. \A i, j \in 1 .. Len(m) : i < j => m[i].id < m[j].id
  BY <1>10, <1>11
<1>15. ASSUME NEW k \in 1 .. n, k \notin h, t[k].owner = o PROVE \E i \in 1 .. Len(m) : m[i].id = k
  <2>1. k \notin g
    BY <1>4, <1>15
  <2>2. PICK i \in 1 .. Len(l) : l[i].id = k
    BY <1>11, <1>15, <2>1
  <2>3. l[i] \in S
    BY <1>5, <1>12, <1>15, <2>2
  <2>4. PICK j \in 1 .. Len(m) : p[j] = i
    BY <1>10, <2>3
  <2>5. QED
    BY <1>10, <2>2, <2>4
<1>16. ListOf(m, o, t, n, d, h)
  BY <1>7, <1>13, <1>14, <1>15 DEF ListOf
<1>17. ASSUME NEW w \in Owners PROVE ListOf(alerts'[w], w, t, n, d, h)
  <2>1. CASE w = o
    BY <1>1, <1>2, <1>16, <2>1
  <2>2. CASE w # o
    <3> DEFINE r == alerts[w]
    <3>1. ListOf(r, w, t, n, d, g) /\ alerts'[w] = r
      BY <1>1, <1>2, <2>2
    <3>2. \A k \in 1 .. n : t[k].owner = w => (k \in d <=> k \in d) /\ (k \in g <=> k \in h)
      BY <1>4, <2>2
    <3> HIDE DEF r
    <3>3. ListOf(r, w, t, n, d, h)
      BY <3>1, <3>2, ListSame
    <3>4. QED
      BY <3>1, <3>3
  <2>3. QED
    BY <2>1, <2>2
<1>18. alerts' \in [Owners -> Seq(Alert)]
  BY <1>1, <1>2, <1>7
<1>19. h \subseteq 1 .. n
  BY <1>1, <1>4
<1>20. QED
  BY <1>2, <1>17, <1>18, <1>19 DEF AlertsInv, n, t, d

LEMMA AlertsStep == AdminTypeOK /\ AlertsInv /\ [ServicesNext]_servicesVars => AlertsInv'
<1> SUFFICES ASSUME AdminTypeOK, AlertsInv, [ServicesNext]_servicesVars PROVE AlertsInv'
  OBVIOUS
<1>1. now \in Nat
  BY DEF AdminTypeOK
<1>2. AlertsNext \/ UNCHANGED alertsVars
  BY DEF ServicesNext, Focused, servicesVars
<1>3. CASE AlertsNext
  BY <1>1, <1>3, CreateAlertStep, SubscribeStep, CheckAlertsStep, CleanupAlertsStep DEF AlertsNext
<1>4. CASE UNCHANGED alertsVars
  BY <1>4 DEF alertsVars, AlertsInv
<1>5. QED
  BY <1>2, <1>3, <1>4

LEMMA AlertsInvSound == AlertsInv => AlertsSound
<1> SUFFICES ASSUME AlertsInv PROVE AlertsSound
  OBVIOUS
<1> DEFINE n == lastAlert
           t == terms
           g == gone
           d == due
<1>1. /\ n \in 0 .. MaxAlerts /\ DOMAIN t = 1 .. n
      /\ \A w \in Owners : ListOf(alerts[w], w, t, n, d, g)
  BY LenProperties DEF AlertsInv
<1> HIDE DEF n, t, g, d
<1>2. ASSUME NEW o \in Owners
      PROVE  /\ \A i \in DOMAIN alerts[o] : alerts[o][i].id \in 1 .. n
             /\ {alerts[o][i].id : i \in DOMAIN alerts[o]} = {k \in DOMAIN t : t[k].owner = o} \ g
             /\ \A i \in DOMAIN alerts[o] :
                  /\ i > 1 => alerts[o][i].id > alerts[o][i - 1].id
                  /\ Live(alerts[o][i]) <=> alerts[o][i].id \in d /\ ~Expired(alerts[o][i])
                  /\ alerts[o][i].expires # 0 => alerts[o][i].last < alerts[o][i].expires
  <2> DEFINE l == alerts[o]
  <2>1. ListOf(l, o, t, n, d, g)
    BY <1>1
  <2>2. l \in Seq(Alert) /\ DOMAIN l = 1 .. Len(l) /\ Len(l) \in Nat
    BY <2>1, LenProperties DEF ListOf
  <2> HIDE DEF l
  <2>3. /\ \A i \in 1 .. Len(l) : OnTerms(l[i], o, t, n, d, g)
        /\ \A i, j \in 1 .. Len(l) : i < j => l[i].id < l[j].id
        /\ \A k \in 1 .. n : k \notin g /\ t[k].owner = o => \E i \in 1 .. Len(l) : l[i].id = k
    BY <2>1 DEF ListOf
  <2>4. \A i \in 1 .. Len(l) : l[i].id \in 1 .. n /\ l[i].id \notin g /\ t[l[i].id].owner = o
    BY <2>3 DEF OnTerms
  <2>5. {l[i].id : i \in DOMAIN l} = {k \in DOMAIN t : t[k].owner = o} \ g
    BY <1>1, <2>2, <2>3, <2>4
  <2>6. ASSUME NEW i \in 1 .. Len(l), i > 1 PROVE l[i].id > l[i - 1].id
    <3>1. i - 1 \in 1 .. Len(l) /\ i - 1 < i
      BY <2>2, <2>6
    <3>2. l[i - 1].id < l[i].id
      BY <2>3, <3>1
    <3>3. l[i].id \in Int /\ l[i - 1].id \in Int
      BY <2>4, <3>1
    <3>4. QED
      BY <3>2, <3>3
  <2>7. ASSUME NEW i \in 1 .. Len(l)
        PROVE  /\ Live(l[i]) <=> l[i].id \in d /\ ~Expired(l[i])
               /\ l[i].expires # 0 => l[i].last < l[i].expires
    BY <2>3 DEF OnTerms, Live
  <2>8. QED
    BY <2>2, <2>4, <2>5, <2>6, <2>7 DEF l
<1>3. AlertsTypeOK
  BY <1>1, <1>2 DEF AlertsTypeOK, n
<1>4. QED
  BY <1>2, <1>3 DEF AlertsSound, n, t, g, d

\* For any owners, terms and events: no alert is lost and none comes back by
\* itself, whatever checks, cleanups and subscriptions came in between.
THEOREM AlertsAlwaysSound == ServicesSpec => []AlertsSound
<1>1. ServicesInit => AdminTypeOK /\ AlertsInv
  BY ClockInit, AlertsInvInit DEF ServicesInit
<1>2. AdminTypeOK /\ AlertsInv /\ [ServicesNext]_servicesVars => AdminTypeOK' /\ AlertsInv'
  BY ClockStep, AlertsStep
<1>3. QED
  BY <1>1, <1>2, AlertsInvSound, PTL DEF ServicesSpec
=============================================================================
