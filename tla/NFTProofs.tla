------------------------------ MODULE NFTProofs ------------------------------
(***************************************************************************)
(* Theorems about the NFT suite, for every set of accounts, every choice   *)
(* of prices, shares and loans and every bound.                            *)
(*                                                                         *)
(* First what the types of the registries are and how they refer to each   *)
(* other (NFTInv), with one lemma for each thing a step does to them; then *)
(* one part for each property.                                             *)
(***************************************************************************)
EXTENDS NFTSuite, SequenceTheorems, Sums

-----------------------------------------------------------------------------
(* The registries and the ids in them *)

\* Tokens of one of n collections, entries about one of n tokens and at a
\* price: nothing is listed, bid for or offered at zero.
NFTOf(n) == {r \in NFTRecord : r.collection \in 1 .. n}
ListingOf(n) ==
  {r \in ListingRecord : /\ r.token \in 1 .. n /\ r.price > 0
                         /\ r.bidder # NoUser => r.bid > 0 /\ r.bid >= r.minBid}
OfferOf(n) == {r \in OfferRecord : r.token \in 1 .. n /\ r.price > 0}
TradeOf(n) == {r \in TradeRecord : r.token \in 1 .. n /\ r.price > 0}
LoanOf(n) == {r \in LoanRecord : r.token \in 1 .. n}
BidRecord == [bidder : Addresses \union {NoUser}, amount : Nat]

TokensInv ==
  /\ collections \in Seq(CollectionRecord) /\ Len(collections) <= MaxCollections
  /\ nfts \in Seq(NFTOf(Len(collections))) /\ Len(nfts) <= MaxTokens
  /\ ownerTokens \in [Addresses -> Seq(Nat)]
CountsInv ==
  /\ portfolio \in [Addresses -> PortfolioRecord]
  /\ activeListings \in Nat /\ activeOffers \in Nat /\ activeLoans \in Nat
SwitchInv == marketPaused \in BOOLEAN /\ frozen \subseteq Addresses /\ platformFee \in Nat
MarketInv ==
  /\ listings \in Seq(ListingOf(Len(nfts))) /\ offers \in Seq(OfferOf(Len(nfts)))
  /\ trades \in Seq(TradeOf(Len(nfts)))
PledgeInv == collateralOf \in [1 .. MaxTokens -> Nat]
LoansInv == loans \in Seq(LoanOf(Len(nfts))) /\ Len(loans) <= MaxLoans
ValuesInv ==
  /\ valuations \in [1 .. MaxTokens -> [estimate : Nat, floor : Nat]]
  /\ floors \in [1 .. MaxCollections -> Nat]
LiquidationInv ==
  /\ queue \in Seq(1 .. Len(loans))
  /\ bestBid \in [1 .. MaxLoans -> BidRecord]
  /\ \A i \in 1 .. MaxLoans : bestBid[i] # NoBid => bestBid[i].bidder \in Addresses /\ i \in 1 .. Len(loans)

NFTInv ==
  /\ AdminTypeOK /\ TokensInv /\ CountsInv /\ SwitchInv /\ MarketInv /\ PledgeInv
  /\ FractionalTypeOK /\ LoansInv /\ ValuesInv /\ LiquidationInv

\* The registries grow and their old ids stay good.
LEMMA Wider ==
  ASSUME NEW n \in Nat, NEW m \in Nat, n <= m
  PROVE  /\ NFTOf(n) \subseteq NFTOf(m) /\ ListingOf(n) \subseteq ListingOf(m)
         /\ OfferOf(n) \subseteq OfferOf(m) /\ TradeOf(n) \subseteq TradeOf(m)
         /\ LoanOf(n) \subseteq LoanOf(m) /\ 1 .. n \subseteq 1 .. m
<1>1. \A x \in 1 .. n : x \in 1 .. m
  OBVIOUS
<1>2. QED
  BY <1>1 DEF NFTOf, ListingOf, OfferOf, TradeOf, LoanOf

LEMMA SizesTyped ==
  ASSUME NFTInv
  PROVE  /\ Len(collections) \in Nat /\ Len(nfts) \in Nat /\ Len(listings) \in Nat
         /\ Len(offers) \in Nat /\ Len(trades) \in Nat /\ Len(loans) \in Nat /\ Len(queue) \in Nat
         /\ DOMAIN collections = 1 .. Len(collections) /\ DOMAIN nfts = 1 .. Len(nfts)
         /\ DOMAIN listings = 1 .. Len(listings) /\ DOMAIN offers = 1 .. Len(offers)
         /\ DOMAIN trades = 1 .. Len(trades) /\ DOMAIN loans = 1 .. Len(loans)
         /\ DOMAIN queue = 1 .. Len(queue)
BY LenProperties DEF NFTInv, TokensInv, MarketInv, LoansInv, LiquidationInv

LEMMA EntriesTyped ==
  ASSUME NFTInv
  PROVE  /\ \A c \in 1 .. Len(collections) : collections[c] \in CollectionRecord
         /\ \A t \in 1 .. Len(nfts) :
              nfts[t] \in NFTRecord /\ nfts[t].collection \in 1 .. Len(collections)
         /\ \A l \in 1 .. Len(listings) :
              /\ listings[l] \in ListingRecord /\ listings[l].token \in 1 .. Len(nfts) /\ listings[l].price > 0
              /\ listings[l].bidder # NoUser => listings[l].bid > 0 /\ listings[l].bid >= listings[l].minBid
         /\ \A o \in 1 .. Len(offers) :
              offers[o] \in OfferRecord /\ offers[o].token \in 1 .. Len(nfts) /\ offers[o].price > 0
         /\ \A i \in 1 .. Len(trades) :
              trades[i] \in TradeRecord /\ trades[i].token \in 1 .. Len(nfts) /\ trades[i].price > 0
         /\ \A i \in 1 .. Len(loans) :
              loans[i] \in LoanRecord /\ loans[i].token \in 1 .. Len(nfts)
         /\ \A k \in 1 .. Len(queue) : queue[k] \in 1 .. Len(loans)
<1>1. \A t \in 1 .. Len(nfts) : nfts[t] \in NFTOf(Len(collections))
  BY ElementOfSeq DEF NFTInv, TokensInv
<1>2. \A l \in 1 .. Len(listings) : listings[l] \in ListingOf(Len(nfts))
  BY ElementOfSeq DEF NFTInv, MarketInv
<1>3. \A o \in 1 .. Len(offers) : offers[o] \in OfferOf(Len(nfts))
  BY ElementOfSeq DEF NFTInv, MarketInv
<1>4. \A i \in 1 .. Len(trades) : trades[i] \in TradeOf(Len(nfts))
  BY ElementOfSeq DEF NFTInv, MarketInv
<1>5. \A i \in 1 .. Len(loans) : loans[i] \in LoanOf(Len(nfts))
  BY ElementOfSeq DEF NFTInv, LoansInv
<1>6. \A c \in 1 .. Len(collections) : collections[c] \in CollectionRecord
  BY ElementOfSeq DEF NFTInv, TokensInv
<1>7. \A k \in 1 .. Len(queue) : queue[k] \in 1 .. Len(loans)
  BY ElementOfSeq DEF NFTInv, LiquidationInv
<1>8. QED
  BY <1>1, <1>2, <1>3, <1>4, <1>5, <1>6, <1>7 DEF NFTOf, ListingOf, OfferOf, TradeOf, LoanOf

LEMMA NFTInvTypes == NFTInv => NFTTypeOK
<1> SUFFICES ASSUME NFTInv PROVE NFTTypeOK
  OBVIOUS
<1>1. nfts \in Seq(NFTRecord)
  BY SeqMonotonic DEF NFTInv, TokensInv, NFTOf
<1>2. listings \in Seq(ListingRecord)
  BY SeqMonotonic DEF NFTInv, MarketInv, ListingOf
<1>3. offers \in Seq(OfferRecord)
  BY SeqMonotonic DEF NFTInv, MarketInv, OfferOf
<1>4. trades \in Seq(TradeRecord)
  BY SeqMonotonic DEF NFTInv, MarketInv, TradeOf
<1>5. loans \in Seq(LoanRecord)
  BY SeqMonotonic DEF NFTInv, LoansInv, LoanOf
<1>6. queue \in Seq(1 .. MaxLoans)
  <2>1. Len(loans) \in Nat /\ MaxLoans \in Nat /\ Len(loans) <= MaxLoans
    BY SizesTyped, LendingAssumption DEF NFTInv, LoansInv
  <2>2. 1 .. Len(loans) \subseteq 1 .. MaxLoans
    BY <2>1, Wider
  <2>3. QED
    BY <2>2, SeqMonotonic DEF NFTInv, LiquidationInv
<1>7. QED
  BY <1>1, <1>2, <1>3, <1>4, <1>5, <1>6
     DEF NFTInv, TokensInv, CountsInv, SwitchInv, MarketInv, PledgeInv, LoansInv, ValuesInv,
         LiquidationInv, BidRecord, NFTTypeOK, StorageTypeOK, MarketTypeOK, LendingTypeOK

-----------------------------------------------------------------------------
(* What the parts of a call do to the registries *)

\* Token by token, whatever the ownership of t.
LEMMA OwnershipMoves ==
  ASSUME NFTInv, NEW t \in 1 .. Len(nfts), NEW to \in Addresses, TransferOwnership(t, to)
  PROVE  /\ nfts' \in Seq(NFTOf(Len(collections))) /\ Len(nfts') = Len(nfts)
         /\ \A x \in 1 .. Len(nfts) :
              /\ nfts'[x].owner = IF x = t THEN to ELSE nfts[x].owner
              /\ nfts'[x].collection = nfts[x].collection
              /\ nfts'[x].fractional = nfts[x].fractional
              /\ nfts'[x].supply = nfts[x].supply /\ nfts'[x].circulating = nfts[x].circulating
         /\ ownerTokens' \in [Addresses -> Seq(Nat)]
<1> DEFINE r == [nfts[t] EXCEPT !.owner = to]
           n == Len(collections)
           without == [ownerTokens EXCEPT ![nfts[t].owner] = Only(@, Range(@) \ {t})]
<1>1. nfts \in Seq(NFTOf(n)) /\ nfts[t] \in NFTRecord /\ nfts[t].collection \in 1 .. n
  BY EntriesTyped DEF NFTInv, TokensInv
<1>2. /\ r \in NFTRecord /\ r.owner = to /\ r.collection = nfts[t].collection
      /\ r.fractional = nfts[t].fractional /\ r.supply = nfts[t].supply
      /\ r.circulating = nfts[t].circulating
  BY <1>1 DEF NFTRecord
<1>3. r \in NFTOf(n)
  BY <1>1, <1>2 DEF NFTOf
<1>4. nfts' = [nfts EXCEPT ![t] = r]
  BY DEF TransferOwnership
<1> HIDE DEF r, n
<1>5. /\ nfts' \in Seq(NFTOf(n)) /\ Len(nfts') = Len(nfts)
      /\ \A x \in 1 .. Len(nfts) : nfts'[x] = IF x = t THEN r ELSE nfts[x]
  BY <1>1, <1>3, <1>4, ExceptSeq
<1>6. t \in Nat /\ nfts[t].owner \in Addresses /\ ownerTokens \in [Addresses -> Seq(Nat)]
  <2>1. t \in Nat
    BY SizesTyped
  <2>2. nfts[t].owner \in Addresses
    BY <1>1 DEF NFTRecord
  <2>3. QED
    BY <2>1, <2>2 DEF NFTInv, TokensInv
<1>7. Only(ownerTokens[nfts[t].owner], Range(ownerTokens[nfts[t].owner]) \ {t}) \in Seq(Nat)
  BY <1>6, OnlyPicks
<1>8. without \in [Addresses -> Seq(Nat)]
  BY <1>6, <1>7
<1>9. ownerTokens' = [without EXCEPT ![to] = Append(@, t)]
  BY DEF TransferOwnership
<1> HIDE DEF without
<1>10. Append(without[to], t) \in Seq(Nat)
  BY <1>6, <1>8, AppendProperties
<1>11. ownerTokens' \in [Addresses -> Seq(Nat)]
  BY <1>8, <1>9, <1>10
<1>12. QED
  BY <1>2, <1>5, <1>11 DEF n

\* The portfolio entries some properties count, with one of them changed.
PortfolioAs(p, lists, offs, taken, given) ==
  /\ p \in [Addresses -> PortfolioRecord]
  /\ \A a \in Addresses :
       /\ p[a].listings = lists[a] /\ p[a].offers = offs[a]
       /\ p[a].loansTaken = taken[a] /\ p[a].loansGiven = given[a]

ListingsNow == [a \in Addresses |-> portfolio[a].listings]
OffersNow == [a \in Addresses |-> portfolio[a].offers]
TakenNow == [a \in Addresses |-> portfolio[a].loansTaken]
GivenNow == [a \in Addresses |-> portfolio[a].loansGiven]

LEMMA LessTyped == \A n \in Nat : Less(n) \in Nat /\ (n > 0 => Less(n) = n - 1)
BY DEF Less

LEMMA PortfolioStays ==
  NFTInv => PortfolioAs(portfolio, ListingsNow, OffersNow, TakenNow, GivenNow)
BY DEF NFTInv, CountsInv, PortfolioAs, ListingsNow, OffersNow, TakenNow, GivenNow

LEMMA ListingCloses ==
  ASSUME NFTInv, NEW l \in 1 .. Len(listings), CloseListing(l)
  PROVE  /\ listings[l].active
         /\ listings' \in Seq(ListingOf(Len(nfts))) /\ Len(listings') = Len(listings)
         /\ \A x \in 1 .. Len(listings) :
              /\ listings'[x].active = IF x = l THEN FALSE ELSE listings[x].active
              /\ listings'[x].seller = listings[x].seller /\ listings'[x].token = listings[x].token
         /\ activeListings' = Less(activeListings)
         /\ PortfolioAs(portfolio', [ListingsNow EXCEPT ![listings[l].seller] = Less(@)],
                        OffersNow, TakenNow, GivenNow)
<1> DEFINE r == [listings[l] EXCEPT !.active = FALSE]
           n == Len(nfts)
           s == listings[l].seller
<1>1. listings \in Seq(ListingOf(n)) /\ listings[l] \in ListingRecord /\ listings[l].token \in 1 .. n
  BY EntriesTyped DEF NFTInv, MarketInv
<1>2. /\ r \in ListingRecord /\ r.active = FALSE /\ r.seller = listings[l].seller
      /\ r.token = listings[l].token /\ listings[l].seller \in Addresses
      /\ r.bidder = listings[l].bidder /\ r.bid = listings[l].bid /\ r.minBid = listings[l].minBid
      /\ r.price = listings[l].price
  BY <1>1 DEF ListingRecord
<1>3. r \in ListingOf(n)
  BY <1>1, <1>2, EntriesTyped DEF ListingOf
<1>4. listings[l].active /\ listings' = [listings EXCEPT ![l] = r] /\ activeListings' = Less(activeListings)
      /\ portfolio' = [portfolio EXCEPT ![s].listings = Less(@)]
  BY DEF CloseListing
<1> HIDE DEF r, n
<1>5. /\ listings' \in Seq(ListingOf(n)) /\ Len(listings') = Len(listings)
      /\ \A x \in 1 .. Len(listings) : listings'[x] = IF x = l THEN r ELSE listings[x]
  BY <1>1, <1>3, <1>4, ExceptSeq
<1>6. s \in Addresses
  BY <1>2
<1> HIDE DEF s
<1>7. PortfolioAs(portfolio', [ListingsNow EXCEPT ![s] = Less(@)], OffersNow, TakenNow, GivenNow)
  BY <1>4, <1>6, LessTyped
     DEF NFTInv, CountsInv, PortfolioAs, PortfolioRecord, ListingsNow, OffersNow, TakenNow, GivenNow
<1>8. \A x \in 1 .. Len(listings) :
        /\ listings'[x].active = IF x = l THEN FALSE ELSE listings[x].active
        /\ listings'[x].seller = listings[x].seller /\ listings'[x].token = listings[x].token
  BY <1>2, <1>5
<1>9. QED
  BY <1>4, <1>5, <1>7, <1>8 DEF n, s

LEMMA OfferCloses ==
  ASSUME NFTInv, NEW o \in 1 .. Len(offers), CloseOffer(o)
  PROVE  /\ offers[o].active
         /\ offers' \in Seq(OfferOf(Len(nfts))) /\ Len(offers') = Len(offers)
         /\ \A x \in 1 .. Len(offers) :
              /\ offers'[x].active = IF x = o THEN FALSE ELSE offers[x].active
              /\ offers'[x].buyer = offers[x].buyer
         /\ activeOffers' = Less(activeOffers)
         /\ PortfolioAs(portfolio', ListingsNow, [OffersNow EXCEPT ![offers[o].buyer] = Less(@)],
                        TakenNow, GivenNow)
<1> DEFINE r == [offers[o] EXCEPT !.active = FALSE]
           n == Len(nfts)
           s == offers[o].buyer
<1>1. offers \in Seq(OfferOf(n)) /\ offers[o] \in OfferRecord /\ offers[o].token \in 1 .. n
  BY EntriesTyped DEF NFTInv, MarketInv
<1>2. /\ r \in OfferRecord /\ r.active = FALSE /\ r.buyer = offers[o].buyer
      /\ r.token = offers[o].token /\ offers[o].buyer \in Addresses /\ r.price = offers[o].price
  BY <1>1 DEF OfferRecord
<1>3. r \in OfferOf(n)
  BY <1>1, <1>2, EntriesTyped DEF OfferOf
<1>4. offers[o].active /\ offers' = [offers EXCEPT ![o] = r] /\ activeOffers' = Less(activeOffers)
      /\ portfolio' = [portfolio EXCEPT ![s].offers = Less(@)]
  BY DEF CloseOffer
<1> HIDE DEF r, n
<1>5. /\ offers' \in Seq(OfferOf(n)) /\ Len(offers') = Len(offers)
      /\ \A x \in 1 .. Len(offers) : offers'[x] = IF x = o THEN r ELSE offers[x]
  BY <1>1, <1>3, <1>4, ExceptSeq
<1>6. s \in Addresses
  BY <1>2
<1> HIDE DEF s
<1>7. PortfolioAs(portfolio', ListingsNow, [OffersNow EXCEPT ![s] = Less(@)], TakenNow, GivenNow)
  BY <1>4, <1>6, LessTyped
     DEF NFTInv, CountsInv, PortfolioAs, PortfolioRecord, ListingsNow, OffersNow, TakenNow, GivenNow
<1>8. \A x \in 1 .. Len(offers) :
        /\ offers'[x].active = IF x = o THEN FALSE ELSE offers[x].active
        /\ offers'[x].buyer = offers[x].buyer
  BY <1>2, <1>5
<1>9. QED
  BY <1>4, <1>5, <1>7, <1>8 DEF n, s

\* A sale moves the token and writes the statistics and the history.
LEMMA TradeExecutes ==
  ASSUME NFTInv, NEW t \in 1 .. Len(nfts), NEW seller \in Addresses, NEW buyer \in Addresses,
         NEW price \in Nat, price > 0, NEW amount \in Nat, ExecuteTrade(t, seller, buyer, price, amount)
  PROVE  /\ nfts[t].owner = seller /\ TransferOwnership(t, buyer)
         /\ collections' \in Seq(CollectionRecord) /\ Len(collections') = Len(collections)
         /\ \A c \in 1 .. Len(collections) :
              /\ collections'[c].supply = collections[c].supply
              /\ collections'[c].maxSupply = collections[c].maxSupply
              /\ c # nfts[t].collection => collections'[c] = collections[c]
              /\ c = nfts[t].collection =>
                   /\ collections'[c].volume = collections[c].volume + price
                   /\ collections'[c].floor = FloorAfter(collections[c].floor, price)
         /\ trades' \in Seq(TradeOf(Len(nfts))) /\ Len(trades') = Len(trades) + 1
         /\ \A i \in 1 .. Len(trades) : trades'[i] = trades[i]
         /\ trades'[Len(trades) + 1].token = t /\ trades'[Len(trades) + 1].price = price
         /\ trades'[Len(trades) + 1].seller = seller /\ trades'[Len(trades) + 1].buyer = buyer
<1> DEFINE c0 == nfts[t].collection
           r == [collections[c0] EXCEPT !.volume = @ + price, !.floor = FloorAfter(@, price)]
           s == [token |-> t, seller |-> seller, buyer |-> buyer, price |-> price, amount |-> amount,
                 fee |-> Share(price, platformFee), royalty |-> Share(price, collections[c0].royalty)]
           n == Len(nfts)
<1>1. /\ collections \in Seq(CollectionRecord) /\ c0 \in 1 .. Len(collections)
      /\ collections[c0] \in CollectionRecord /\ trades \in Seq(TradeOf(n))
      /\ platformFee \in Nat
  BY EntriesTyped DEF NFTInv, TokensInv, MarketInv, SwitchInv
<1>2. /\ nfts[t].owner = seller /\ TransferOwnership(t, buyer)
      /\ collections' = [collections EXCEPT ![c0] = r] /\ trades' = Append(trades, s)
  BY DEF ExecuteTrade
<1>3. \A x, y \in Nat : Share(x, y) \in Nat
  <2>1. ASSUME NEW x \in Nat, NEW y \in Nat PROVE Share(x, y) \in Nat
    <3>1. x * y \in Nat
      BY MulNat
    <3>2. QED
      BY <3>1, DivNat DEF Share
  <2>2. QED
    BY <2>1
<1>4. Share(price, platformFee) \in Nat /\ Share(price, collections[c0].royalty) \in Nat
  BY <1>1, <1>3 DEF CollectionRecord
<1>5. s \in TradeOf(n) /\ s.token = t /\ s.price = price /\ s.seller = seller /\ s.buyer = buyer
  BY <1>4 DEF TradeOf, TradeRecord
<1>6. FloorAfter(collections[c0].floor, price) \in Nat
  BY <1>1 DEF FloorAfter, CollectionRecord
<1>7. /\ r \in CollectionRecord /\ r.supply = collections[c0].supply
      /\ r.maxSupply = collections[c0].maxSupply /\ r.volume = collections[c0].volume + price
      /\ r.floor = FloorAfter(collections[c0].floor, price)
  <2> DEFINE old == collections[c0]
             low == FloorAfter(old.floor, price)
  <2>1. old \in CollectionRecord /\ low \in Nat
    BY <1>1, <1>6
  <2>2. old.volume + price \in Nat
    BY <2>1 DEF CollectionRecord
  <2>3. r = [old EXCEPT !.volume = old.volume + price, !.floor = low]
    OBVIOUS
  <2> HIDE DEF r, low, old
  <2>4. QED
    BY <2>1, <2>2, <2>3 DEF CollectionRecord, low, old
<1> HIDE DEF c0, r, s
<1>8. /\ collections' \in Seq(CollectionRecord) /\ Len(collections') = Len(collections)
      /\ \A c \in 1 .. Len(collections) : collections'[c] = IF c = c0 THEN r ELSE collections[c]
  BY <1>1, <1>2, <1>7, ExceptSeq
<1>9. \A c \in 1 .. Len(collections) :
        /\ collections'[c].supply = collections[c].supply
        /\ collections'[c].maxSupply = collections[c].maxSupply
        /\ c # c0 => collections'[c] = collections[c]
        /\ c = c0 =>
             /\ collections'[c].volume = collections[c].volume + price
             /\ collections'[c].floor = FloorAfter(collections[c].floor, price)
  BY <1>7, <1>8
<1> HIDE DEF n
<1>10. /\ trades' \in Seq(TradeOf(n)) /\ Len(trades') = Len(trades) + 1
       /\ \A i \in 1 .. Len(trades) : trades'[i] = trades[i]
       /\ trades'[Len(trades) + 1] = s
  BY <1>1, <1>2, <1>5, AppendProperties
<1>11. /\ trades'[Len(trades) + 1].token = t /\ trades'[Len(trades) + 1].price = price
       /\ trades'[Len(trades) + 1].seller = seller /\ trades'[Len(trades) + 1].buyer = buyer
  BY <1>5, <1>10
<1>12. QED
  BY <1>2, <1>8, <1>9, <1>10, <1>11 DEF c0, n

\* Shares are cut, sold and dissolved without touching anything else of a token.
Shared(t, fr, sup, circ) ==
  nfts' = [nfts EXCEPT ![t].fractional = fr, ![t].supply = sup, ![t].circulating = circ]

LEMMA SharingChanges ==
  ASSUME NFTInv, NEW t \in 1 .. Len(nfts), NEW fr \in BOOLEAN, NEW sup \in Nat, NEW circ \in Nat,
         Shared(t, fr, sup, circ)
  PROVE  /\ nfts' \in Seq(NFTOf(Len(collections))) /\ Len(nfts') = Len(nfts)
         /\ \A x \in 1 .. Len(nfts) :
              /\ nfts'[x].owner = nfts[x].owner /\ nfts'[x].collection = nfts[x].collection
              /\ x # t => nfts'[x] = nfts[x]
         /\ nfts'[t].fractional = fr /\ nfts'[t].supply = sup /\ nfts'[t].circulating = circ
<1> DEFINE r == [nfts[t] EXCEPT !.fractional = fr, !.supply = sup, !.circulating = circ]
           n == Len(collections)
<1>1. nfts \in Seq(NFTOf(n)) /\ nfts[t] \in NFTRecord /\ nfts[t].collection \in 1 .. n
  BY EntriesTyped DEF NFTInv, TokensInv
<1>2. /\ r \in NFTRecord /\ r.owner = nfts[t].owner /\ r.collection = nfts[t].collection
      /\ r.fractional = fr /\ r.supply = sup /\ r.circulating = circ
  BY <1>1 DEF NFTRecord
<1>3. r \in NFTOf(n)
  BY <1>1, <1>2 DEF NFTOf
<1>4. nfts' = [nfts EXCEPT ![t] = r]
  BY DEF Shared
<1> HIDE DEF r, n
<1>5. /\ nfts' \in Seq(NFTOf(n)) /\ Len(nfts') = Len(nfts)
      /\ \A x \in 1 .. Len(nfts) : nfts'[x] = IF x = t THEN r ELSE nfts[x]
  BY <1>1, <1>3, <1>4, ExceptSeq
<1>6. /\ \A x \in 1 .. Len(nfts) :
           /\ nfts'[x].owner = nfts[x].owner /\ nfts'[x].collection = nfts[x].collection
           /\ x # t => nfts'[x] = nfts[x]
      /\ nfts'[t].fractional = fr /\ nfts'[t].supply = sup /\ nfts'[t].circulating = circ
  BY <1>2, <1>5
<1>7. QED
  BY <1>5, <1>6 DEF n

\* The record of one loan is replaced.
LEMMA LoanChanges ==
  ASSUME NFTInv, NEW i \in 1 .. Len(loans), NEW r, r \in LoanRecord, r.token = loans[i].token,
         loans' = [loans EXCEPT ![i] = r]
  PROVE  /\ loans' \in Seq(LoanOf(Len(nfts))) /\ Len(loans') = Len(loans)
         /\ \A x \in 1 .. Len(loans) : loans'[x] = IF x = i THEN r ELSE loans[x]
<1> DEFINE n == Len(nfts)
<1>1. loans \in Seq(LoanOf(n)) /\ loans[i].token \in 1 .. n
  BY EntriesTyped DEF NFTInv, LoansInv
<1>2. r \in LoanOf(n)
  BY <1>1 DEF LoanOf
<1> HIDE DEF n
<1>3. QED
  BY <1>1, <1>2, ExceptSeq DEF n

LEMMA InterestTyped ==
  ASSUME NEW amount \in Nat, NEW bps \in Nat, NEW days \in Nat
  PROVE  Interest(amount, bps, days) \in Nat
<1>1. amount * bps \in Nat
  BY MulNat
<1>2. (amount * bps) \div 10000 \in Nat
  BY <1>1, DivNat
<1>3. ((amount * bps) \div 10000) * days \in Nat
  BY <1>2, MulNat
<1>4. QED
  BY <1>3, DivNat, LendingAssumption DEF Interest

LEMMA DueTyped ==
  ASSUME NFTInv, NEW i \in 1 .. Len(loans)
  PROVE  TotalDue(i) \in Nat
<1>1. loans[i] \in LoanRecord /\ now \in Nat
  BY EntriesTyped DEF NFTInv, AdminTypeOK
<1> DEFINE days == IF now < loans[i].start THEN 0 ELSE now - loans[i].start
<1>2. loans[i].amount \in Nat /\ loans[i].bps \in Nat /\ days \in Nat
  BY <1>1 DEF LoanRecord
<1> HIDE DEF days
<1>3. Interest(loans[i].amount, loans[i].bps, days) \in Nat
  BY <1>2, InterestTyped
<1>4. QED
  BY <1>2, <1>3 DEF TotalDue, days

\* More or fewer tokens on record: the counts stay.
LEMMA TokensCredited ==
  ASSUME NEW p, NEW f, NEW g, NEW h, NEW e, PortfolioAs(p, f, g, h, e),
         NEW a \in Addresses, NEW k \in Nat
  PROVE  PortfolioAs([p EXCEPT ![a].nfts = @ + k], f, g, h, e)
<1> DEFINE r == [p[a] EXCEPT !.nfts = @ + k]
           q == [p EXCEPT ![a].nfts = @ + k]
<1>1. p[a] \in PortfolioRecord /\ p \in [Addresses -> PortfolioRecord]
  BY DEF PortfolioAs
<1>2. /\ r \in PortfolioRecord /\ r.listings = p[a].listings /\ r.offers = p[a].offers
      /\ r.loansTaken = p[a].loansTaken /\ r.loansGiven = p[a].loansGiven
  BY <1>1 DEF PortfolioRecord
<1>3. q = [p EXCEPT ![a] = r]
  OBVIOUS
<1> HIDE DEF q, r
<1>4. q \in [Addresses -> PortfolioRecord] /\ \A b \in Addresses : q[b] = IF b = a THEN r ELSE p[b]
  BY <1>1, <1>2, <1>3
<1>5. PortfolioAs(q, f, g, h, e)
  BY <1>2, <1>4 DEF PortfolioAs
<1>6. QED
  BY <1>5 DEF q

\* One loan more on the two sides, or one less.
LEMMA LoanCredited ==
  ASSUME NFTInv, NEW b \in Addresses, NEW l \in Addresses
  PROVE  /\ PortfolioAs([portfolio EXCEPT ![b].loansTaken = @ + 1, ![l].loansGiven = @ + 1],
                        ListingsNow, OffersNow, [TakenNow EXCEPT ![b] = @ + 1], [GivenNow EXCEPT ![l] = @ + 1])
         /\ PortfolioAs([portfolio EXCEPT ![b].loansTaken = Less(@), ![l].loansGiven = Less(@)],
                        ListingsNow, OffersNow, [TakenNow EXCEPT ![b] = Less(@)], [GivenNow EXCEPT ![l] = Less(@)])
<1>1. portfolio \in [Addresses -> PortfolioRecord]
  BY DEF NFTInv, CountsInv
<1>2. ASSUME NEW x \in Nat, NEW y \in Nat
      PROVE  PortfolioAs([portfolio EXCEPT ![b].loansTaken = x, ![l].loansGiven = y],
                         ListingsNow, OffersNow, [TakenNow EXCEPT ![b] = x], [GivenNow EXCEPT ![l] = y])
  <2> DEFINE r == [portfolio[b] EXCEPT !.loansTaken = x]
             p == [portfolio EXCEPT ![b] = r]
             s == [p[l] EXCEPT !.loansGiven = y]
             q == [portfolio EXCEPT ![b].loansTaken = x, ![l].loansGiven = y]
  <2>1. /\ r \in PortfolioRecord /\ r.listings = portfolio[b].listings /\ r.offers = portfolio[b].offers
        /\ r.loansTaken = x /\ r.loansGiven = portfolio[b].loansGiven
    BY <1>1 DEF PortfolioRecord
  <2>2. q = [p EXCEPT ![l] = s]
    OBVIOUS
  <2> HIDE DEF r
  <2>3. p \in [Addresses -> PortfolioRecord] /\ \A a \in Addresses : p[a] = IF a = b THEN r ELSE portfolio[a]
    BY <1>1, <2>1
  <2> HIDE DEF p, q
  <2>4. /\ s \in PortfolioRecord /\ s.listings = p[l].listings /\ s.offers = p[l].offers
        /\ s.loansTaken = p[l].loansTaken /\ s.loansGiven = y
    BY <2>3 DEF PortfolioRecord
  <2> HIDE DEF s
  <2>5. q \in [Addresses -> PortfolioRecord] /\ \A a \in Addresses : q[a] = IF a = l THEN s ELSE p[a]
    BY <2>2, <2>3, <2>4
  <2>6. PortfolioAs(q, ListingsNow, OffersNow, [TakenNow EXCEPT ![b] = x], [GivenNow EXCEPT ![l] = y])
    BY <2>1, <2>3, <2>4, <2>5 DEF PortfolioAs, ListingsNow, OffersNow, TakenNow, GivenNow
  <2>7. QED
    BY <2>6 DEF q
<1> DEFINE x == portfolio[b].loansTaken
           y == portfolio[l].loansGiven
<1>3. /\ x \in Nat /\ y \in Nat /\ x = TakenNow[b] /\ y = GivenNow[l]
  BY <1>1 DEF PortfolioRecord, TakenNow, GivenNow
<1>4. x + 1 \in Nat /\ y + 1 \in Nat /\ Less(x) \in Nat /\ Less(y) \in Nat
  BY <1>3, LessTyped
<1>5. /\ [portfolio EXCEPT ![b].loansTaken = @ + 1, ![l].loansGiven = @ + 1]
           = [portfolio EXCEPT ![b].loansTaken = x + 1, ![l].loansGiven = y + 1]
      /\ [portfolio EXCEPT ![b].loansTaken = Less(@), ![l].loansGiven = Less(@)]
           = [portfolio EXCEPT ![b].loansTaken = Less(x), ![l].loansGiven = Less(y)]
  <2> DEFINE p(v) == [portfolio EXCEPT ![b].loansTaken = v]
  <2>1. \A v : p(v)[l].loansGiven = y
    BY <1>1 DEF PortfolioRecord
  <2>2. QED
    BY <2>1
<1>6. /\ [TakenNow EXCEPT ![b] = @ + 1] = [TakenNow EXCEPT ![b] = x + 1]
      /\ [GivenNow EXCEPT ![l] = @ + 1] = [GivenNow EXCEPT ![l] = y + 1]
      /\ [TakenNow EXCEPT ![b] = Less(@)] = [TakenNow EXCEPT ![b] = Less(x)]
      /\ [GivenNow EXCEPT ![l] = Less(@)] = [GivenNow EXCEPT ![l] = Less(y)]
  BY <1>3
<1>7. QED
  BY <1>2, <1>4, <1>5, <1>6

LEMMA PartiesTyped ==
  ASSUME NFTInv, NEW i \in 1 .. Len(loans)
  PROVE  loans[i].borrower \in Addresses /\ loans[i].lender \in Addresses
BY EntriesTyped DEF LoanRecord

\* A loan ends: repaid, or its collateral goes to a.
LEMMA Seizes ==
  ASSUME NFTInv, NEW i \in 1 .. Len(loans), NEW a \in Addresses, Seize(i, a)
  PROVE  /\ TransferOwnership(loans[i].token, a) /\ loans[i].token \in 1 .. Len(nfts)
         /\ loans' \in Seq(LoanOf(Len(nfts))) /\ Len(loans') = Len(loans)
         /\ \A x \in 1 .. Len(loans) :
              loans'[x] = IF x = i THEN [loans[i] EXCEPT !.liquidated = TRUE, !.active = FALSE] ELSE loans[x]
         /\ PortfolioAs(portfolio', ListingsNow, OffersNow, [TakenNow EXCEPT ![loans[i].borrower] = Less(@)],
                        [GivenNow EXCEPT ![loans[i].lender] = Less(@)])
<1> DEFINE r == [loans[i] EXCEPT !.liquidated = TRUE, !.active = FALSE]
<1>1. loans[i] \in LoanRecord /\ loans[i].token \in 1 .. Len(nfts)
  BY EntriesTyped
<1>2. r \in LoanRecord /\ r.token = loans[i].token
  BY <1>1 DEF LoanRecord
<1>3. /\ TransferOwnership(loans[i].token, a) /\ loans' = [loans EXCEPT ![i] = r]
      /\ portfolio' = [LoanEnds(i) EXCEPT ![a].nfts = @ + 1]
  BY DEF Seize
<1> HIDE DEF r
<1>4. /\ loans' \in Seq(LoanOf(Len(nfts))) /\ Len(loans') = Len(loans)
      /\ \A x \in 1 .. Len(loans) : loans'[x] = IF x = i THEN r ELSE loans[x]
  BY <1>2, <1>3, LoanChanges
<1>5. PortfolioAs(LoanEnds(i), ListingsNow, OffersNow, [TakenNow EXCEPT ![loans[i].borrower] = Less(@)],
                  [GivenNow EXCEPT ![loans[i].lender] = Less(@)])
  BY PartiesTyped, LoanCredited DEF LoanEnds
<1>6. PortfolioAs(portfolio', ListingsNow, OffersNow, [TakenNow EXCEPT ![loans[i].borrower] = Less(@)],
                  [GivenNow EXCEPT ![loans[i].lender] = Less(@)])
  BY <1>3, <1>5, TokensCredited
<1>7. QED
  BY <1>1, <1>3, <1>4, <1>6 DEF r

-----------------------------------------------------------------------------
(* What a step leaves alone, in the terms of each property *)

OwnersStay ==
  /\ ownerTokens' = ownerTokens /\ Len(nfts') = Len(nfts)
  /\ \A x \in 1 .. Len(nfts) : nfts'[x].owner = nfts[x].owner
SuppliesStay ==
  /\ Len(nfts') = Len(nfts) /\ \A x \in 1 .. Len(nfts) : nfts'[x].collection = nfts[x].collection
  /\ Len(collections') = Len(collections)
  /\ \A c \in 1 .. Len(collections) : /\ collections'[c].supply = collections[c].supply
                                      /\ collections'[c].maxSupply = collections[c].maxSupply
StatisticsStay ==
  /\ trades' = trades /\ Len(nfts') >= Len(nfts)
  /\ \A x \in 1 .. Len(nfts) : nfts'[x].collection = nfts[x].collection
  /\ Len(collections') = Len(collections)
  /\ \A c \in 1 .. Len(collections) : /\ collections'[c].volume = collections[c].volume
                                      /\ collections'[c].floor = collections[c].floor
ListingsStay ==
  /\ activeListings' = activeListings /\ Len(listings') = Len(listings)
  /\ \A l \in 1 .. Len(listings) : /\ listings'[l].active = listings[l].active
                                   /\ listings'[l].seller = listings[l].seller
  /\ \A a \in Addresses : portfolio'[a].listings = portfolio[a].listings
OffersStay ==
  /\ activeOffers' = activeOffers /\ Len(offers') = Len(offers)
  /\ \A o \in 1 .. Len(offers) : /\ offers'[o].active = offers[o].active
                                 /\ offers'[o].buyer = offers[o].buyer
  /\ \A a \in Addresses : portfolio'[a].offers = portfolio[a].offers
SharesStay ==
  /\ UNCHANGED shareVars /\ Len(nfts') >= Len(nfts)
  /\ \A x \in 1 .. Len(nfts) : /\ nfts'[x].fractional = nfts[x].fractional
                               /\ nfts'[x].supply = nfts[x].supply
                               /\ nfts'[x].circulating = nfts[x].circulating
  /\ \A x \in Len(nfts) + 1 .. Len(nfts') : ~nfts'[x].fractional
LoansStay ==
  /\ Len(loans') = Len(loans)
  /\ \A i \in 1 .. Len(loans) : /\ loans'[i].active = loans[i].active
                                /\ loans'[i].borrower = loans[i].borrower
                                /\ loans'[i].lender = loans[i].lender
  /\ \A a \in Addresses : /\ portfolio'[a].loansTaken = portfolio[a].loansTaken
                          /\ portfolio'[a].loansGiven = portfolio[a].loansGiven
UseStays ==
  /\ collateralOf' = collateralOf /\ Len(listings') = Len(listings)
  /\ \A l \in 1 .. Len(listings) : /\ listings'[l].token = listings[l].token
                                   /\ listings'[l].active => listings[l].active
  /\ Len(nfts') >= Len(nfts)
  /\ \A x \in 1 .. Len(nfts) : nfts'[x].fractional => nfts[x].fractional
  /\ \A x \in Len(nfts) + 1 .. Len(nfts') : ~nfts'[x].fractional
BidsStay ==
  /\ queue' = queue /\ bestBid' = bestBid /\ Len(loans') >= Len(loans)
  /\ \A i \in 1 .. Len(loans) : loans'[i].borrower = loans[i].borrower

AllStay ==
  /\ OwnersStay /\ SuppliesStay /\ StatisticsStay /\ ListingsStay /\ OffersStay
  /\ SharesStay /\ LoansStay /\ UseStays /\ BidsStay

\* What keeps its variables keeps its part of the invariant.
LEMMA PartsStay ==
  ASSUME NFTInv
  PROVE  /\ UNCHANGED adminVars => AdminTypeOK'
         /\ UNCHANGED tokenVars => TokensInv'
         /\ UNCHANGED << portfolio, activeListings, activeOffers, activeLoans >> => CountsInv'
         /\ UNCHANGED switchVars => SwitchInv'
         /\ UNCHANGED marketVars /\ Len(nfts') = Len(nfts) => MarketInv'
         /\ UNCHANGED collateralOf => PledgeInv'
         /\ UNCHANGED shareVars => FractionalTypeOK'
         /\ UNCHANGED loans /\ Len(nfts') = Len(nfts) => LoansInv'
         /\ UNCHANGED valueVars => ValuesInv'
         /\ UNCHANGED liquidationVars /\ Len(loans') = Len(loans) => LiquidationInv'
BY DEF NFTInv, adminVars, tokenVars, switchVars, marketVars, listingVars, offerVars, shareVars, valueVars,
       liquidationVars, AdminTypeOK, TokensInv, CountsInv, SwitchInv, MarketInv, PledgeInv,
       FractionalTypeOK, LoansInv, ValuesInv, LiquidationInv

LEMMA UnchangedStays ==
  ASSUME NFTInv
  PROVE  /\ UNCHANGED tokenVars => OwnersStay /\ SuppliesStay
         /\ UNCHANGED << tokenVars, trades >> => StatisticsStay
         /\ UNCHANGED << listingVars, portfolio >> => ListingsStay
         /\ UNCHANGED << offerVars, portfolio >> => OffersStay
         /\ UNCHANGED << shareVars, nfts >> => SharesStay
         /\ UNCHANGED << loans, portfolio >> => LoansStay
         /\ UNCHANGED << collateralOf, listings, nfts >> => UseStays
         /\ UNCHANGED << liquidationVars, loans >> => BidsStay
<1>1. Len(nfts) \in Nat /\ Len(loans) \in Nat /\ \A x \in Len(nfts) + 1 .. Len(nfts) : FALSE
  BY SizesTyped
<1>2. QED
  BY <1>1 DEF tokenVars, listingVars, offerVars, shareVars, liquidationVars, OwnersStay, SuppliesStay,
              StatisticsStay, ListingsStay, OffersStay, SharesStay, LoansStay, UseStays, BidsStay

-----------------------------------------------------------------------------
(* Collections, tokens and switches *)

restOfNFTs == << marketVars, collateralOf, shareVars, loans, activeLoans, valueVars, liquidationVars >>

\* Beside the tokens nothing changes, and no id is lost.
LEMMA RestStays ==
  ASSUME NFTInv, UNCHANGED restOfNFTs, Len(nfts') \in Nat, Len(nfts) <= Len(nfts')
  PROVE  /\ MarketInv' /\ PledgeInv' /\ FractionalTypeOK' /\ LoansInv' /\ ValuesInv' /\ LiquidationInv'
         /\ BidsStay
<1>1. Len(nfts) \in Nat /\ Len(loans) \in Nat
  BY SizesTyped
<1>2. /\ ListingOf(Len(nfts)) \subseteq ListingOf(Len(nfts')) /\ OfferOf(Len(nfts)) \subseteq OfferOf(Len(nfts'))
      /\ TradeOf(Len(nfts)) \subseteq TradeOf(Len(nfts')) /\ LoanOf(Len(nfts)) \subseteq LoanOf(Len(nfts'))
  BY <1>1, Wider
<1>3. /\ listings' = listings /\ offers' = offers /\ trades' = trades /\ loans' = loans
      /\ UNCHANGED collateralOf /\ UNCHANGED shareVars /\ UNCHANGED valueVars /\ UNCHANGED liquidationVars
  BY DEF restOfNFTs, marketVars, listingVars, offerVars
<1>4. listings \in Seq(ListingOf(Len(nfts'))) /\ offers \in Seq(OfferOf(Len(nfts')))
      /\ trades \in Seq(TradeOf(Len(nfts'))) /\ loans \in Seq(LoanOf(Len(nfts')))
  BY <1>2, SeqMonotonic DEF NFTInv, MarketInv, LoansInv
<1>5. MarketInv'
  BY <1>3, <1>4 DEF MarketInv
<1>6. LoansInv'
  BY <1>3, <1>4 DEF LoansInv, NFTInv
<1>7. BidsStay
  BY <1>3, UnchangedStays
<1>8. QED
  BY <1>3, <1>5, <1>6, <1>7, PartsStay

LEMMA CollectionCreated ==
  ASSUME NFTInv, NEW a \in Creators, NEW r \in Royalties, NEW s \in MaxSupplies,
         CreateCollection(a, r, s), UNCHANGED adminVars, UNCHANGED restOfNFTs
  PROVE  /\ NFTInv' /\ OwnersStay /\ ListingsStay /\ OffersStay /\ SharesStay /\ LoansStay /\ UseStays /\ BidsStay
         /\ nfts' = nfts /\ trades' = trades
         /\ Len(collections') = Len(collections) + 1
         /\ \A c \in 1 .. Len(collections) : collections'[c] = collections[c]
         /\ \A c \in 1 .. Len(collections') : c = Len(collections) + 1 =>
              collections'[c].supply = 0 /\ collections'[c].volume = 0 /\ collections'[c].floor = 0
<1> DEFINE e == [owner |-> a, royalty |-> r, maxSupply |-> s,
                 supply |-> 0, minting |-> TRUE, volume |-> 0, floor |-> 0]
           n == Len(collections)
<1>1. e \in CollectionRecord /\ e.supply = 0 /\ e.volume = 0 /\ e.floor = 0
  BY NFTAssumption DEF CollectionRecord
<1>2. collections' = Append(collections, e) /\ Len(collections) < MaxCollections
      /\ UNCHANGED << nfts, ownerTokens, portfolio, switchVars >>
  BY DEF CreateCollection
<1> HIDE DEF e
<1>3. collections \in Seq(CollectionRecord) /\ n \in Nat /\ nfts \in Seq(NFTOf(n))
  BY SizesTyped DEF NFTInv, TokensInv
<1>4. /\ collections' \in Seq(CollectionRecord) /\ Len(collections') = n + 1
      /\ \A c \in 1 .. n : collections'[c] = collections[c]
      /\ collections'[n + 1] = e
  BY <1>1, <1>2, <1>3, AppendProperties
<1>5. NFTOf(n) \subseteq NFTOf(n + 1)
  BY <1>3, Wider
<1>6. nfts \in Seq(NFTOf(n + 1))
  BY <1>3, <1>5, SeqMonotonic
<1>7. TokensInv'
  BY <1>2, <1>3, <1>4, <1>6, NFTAssumption DEF NFTInv, TokensInv
<1>8. Len(nfts') \in Nat /\ Len(nfts) <= Len(nfts')
  BY <1>2, SizesTyped
<1>9. /\ MarketInv' /\ PledgeInv' /\ FractionalTypeOK' /\ LoansInv' /\ ValuesInv' /\ LiquidationInv'
      /\ BidsStay
  BY <1>8, RestStays
<1>10. AdminTypeOK' /\ CountsInv' /\ SwitchInv'
  BY <1>2, PartsStay DEF restOfNFTs, marketVars, listingVars, offerVars
<1>11. ListingsStay /\ OffersStay /\ SharesStay /\ LoansStay /\ UseStays
  BY <1>2, UnchangedStays DEF restOfNFTs, marketVars, listingVars, offerVars
<1>12. OwnersStay
  BY <1>2 DEF OwnersStay
<1>13. QED
  BY <1>1, <1>2, <1>4, <1>7, <1>9, <1>10, <1>11, <1>12 DEF NFTInv, restOfNFTs, marketVars

\* set_minting_status, update_collection_metadata, transfer_collection_ownership.
LEMMA CollectionEdited ==
  ASSUME NFTInv, NEW c \in DOMAIN collections, NEW e \in CollectionRecord,
         e.supply = collections[c].supply, e.maxSupply = collections[c].maxSupply,
         e.volume = collections[c].volume, e.floor = collections[c].floor,
         collections' = [collections EXCEPT ![c] = e],
         UNCHANGED << nfts, ownerTokens, portfolio, switchVars >>,
         UNCHANGED adminVars, UNCHANGED restOfNFTs
  PROVE  NFTInv' /\ AllStay
<1>1. collections \in Seq(CollectionRecord) /\ c \in 1 .. Len(collections)
  BY SizesTyped DEF NFTInv, TokensInv
<1>2. /\ collections' \in Seq(CollectionRecord) /\ Len(collections') = Len(collections)
      /\ \A d \in 1 .. Len(collections) : collections'[d] = IF d = c THEN e ELSE collections[d]
  BY <1>1, ExceptSeq
<1>3. TokensInv'
  BY <1>2 DEF NFTInv, TokensInv
<1>4. Len(nfts') \in Nat /\ Len(nfts) <= Len(nfts')
  BY SizesTyped
<1>5. /\ MarketInv' /\ PledgeInv' /\ FractionalTypeOK' /\ LoansInv' /\ ValuesInv' /\ LiquidationInv'
      /\ BidsStay
  BY <1>4, RestStays
<1>6. AdminTypeOK' /\ CountsInv' /\ SwitchInv'
  BY PartsStay DEF restOfNFTs, marketVars, listingVars, offerVars
<1>7. ListingsStay /\ OffersStay /\ SharesStay /\ LoansStay /\ UseStays
  BY UnchangedStays DEF restOfNFTs, marketVars, listingVars, offerVars
<1>8. trades' = trades
  BY DEF restOfNFTs, marketVars
<1>9. OwnersStay /\ SuppliesStay /\ StatisticsStay
  BY <1>2, <1>4, <1>8 DEF OwnersStay, SuppliesStay, StatisticsStay
<1>10. QED
  BY <1>3, <1>5, <1>6, <1>7, <1>9 DEF NFTInv, AllStay

LEMMA SwitchesSet ==
  ASSUME NFTInv, NEW a \in Addresses, NEW paused, NEW bps, NEW u,
         \/ paused \in Switches /\ SetMarketplacePause(a, paused)
         \/ bps \in PlatformFees /\ UpdatePlatformFee(a, bps)
         \/ u \in Freezable /\ (FreezeUser(a, u) \/ UnfreezeUser(a, u)),
         UNCHANGED adminVars, UNCHANGED restOfNFTs
  PROVE  NFTInv' /\ AllStay
<1>1. UNCHANGED tokenVars /\ UNCHANGED portfolio /\ SwitchInv'
  BY NFTAssumption DEF SetMarketplacePause, UpdatePlatformFee, FreezeUser, UnfreezeUser, NFTInv, SwitchInv
<1>2. NFTInv'
  BY <1>1, PartsStay DEF NFTInv, restOfNFTs, marketVars, listingVars, offerVars, tokenVars
<1>3. AllStay
  BY <1>1, UnchangedStays DEF AllStay, restOfNFTs, marketVars, listingVars, offerVars, tokenVars
<1>4. QED
  BY <1>2, <1>3

\* A sequence of k entries from S.
LEMMA BuiltTyped ==
  ASSUME NEW k \in Nat, NEW S, NEW f \in [1 .. k -> S]
  PROVE  f \in Seq(S) /\ Len(f) = k
<1>1. f \in Seq(S)
  BY SeqDef
<1>2. Len(f) \in Nat /\ 1 .. Len(f) = 1 .. k
  BY <1>1, LenProperties
<1>3. QED
  BY <1>2

\* The counts a portfolio keeps when nothing but its tokens changes.
LEMMA SameCounts ==
  ASSUME NFTInv, PortfolioAs(portfolio', ListingsNow, OffersNow, TakenNow, GivenNow)
  PROVE  /\ portfolio' \in [Addresses -> PortfolioRecord]
         /\ \A a \in Addresses :
              /\ portfolio'[a].listings = portfolio[a].listings
              /\ portfolio'[a].offers = portfolio[a].offers
              /\ portfolio'[a].loansTaken = portfolio[a].loansTaken
              /\ portfolio'[a].loansGiven = portfolio[a].loansGiven
BY DEF PortfolioAs, ListingsNow, OffersNow, TakenNow, GivenNow

\* What minting k tokens of collection c does for account a.
Minted(a, c, k) ==
  /\ a \in Addresses /\ c \in 1 .. Len(collections) /\ k \in Nat
  /\ collections[c].maxSupply > 0 => collections[c].supply + k <= collections[c].maxSupply
  /\ Len(nfts') = Len(nfts) + k
  /\ \A x \in 1 .. Len(nfts) : nfts'[x] = nfts[x]
  /\ \A x \in Len(nfts) + 1 .. Len(nfts') :
       nfts'[x].owner = a /\ nfts'[x].collection = c /\ ~nfts'[x].fractional
  /\ ownerTokens' = [ownerTokens EXCEPT ![a] = @ \o [i \in 1 .. k |-> Len(nfts) + i]]
  /\ Len(collections') = Len(collections)
  /\ \A d \in 1 .. Len(collections) :
       /\ collections'[d].maxSupply = collections[d].maxSupply
       /\ collections'[d].volume = collections[d].volume
       /\ collections'[d].floor = collections[d].floor
       /\ collections'[d].supply = IF d = c THEN collections[d].supply + k ELSE collections[d].supply

LEMMA MintStep ==
  ASSUME NFTInv, NEW a \in Addresses, NEW c \in DOMAIN collections, NEW std \in Standards,
         NEW amount \in Nat, NEW k \in Nat, Mint(a, c, std, amount, k),
         UNCHANGED adminVars, UNCHANGED restOfNFTs
  PROVE  /\ NFTInv' /\ Minted(a, c, k)
         /\ StatisticsStay /\ ListingsStay /\ OffersStay /\ SharesStay /\ LoansStay /\ UseStays /\ BidsStay
<1> DEFINE n == Len(nfts)
           m == Len(collections)
           e == [owner |-> a, collection |-> c, standard |-> std, fractional |-> FALSE,
                 supply |-> MintAmount(std, amount), circulating |-> MintAmount(std, amount)]
           r == [collections[c] EXCEPT !.supply = @ + k]
           new == [i \in 1 .. k |-> e]
           ids == [i \in 1 .. k |-> n + i]
<1>1. /\ collections \in Seq(CollectionRecord) /\ c \in 1 .. m /\ m \in Nat /\ n \in Nat
      /\ collections[c] \in CollectionRecord /\ nfts \in Seq(NFTOf(m))
      /\ ownerTokens \in [Addresses -> Seq(Nat)]
  BY SizesTyped, EntriesTyped DEF NFTInv, TokensInv
<1>2. e \in NFTOf(m) /\ e.owner = a /\ e.collection = c /\ e.fractional = FALSE
  BY <1>1, NFTAssumption DEF NFTOf, NFTRecord, MintAmount
<1>3. /\ r \in CollectionRecord /\ r.supply = collections[c].supply + k
      /\ r.maxSupply = collections[c].maxSupply /\ r.volume = collections[c].volume
      /\ r.floor = collections[c].floor
  <2> DEFINE old == collections[c]
  <2>1. old \in CollectionRecord
    BY <1>1
  <2>2. old.supply + k \in Nat
    BY <2>1 DEF CollectionRecord
  <2>3. r = [old EXCEPT !.supply = old.supply + k]
    OBVIOUS
  <2> HIDE DEF r, old
  <2>4. QED
    BY <2>1, <2>2, <2>3 DEF CollectionRecord, old
<1>4. /\ nfts' = nfts \o new /\ ownerTokens' = [ownerTokens EXCEPT ![a] = @ \o ids]
      /\ collections' = [collections EXCEPT ![c] = r] /\ n + k <= MaxTokens
      /\ portfolio' = [portfolio EXCEPT ![a].nfts = @ + k] /\ UNCHANGED switchVars
      /\ collections[c].maxSupply > 0 => collections[c].supply + k <= collections[c].maxSupply
  BY DEF Mint
<1> HIDE DEF e, r
<1>5. new \in [1 .. k -> NFTOf(m)] /\ ids \in [1 .. k -> Nat] /\ \A i \in 1 .. k : new[i] = e
  BY <1>1, <1>2
<1>6. new \in Seq(NFTOf(m)) /\ Len(new) = k /\ ids \in Seq(Nat)
  BY <1>5, BuiltTyped
<1> HIDE DEF new
<1>7. /\ nfts' \in Seq(NFTOf(m)) /\ Len(nfts') = n + k
      /\ \A i \in 1 .. n + k : nfts'[i] = IF i <= n THEN nfts[i] ELSE new[i - n]
  BY <1>1, <1>4, <1>6, ConcatProperties
<1>8. \A x \in 1 .. n : nfts'[x] = nfts[x]
  BY <1>1, <1>7
<1>9. \A x \in n + 1 .. n + k : nfts'[x] = e
  <2>1. ASSUME NEW x \in n + 1 .. n + k PROVE nfts'[x] = e
    <3>1. x \in 1 .. n + k /\ ~(x <= n) /\ x - n \in 1 .. k
      BY <1>1
    <3>2. QED
      BY <1>5, <1>7, <3>1
  <2>2. QED
    BY <2>1
<1>10. ownerTokens[a] \o ids \in Seq(Nat)
  BY <1>1, <1>6, ConcatProperties
<1>11. ownerTokens' \in [Addresses -> Seq(Nat)]
  BY <1>1, <1>4, <1>10
<1>12. /\ collections' \in Seq(CollectionRecord) /\ Len(collections') = m
       /\ \A d \in 1 .. m : collections'[d] = IF d = c THEN r ELSE collections[d]
  BY <1>1, <1>3, <1>4, ExceptSeq
<1>13. TokensInv'
  BY <1>4, <1>7, <1>11, <1>12 DEF NFTInv, TokensInv
<1>14. \A d \in 1 .. m :
         /\ collections'[d].maxSupply = collections[d].maxSupply
         /\ collections'[d].volume = collections[d].volume
         /\ collections'[d].floor = collections[d].floor
         /\ collections'[d].supply = IF d = c THEN collections[d].supply + k ELSE collections[d].supply
  BY <1>3, <1>12
<1>15. Minted(a, c, k)
  BY <1>1, <1>2, <1>4, <1>7, <1>8, <1>9, <1>12, <1>14 DEF Minted
<1>16. n <= Len(nfts') /\ Len(nfts') \in Nat
  BY <1>1, <1>7
<1>17. MarketInv' /\ PledgeInv' /\ FractionalTypeOK' /\ LoansInv' /\ ValuesInv' /\ LiquidationInv' /\ BidsStay
  BY <1>16, RestStays
<1>18. PortfolioAs(portfolio', ListingsNow, OffersNow, TakenNow, GivenNow)
  BY <1>4, PortfolioStays, TokensCredited
<1>19. CountsInv' /\ AdminTypeOK' /\ SwitchInv'
  BY <1>4, <1>18, SameCounts, PartsStay DEF restOfNFTs, marketVars, listingVars, offerVars, CountsInv, NFTInv
<1>20. /\ UNCHANGED listingVars /\ UNCHANGED offerVars /\ UNCHANGED trades /\ UNCHANGED shareVars
       /\ UNCHANGED loans /\ UNCHANGED collateralOf
  BY DEF restOfNFTs, marketVars
<1>21. ListingsStay /\ OffersStay /\ LoansStay
  BY <1>18, <1>20, SameCounts DEF ListingsStay, OffersStay, LoansStay, listingVars, offerVars
<1>22. StatisticsStay /\ SharesStay /\ UseStays
  BY <1>8, <1>12, <1>14, <1>15, <1>16, <1>20 DEF Minted, StatisticsStay, SharesStay, UseStays, listingVars
<1>23. QED
  BY <1>13, <1>15, <1>17, <1>19, <1>21, <1>22 DEF NFTInv

-----------------------------------------------------------------------------
(* Listings, bids and offers *)

LEMMA ExpiryTyped ==
  ASSUME NFTInv, NEW d \in Durations
  PROVE  /\ ExpiryOf(d, DefaultListingDuration, MaxListingDuration) \in Nat
         /\ ExpiryOf(d, DefaultOfferDuration, MaxOfferDuration) \in Nat
<1>1. now \in Nat /\ d \in Nat
  BY MarketAssumption DEF NFTInv, AdminTypeOK
<1>2. QED
  BY <1>1, MarketAssumption DEF ExpiryOf, Shorter

ListingOpened(a, t) ==
  /\ a \in Addresses /\ t \in 1 .. Len(nfts)
  /\ Len(listings') = Len(listings) + 1
  /\ \A l \in 1 .. Len(listings) : listings'[l] = listings[l]
  /\ listings'[Len(listings) + 1].active
  /\ listings'[Len(listings) + 1].seller = a /\ listings'[Len(listings) + 1].token = t
  /\ activeListings' = activeListings + 1
  /\ PortfolioAs(portfolio', [ListingsNow EXCEPT ![a] = @ + 1], OffersNow, TakenNow, GivenNow)

ListingClosed(l) ==
  /\ l \in 1 .. Len(listings) /\ listings[l].active
  /\ Len(listings') = Len(listings)
  /\ \A x \in 1 .. Len(listings) :
       /\ listings'[x].active = IF x = l THEN FALSE ELSE listings[x].active
       /\ listings'[x].seller = listings[x].seller /\ listings'[x].token = listings[x].token
  /\ activeListings' = Less(activeListings)
  /\ PortfolioAs(portfolio', [ListingsNow EXCEPT ![listings[l].seller] = Less(@)],
                 OffersNow, TakenNow, GivenNow)

OfferOpened(a) ==
  /\ a \in Addresses /\ Len(offers') = Len(offers) + 1
  /\ \A o \in 1 .. Len(offers) : offers'[o] = offers[o]
  /\ offers'[Len(offers) + 1].active /\ offers'[Len(offers) + 1].buyer = a
  /\ activeOffers' = activeOffers + 1
  /\ PortfolioAs(portfolio', ListingsNow, [OffersNow EXCEPT ![a] = @ + 1], TakenNow, GivenNow)

OfferClosed(o) ==
  /\ o \in 1 .. Len(offers) /\ offers[o].active
  /\ Len(offers') = Len(offers)
  /\ \A x \in 1 .. Len(offers) :
       /\ offers'[x].active = IF x = o THEN FALSE ELSE offers[x].active
       /\ offers'[x].buyer = offers[x].buyer
  /\ activeOffers' = Less(activeOffers)
  /\ PortfolioAs(portfolio', ListingsNow, [OffersNow EXCEPT ![offers[o].buyer] = Less(@)],
                 TakenNow, GivenNow)

\* One entry more or less, and the counts that are not about it stay.
LEMMA OneCounted ==
  ASSUME NFTInv, NEW a \in Addresses
  PROVE  /\ \A v \in Nat : PortfolioAs(portfolio', [ListingsNow EXCEPT ![a] = v], OffersNow, TakenNow, GivenNow)
              => /\ portfolio' \in [Addresses -> PortfolioRecord]
                 /\ \A b \in Addresses :
                      /\ portfolio'[b].listings = IF b = a THEN v ELSE portfolio[b].listings
                      /\ portfolio'[b].offers = portfolio[b].offers
                      /\ portfolio'[b].loansTaken = portfolio[b].loansTaken
                      /\ portfolio'[b].loansGiven = portfolio[b].loansGiven
         /\ \A v \in Nat : PortfolioAs(portfolio', ListingsNow, [OffersNow EXCEPT ![a] = v], TakenNow, GivenNow)
              => /\ portfolio' \in [Addresses -> PortfolioRecord]
                 /\ \A b \in Addresses :
                      /\ portfolio'[b].offers = IF b = a THEN v ELSE portfolio[b].offers
                      /\ portfolio'[b].listings = portfolio[b].listings
                      /\ portfolio'[b].loansTaken = portfolio[b].loansTaken
                      /\ portfolio'[b].loansGiven = portfolio[b].loansGiven
         /\ ListingsNow[a] = portfolio[a].listings /\ OffersNow[a] = portfolio[a].offers
         /\ portfolio[a].listings \in Nat /\ portfolio[a].offers \in Nat
BY DEF PortfolioAs, ListingsNow, OffersNow, TakenNow, GivenNow, NFTInv, CountsInv, PortfolioRecord

\* After a change of the listings alone, the rest of the market stays.
LEMMA ListingCounts ==
  ASSUME NFTInv, NEW a \in Addresses, NEW v \in Nat,
         PortfolioAs(portfolio', [ListingsNow EXCEPT ![a] = v], OffersNow, TakenNow, GivenNow),
         activeListings' \in Nat, UNCHANGED << offerVars, loans, activeLoans >>
  PROVE  /\ CountsInv' /\ OffersStay /\ LoansStay
         /\ \A b \in Addresses : portfolio'[b].listings = IF b = a THEN v ELSE portfolio[b].listings
<1>1. /\ portfolio' \in [Addresses -> PortfolioRecord]
      /\ \A b \in Addresses :
           /\ portfolio'[b].listings = IF b = a THEN v ELSE portfolio[b].listings
           /\ portfolio'[b].offers = portfolio[b].offers
           /\ portfolio'[b].loansTaken = portfolio[b].loansTaken
           /\ portfolio'[b].loansGiven = portfolio[b].loansGiven
  BY OneCounted
<1>2. QED
  BY <1>1 DEF CountsInv, OffersStay, LoansStay, offerVars, NFTInv

LEMMA OfferCounts ==
  ASSUME NFTInv, NEW a \in Addresses, NEW v \in Nat,
         PortfolioAs(portfolio', ListingsNow, [OffersNow EXCEPT ![a] = v], TakenNow, GivenNow),
         activeOffers' \in Nat, UNCHANGED << activeListings, loans, activeLoans >>,
         Len(listings') = Len(listings),
         \A l \in 1 .. Len(listings) : listings'[l] = listings[l]
  PROVE  /\ CountsInv' /\ ListingsStay /\ LoansStay
         /\ \A b \in Addresses : portfolio'[b].offers = IF b = a THEN v ELSE portfolio[b].offers
<1>1. /\ portfolio' \in [Addresses -> PortfolioRecord]
      /\ \A b \in Addresses :
           /\ portfolio'[b].offers = IF b = a THEN v ELSE portfolio[b].offers
           /\ portfolio'[b].listings = portfolio[b].listings
           /\ portfolio'[b].loansTaken = portfolio[b].loansTaken
           /\ portfolio'[b].loansGiven = portfolio[b].loansGiven
  BY OneCounted
<1>2. QED
  BY <1>1 DEF CountsInv, ListingsStay, LoansStay, NFTInv

restOfMarket == << adminVars, shareVars, loans, activeLoans, valueVars, liquidationVars >>

\* The parts no operation of the market touches.
LEMMA BesideMarket ==
  ASSUME NFTInv, UNCHANGED restOfMarket
  PROVE  /\ AdminTypeOK' /\ FractionalTypeOK' /\ ValuesInv' /\ LiquidationInv' /\ BidsStay
         /\ Len(nfts') = Len(nfts) => LoansInv'
BY PartsStay, UnchangedStays DEF restOfMarket

LEMMA CreateListingStep ==
  ASSUME NFTInv, NEW a \in Addresses, NEW t \in Tokens, NEW p \in Prices, NEW n \in Units,
         NEW d \in Durations, NEW auction \in Auctions, NEW m \in Prices,
         CreateListing(a, t, p, n, d, auction, m), UNCHANGED restOfMarket
  PROVE  /\ NFTInv' /\ ListingOpened(a, t) /\ ~Pledged(t) /\ collateralOf' = collateralOf
         /\ trades' = trades /\ nfts' = nfts
         /\ OwnersStay /\ SuppliesStay /\ StatisticsStay /\ OffersStay /\ SharesStay /\ LoansStay /\ BidsStay
<1> DEFINE e == [token |-> t, seller |-> a, price |-> p, amount |-> n,
                 expires |-> ExpiryOf(d, DefaultListingDuration, MaxListingDuration),
                 auction |-> auction, minBid |-> IF auction THEN m ELSE 0,
                 bid |-> 0, bidder |-> NoUser, active |-> TRUE]
           k == Len(nfts)
           v == portfolio[a].listings + 1
<1>1. t \in 1 .. k /\ k \in Nat /\ listings \in Seq(ListingOf(k)) /\ Len(listings) \in Nat
  BY SizesTyped DEF NFTInv, MarketInv, Tokens
<1>2. e \in ListingRecord
  BY <1>1, ExpiryTyped, NFTAssumption, MarketAssumption DEF ListingRecord
<1>3. e \in ListingOf(k) /\ e.active /\ e.seller = a /\ e.token = t
  BY <1>1, <1>2 DEF ListingOf, CreateListing
<1>4. /\ listings' = Append(listings, e) /\ activeListings' = activeListings + 1 /\ ~Pledged(t)
      /\ portfolio' = [portfolio EXCEPT ![a].listings = @ + 1]
      /\ UNCHANGED tokenVars /\ UNCHANGED switchVars /\ UNCHANGED offerVars /\ UNCHANGED trades
      /\ UNCHANGED collateralOf
  BY DEF CreateListing
<1> HIDE DEF e
<1>5. /\ listings' \in Seq(ListingOf(k)) /\ Len(listings') = Len(listings) + 1
      /\ \A l \in 1 .. Len(listings) : listings'[l] = listings[l]
      /\ listings'[Len(listings) + 1] = e
  BY <1>1, <1>3, <1>4, AppendProperties
<1>6. v \in Nat /\ activeListings' \in Nat
  BY <1>4, OneCounted DEF NFTInv, CountsInv
<1>7. /\ PortfolioAs(portfolio', [ListingsNow EXCEPT ![a] = v], OffersNow, TakenNow, GivenNow)
      /\ [ListingsNow EXCEPT ![a] = @ + 1] = [ListingsNow EXCEPT ![a] = v]
  <2>1. portfolio' = [portfolio EXCEPT ![a].listings = v]
    BY <1>4
  <2>2. ListingsNow[a] + 1 = v
    BY OneCounted
  <2> HIDE DEF v
  <2>3. PortfolioAs(portfolio', [ListingsNow EXCEPT ![a] = v], OffersNow, TakenNow, GivenNow)
    BY <1>6, <2>1
       DEF NFTInv, CountsInv, PortfolioAs, PortfolioRecord, ListingsNow, OffersNow, TakenNow, GivenNow
  <2>4. QED
    BY <2>2, <2>3
<1> HIDE DEF v
<1>8. CountsInv' /\ OffersStay /\ LoansStay
  BY <1>4, <1>6, <1>7, ListingCounts DEF restOfMarket
<1>9. ListingOpened(a, t)
  BY <1>1, <1>3, <1>4, <1>5, <1>7 DEF ListingOpened
<1>10. nfts' = nfts
  BY <1>4 DEF tokenVars
<1>11. MarketInv'
  BY <1>4, <1>5, <1>10 DEF MarketInv, NFTInv, offerVars
<1>12. TokensInv' /\ SwitchInv' /\ PledgeInv'
  BY <1>4, PartsStay
<1>13. OwnersStay /\ SuppliesStay /\ StatisticsStay /\ SharesStay
  BY <1>4, <1>10, UnchangedStays DEF restOfMarket
<1>14. QED
  BY <1>4, <1>8, <1>9, <1>10, <1>11, <1>12, <1>13, BesideMarket DEF NFTInv

\* Closing a listing, on its own or with the sale that fulfils it.
LEMMA ListingEnds ==
  ASSUME NFTInv, NEW l \in 1 .. Len(listings), CloseListing(l), UNCHANGED offerVars, UNCHANGED restOfMarket
  PROVE  /\ ListingClosed(l) /\ listings' \in Seq(ListingOf(Len(nfts)))
         /\ CountsInv' /\ OffersStay /\ LoansStay
<1>1. ListingClosed(l) /\ listings' \in Seq(ListingOf(Len(nfts)))
  BY ListingCloses DEF ListingClosed
<1> DEFINE s == listings[l].seller
           v == Less(portfolio[s].listings)
<1>2. s \in Addresses
  BY EntriesTyped DEF ListingRecord
<1>3. v \in Nat /\ activeListings' \in Nat /\ v = Less(ListingsNow[s])
  BY <1>1, <1>2, OneCounted, LessTyped DEF NFTInv, CountsInv, ListingClosed
<1>4. PortfolioAs(portfolio', [ListingsNow EXCEPT ![s] = v], OffersNow, TakenNow, GivenNow)
  BY <1>1, <1>3 DEF ListingClosed
<1> HIDE DEF s, v
<1>5. CountsInv' /\ OffersStay /\ LoansStay
  BY <1>2, <1>3, <1>4, ListingCounts DEF restOfMarket
<1>6. QED
  BY <1>1, <1>5

\* A listing that closes, and tokens that at most change owner, tie no token.
LEMMA ClosingFrees ==
  ASSUME NFTInv, NEW l, ListingClosed(l), UNCHANGED collateralOf, Len(nfts') = Len(nfts),
         \A x \in 1 .. Len(nfts) : nfts'[x].fractional = nfts[x].fractional
  PROVE  UseStays
<1>1. /\ Len(listings') = Len(listings)
      /\ \A x \in 1 .. Len(listings) : /\ listings'[x].token = listings[x].token
                                       /\ listings'[x].active => listings[x].active
  BY DEF ListingClosed
<1>2. Len(nfts') >= Len(nfts) /\ \A x \in Len(nfts) + 1 .. Len(nfts') : FALSE
  BY SizesTyped
<1>3. QED
  BY <1>1, <1>2 DEF UseStays

LEMMA CancelListingStep ==
  ASSUME NFTInv, NEW a \in Addresses, NEW l \in DOMAIN listings, CancelListing(a, l), UNCHANGED restOfMarket
  PROVE  /\ NFTInv' /\ ListingClosed(l) /\ trades' = trades /\ nfts' = nfts
         /\ OwnersStay /\ SuppliesStay /\ StatisticsStay /\ OffersStay /\ SharesStay /\ LoansStay
         /\ UseStays /\ BidsStay
<1>1. /\ CloseListing(l) /\ UNCHANGED tokenVars /\ UNCHANGED switchVars /\ UNCHANGED offerVars
      /\ UNCHANGED trades /\ UNCHANGED collateralOf
  BY DEF CancelListing
<1>2. l \in 1 .. Len(listings) /\ nfts' = nfts
  BY <1>1, SizesTyped DEF tokenVars
<1>3. /\ ListingClosed(l) /\ listings' \in Seq(ListingOf(Len(nfts)))
      /\ CountsInv' /\ OffersStay /\ LoansStay
  BY <1>1, <1>2, ListingEnds
<1>4. MarketInv'
  BY <1>1, <1>2, <1>3 DEF MarketInv, NFTInv, offerVars
<1>5. TokensInv' /\ SwitchInv' /\ PledgeInv'
  BY <1>1, PartsStay
<1>6. OwnersStay /\ SuppliesStay /\ StatisticsStay /\ SharesStay
  BY <1>1, <1>2, UnchangedStays DEF restOfMarket
<1>7. UseStays
  BY <1>1, <1>2, <1>3, ClosingFrees
<1>8. QED
  BY <1>1, <1>2, <1>3, <1>4, <1>5, <1>6, <1>7, BesideMarket DEF NFTInv

LEMMA PlaceBidStep ==
  ASSUME NFTInv, NEW a \in Addresses, NEW l \in DOMAIN listings, NEW p \in Bids,
         PlaceBid(a, l, p), UNCHANGED restOfMarket
  PROVE  NFTInv' /\ AllStay /\ trades' = trades /\ nfts' = nfts
<1> DEFINE k == Len(nfts)
           r == [listings[l] EXCEPT !.bid = p, !.bidder = a]
<1>1. /\ l \in 1 .. Len(listings) /\ listings[l] \in ListingRecord /\ listings[l].token \in 1 .. k
      /\ listings \in Seq(ListingOf(k)) /\ p \in Nat /\ k \in Nat /\ p >= listings[l].minBid
      /\ listings[l].price > 0 /\ p > listings[l].bid
  BY SizesTyped, EntriesTyped, MarketAssumption DEF NFTInv, MarketInv, PlaceBid
<1>2. /\ r \in ListingRecord /\ r.token = listings[l].token /\ r.seller = listings[l].seller
      /\ r.active = listings[l].active /\ r.bid = p /\ r.minBid = listings[l].minBid
      /\ r.price = listings[l].price /\ listings[l].bid \in Nat
  BY <1>1 DEF ListingRecord
<1>3. r \in ListingOf(k)
  <2>1. p > 0
    BY <1>1, <1>2
  <2>2. QED
    BY <1>1, <1>2, <2>1 DEF ListingOf
<1>4. /\ listings' = [listings EXCEPT ![l] = r] /\ UNCHANGED tokenVars /\ UNCHANGED portfolio
      /\ UNCHANGED switchVars /\ UNCHANGED activeListings /\ UNCHANGED offerVars /\ UNCHANGED trades
      /\ UNCHANGED collateralOf
  BY DEF PlaceBid, storageVars
<1> HIDE DEF r
<1>5. /\ listings' \in Seq(ListingOf(k)) /\ Len(listings') = Len(listings)
      /\ \A x \in 1 .. Len(listings) : listings'[x] = IF x = l THEN r ELSE listings[x]
  BY <1>1, <1>3, <1>4, ExceptSeq
<1>6. \A x \in 1 .. Len(listings) :
        /\ listings'[x].active = listings[x].active /\ listings'[x].seller = listings[x].seller
        /\ listings'[x].token = listings[x].token
  BY <1>2, <1>5
<1>7. nfts' = nfts /\ \A x \in Len(nfts) + 1 .. Len(nfts') : FALSE
  BY <1>1, <1>4 DEF tokenVars
<1>8. MarketInv'
  BY <1>4, <1>5, <1>7 DEF MarketInv, NFTInv, offerVars
<1>9. TokensInv' /\ SwitchInv' /\ PledgeInv' /\ CountsInv'
  BY <1>4, PartsStay DEF offerVars, restOfMarket
<1>10. ListingsStay
  BY <1>4, <1>5, <1>6 DEF ListingsStay
<1>11. UseStays
  BY <1>1, <1>4, <1>5, <1>6, <1>7 DEF UseStays
<1>12. OwnersStay /\ SuppliesStay /\ StatisticsStay /\ OffersStay /\ SharesStay /\ LoansStay
  BY <1>4, <1>7, UnchangedStays DEF restOfMarket
<1>13. QED
  BY <1>4, <1>7, <1>8, <1>9, <1>10, <1>11, <1>12, BesideMarket DEF NFTInv, AllStay

LEMMA CreateOfferStep ==
  ASSUME NFTInv, NEW a \in Addresses, NEW t \in Tokens, NEW p \in Prices, NEW n \in Units,
         NEW d \in Durations, CreateOffer(a, t, p, n, d), UNCHANGED restOfMarket
  PROVE  /\ NFTInv' /\ OfferOpened(a) /\ trades' = trades /\ nfts' = nfts
         /\ OwnersStay /\ SuppliesStay /\ StatisticsStay /\ ListingsStay /\ SharesStay /\ LoansStay
         /\ UseStays /\ BidsStay
<1> DEFINE e == [token |-> t, buyer |-> a, price |-> p, amount |-> MintAmount(nfts[t].standard, n),
                 expires |-> ExpiryOf(d, DefaultOfferDuration, MaxOfferDuration), active |-> TRUE]
           k == Len(nfts)
           v == portfolio[a].offers + 1
<1>1. t \in 1 .. k /\ k \in Nat /\ offers \in Seq(OfferOf(k)) /\ Len(offers) \in Nat
  BY SizesTyped DEF NFTInv, MarketInv, Tokens
<1>2. e \in OfferRecord
  BY <1>1, ExpiryTyped, NFTAssumption, MarketAssumption DEF OfferRecord, MintAmount
<1>3. e \in OfferOf(k) /\ e.active /\ e.buyer = a
  BY <1>1, <1>2 DEF OfferOf, CreateOffer
<1>4. /\ offers' = Append(offers, e) /\ activeOffers' = activeOffers + 1
      /\ portfolio' = [portfolio EXCEPT ![a].offers = @ + 1]
      /\ UNCHANGED tokenVars /\ UNCHANGED switchVars /\ UNCHANGED listingVars /\ UNCHANGED trades
      /\ UNCHANGED collateralOf
  BY DEF CreateOffer
<1> HIDE DEF e
<1>5. /\ offers' \in Seq(OfferOf(k)) /\ Len(offers') = Len(offers) + 1
      /\ \A l \in 1 .. Len(offers) : offers'[l] = offers[l]
      /\ offers'[Len(offers) + 1] = e
  BY <1>1, <1>3, <1>4, AppendProperties
<1>6. v \in Nat /\ activeOffers' \in Nat
  BY <1>4, OneCounted DEF NFTInv, CountsInv
<1>7. /\ PortfolioAs(portfolio', ListingsNow, [OffersNow EXCEPT ![a] = v], TakenNow, GivenNow)
      /\ [OffersNow EXCEPT ![a] = @ + 1] = [OffersNow EXCEPT ![a] = v]
  <2>1. portfolio' = [portfolio EXCEPT ![a].offers = v]
    BY <1>4
  <2>2. OffersNow[a] + 1 = v
    BY OneCounted
  <2> HIDE DEF v
  <2>3. PortfolioAs(portfolio', ListingsNow, [OffersNow EXCEPT ![a] = v], TakenNow, GivenNow)
    BY <1>6, <2>1
       DEF NFTInv, CountsInv, PortfolioAs, PortfolioRecord, ListingsNow, OffersNow, TakenNow, GivenNow
  <2>4. QED
    BY <2>2, <2>3
<1> HIDE DEF v
<1>8. CountsInv' /\ ListingsStay /\ LoansStay
  BY <1>4, <1>6, <1>7, OfferCounts DEF restOfMarket, listingVars
<1>9. OfferOpened(a)
  BY <1>1, <1>3, <1>4, <1>5, <1>7 DEF OfferOpened
<1>10. nfts' = nfts
  BY <1>4 DEF tokenVars
<1>11. MarketInv'
  BY <1>4, <1>5, <1>10 DEF MarketInv, NFTInv, listingVars
<1>12. TokensInv' /\ SwitchInv' /\ PledgeInv'
  BY <1>4, PartsStay
<1>13. OwnersStay /\ SuppliesStay /\ StatisticsStay /\ SharesStay /\ UseStays
  BY <1>4, <1>10, UnchangedStays DEF restOfMarket, listingVars
<1>14. QED
  BY <1>4, <1>8, <1>9, <1>10, <1>11, <1>12, <1>13, BesideMarket DEF NFTInv

\* Closing an offer, on its own or with the sale that fulfils it.
LEMMA OfferEnds ==
  ASSUME NFTInv, NEW o \in 1 .. Len(offers), CloseOffer(o), UNCHANGED listingVars, UNCHANGED restOfMarket
  PROVE  /\ OfferClosed(o) /\ offers' \in Seq(OfferOf(Len(nfts)))
         /\ CountsInv' /\ ListingsStay /\ LoansStay
<1>1. OfferClosed(o) /\ offers' \in Seq(OfferOf(Len(nfts)))
  BY OfferCloses DEF OfferClosed
<1> DEFINE s == offers[o].buyer
           v == Less(portfolio[s].offers)
<1>2. s \in Addresses
  BY EntriesTyped DEF OfferRecord
<1>3. v \in Nat /\ activeOffers' \in Nat /\ v = Less(OffersNow[s])
  BY <1>1, <1>2, OneCounted, LessTyped DEF NFTInv, CountsInv, OfferClosed
<1>4. PortfolioAs(portfolio', ListingsNow, [OffersNow EXCEPT ![s] = v], TakenNow, GivenNow)
  BY <1>1, <1>3 DEF OfferClosed
<1> HIDE DEF s, v
<1>5. CountsInv' /\ ListingsStay /\ LoansStay
  BY <1>2, <1>3, <1>4, OfferCounts DEF restOfMarket, listingVars
<1>6. QED
  BY <1>1, <1>5

LEMMA CancelOfferStep ==
  ASSUME NFTInv, NEW a \in Addresses, NEW o \in DOMAIN offers, CancelOffer(a, o), UNCHANGED restOfMarket
  PROVE  /\ NFTInv' /\ OfferClosed(o) /\ trades' = trades /\ nfts' = nfts
         /\ OwnersStay /\ SuppliesStay /\ StatisticsStay /\ ListingsStay /\ SharesStay /\ LoansStay
         /\ UseStays /\ BidsStay
<1>1. /\ CloseOffer(o) /\ UNCHANGED tokenVars /\ UNCHANGED switchVars /\ UNCHANGED listingVars
      /\ UNCHANGED trades /\ UNCHANGED collateralOf
  BY DEF CancelOffer
<1>2. o \in 1 .. Len(offers) /\ nfts' = nfts
  BY <1>1, SizesTyped DEF tokenVars
<1>3. /\ OfferClosed(o) /\ offers' \in Seq(OfferOf(Len(nfts)))
      /\ CountsInv' /\ ListingsStay /\ LoansStay
  BY <1>1, <1>2, OfferEnds
<1>4. MarketInv'
  BY <1>1, <1>2, <1>3 DEF MarketInv, NFTInv, listingVars
<1>5. TokensInv' /\ SwitchInv' /\ PledgeInv'
  BY <1>1, PartsStay
<1>6. OwnersStay /\ SuppliesStay /\ StatisticsStay /\ SharesStay /\ UseStays
  BY <1>1, <1>2, UnchangedStays DEF restOfMarket, listingVars
<1>7. QED
  BY <1>1, <1>2, <1>3, <1>4, <1>5, <1>6, BesideMarket DEF NFTInv

-----------------------------------------------------------------------------
(* Sales *)

\* What a sale writes beside the owner.
Traded(t, seller, buyer, price) ==
  /\ t \in 1 .. Len(nfts) /\ price \in Nat /\ price > 0
  /\ Len(nfts') = Len(nfts)
  /\ \A x \in 1 .. Len(nfts) : nfts'[x].collection = nfts[x].collection
  /\ Len(collections') = Len(collections)
  /\ \A c \in 1 .. Len(collections) :
       /\ c # nfts[t].collection => collections'[c] = collections[c]
       /\ c = nfts[t].collection =>
            /\ collections'[c].volume = collections[c].volume + price
            /\ collections'[c].floor = FloorAfter(collections[c].floor, price)
  /\ Len(trades') = Len(trades) + 1
  /\ \A i \in 1 .. Len(trades) : trades'[i] = trades[i]
  /\ trades'[Len(trades) + 1].token = t /\ trades'[Len(trades) + 1].price = price
  /\ trades'[Len(trades) + 1].seller = seller /\ trades'[Len(trades) + 1].buyer = buyer

LEMMA SaleStep ==
  ASSUME NFTInv, NEW t \in 1 .. Len(nfts), NEW seller \in Addresses, NEW buyer \in Addresses,
         NEW price \in Nat, price > 0, NEW amount \in Nat, ExecuteTrade(t, seller, buyer, price, amount),
         UNCHANGED switchVars, UNCHANGED collateralOf, UNCHANGED restOfMarket
  PROVE  /\ TokensInv' /\ SwitchInv' /\ PledgeInv' /\ trades' \in Seq(TradeOf(Len(nfts)))
         /\ nfts[t].owner = seller /\ TransferOwnership(t, buyer)
         /\ Traded(t, seller, buyer, price) /\ Len(nfts') = Len(nfts)
         /\ SuppliesStay /\ SharesStay
         /\ \A x \in 1 .. Len(nfts) : nfts'[x].fractional = nfts[x].fractional
<1>1. nfts[t].owner = seller /\ TransferOwnership(t, buyer)
  BY TradeExecutes
<1>2. /\ collections' \in Seq(CollectionRecord) /\ Len(collections') = Len(collections)
      /\ \A c \in 1 .. Len(collections) :
           /\ collections'[c].supply = collections[c].supply
           /\ collections'[c].maxSupply = collections[c].maxSupply
           /\ c # nfts[t].collection => collections'[c] = collections[c]
           /\ c = nfts[t].collection =>
                /\ collections'[c].volume = collections[c].volume + price
                /\ collections'[c].floor = FloorAfter(collections[c].floor, price)
  BY TradeExecutes
<1>3. /\ trades' \in Seq(TradeOf(Len(nfts))) /\ Len(trades') = Len(trades) + 1
      /\ \A i \in 1 .. Len(trades) : trades'[i] = trades[i]
      /\ trades'[Len(trades) + 1].token = t /\ trades'[Len(trades) + 1].price = price
      /\ trades'[Len(trades) + 1].seller = seller /\ trades'[Len(trades) + 1].buyer = buyer
  BY TradeExecutes
<1>4. /\ nfts' \in Seq(NFTOf(Len(collections))) /\ Len(nfts') = Len(nfts)
      /\ \A x \in 1 .. Len(nfts) :
           /\ nfts'[x].collection = nfts[x].collection
           /\ nfts'[x].fractional = nfts[x].fractional
           /\ nfts'[x].supply = nfts[x].supply /\ nfts'[x].circulating = nfts[x].circulating
      /\ ownerTokens' \in [Addresses -> Seq(Nat)]
  BY <1>1, OwnershipMoves
<1>5. TokensInv'
  BY <1>2, <1>4 DEF NFTInv, TokensInv
<1>6. SwitchInv' /\ PledgeInv'
  BY PartsStay
<1>7. Traded(t, seller, buyer, price)
  BY <1>2, <1>3, <1>4 DEF Traded
<1>8. SuppliesStay
  BY <1>2, <1>4 DEF SuppliesStay
<1>9. SharesStay
  <2>1. Len(nfts') >= Len(nfts) /\ \A x \in Len(nfts) + 1 .. Len(nfts') : FALSE
    BY <1>4, SizesTyped
  <2>2. QED
    BY <1>4, <2>1 DEF SharesStay, restOfMarket
<1>10. QED
  BY <1>1, <1>3, <1>4, <1>5, <1>6, <1>7, <1>8, <1>9

LEMMA AcceptOfferStep ==
  ASSUME NFTInv, NEW a \in Addresses, NEW o \in DOMAIN offers, AcceptOffer(a, o), UNCHANGED restOfMarket
  PROVE  /\ NFTInv' /\ OfferClosed(o) /\ Valid(offers[o]) /\ nfts[offers[o].token].owner = a
         /\ TransferOwnership(offers[o].token, offers[o].buyer) /\ offers[o].buyer \in Addresses
         /\ Traded(offers[o].token, a, offers[o].buyer, offers[o].price)
         /\ SuppliesStay /\ ListingsStay /\ SharesStay /\ LoansStay /\ UseStays /\ BidsStay
<1> DEFINE t == offers[o].token
           b == offers[o].buyer
           p == offers[o].price
           n == offers[o].amount
<1>1. /\ o \in 1 .. Len(offers) /\ t \in 1 .. Len(nfts) /\ b \in Addresses /\ p \in Nat /\ n \in Nat
      /\ p > 0 /\ Len(nfts) \in Nat
  BY SizesTyped, EntriesTyped DEF OfferRecord
<1>2. /\ ExecuteTrade(t, a, b, p, n) /\ CloseOffer(o) /\ Valid(offers[o]) /\ nfts[t].owner = a
      /\ UNCHANGED switchVars /\ UNCHANGED listingVars /\ UNCHANGED collateralOf
  BY DEF AcceptOffer
<1> HIDE DEF t, b, p, n
<1>3. /\ TokensInv' /\ SwitchInv' /\ PledgeInv' /\ trades' \in Seq(TradeOf(Len(nfts)))
      /\ TransferOwnership(t, b) /\ Traded(t, a, b, p) /\ Len(nfts') = Len(nfts)
      /\ SuppliesStay /\ SharesStay
      /\ \A x \in 1 .. Len(nfts) : nfts'[x].fractional = nfts[x].fractional
  BY <1>1, <1>2, SaleStep
<1>4. /\ OfferClosed(o) /\ offers' \in Seq(OfferOf(Len(nfts)))
      /\ CountsInv' /\ ListingsStay /\ LoansStay
  BY <1>1, <1>2, OfferEnds
<1>5. MarketInv'
  BY <1>2, <1>3, <1>4 DEF MarketInv, NFTInv, listingVars
<1>6. UseStays
  <2>1. Len(nfts') >= Len(nfts) /\ \A x \in Len(nfts) + 1 .. Len(nfts') : FALSE
    BY <1>1, <1>3
  <2>2. listings' = listings
    BY <1>2 DEF listingVars
  <2>3. QED
    BY <1>2, <1>3, <2>1, <2>2 DEF UseStays
<1>7. QED
  BY <1>1, <1>2, <1>3, <1>4, <1>5, <1>6, BesideMarket DEF NFTInv, t, b, p

\* buy_nft and finalize_auction alike.
LEMMA ListingSold ==
  ASSUME NFTInv, NEW l \in DOMAIN listings, NEW b \in Addresses, NEW p \in Nat, p > 0,
         ExecuteTrade(listings[l].token, listings[l].seller, b, p, listings[l].amount), CloseListing(l),
         UNCHANGED switchVars, UNCHANGED offerVars, UNCHANGED collateralOf, UNCHANGED restOfMarket
  PROVE  /\ NFTInv' /\ ListingClosed(l) /\ nfts[listings[l].token].owner = listings[l].seller
         /\ TransferOwnership(listings[l].token, b)
         /\ Traded(listings[l].token, listings[l].seller, b, p)
         /\ SuppliesStay /\ OffersStay /\ SharesStay /\ LoansStay /\ UseStays /\ BidsStay
<1> DEFINE t == listings[l].token
           a == listings[l].seller
           n == listings[l].amount
<1>1. /\ l \in 1 .. Len(listings) /\ t \in 1 .. Len(nfts) /\ a \in Addresses /\ n \in Nat
  BY SizesTyped, EntriesTyped DEF ListingRecord
<1>2. ExecuteTrade(t, a, b, p, n)
  OBVIOUS
<1> HIDE DEF t, a, n
<1>3. /\ TokensInv' /\ SwitchInv' /\ PledgeInv' /\ trades' \in Seq(TradeOf(Len(nfts)))
      /\ nfts[t].owner = a /\ TransferOwnership(t, b) /\ Traded(t, a, b, p) /\ Len(nfts') = Len(nfts)
      /\ SuppliesStay /\ SharesStay
      /\ \A x \in 1 .. Len(nfts) : nfts'[x].fractional = nfts[x].fractional
  BY <1>1, <1>2, SaleStep
<1>4. /\ ListingClosed(l) /\ listings' \in Seq(ListingOf(Len(nfts)))
      /\ CountsInv' /\ OffersStay /\ LoansStay
  BY <1>1, ListingEnds
<1>5. MarketInv'
  BY <1>3, <1>4 DEF MarketInv, NFTInv, offerVars
<1>6. UseStays
  BY <1>3, <1>4, ClosingFrees
<1>7. QED
  BY <1>1, <1>3, <1>4, <1>5, <1>6, BesideMarket DEF NFTInv, t, a

LEMMA BuyNFTStep ==
  ASSUME NFTInv, NEW a \in Addresses, NEW l \in DOMAIN listings, BuyNFT(a, l), UNCHANGED restOfMarket
  PROVE  /\ NFTInv' /\ ListingClosed(l) /\ nfts[listings[l].token].owner = listings[l].seller
         /\ ~listings[l].auction /\ Valid(listings[l])
         /\ TransferOwnership(listings[l].token, a)
         /\ Traded(listings[l].token, listings[l].seller, a, listings[l].price)
         /\ SuppliesStay /\ OffersStay /\ SharesStay /\ LoansStay /\ UseStays /\ BidsStay
<1> DEFINE p == listings[l].price
<1>1. p \in Nat /\ p > 0
  BY SizesTyped, EntriesTyped DEF ListingRecord
<1>2. /\ ExecuteTrade(listings[l].token, listings[l].seller, a, p, listings[l].amount) /\ CloseListing(l)
      /\ UNCHANGED switchVars /\ UNCHANGED offerVars /\ UNCHANGED collateralOf
      /\ ~listings[l].auction /\ Valid(listings[l])
  BY DEF BuyNFT
<1> HIDE DEF p
<1>3. QED
  BY <1>1, <1>2, ListingSold DEF p

LEMMA FinalizeAuctionStep ==
  ASSUME NFTInv, NEW l \in DOMAIN listings, FinalizeAuction(l), UNCHANGED restOfMarket
  PROVE  /\ NFTInv' /\ ListingClosed(l) /\ nfts[listings[l].token].owner = listings[l].seller
         /\ listings[l].auction /\ now > listings[l].expires /\ listings[l].bidder \in Addresses
         /\ TransferOwnership(listings[l].token, listings[l].bidder)
         /\ Traded(listings[l].token, listings[l].seller, listings[l].bidder, listings[l].bid)
         /\ SuppliesStay /\ OffersStay /\ SharesStay /\ LoansStay /\ UseStays /\ BidsStay
<1> DEFINE p == listings[l].bid
           b == listings[l].bidder
<1>1. /\ ExecuteTrade(listings[l].token, listings[l].seller, b, p, listings[l].amount) /\ CloseListing(l)
      /\ UNCHANGED switchVars /\ UNCHANGED offerVars /\ UNCHANGED collateralOf
      /\ listings[l].auction /\ now > listings[l].expires /\ b # NoUser
  BY DEF FinalizeAuction
<1>2. p \in Nat /\ p > 0 /\ b \in Addresses
  BY <1>1, SizesTyped, EntriesTyped DEF ListingRecord
<1> HIDE DEF p, b
<1>3. QED
  BY <1>1, <1>2, ListingSold DEF p, b

-----------------------------------------------------------------------------
(* Lists that name the members of a set, each once *)

Lists(list, S) == IsInjective(list) /\ ToSet(list) = S

LEMMA ListsEmpty == Lists(<< >>, {})
BY EmptySeq DEF Lists, IsInjective, ToSet

LEMMA ListsAppend ==
  ASSUME NEW T, NEW list \in Seq(T), NEW S, Lists(list, S), NEW x \in T, x \notin S
  PROVE  Append(list, x) \in Seq(T) /\ Lists(Append(list, x), S \union {x})
<1> DEFINE r == Append(list, x)
           n == Len(list)
<1>1. n \in Nat /\ DOMAIN list = 1 .. n
  BY LenProperties
<1>2. r \in Seq(T) /\ Len(r) = n + 1 /\ (\A i \in 1 .. n : r[i] = list[i]) /\ r[n + 1] = x
  BY AppendProperties
<1>3. DOMAIN r = 1 .. n + 1
  BY <1>2, LenProperties
<1> HIDE DEF r
<1>4. \A i \in 1 .. n : list[i] \in S
  BY <1>1 DEF Lists, ToSet
<1>5. \A i \in 1 .. n + 1 : i \in 1 .. n \/ i = n + 1
  BY <1>1
<1>6. IsInjective(r)
  <2>1. \A i, j \in 1 .. n : list[i] = list[j] => i = j
    BY <1>1 DEF Lists, IsInjective
  <2>2. ASSUME NEW i \in 1 .. n + 1, NEW j \in 1 .. n + 1, r[i] = r[j] PROVE i = j
    <3>1. CASE i \in 1 .. n /\ j \in 1 .. n
      BY <1>2, <2>1, <2>2, <3>1
    <3>2. CASE i = n + 1 /\ j = n + 1
      BY <3>2
    <3>3. CASE i \in 1 .. n /\ j = n + 1
      BY <1>2, <1>4, <2>2, <3>3
    <3>4. CASE i = n + 1 /\ j \in 1 .. n
      BY <1>2, <1>4, <2>2, <3>4
    <3>5. QED
      BY <1>5, <3>1, <3>2, <3>3, <3>4
  <2>3. QED
    BY <1>3, <2>2 DEF IsInjective
<1>7. ToSet(r) = S \union {x}
  <2>1. n + 1 \in 1 .. n + 1 /\ \A i \in 1 .. n : i \in 1 .. n + 1
    BY <1>1
  <2>2. S = {list[i] : i \in 1 .. n}
    BY <1>1 DEF Lists, ToSet
  <2>3. {r[i] : i \in 1 .. n + 1} = {list[i] : i \in 1 .. n} \union {x}
    <3>1. ASSUME NEW y \in {r[i] : i \in 1 .. n + 1} PROVE y \in {list[i] : i \in 1 .. n} \union {x}
      BY <1>2, <1>5
    <3>2. ASSUME NEW y \in {list[i] : i \in 1 .. n} PROVE y \in {r[i] : i \in 1 .. n + 1}
      BY <1>2, <2>1
    <3>3. x \in {r[i] : i \in 1 .. n + 1}
      BY <1>2, <2>1
    <3>4. QED
      BY <3>1, <3>2, <3>3
  <2>4. QED
    BY <1>3, <2>2, <2>3 DEF ToSet
<1>8. QED
  BY <1>2, <1>6, <1>7 DEF Lists, r

LEMMA ListsOnly ==
  ASSUME NEW T, NEW list \in Seq(T), NEW S, Lists(list, S), NEW x
  PROVE  /\ Only(list, Range(list) \ {x}) \in Seq(T)
         /\ Lists(Only(list, Range(list) \ {x}), S \ {x})
<1> DEFINE R == Range(list) \ {x}
           r == Only(list, R)
           n == Len(list)
<1>1. n \in Nat /\ DOMAIN list = 1 .. n
  BY LenProperties
<1>2. Range(list) = S /\ \A i, j \in 1 .. n : list[i] = list[j] => i = j
  BY <1>1 DEF Lists, ToSet, Range, IsInjective
<1>3. r \in Seq(T) /\ \E h : Picks(list, R, n, r, h)
  BY OnlyPicks
<1> HIDE DEF r
<1>4. PICK h : Picks(list, R, n, r, h)
  BY <1>3
<1>5. Len(r) \in Nat /\ DOMAIN r = 1 .. Len(r)
  BY <1>3, LenProperties
<1>6. IsInjective(r)
  <2>1. ASSUME NEW i \in 1 .. Len(r), NEW j \in 1 .. Len(r), r[i] = r[j] PROVE i = j
    <3>1. h[i] \in 1 .. n /\ h[j] \in 1 .. n /\ r[i] = list[h[i]] /\ r[j] = list[h[j]]
      BY <1>4 DEF Picks
    <3>2. h[i] = h[j]
      BY <1>2, <2>1, <3>1
    <3>3. (i < j => h[i] < h[j]) /\ (j < i => h[j] < h[i])
      BY <1>4 DEF Picks
    <3>4. QED
      BY <1>5, <3>1, <3>2, <3>3
  <2>2. QED
    BY <1>5, <2>1 DEF IsInjective
<1>7. ToSet(r) = S \ {x}
  <2>1. \A i \in 1 .. Len(r) : r[i] \in R
    BY <1>4 DEF Picks
  <2>2. ASSUME NEW y \in S \ {x} PROVE \E i \in 1 .. Len(r) : r[i] = y
    <3>1. PICK k \in 1 .. n : list[k] = y
      BY <1>1, <1>2 DEF Range
    <3>2. list[k] \in R
      BY <1>2, <3>1
    <3>3. PICK i \in 1 .. Len(r) : h[i] = k
      BY <1>4, <3>2 DEF Picks
    <3>4. QED
      BY <1>4, <3>1, <3>3 DEF Picks
  <2>3. QED
    BY <1>2, <1>5, <2>1, <2>2 DEF ToSet
<1>8. QED
  BY <1>3, <1>6, <1>7 DEF Lists, r

-----------------------------------------------------------------------------
(* Shares *)

\* What the holders of a token hold, and who is listed.
Held(f, list) == Lists(list, {a \in Addresses : f[a] > 0})

LEMMA HoldersTyped ==
  ASSUME NEW list \in Seq(Addresses), NEW a \in Addresses, NEW n \in Nat
  PROVE  Holders(list, a, n) \in Seq(Addresses)
<1>1. Only(list, Range(list) \ {a}) \in Seq(Addresses)
  BY OnlyPicks
<1>2. Append(list, a) \in Seq(Addresses)
  BY AppendProperties
<1>3. QED
  BY <1>1, <1>2 DEF Holders

\* set_shares and remove_shareholder keep the list right.
LEMMA HoldersHeld ==
  ASSUME NEW f \in [Addresses -> Nat], NEW list \in Seq(Addresses), Held(f, list),
         NEW a \in Addresses, NEW n \in Nat
  PROVE  Held([f EXCEPT ![a] = n], Holders(list, a, n))
<1> DEFINE S == {b \in Addresses : f[b] > 0}
           g == [f EXCEPT ![a] = n]
           G == {b \in Addresses : g[b] > 0}
<1>1. \A b \in Addresses : g[b] = IF b = a THEN n ELSE f[b]
  OBVIOUS
<1> HIDE DEF g
<1>2. Lists(list, S) /\ ToSet(list) = S
  BY DEF Held, Lists
<1>3. CASE n = 0
  <2>1. G = S \ {a}
    BY <1>1, <1>3
  <2> HIDE DEF S, G
  <2>2. Lists(Only(list, Range(list) \ {a}), S \ {a})
    BY <1>2, ListsOnly
  <2>3. Lists(Holders(list, a, n), G)
    BY <1>3, <2>1, <2>2 DEF Holders
  <2>4. QED
    BY <2>3 DEF Held, G, g
<1>4. CASE n # 0 /\ a \in S
  <2>1. G = S
    BY <1>1, <1>4
  <2>2. Holders(list, a, n) = list
    BY <1>2, <1>4 DEF Holders
  <2>3. QED
    BY <1>2, <2>1, <2>2 DEF Held, g
<1>5. CASE n # 0 /\ a \notin S
  <2>1. G = S \union {a}
    BY <1>1, <1>5
  <2> HIDE DEF S, G
  <2>2. Lists(Append(list, a), S \union {a})
    BY <1>2, <1>5, ListsAppend
  <2>3. Lists(Holders(list, a, n), G)
    BY <1>2, <1>5, <2>1, <2>2 DEF Holders
  <2>4. QED
    BY <2>3 DEF Held, G, g
<1>6. QED
  BY <1>3, <1>4, <1>5

\* The shares of token t become f, listed by list, and its record follows.
ShareStep(t, f, list, fr, sup, circ) ==
  /\ t \in 1 .. Len(nfts) /\ f \in [Addresses -> Nat] /\ list \in Seq(Addresses)
  /\ shares' = [shares EXCEPT ![t] = f] /\ shareholders' = [shareholders EXCEPT ![t] = list]
  /\ Len(nfts') = Len(nfts)
  /\ \A x \in 1 .. Len(nfts) : x # t => nfts'[x] = nfts[x]
  /\ nfts'[t].fractional = fr /\ nfts'[t].supply = sup /\ nfts'[t].circulating = circ

restOfShares == << adminVars, loans, activeLoans, valueVars, liquidationVars >>

LEMMA SharesTyped ==
  ASSUME NFTInv, NEW t \in 1 .. Len(nfts)
  PROVE  /\ t \in 1 .. MaxTokens
         /\ shares \in [1 .. MaxTokens -> [Addresses -> Nat]]
         /\ shareholders \in [1 .. MaxTokens -> Seq(Addresses)]
         /\ shares[t] \in [Addresses -> Nat] /\ shareholders[t] \in Seq(Addresses)
<1>1. Len(nfts) \in Nat /\ Len(nfts) <= MaxTokens /\ MaxTokens \in Nat
  BY SizesTyped, NFTAssumption DEF NFTInv, TokensInv
<1>2. t \in 1 .. MaxTokens
  BY <1>1
<1>3. QED
  BY <1>2 DEF NFTInv, FractionalTypeOK

\* Every operation on shares but a transfer between holders.
LEMMA SharingStep ==
  ASSUME NFTInv, NEW t \in 1 .. Len(nfts), NEW fr \in BOOLEAN, NEW sup \in Nat, NEW circ \in Nat,
         Shared(t, fr, sup, circ),
         NEW f \in [Addresses -> Nat], NEW list \in Seq(Addresses),
         shares' = [shares EXCEPT ![t] = f], shareholders' = [shareholders EXCEPT ![t] = list],
         UNCHANGED << collections, ownerTokens, portfolio, switchVars, marketVars, collateralOf >>,
         UNCHANGED restOfShares
  PROVE  /\ NFTInv' /\ ShareStep(t, f, list, fr, sup, circ)
         /\ OwnersStay /\ SuppliesStay /\ StatisticsStay /\ ListingsStay /\ OffersStay /\ LoansStay
         /\ BidsStay /\ trades' = trades
         /\ UNCHANGED << listings, collateralOf >> /\ Len(nfts') = Len(nfts)
<1>1. /\ nfts' \in Seq(NFTOf(Len(collections))) /\ Len(nfts') = Len(nfts)
      /\ \A x \in 1 .. Len(nfts) :
           /\ nfts'[x].owner = nfts[x].owner /\ nfts'[x].collection = nfts[x].collection
           /\ x # t => nfts'[x] = nfts[x]
      /\ nfts'[t].fractional = fr /\ nfts'[t].supply = sup /\ nfts'[t].circulating = circ
  BY SharingChanges
<1>2. /\ UNCHANGED collections /\ UNCHANGED ownerTokens /\ UNCHANGED portfolio /\ UNCHANGED switchVars
      /\ UNCHANGED marketVars /\ UNCHANGED collateralOf /\ UNCHANGED adminVars /\ UNCHANGED loans
      /\ UNCHANGED activeLoans /\ UNCHANGED valueVars /\ UNCHANGED liquidationVars
      /\ UNCHANGED listingVars /\ UNCHANGED offerVars /\ UNCHANGED trades
  BY DEF restOfShares, marketVars
<1>3. t \in 1 .. MaxTokens /\ FractionalTypeOK
  BY SharesTyped DEF NFTInv
<1>4. FractionalTypeOK'
  BY <1>3 DEF FractionalTypeOK
<1>5. TokensInv'
  BY <1>1, <1>2 DEF NFTInv, TokensInv
<1>6. CountsInv' /\ SwitchInv' /\ MarketInv' /\ PledgeInv' /\ LoansInv' /\ ValuesInv' /\ LiquidationInv'
      /\ AdminTypeOK'
  BY <1>1, <1>2, PartsStay DEF listingVars, offerVars
<1>7. ListingsStay /\ OffersStay /\ LoansStay /\ BidsStay
  BY <1>2, UnchangedStays
<1>8. OwnersStay /\ SuppliesStay /\ StatisticsStay
  <2>1. Len(nfts) \in Nat
    BY SizesTyped
  <2>2. QED
    BY <1>1, <1>2, <2>1 DEF OwnersStay, SuppliesStay, StatisticsStay
<1>9. ShareStep(t, f, list, fr, sup, circ)
  BY <1>1 DEF ShareStep
<1>10. QED
  BY <1>1, <1>2, <1>4, <1>5, <1>6, <1>7, <1>8, <1>9 DEF NFTInv, listingVars

\* When what was tied before stays tied and nothing else is.
LEMMA SharingFrees ==
  ASSUME NFTInv, NEW t, NEW f, NEW list, NEW fr, NEW sup, NEW circ, ShareStep(t, f, list, fr, sup, circ),
         fr => nfts[t].fractional, UNCHANGED << listings, collateralOf >>, Len(nfts') = Len(nfts)
  PROVE  UseStays
<1>1. Len(nfts') >= Len(nfts) /\ \A x \in Len(nfts) + 1 .. Len(nfts') : FALSE
  BY SizesTyped
<1>2. \A x \in 1 .. Len(nfts) : nfts'[x].fractional => nfts[x].fractional
  BY DEF ShareStep
<1>3. QED
  BY <1>1, <1>2 DEF UseStays

LEMMA FractionalizeStep ==
  ASSUME NFTInv, NEW a \in Addresses, NEW t \in Tokens, NEW n \in ShareCounts, Fractionalize(a, t, n),
         UNCHANGED restOfShares
  PROVE  /\ NFTInv' /\ n \in Nat /\ n > 0 /\ ~nfts[t].fractional /\ ~Pledged(t)
         /\ ShareStep(t, [shares[t] EXCEPT ![a] = n], Holders(shareholders[t], a, n), TRUE, n, 0)
         /\ UNCHANGED << listings, collateralOf >> /\ trades' = trades
         /\ OwnersStay /\ SuppliesStay /\ StatisticsStay /\ ListingsStay /\ OffersStay /\ LoansStay
         /\ BidsStay
<1> DEFINE f == [shares[t] EXCEPT ![a] = n]
           list == Holders(shareholders[t], a, n)
<1>1. n \in Nat /\ n > 0
  BY FractionalAssumption DEF Fractionalize
<1>2. t \in 1 .. Len(nfts)
  BY SizesTyped DEF Tokens
<1>3. f \in [Addresses -> Nat] /\ list \in Seq(Addresses)
  BY <1>1, <1>2, SharesTyped, HoldersTyped
<1>4. /\ Shared(t, TRUE, n, 0) /\ ~nfts[t].fractional /\ ~Pledged(t)
      /\ shares' = [shares EXCEPT ![t] = f] /\ shareholders' = [shareholders EXCEPT ![t] = list]
      /\ UNCHANGED << collections, ownerTokens, portfolio, switchVars, marketVars, collateralOf >>
  BY DEF Fractionalize, SetShares, Shared
<1> HIDE DEF f, list
<1>5. /\ NFTInv' /\ ShareStep(t, f, list, TRUE, n, 0)
      /\ OwnersStay /\ SuppliesStay /\ StatisticsStay /\ ListingsStay /\ OffersStay /\ LoansStay
      /\ BidsStay /\ trades' = trades /\ UNCHANGED << listings, collateralOf >>
  BY <1>1, <1>2, <1>3, <1>4, SharingStep
<1>6. QED
  BY <1>1, <1>4, <1>5 DEF f, list

LEMMA Circulates ==
  ASSUME NFTInv, NEW t \in 1 .. Len(nfts), NEW circ, nfts' = [nfts EXCEPT ![t].circulating = circ]
  PROVE  Shared(t, nfts[t].fractional, nfts[t].supply, circ)
<1>1. nfts[t] \in NFTRecord
  BY EntriesTyped
<1>2. [nfts[t] EXCEPT !.circulating = circ]
        = [nfts[t] EXCEPT !.fractional = nfts[t].fractional, !.supply = nfts[t].supply, !.circulating = circ]
  BY <1>1 DEF NFTRecord
<1>3. QED
  BY <1>2 DEF Shared

LEMMA BuySharesStep ==
  ASSUME NFTInv, NEW a \in Addresses, NEW t \in Tokens, NEW n \in ShareLots, BuyShares(a, t, n),
         UNCHANGED restOfShares
  PROVE  /\ NFTInv' /\ n \in Nat /\ nfts[t].fractional
         /\ nfts[t].circulating + n <= nfts[t].supply
         /\ ShareStep(t, [shares[t] EXCEPT ![a] = shares[t][a] + n], Holders(shareholders[t], a, shares[t][a] + n),
                      TRUE, nfts[t].supply, nfts[t].circulating + n)
         /\ trades' = trades
         /\ OwnersStay /\ SuppliesStay /\ StatisticsStay /\ ListingsStay /\ OffersStay /\ LoansStay
         /\ UseStays /\ BidsStay
<1> DEFINE m == shares[t][a] + n
           f == [shares[t] EXCEPT ![a] = m]
           list == Holders(shareholders[t], a, m)
           sup == nfts[t].supply
           circ == nfts[t].circulating + n
<1>1. n \in Nat /\ t \in 1 .. Len(nfts) /\ nfts[t] \in NFTRecord
  BY SizesTyped, EntriesTyped, FractionalAssumption DEF Tokens
<1>2. shares[t][a] \in Nat /\ shares[t] \in [Addresses -> Nat]
  BY <1>1, SharesTyped
<1>3. m \in Nat /\ sup \in Nat /\ circ \in Nat
  BY <1>1, <1>2 DEF NFTRecord
<1>4. /\ nfts' = [nfts EXCEPT ![t].circulating = circ] /\ nfts[t].fractional
      /\ nfts[t].circulating + n <= nfts[t].supply
      /\ shares' = [shares EXCEPT ![t] = f] /\ shareholders' = [shareholders EXCEPT ![t] = list]
      /\ UNCHANGED << collections, ownerTokens, portfolio, switchVars, marketVars, collateralOf >>
  BY DEF BuyShares, SetShares
<1> HIDE DEF m, circ
<1>5. f \in [Addresses -> Nat] /\ list \in Seq(Addresses)
  BY <1>1, <1>2, <1>3, SharesTyped, HoldersTyped
<1> HIDE DEF f, list
<1>6. Shared(t, TRUE, sup, circ)
  <2>1. nfts[t].fractional = TRUE
    BY <1>1, <1>4 DEF NFTRecord
  <2>2. QED
    BY <1>1, <1>4, <2>1, Circulates
<1>7. /\ NFTInv' /\ ShareStep(t, f, list, TRUE, sup, circ)
      /\ OwnersStay /\ SuppliesStay /\ StatisticsStay /\ ListingsStay /\ OffersStay /\ LoansStay
      /\ BidsStay /\ trades' = trades /\ UNCHANGED << listings, collateralOf >> /\ Len(nfts') = Len(nfts)
  BY <1>1, <1>3, <1>4, <1>5, <1>6, SharingStep
<1>8. UseStays
  BY <1>4, <1>7, SharingFrees
<1>9. QED
  BY <1>1, <1>4, <1>7, <1>8 DEF f, list, m, circ

LEMMA SellSharesStep ==
  ASSUME NFTInv, NEW a \in Addresses, NEW t \in Tokens, NEW n \in ShareLots, SellShares(a, t, n),
         UNCHANGED restOfShares
  PROVE  /\ NFTInv' /\ n \in Nat /\ n > 0 /\ shares[t][a] >= n
         /\ ShareStep(t, [shares[t] EXCEPT ![a] = shares[t][a] - n], Holders(shareholders[t], a, shares[t][a] - n),
                      nfts[t].fractional, nfts[t].supply,
                      IF nfts[t].circulating < n THEN 0 ELSE nfts[t].circulating - n)
         /\ trades' = trades
         /\ OwnersStay /\ SuppliesStay /\ StatisticsStay /\ ListingsStay /\ OffersStay /\ LoansStay
         /\ UseStays /\ BidsStay
<1> DEFINE m == shares[t][a] - n
           f == [shares[t] EXCEPT ![a] = m]
           list == Holders(shareholders[t], a, m)
           fr == nfts[t].fractional
           sup == nfts[t].supply
           circ == IF nfts[t].circulating < n THEN 0 ELSE nfts[t].circulating - n
<1>1. n \in Nat /\ t \in 1 .. Len(nfts) /\ nfts[t] \in NFTRecord
  BY SizesTyped, EntriesTyped, FractionalAssumption DEF Tokens
<1>2. shares[t][a] \in Nat /\ shares[t] \in [Addresses -> Nat]
  BY <1>1, SharesTyped
<1>3. n > 0 /\ shares[t][a] >= n
  BY <1>1 DEF SellShares
<1>4. m \in Nat /\ sup \in Nat /\ circ \in Nat /\ fr \in BOOLEAN
  BY <1>1, <1>2, <1>3 DEF NFTRecord
<1>5. /\ nfts' = [nfts EXCEPT ![t].circulating = circ]
      /\ shares' = [shares EXCEPT ![t] = f] /\ shareholders' = [shareholders EXCEPT ![t] = list]
      /\ UNCHANGED << collections, ownerTokens, portfolio, switchVars, marketVars, collateralOf >>
  BY DEF SellShares, SetShares
<1> HIDE DEF m, circ
<1>6. f \in [Addresses -> Nat] /\ list \in Seq(Addresses)
  BY <1>1, <1>2, <1>4, SharesTyped, HoldersTyped
<1> HIDE DEF f, list
<1>7. Shared(t, fr, sup, circ)
  BY <1>1, <1>5, Circulates
<1>8. /\ NFTInv' /\ ShareStep(t, f, list, fr, sup, circ)
      /\ OwnersStay /\ SuppliesStay /\ StatisticsStay /\ ListingsStay /\ OffersStay /\ LoansStay
      /\ BidsStay /\ trades' = trades /\ UNCHANGED << listings, collateralOf >> /\ Len(nfts') = Len(nfts)
  BY <1>1, <1>4, <1>5, <1>6, <1>7, SharingStep
<1>9. UseStays
  BY <1>8, SharingFrees
<1>10. QED
  BY <1>1, <1>3, <1>8, <1>9 DEF f, list, m, circ

LEMMA TransferSharesStep ==
  ASSUME NFTInv, NEW a \in Addresses, NEW b \in Addresses, NEW t \in Tokens, NEW n \in ShareLots,
         TransferShares(a, b, t, n), UNCHANGED restOfShares
  PROVE  /\ NFTInv' /\ n \in Nat /\ a # b /\ shares[t][a] >= n
         /\ ShareStep(t, [shares[t] EXCEPT ![a] = shares[t][a] - n, ![b] = shares[t][b] + n],
                      Holders(Holders(shareholders[t], a, shares[t][a] - n), b, shares[t][b] + n),
                      nfts[t].fractional, nfts[t].supply, nfts[t].circulating)
         /\ trades' = trades
         /\ OwnersStay /\ SuppliesStay /\ StatisticsStay /\ ListingsStay /\ OffersStay /\ LoansStay
         /\ UseStays /\ BidsStay
<1> DEFINE x == shares[t][a] - n
           y == shares[t][b] + n
           f == [shares[t] EXCEPT ![a] = x, ![b] = y]
           list == Holders(Holders(shareholders[t], a, x), b, y)
<1>1. n \in Nat /\ t \in 1 .. Len(nfts)
  BY SizesTyped, FractionalAssumption DEF Tokens
<1>2. shares[t][a] \in Nat /\ shares[t][b] \in Nat /\ shares[t] \in [Addresses -> Nat]
      /\ shareholders[t] \in Seq(Addresses)
  BY <1>1, SharesTyped
<1>3. a # b /\ shares[t][a] >= n
  BY <1>1 DEF TransferShares
<1>4. x \in Nat /\ y \in Nat
  BY <1>1, <1>2, <1>3
<1>5. shares' = [shares EXCEPT ![t] = f]
  BY DEF TransferShares
<1>6. /\ shareholders' = [shareholders EXCEPT ![t] = list]
      /\ UNCHANGED storageVars /\ UNCHANGED marketVars /\ UNCHANGED collateralOf
  BY DEF TransferShares
<1> HIDE DEF x, y
<1>7. f \in [Addresses -> Nat] /\ list \in Seq(Addresses)
  BY <1>2, <1>4, HoldersTyped
<1> HIDE DEF f, list
<1>8. nfts' = nfts /\ UNCHANGED tokenVars /\ UNCHANGED portfolio /\ UNCHANGED switchVars
  BY <1>6 DEF storageVars, tokenVars
<1>9. /\ UNCHANGED listingVars /\ UNCHANGED offerVars /\ UNCHANGED trades /\ UNCHANGED loans
      /\ UNCHANGED activeLoans /\ UNCHANGED valueVars /\ UNCHANGED liquidationVars /\ UNCHANGED adminVars
      /\ UNCHANGED listings
  BY <1>6 DEF marketVars, restOfShares, listingVars
<1>10. ShareStep(t, f, list, nfts[t].fractional, nfts[t].supply, nfts[t].circulating)
  BY <1>1, <1>5, <1>6, <1>7, <1>8 DEF ShareStep
<1>11. FractionalTypeOK'
  BY <1>1, <1>5, <1>6, <1>7, SharesTyped DEF FractionalTypeOK
<1>12. NFTInv'
  BY <1>6, <1>8, <1>9, <1>11, PartsStay DEF NFTInv, listingVars, offerVars
<1>13. OwnersStay /\ SuppliesStay /\ StatisticsStay /\ ListingsStay /\ OffersStay /\ LoansStay
       /\ UseStays /\ BidsStay
  BY <1>6, <1>8, <1>9, UnchangedStays
<1>14. QED
  BY <1>1, <1>3, <1>9, <1>10, <1>12, <1>13 DEF f, list, x, y

LEMMA DefractionalizeStep ==
  ASSUME NFTInv, NEW a \in Addresses, NEW t \in Tokens, Defractionalize(a, t), UNCHANGED restOfShares
  PROVE  /\ NFTInv' /\ trades' = trades
         /\ ShareStep(t, [b \in Addresses |-> IF b \in ToSet(shareholders[t]) THEN 0 ELSE shares[t][b]], << >>,
                      FALSE, 1, 1)
         /\ OwnersStay /\ SuppliesStay /\ StatisticsStay /\ ListingsStay /\ OffersStay /\ LoansStay
         /\ UseStays /\ BidsStay
<1> DEFINE f == [b \in Addresses |-> IF b \in ToSet(shareholders[t]) THEN 0 ELSE shares[t][b]]
<1>1. t \in 1 .. Len(nfts)
  BY SizesTyped DEF Tokens
<1>2. shares[t] \in [Addresses -> Nat]
  BY <1>1, SharesTyped
<1>3. f \in [Addresses -> Nat] /\ << >> \in Seq(Addresses)
  BY <1>2, EmptySeq
<1>4. /\ Shared(t, FALSE, 1, 1) /\ shareholders' = [shareholders EXCEPT ![t] = << >>]
      /\ shares' = [shares EXCEPT ![t] = f]
      /\ UNCHANGED << collections, ownerTokens, portfolio, switchVars, marketVars, collateralOf >>
  BY DEF Defractionalize, Shared
<1> HIDE DEF f
<1>5. /\ NFTInv' /\ ShareStep(t, f, << >>, FALSE, 1, 1)
      /\ OwnersStay /\ SuppliesStay /\ StatisticsStay /\ ListingsStay /\ OffersStay /\ LoansStay
      /\ BidsStay /\ trades' = trades /\ UNCHANGED << listings, collateralOf >> /\ Len(nfts') = Len(nfts)
  BY <1>1, <1>3, <1>4, SharingStep
<1>6. UseStays
  BY <1>5, SharingFrees
<1>7. QED
  BY <1>5, <1>6 DEF f

-----------------------------------------------------------------------------
(* Loans *)

LoanRequested(t) ==
  /\ t \in 1 .. Len(nfts) /\ ~Pledged(t)
  /\ Len(loans') = Len(loans) + 1
  /\ \A i \in 1 .. Len(loans) : loans'[i] = loans[i]
  /\ ~loans'[Len(loans) + 1].active
  /\ collateralOf' = [collateralOf EXCEPT ![t] = Len(loans) + 1]

LoanStarted(i, l) ==
  /\ i \in 1 .. Len(loans) /\ ~loans[i].active /\ l \in Addresses /\ loans[i].borrower # l
  /\ Len(loans') = Len(loans)
  /\ \A x \in 1 .. Len(loans) : x # i => loans'[x] = loans[x]
  /\ loans'[i].active /\ loans'[i].borrower = loans[i].borrower /\ loans'[i].lender = l
  /\ PortfolioAs(portfolio', ListingsNow, OffersNow,
                 [TakenNow EXCEPT ![loans[i].borrower] = @ + 1], [GivenNow EXCEPT ![l] = @ + 1])

LoanEnded(i) ==
  /\ i \in 1 .. Len(loans) /\ loans[i].active
  /\ Len(loans') = Len(loans)
  /\ \A x \in 1 .. Len(loans) : x # i => loans'[x] = loans[x]
  /\ ~loans'[i].active /\ loans'[i].borrower = loans[i].borrower /\ loans'[i].lender = loans[i].lender
  /\ PortfolioAs(portfolio', ListingsNow, OffersNow,
                 [TakenNow EXCEPT ![loans[i].borrower] = Less(@)],
                 [GivenNow EXCEPT ![loans[i].lender] = Less(@)])

\* What happened to a loan stays on record.
RecordsKept ==
  /\ Len(loans') >= Len(loans)
  /\ \A i \in 1 .. Len(loans) :
       /\ loans[i].repaid => loans'[i].repaid
       /\ loans[i].liquidated => loans'[i].liquidated
       /\ loans'[i].token = loans[i].token /\ loans'[i].borrower = loans[i].borrower
       /\ loans'[i].amount = loans[i].amount

LEMMA SameRecords == NFTInv /\ UNCHANGED loans => RecordsKept
BY SizesTyped DEF RecordsKept

\* A loan begins or ends in the portfolios of its parties.
LEMMA LoanCounts ==
  ASSUME NFTInv, NEW b \in Addresses, NEW l \in Addresses, NEW x \in Nat, NEW y \in Nat,
         PortfolioAs(portfolio', ListingsNow, OffersNow, [TakenNow EXCEPT ![b] = x], [GivenNow EXCEPT ![l] = y]),
         activeLoans' \in Nat, UNCHANGED listingVars, UNCHANGED offerVars
  PROVE  /\ CountsInv' /\ ListingsStay /\ OffersStay
         /\ \A a \in Addresses :
              /\ portfolio'[a].loansTaken = IF a = b THEN x ELSE portfolio[a].loansTaken
              /\ portfolio'[a].loansGiven = IF a = l THEN y ELSE portfolio[a].loansGiven
<1>1. /\ portfolio' \in [Addresses -> PortfolioRecord]
      /\ \A a \in Addresses :
           /\ portfolio'[a].listings = portfolio[a].listings
           /\ portfolio'[a].offers = portfolio[a].offers
           /\ portfolio'[a].loansTaken = IF a = b THEN x ELSE portfolio[a].loansTaken
           /\ portfolio'[a].loansGiven = IF a = l THEN y ELSE portfolio[a].loansGiven
  BY DEF PortfolioAs, ListingsNow, OffersNow, TakenNow, GivenNow
<1>2. QED
  BY <1>1 DEF CountsInv, ListingsStay, OffersStay, listingVars, offerVars, NFTInv

LEMMA NowCounts ==
  ASSUME NFTInv, NEW a \in Addresses
  PROVE  /\ TakenNow[a] = portfolio[a].loansTaken /\ GivenNow[a] = portfolio[a].loansGiven
         /\ portfolio[a].loansTaken \in Nat /\ portfolio[a].loansGiven \in Nat
BY DEF TakenNow, GivenNow, NFTInv, CountsInv, PortfolioRecord

LEMMA LoanStartCounts ==
  ASSUME NFTInv, NEW i, NEW l, LoanStarted(i, l), UNCHANGED activeLoans, UNCHANGED listingVars, UNCHANGED offerVars
  PROVE  /\ CountsInv' /\ ListingsStay /\ OffersStay
         /\ \A a \in Addresses :
              /\ portfolio'[a].loansTaken = portfolio[a].loansTaken + (IF a = loans[i].borrower THEN 1 ELSE 0)
              /\ portfolio'[a].loansGiven = portfolio[a].loansGiven + (IF a = l THEN 1 ELSE 0)
<1> DEFINE b == loans[i].borrower
           x == portfolio[b].loansTaken + 1
           y == portfolio[l].loansGiven + 1
<1>1. b \in Addresses /\ l \in Addresses
  BY PartiesTyped DEF LoanStarted
<1>2. x \in Nat /\ y \in Nat /\ x = TakenNow[b] + 1 /\ y = GivenNow[l] + 1 /\ activeLoans' \in Nat
  BY <1>1, NowCounts DEF NFTInv, CountsInv
<1>3. PortfolioAs(portfolio', ListingsNow, OffersNow, [TakenNow EXCEPT ![b] = x], [GivenNow EXCEPT ![l] = y])
  BY <1>2 DEF LoanStarted
<1> HIDE DEF x, y, b
<1>4. /\ CountsInv' /\ ListingsStay /\ OffersStay
      /\ \A a \in Addresses :
           /\ portfolio'[a].loansTaken = IF a = b THEN x ELSE portfolio[a].loansTaken
           /\ portfolio'[a].loansGiven = IF a = l THEN y ELSE portfolio[a].loansGiven
  BY <1>1, <1>2, <1>3, LoanCounts
<1>5. \A a \in Addresses : portfolio[a].loansTaken \in Nat /\ portfolio[a].loansGiven \in Nat
  BY NowCounts
<1>6. QED
  BY <1>4, <1>5 DEF x, y, b

LEMMA LoanEndCounts ==
  ASSUME NFTInv, NEW i, LoanEnded(i), activeLoans' \in Nat, UNCHANGED listingVars, UNCHANGED offerVars
  PROVE  /\ CountsInv' /\ ListingsStay /\ OffersStay
         /\ \A a \in Addresses :
              /\ portfolio'[a].loansTaken
                   = IF a = loans[i].borrower THEN Less(portfolio[a].loansTaken) ELSE portfolio[a].loansTaken
              /\ portfolio'[a].loansGiven
                   = IF a = loans[i].lender THEN Less(portfolio[a].loansGiven) ELSE portfolio[a].loansGiven
<1> DEFINE b == loans[i].borrower
           l == loans[i].lender
           x == Less(portfolio[b].loansTaken)
           y == Less(portfolio[l].loansGiven)
<1>1. b \in Addresses /\ l \in Addresses
  BY PartiesTyped DEF LoanEnded
<1>2. x \in Nat /\ y \in Nat /\ x = Less(TakenNow[b]) /\ y = Less(GivenNow[l])
  BY <1>1, NowCounts, LessTyped
<1>3. PortfolioAs(portfolio', ListingsNow, OffersNow, [TakenNow EXCEPT ![b] = x], [GivenNow EXCEPT ![l] = y])
  BY <1>2 DEF LoanEnded
<1> HIDE DEF x, y, b, l
<1>4. /\ CountsInv' /\ ListingsStay /\ OffersStay
      /\ \A a \in Addresses :
           /\ portfolio'[a].loansTaken = IF a = b THEN x ELSE portfolio[a].loansTaken
           /\ portfolio'[a].loansGiven = IF a = l THEN y ELSE portfolio[a].loansGiven
  BY <1>1, <1>2, <1>3, LoanCounts
<1>5. QED
  BY <1>4 DEF x, y, b, l

besideLoans == << adminVars, tokenVars, switchVars, marketVars, shareVars, valueVars >>

LEMMA BesideLoans ==
  ASSUME NFTInv, UNCHANGED besideLoans
  PROVE  /\ AdminTypeOK' /\ TokensInv' /\ SwitchInv' /\ MarketInv' /\ FractionalTypeOK' /\ ValuesInv'
         /\ OwnersStay /\ SuppliesStay /\ StatisticsStay /\ SharesStay
         /\ (UNCHANGED collateralOf => UseStays)
         /\ UNCHANGED listingVars /\ UNCHANGED offerVars /\ listings' = listings
         /\ trades' = trades /\ nfts' = nfts
<1>1. /\ UNCHANGED adminVars /\ UNCHANGED tokenVars /\ UNCHANGED switchVars /\ UNCHANGED marketVars
      /\ UNCHANGED shareVars /\ UNCHANGED valueVars
  BY DEF besideLoans
<1>2. /\ UNCHANGED listingVars /\ UNCHANGED offerVars /\ trades' = trades /\ nfts' = nfts /\ listings' = listings
  BY <1>1 DEF marketVars, listingVars, tokenVars
<1>3. QED
  BY <1>1, <1>2, PartsStay, UnchangedStays

LEMMA RequestLoanStep ==
  ASSUME NFTInv, NEW a \in Addresses, NEW t \in Tokens, NEW n \in LoanAmounts, NEW r \in LoanRates,
         NEW d \in LoanDurations, RequestLoan(a, t, n, r, d), UNCHANGED adminVars
  PROVE  /\ NFTInv' /\ LoanRequested(t) /\ ~nfts[t].fractional
         /\ \A l \in DOMAIN listings : listings[l].token = t => ~listings[l].active
         /\ UNCHANGED << portfolio, liquidationVars >> /\ listings' = listings /\ nfts' = nfts /\ trades' = trades
         /\ OwnersStay /\ SuppliesStay /\ StatisticsStay /\ ListingsStay /\ OffersStay /\ SharesStay
         /\ BidsStay /\ RecordsKept
<1> DEFINE e == [token |-> t, borrower |-> a, lender |-> a, amount |-> n, bps |-> r,
                 repayment |-> n, start |-> 0, duration |-> d, due |-> 0,
                 active |-> FALSE, repaid |-> FALSE, liquidated |-> FALSE]
           k == Len(nfts)
           m == Len(loans)
<1>1. t \in 1 .. k /\ k \in Nat /\ loans \in Seq(LoanOf(k)) /\ m \in Nat
  BY SizesTyped DEF NFTInv, LoansInv, Tokens
<1>2. e \in LoanRecord /\ e.token = t /\ e.active = FALSE
  BY <1>1, LendingAssumption DEF LoanRecord
<1>3. e \in LoanOf(k)
  BY <1>1, <1>2 DEF LoanOf
<1>4. /\ loans' = Append(loans, e) /\ ~Pledged(t) /\ ~nfts[t].fractional /\ m < MaxLoans
      /\ collateralOf' = [collateralOf EXCEPT ![t] = m + 1] /\ activeLoans' = activeLoans + 1
      /\ (\A l \in DOMAIN listings : listings[l].token = t => ~listings[l].active)
      /\ UNCHANGED storageVars /\ UNCHANGED marketVars /\ UNCHANGED shareVars /\ UNCHANGED valueVars
      /\ UNCHANGED liquidationVars
  BY DEF RequestLoan
<1>5. UNCHANGED besideLoans /\ UNCHANGED portfolio
  BY <1>4 DEF besideLoans, storageVars
<1> HIDE DEF e, k, m
<1>6. /\ loans' \in Seq(LoanOf(k)) /\ Len(loans') = m + 1
      /\ \A i \in 1 .. m : loans'[i] = loans[i]
      /\ loans'[m + 1] = e
  BY <1>1, <1>3, <1>4, AppendProperties DEF m
<1>7. /\ AdminTypeOK' /\ TokensInv' /\ SwitchInv' /\ MarketInv' /\ FractionalTypeOK' /\ ValuesInv'
      /\ OwnersStay /\ SuppliesStay /\ StatisticsStay /\ SharesStay
      /\ UNCHANGED listingVars /\ UNCHANGED offerVars /\ listings' = listings
      /\ trades' = trades /\ nfts' = nfts
  BY <1>5, BesideLoans
<1>8. ListingsStay /\ OffersStay
  BY <1>5, <1>7, UnchangedStays
<1>9. CountsInv'
  BY <1>4, <1>5, <1>7 DEF CountsInv, NFTInv, listingVars, offerVars
<1>10. PledgeInv'
  <2>1. m + 1 \in Nat /\ collateralOf \in [1 .. MaxTokens -> Nat]
    BY <1>1 DEF NFTInv, PledgeInv
  <2>2. collateralOf' = [collateralOf EXCEPT ![t] = m + 1]
    BY <1>4
  <2>3. collateralOf' \in [1 .. MaxTokens -> Nat]
    BY <2>1, <2>2
  <2>4. QED
    BY <2>3 DEF PledgeInv
<1>11. LoansInv'
  BY <1>1, <1>4, <1>6, <1>7, LendingAssumption DEF LoansInv, k
<1>12. LiquidationInv'
  <2>1. queue' = queue /\ bestBid' = bestBid /\ 1 .. m \subseteq 1 .. m + 1
    BY <1>1, <1>4, Wider DEF liquidationVars
  <2>2. queue \in Seq(1 .. m + 1)
    BY <2>1, SeqMonotonic DEF NFTInv, LiquidationInv, m
  <2>3. QED
    BY <1>1, <1>6, <2>1, <2>2 DEF NFTInv, LiquidationInv, m
<1>13. BidsStay /\ RecordsKept
  BY <1>1, <1>4, <1>6 DEF BidsStay, RecordsKept, liquidationVars, m
<1>14. LoanRequested(t)
  BY <1>1, <1>2, <1>4, <1>6 DEF LoanRequested, m, k
<1>15. QED
  BY <1>4, <1>5, <1>7, <1>8, <1>9, <1>10, <1>11, <1>12, <1>13, <1>14 DEF NFTInv

\* A loan that is funded or repaid.
LEMMA LoanRevised ==
  ASSUME NFTInv, NEW i \in 1 .. Len(loans), NEW r \in LoanRecord, r.token = loans[i].token,
         r.borrower = loans[i].borrower, r.amount = loans[i].amount,
         loans[i].repaid => r.repaid, r.liquidated = loans[i].liquidated,
         loans' = [loans EXCEPT ![i] = r], UNCHANGED besideLoans, UNCHANGED collateralOf,
         UNCHANGED liquidationVars
  PROVE  /\ CountsInv' => NFTInv'
         /\ Len(loans') = Len(loans) /\ \A x \in 1 .. Len(loans) : loans'[x] = IF x = i THEN r ELSE loans[x]
         /\ OwnersStay /\ SuppliesStay /\ StatisticsStay /\ SharesStay /\ UseStays /\ BidsStay /\ RecordsKept
         /\ UNCHANGED listingVars /\ UNCHANGED offerVars /\ trades' = trades /\ nfts' = nfts
<1>1. /\ loans' \in Seq(LoanOf(Len(nfts))) /\ Len(loans') = Len(loans)
      /\ \A x \in 1 .. Len(loans) : loans'[x] = IF x = i THEN r ELSE loans[x]
  BY LoanChanges
<1>2. /\ AdminTypeOK' /\ TokensInv' /\ SwitchInv' /\ MarketInv' /\ FractionalTypeOK' /\ ValuesInv'
      /\ OwnersStay /\ SuppliesStay /\ StatisticsStay /\ SharesStay /\ UseStays
      /\ UNCHANGED listingVars /\ UNCHANGED offerVars /\ trades' = trades /\ nfts' = nfts
  BY BesideLoans
<1>3. PledgeInv' /\ LiquidationInv'
  BY <1>1, PartsStay
<1>4. LoansInv'
  BY <1>1, <1>2 DEF NFTInv, LoansInv
<1>5. BidsStay /\ RecordsKept
  BY <1>1, SizesTyped DEF BidsStay, RecordsKept, liquidationVars
<1>6. QED
  BY <1>1, <1>2, <1>3, <1>4, <1>5 DEF NFTInv

LEMMA FundLoanStep ==
  ASSUME NFTInv, NEW a \in Addresses, NEW i \in DOMAIN loans, FundLoan(a, i), UNCHANGED adminVars
  PROVE  /\ NFTInv' /\ LoanStarted(i, a) /\ trades' = trades /\ nfts' = nfts
         /\ OwnersStay /\ SuppliesStay /\ StatisticsStay /\ ListingsStay /\ OffersStay /\ SharesStay
         /\ UseStays /\ BidsStay /\ RecordsKept
<1> DEFINE old == loans[i]
           pay == old.amount + Interest(old.amount, old.bps, old.duration)
           end == now + old.duration
           r == [old EXCEPT !.lender = a, !.start = now, !.active = TRUE, !.due = end, !.repayment = pay]
<1>1. i \in 1 .. Len(loans) /\ old \in LoanRecord /\ now \in Nat
  BY SizesTyped, EntriesTyped DEF NFTInv, AdminTypeOK
<1>2. old.amount \in Nat /\ old.bps \in Nat /\ old.duration \in Nat /\ old.borrower \in Addresses
  BY <1>1 DEF LoanRecord
<1>3. Interest(old.amount, old.bps, old.duration) \in Nat
  BY <1>2, InterestTyped
<1>4. pay \in Nat /\ end \in Nat
  BY <1>1, <1>2, <1>3
<1>5. /\ loans' = [loans EXCEPT ![i] = r] /\ ~old.active /\ old.borrower # a
      /\ portfolio' = [portfolio EXCEPT ![old.borrower].loansTaken = @ + 1, ![a].loansGiven = @ + 1]
      /\ UNCHANGED besideLoans /\ UNCHANGED activeLoans /\ UNCHANGED collateralOf
      /\ UNCHANGED liquidationVars
  BY DEF FundLoan, besideLoans
<1> HIDE DEF pay, end, old
<1>6. /\ r \in LoanRecord /\ r.token = old.token /\ r.borrower = old.borrower /\ r.amount = old.amount
      /\ r.repaid = old.repaid /\ r.liquidated = old.liquidated /\ r.active = TRUE /\ r.lender = a
  BY <1>1, <1>4 DEF LoanRecord
<1> HIDE DEF r
<1>7. /\ CountsInv' => NFTInv'
      /\ Len(loans') = Len(loans) /\ \A x \in 1 .. Len(loans) : loans'[x] = IF x = i THEN r ELSE loans[x]
      /\ OwnersStay /\ SuppliesStay /\ StatisticsStay /\ SharesStay /\ UseStays /\ BidsStay /\ RecordsKept
      /\ UNCHANGED listingVars /\ UNCHANGED offerVars /\ trades' = trades /\ nfts' = nfts
  BY <1>1, <1>5, <1>6, LoanRevised DEF old
<1>8. PortfolioAs(portfolio', ListingsNow, OffersNow,
                  [TakenNow EXCEPT ![old.borrower] = @ + 1], [GivenNow EXCEPT ![a] = @ + 1])
  BY <1>2, <1>5, LoanCredited
<1>9. LoanStarted(i, a)
  BY <1>1, <1>5, <1>6, <1>7, <1>8 DEF LoanStarted, old
<1>10. CountsInv' /\ ListingsStay /\ OffersStay
  BY <1>5, <1>7, <1>9, LoanStartCounts
<1>11. QED
  BY <1>7, <1>9, <1>10

LEMMA RepayLoanStep ==
  ASSUME NFTInv, NEW a \in Addresses, NEW i \in DOMAIN loans, NEW n \in LoanAmounts, RepayLoan(a, i, n),
         UNCHANGED adminVars
  PROVE  /\ NFTInv' /\ LoanEnded(i) /\ trades' = trades /\ nfts' = nfts
         /\ OwnersStay /\ SuppliesStay /\ StatisticsStay /\ ListingsStay /\ OffersStay /\ SharesStay
         /\ UseStays /\ BidsStay /\ RecordsKept
<1> DEFINE old == loans[i]
           r == [old EXCEPT !.repaid = TRUE, !.active = FALSE]
<1>1. i \in 1 .. Len(loans) /\ old \in LoanRecord /\ old.borrower \in Addresses /\ old.lender \in Addresses
  BY SizesTyped, EntriesTyped, PartiesTyped
<1>2. /\ loans' = [loans EXCEPT ![i] = r] /\ old.active /\ portfolio' = LoanEnds(i)
      /\ activeLoans' = Less(activeLoans)
      /\ UNCHANGED besideLoans /\ UNCHANGED collateralOf /\ UNCHANGED liquidationVars
  BY DEF RepayLoan, Outstanding, besideLoans
<1> HIDE DEF old
<1>3. /\ r \in LoanRecord /\ r.token = old.token /\ r.borrower = old.borrower /\ r.amount = old.amount
      /\ r.repaid = TRUE /\ r.liquidated = old.liquidated /\ r.active = FALSE /\ r.lender = old.lender
  BY <1>1 DEF LoanRecord
<1> HIDE DEF r
<1>4. /\ CountsInv' => NFTInv'
      /\ Len(loans') = Len(loans) /\ \A x \in 1 .. Len(loans) : loans'[x] = IF x = i THEN r ELSE loans[x]
      /\ OwnersStay /\ SuppliesStay /\ StatisticsStay /\ SharesStay /\ UseStays /\ BidsStay /\ RecordsKept
      /\ UNCHANGED listingVars /\ UNCHANGED offerVars /\ trades' = trades /\ nfts' = nfts
  BY <1>1, <1>2, <1>3, LoanRevised DEF old
<1>5. PortfolioAs(portfolio', ListingsNow, OffersNow,
                  [TakenNow EXCEPT ![old.borrower] = Less(@)], [GivenNow EXCEPT ![old.lender] = Less(@)])
  BY <1>1, <1>2, LoanCredited DEF LoanEnds, old
<1>6. LoanEnded(i)
  BY <1>1, <1>2, <1>3, <1>4, <1>5 DEF LoanEnded, old
<1>7. activeLoans' \in Nat
  BY <1>2, LessTyped DEF NFTInv, CountsInv
<1>8. CountsInv' /\ ListingsStay /\ OffersStay
  BY <1>4, <1>6, <1>7, LoanEndCounts
<1>9. QED
  BY <1>4, <1>6, <1>8

-----------------------------------------------------------------------------
(* Liquidations *)

besideSeizure == << adminVars, collections, switchVars, marketVars, shareVars, collateralOf, valueVars >>

LEMMA SeizeStep ==
  ASSUME NFTInv, NEW i \in 1 .. Len(loans), NEW a \in Addresses, Outstanding(i), Seize(i, a),
         activeLoans' \in Nat, UNCHANGED besideSeizure
  PROVE  /\ LiquidationInv' => NFTInv'
         /\ LoanEnded(i) /\ loans[i].token \in 1 .. Len(nfts) /\ TransferOwnership(loans[i].token, a)
         /\ loans'[i].liquidated /\ trades' = trades /\ RecordsKept
         /\ SuppliesStay /\ StatisticsStay /\ ListingsStay /\ OffersStay /\ SharesStay /\ UseStays
<1> DEFINE t == loans[i].token
           r == [loans[i] EXCEPT !.liquidated = TRUE, !.active = FALSE]
<1>1. /\ TransferOwnership(t, a) /\ t \in 1 .. Len(nfts)
      /\ loans' \in Seq(LoanOf(Len(nfts))) /\ Len(loans') = Len(loans)
      /\ \A x \in 1 .. Len(loans) : loans'[x] = IF x = i THEN r ELSE loans[x]
      /\ PortfolioAs(portfolio', ListingsNow, OffersNow, [TakenNow EXCEPT ![loans[i].borrower] = Less(@)],
                     [GivenNow EXCEPT ![loans[i].lender] = Less(@)])
  BY Seizes
<1>2. loans[i] \in LoanRecord
  BY EntriesTyped
<1>3. /\ r.token = t /\ r.borrower = loans[i].borrower /\ r.lender = loans[i].lender
      /\ r.amount = loans[i].amount /\ r.repaid = loans[i].repaid /\ r.liquidated = TRUE /\ r.active = FALSE
  BY <1>2 DEF LoanRecord
<1> HIDE DEF r, t
<1>4. LoanEnded(i)
  BY <1>1, <1>3 DEF LoanEnded, Outstanding
<1>5. RecordsKept /\ loans'[i].liquidated
  BY <1>1, <1>3, SizesTyped DEF RecordsKept, t
<1>6. /\ UNCHANGED adminVars /\ UNCHANGED collections /\ UNCHANGED switchVars /\ UNCHANGED marketVars
      /\ UNCHANGED shareVars /\ UNCHANGED collateralOf /\ UNCHANGED valueVars
      /\ UNCHANGED listingVars /\ UNCHANGED offerVars /\ trades' = trades /\ listings' = listings
  BY DEF besideSeizure, marketVars, listingVars
<1>7. CountsInv' /\ ListingsStay /\ OffersStay
  BY <1>4, <1>6, LoanEndCounts
<1>8. /\ nfts' \in Seq(NFTOf(Len(collections))) /\ Len(nfts') = Len(nfts)
      /\ \A x \in 1 .. Len(nfts) :
           /\ nfts'[x].collection = nfts[x].collection
           /\ nfts'[x].fractional = nfts[x].fractional
           /\ nfts'[x].supply = nfts[x].supply /\ nfts'[x].circulating = nfts[x].circulating
      /\ ownerTokens' \in [Addresses -> Seq(Nat)]
  BY <1>1, OwnershipMoves
<1>9. TokensInv'
  BY <1>6, <1>8 DEF NFTInv, TokensInv
<1>10. AdminTypeOK' /\ SwitchInv' /\ MarketInv' /\ PledgeInv' /\ FractionalTypeOK' /\ ValuesInv'
  BY <1>6, <1>8, PartsStay
<1>11. LoansInv'
  BY <1>1, <1>8 DEF NFTInv, LoansInv
<1>12. SuppliesStay /\ StatisticsStay /\ SharesStay /\ UseStays
  <2>1. Len(nfts') >= Len(nfts) /\ \A x \in Len(nfts) + 1 .. Len(nfts') : FALSE
    BY <1>8, SizesTyped
  <2>2. QED
    BY <1>6, <1>8, <2>1 DEF SuppliesStay, StatisticsStay, SharesStay, UseStays
<1>13. QED
  BY <1>1, <1>4, <1>5, <1>6, <1>7, <1>9, <1>10, <1>11, <1>12 DEF NFTInv, t

LEMMA LoanPlaces ==
  ASSUME NFTInv
  PROVE  MaxLoans \in Nat /\ Len(loans) <= MaxLoans /\ \A i \in 1 .. Len(loans) : i \in 1 .. MaxLoans
<1>1. MaxLoans \in Nat /\ Len(loans) \in Nat /\ Len(loans) <= MaxLoans
  BY SizesTyped, LendingAssumption DEF NFTInv, LoansInv
<1>2. QED
  BY <1>1

LEMMA BidsKept ==
  ASSUME NFTInv, LoansInv', BidsStay, QueueSound
  PROVE  QueueSound'
<1>1. DOMAIN loans = 1 .. Len(loans) /\ Len(loans) \in Nat
  BY SizesTyped
<1>2. Len(loans') \in Nat /\ DOMAIN loans' = 1 .. Len(loans')
  BY LenProperties DEF LoansInv
<1>3. /\ queue' = queue /\ bestBid' = bestBid /\ Len(loans) <= Len(loans')
      /\ \A i \in 1 .. Len(loans) : loans'[i].borrower = loans[i].borrower
  BY <1>1, <1>2 DEF BidsStay
<1>4. \A i \in 1 .. MaxLoans : bestBid[i] # NoBid => i \in 1 .. Len(loans) /\ bestBid[i].bidder # loans[i].borrower
  BY <1>1 DEF QueueSound
<1>5. \A i \in 1 .. Len(loans) : i \in 1 .. Len(loans')
  BY <1>1, <1>2, <1>3
<1>6. QED
  BY <1>2, <1>3, <1>4, <1>5 DEF QueueSound

LEMMA InjectiveEnd ==
  ASSUME NEW T, NEW list \in Seq(T), IsInjective(list), NEW x \in T, x \notin ToSet(list)
  PROVE  Append(list, x) \in Seq(T) /\ IsInjective(Append(list, x))
<1>1. Lists(list, ToSet(list))
  BY DEF Lists
<1>2. QED
  BY <1>1, ListsAppend DEF Lists

LEMMA InjectiveJoin ==
  ASSUME NEW T, NEW s1 \in Seq(T), NEW s2 \in Seq(T), IsInjective(s1), IsInjective(s2),
         \A i \in 1 .. Len(s1), j \in 1 .. Len(s2) : s1[i] # s2[j]
  PROVE  s1 \o s2 \in Seq(T) /\ IsInjective(s1 \o s2)
<1> DEFINE r == s1 \o s2
           m == Len(s1)
           n == Len(s2)
<1>1. m \in Nat /\ n \in Nat /\ DOMAIN s1 = 1 .. m /\ DOMAIN s2 = 1 .. n
  BY LenProperties
<1>2. r \in Seq(T) /\ Len(r) = m + n
      /\ \A i \in 1 .. m + n : r[i] = IF i <= m THEN s1[i] ELSE s2[i - m]
  BY ConcatProperties
<1>3. DOMAIN r = 1 .. m + n
  BY <1>2, LenProperties
<1> HIDE DEF r
<1>4. ASSUME NEW i \in 1 .. m + n, NEW j \in 1 .. m + n, r[i] = r[j] PROVE i = j
  <2>1. CASE i <= m /\ j <= m
    <3>1. i \in 1 .. m /\ j \in 1 .. m /\ s1[i] = s1[j]
      BY <1>1, <1>2, <1>4, <2>1
    <3>2. QED
      BY <1>1, <3>1 DEF IsInjective
  <2>2. CASE ~(i <= m) /\ ~(j <= m)
    <3>1. i - m \in 1 .. n /\ j - m \in 1 .. n /\ s2[i - m] = s2[j - m]
      BY <1>1, <1>2, <1>4, <2>2
    <3>2. i - m = j - m
      BY <1>1, <3>1 DEF IsInjective
    <3>3. QED
      BY <1>1, <3>2
  <2>3. CASE i <= m /\ ~(j <= m)
    <3>1. i \in 1 .. m /\ j - m \in 1 .. n /\ s1[i] = s2[j - m]
      BY <1>1, <1>2, <1>4, <2>3
    <3>2. QED
      BY <3>1
  <2>4. CASE ~(i <= m) /\ j <= m
    <3>1. j \in 1 .. m /\ i - m \in 1 .. n /\ s1[j] = s2[i - m]
      BY <1>1, <1>2, <1>4, <2>4
    <3>2. QED
      BY <3>1
  <2>5. QED
    BY <2>1, <2>2, <2>3, <2>4
<1>5. QED
  BY <1>2, <1>3, <1>4 DEF IsInjective, r

\* An interval of a list.
LEMMA InjectivePart ==
  ASSUME NEW T, NEW s \in Seq(T), IsInjective(s), NEW a \in Nat, NEW b \in Nat, 1 <= a, b <= Len(s)
  PROVE  /\ SubSeq(s, a, b) \in Seq(T) /\ IsInjective(SubSeq(s, a, b))
         /\ Len(SubSeq(s, a, b)) = IF a <= b THEN b - a + 1 ELSE 0
         /\ \A i \in 1 .. Len(SubSeq(s, a, b)) : a + i - 1 \in a .. b /\ SubSeq(s, a, b)[i] = s[a + i - 1]
<1> DEFINE r == SubSeq(s, a, b)
<1>1. Len(s) \in Nat /\ DOMAIN s = 1 .. Len(s) /\ \A i \in 1 .. Len(s) : s[i] \in T
  BY LenProperties, ElementOfSeq
<1>2. \A i \in a .. b : i \in 1 .. Len(s) /\ s[i] \in T
  BY <1>1
<1>3. /\ r \in Seq(T) /\ Len(r) = IF a <= b THEN b - a + 1 ELSE 0
      /\ \A i \in 1 .. b - a + 1 : r[i] = s[a + i - 1]
  BY <1>2, SubSeqProperties
<1>4. DOMAIN r = 1 .. Len(r)
  BY <1>3, LenProperties
<1> HIDE DEF r
<1>5. \A i \in 1 .. Len(r) : i \in Nat /\ i \in 1 .. b - a + 1 /\ a + i - 1 \in a .. b
  BY <1>3
<1>6. \A i \in 1 .. Len(r) : a + i - 1 \in 1 .. Len(s) /\ r[i] = s[a + i - 1]
  BY <1>2, <1>3, <1>5
<1>7. IsInjective(r)
  <2>1. ASSUME NEW i \in 1 .. Len(r), NEW j \in 1 .. Len(r), r[i] = r[j] PROVE i = j
    <3>1. a + i - 1 = a + j - 1
      BY <1>1, <1>6, <2>1 DEF IsInjective
    <3>2. QED
      BY <1>5, <3>1
  <2>2. QED
    BY <1>4, <2>1 DEF IsInjective
<1>8. QED
  BY <1>3, <1>5, <1>6, <1>7 DEF r

LEMMA InjectiveWithout ==
  ASSUME NEW T, NEW s \in Seq(T), IsInjective(s), NEW k \in 1 .. Len(s)
  PROVE  RemoveAt(s, k) \in Seq(T) /\ IsInjective(RemoveAt(s, k))
<1> DEFINE s1 == SubSeq(s, 1, k - 1)
           s2 == SubSeq(s, k + 1, Len(s))
<1>1. Len(s) \in Nat /\ DOMAIN s = 1 .. Len(s) /\ k - 1 \in Nat /\ k + 1 \in Nat /\ k - 1 <= Len(s)
  BY LenProperties
<1>2. /\ s1 \in Seq(T) /\ IsInjective(s1)
      /\ \A i \in 1 .. Len(s1) : 1 + i - 1 \in 1 .. k - 1 /\ s1[i] = s[1 + i - 1]
  BY <1>1, InjectivePart
<1>3. /\ s2 \in Seq(T) /\ IsInjective(s2)
      /\ \A j \in 1 .. Len(s2) : k + 1 + j - 1 \in k + 1 .. Len(s) /\ s2[j] = s[k + 1 + j - 1]
  <2>1. 1 <= k + 1 /\ Len(s) <= Len(s)
    BY <1>1
  <2>2. QED
    BY <1>1, <2>1, InjectivePart
<1> HIDE DEF s1, s2
<1>4. ASSUME NEW i \in 1 .. Len(s1), NEW j \in 1 .. Len(s2) PROVE s1[i] # s2[j]
  <2> DEFINE x == 1 + i - 1
             y == k + 1 + j - 1
  <2>1. x \in 1 .. k - 1 /\ s1[i] = s[x] /\ y \in k + 1 .. Len(s) /\ s2[j] = s[y]
    BY <1>2, <1>3
  <2> HIDE DEF x, y
  <2>2. x \in 1 .. Len(s) /\ y \in 1 .. Len(s) /\ x # y
    BY <1>1, <2>1
  <2>3. s[x] # s[y]
    BY <1>1, <2>2 DEF IsInjective
  <2>4. QED
    BY <2>1, <2>3
<1>5. s1 \o s2 \in Seq(T) /\ IsInjective(s1 \o s2)
  BY <1>2, <1>3, <1>4, InjectiveJoin
<1>6. QED
  BY <1>5 DEF RemoveAt, s1, s2

LEMMA LiquidateLoanStep ==
  ASSUME NFTInv, NEW i \in DOMAIN loans, LiquidateLoan(i), UNCHANGED adminVars
  PROVE  /\ NFTInv' /\ LoanEnded(i) /\ Outstanding(i) /\ now > loans[i].due + GracePeriod
         /\ loans[i].token \in 1 .. Len(nfts) /\ TransferOwnership(loans[i].token, loans[i].lender)
         /\ loans[i].lender \in Addresses /\ loans'[i].liquidated /\ trades' = trades /\ RecordsKept
         /\ SuppliesStay /\ StatisticsStay /\ ListingsStay /\ OffersStay /\ SharesStay /\ UseStays
         /\ BidsStay
<1> DEFINE a == loans[i].lender
<1>1. i \in 1 .. Len(loans) /\ a \in Addresses
  BY SizesTyped, PartiesTyped
<1>2. /\ Outstanding(i) /\ now > loans[i].due + GracePeriod /\ Seize(i, a)
      /\ activeLoans' = Less(activeLoans)
      /\ UNCHANGED besideSeizure /\ UNCHANGED liquidationVars
  BY DEF LiquidateLoan, besideSeizure
<1> HIDE DEF a
<1>3. activeLoans' \in Nat
  BY <1>2, LessTyped DEF NFTInv, CountsInv
<1>4. /\ LiquidationInv' => NFTInv'
      /\ LoanEnded(i) /\ loans[i].token \in 1 .. Len(nfts) /\ TransferOwnership(loans[i].token, a)
      /\ loans'[i].liquidated /\ trades' = trades /\ RecordsKept
      /\ SuppliesStay /\ StatisticsStay /\ ListingsStay /\ OffersStay /\ SharesStay /\ UseStays
  BY <1>1, <1>2, <1>3, SeizeStep
<1>5. Len(loans') = Len(loans)
  BY <1>4 DEF LoanEnded
<1>6. LiquidationInv'
  BY <1>2, <1>5, PartsStay
<1>7. BidsStay
  BY <1>2, <1>4, <1>5, SizesTyped DEF BidsStay, RecordsKept, liquidationVars
<1>8. QED
  BY <1>1, <1>2, <1>4, <1>6, <1>7 DEF a

\* The queue or the bids change, and nothing else.
besideBids == << adminVars, storageVars, marketVars, shareVars, loanVars, valueVars >>

LEMMA BesideBids ==
  ASSUME NFTInv, UNCHANGED besideBids
  PROVE  /\ LiquidationInv' => NFTInv'
         /\ OwnersStay /\ SuppliesStay /\ StatisticsStay /\ ListingsStay /\ OffersStay /\ SharesStay
         /\ LoansStay /\ UseStays /\ RecordsKept /\ loans' = loans /\ trades' = trades
<1>1. /\ UNCHANGED adminVars /\ UNCHANGED tokenVars /\ UNCHANGED portfolio /\ UNCHANGED switchVars
      /\ UNCHANGED marketVars /\ UNCHANGED shareVars /\ UNCHANGED loans /\ UNCHANGED activeLoans
      /\ UNCHANGED collateralOf /\ UNCHANGED valueVars
  BY DEF besideBids, storageVars, loanVars
<1>2. /\ UNCHANGED listingVars /\ UNCHANGED offerVars /\ UNCHANGED trades /\ UNCHANGED listings
      /\ UNCHANGED nfts
  BY <1>1 DEF marketVars, listingVars, tokenVars
<1>3. AdminTypeOK' /\ TokensInv' /\ CountsInv' /\ SwitchInv' /\ MarketInv' /\ PledgeInv' /\ FractionalTypeOK'
      /\ LoansInv' /\ ValuesInv'
  BY <1>1, <1>2, PartsStay DEF listingVars, offerVars
<1>4. OwnersStay /\ SuppliesStay /\ StatisticsStay /\ ListingsStay /\ OffersStay /\ SharesStay
      /\ LoansStay /\ UseStays
  BY <1>1, <1>2, UnchangedStays
<1>5. QED
  BY <1>1, <1>2, <1>3, <1>4, SameRecords DEF NFTInv

LEMMA BidsSound ==
  ASSUME NFTInv, QueueSound
  PROVE  /\ queue \in Seq(1 .. Len(loans)) /\ IsInjective(queue)
         /\ \A i \in 1 .. MaxLoans : bestBid[i] # NoBid =>
              i \in 1 .. Len(loans) /\ bestBid[i].bidder # loans[i].borrower
BY SizesTyped DEF QueueSound, NFTInv, LiquidationInv

LEMMA EnqueueStep ==
  ASSUME NFTInv, NEW i \in DOMAIN loans, EnqueueLiquidation(i), UNCHANGED adminVars
  PROVE  /\ NFTInv' /\ UNCHANGED besideBids /\ (QueueSound => QueueSound')
<1>1. i \in 1 .. Len(loans) /\ UNCHANGED besideBids /\ bestBid' = bestBid
      /\ queue' = IF i \in ToSet(queue) THEN queue ELSE Append(queue, i)
  BY SizesTyped DEF EnqueueLiquidation, besideBids
<1>2. loans' = loans /\ (LiquidationInv' => NFTInv')
  BY <1>1, BesideBids
<1>3. queue \in Seq(1 .. Len(loans)) /\ Append(queue, i) \in Seq(1 .. Len(loans))
  BY <1>1, AppendProperties DEF NFTInv, LiquidationInv
<1>4. LiquidationInv'
  BY <1>1, <1>2, <1>3 DEF NFTInv, LiquidationInv
<1>5. ASSUME QueueSound PROVE QueueSound'
  <2>1. IsInjective(queue) /\ (i \notin ToSet(queue) => IsInjective(Append(queue, i)))
    BY <1>1, <1>3, <1>5, BidsSound, InjectiveEnd
  <2>2. IsInjective(queue')
    BY <1>1, <2>1
  <2>3. QED
    BY <1>1, <1>2, <1>5, <2>2 DEF QueueSound
<1>6. QED
  BY <1>1, <1>2, <1>4, <1>5

LEMMA PlaceLiquidationBidStep ==
  ASSUME NFTInv, NEW a \in Addresses, NEW i \in DOMAIN loans, NEW n \in LiquidationBids,
         PlaceLiquidationBid(a, i, n), UNCHANGED adminVars
  PROVE  /\ NFTInv' /\ UNCHANGED besideBids /\ (QueueSound => QueueSound')
<1> DEFINE e == [bidder |-> a, amount |-> n]
<1>1. i \in 1 .. Len(loans) /\ i \in 1 .. MaxLoans /\ n \in Nat
  <2>1. i \in 1 .. Len(loans)
    BY SizesTyped
  <2>2. n \in Nat
    BY LendingAssumption
  <2>3. QED
    BY <2>1, <2>2, LoanPlaces
<1>2. UNCHANGED besideBids /\ queue' = queue /\ loans[i].borrower # a /\ bestBid' = [bestBid EXCEPT ![i] = e]
  BY DEF PlaceLiquidationBid, besideBids
<1>3. e \in BidRecord /\ e.bidder = a
  BY <1>1 DEF BidRecord
<1>4. loans' = loans /\ (LiquidationInv' => NFTInv')
  BY <1>2, BesideBids
<1> HIDE DEF e
<1>5. bestBid \in [1 .. MaxLoans -> BidRecord]
  BY DEF NFTInv, LiquidationInv
<1>6. bestBid' \in [1 .. MaxLoans -> BidRecord] /\ \A x \in 1 .. MaxLoans : bestBid'[x] = IF x = i THEN e ELSE bestBid[x]
  BY <1>2, <1>3, <1>5
<1>7. LiquidationInv'
  BY <1>1, <1>2, <1>3, <1>4, <1>6 DEF NFTInv, LiquidationInv
<1>8. QueueSound => QueueSound'
  BY <1>1, <1>2, <1>3, <1>4, <1>6, SizesTyped DEF QueueSound
<1>9. QED
  BY <1>2, <1>4, <1>7, <1>8

LEMMA MonitorStep ==
  ASSUME NFTInv, MonitorAndQueue, UNCHANGED adminVars
  PROVE  /\ NFTInv' /\ UNCHANGED besideBids /\ (QueueSound => QueueSound')
<1> DEFINE n == Len(loans)
           wanting == {i \in DOMAIN loans : Undercollateralized(i) /\ i \notin ToSet(queue)}
           all == [i \in 1 .. n |-> i]
           sorted == Only(all, wanting)
           k == Shorter(Len(sorted), MaxQueue)
           added == SubSeq(sorted, 1, k)
<1>1. n \in Nat /\ queue \in Seq(1 .. n) /\ DOMAIN queue = 1 .. Len(queue)
  BY SizesTyped DEF NFTInv, LiquidationInv
<1>2. all \in Seq(1 .. n) /\ Len(all) = n
  <2>1. all \in [1 .. n -> 1 .. n]
    OBVIOUS
  <2>2. QED
    BY <1>1, <2>1, BuiltTyped
<1>3. UNCHANGED besideBids /\ bestBid' = bestBid /\ queue' = queue \o added
  BY DEF MonitorAndQueue, besideBids
<1>4. \A i \in 1 .. n : all[i] = i
  OBVIOUS
<1>5. \A i \in wanting : i \notin ToSet(queue)
  OBVIOUS
<1> HIDE DEF all, wanting
<1>6. sorted \in Seq(1 .. n) /\ \E h : Picks(all, wanting, n, sorted, h)
  BY <1>2, OnlyPicks
<1> HIDE DEF sorted
<1>7. PICK h : Picks(all, wanting, n, sorted, h)
  BY <1>6
<1>8. Len(sorted) \in Nat /\ DOMAIN sorted = 1 .. Len(sorted)
  BY <1>6, LenProperties
<1>9. \A i \in 1 .. Len(sorted) : h[i] \in 1 .. n /\ sorted[i] = h[i] /\ sorted[i] \in wanting
  BY <1>4, <1>7 DEF Picks
<1>10. IsInjective(sorted)
  <2>1. ASSUME NEW i \in 1 .. Len(sorted), NEW j \in 1 .. Len(sorted), sorted[i] = sorted[j] PROVE i = j
    <3>1. h[i] = h[j] /\ h[i] \in Nat
      BY <1>1, <1>9, <2>1
    <3>2. (i < j => h[i] < h[j]) /\ (j < i => h[j] < h[i])
      BY <1>7 DEF Picks
    <3>3. QED
      BY <1>8, <3>1, <3>2
  <2>2. QED
    BY <1>8, <2>1 DEF IsInjective
<1>11. k \in Nat /\ k <= Len(sorted)
  BY <1>8, LendingAssumption DEF Shorter
<1> HIDE DEF k
<1>12. /\ added \in Seq(1 .. n) /\ IsInjective(added)
       /\ \A i \in 1 .. Len(added) : 1 + i - 1 \in 1 .. k /\ added[i] = sorted[1 + i - 1]
  BY <1>6, <1>10, <1>11, InjectivePart
<1> HIDE DEF added
<1>13. \A i \in 1 .. Len(added) : added[i] \in wanting
  <2>1. \A j \in 1 .. k : j \in 1 .. Len(sorted)
    BY <1>8, <1>11
  <2>2. QED
    BY <1>9, <1>12, <2>1
<1>14. loans' = loans /\ (LiquidationInv' => NFTInv')
  BY <1>3, BesideBids
<1>15. queue \o added \in Seq(1 .. n)
  BY <1>1, <1>12, ConcatProperties
<1>16. LiquidationInv'
  BY <1>3, <1>14, <1>15 DEF NFTInv, LiquidationInv
<1>17. ASSUME QueueSound PROVE QueueSound'
  <2>1. \A i \in 1 .. Len(queue), j \in 1 .. Len(added) : queue[i] # added[j]
    BY <1>1, <1>5, <1>13 DEF ToSet
  <2>2. IsInjective(queue')
    BY <1>1, <1>3, <1>12, <1>17, <2>1, BidsSound, InjectiveJoin
  <2>3. QED
    BY <1>3, <1>14, <1>17, <2>2 DEF QueueSound
<1>18. QED
  BY <1>3, <1>14, <1>16, <1>17

\* What get_collateral_value and the loan-to-value ratio say.
LEMMA CollateralTyped ==
  ASSUME NFTInv, NEW t \in 1 .. Len(nfts)
  PROVE  CollateralValue(t) \in Nat
<1>1. /\ nfts[t].collection \in 1 .. Len(collections) /\ Len(collections) \in Nat /\ MaxCollections \in Nat
      /\ Len(collections) <= MaxCollections
  BY SizesTyped, EntriesTyped, NFTAssumption DEF NFTInv, TokensInv
<1>2. nfts[t].collection \in 1 .. MaxCollections
  BY <1>1
<1>3. t \in 1 .. MaxTokens
  BY SharesTyped
<1>4. floors[nfts[t].collection] \in Nat /\ valuations[t] \in [estimate : Nat, floor : Nat]
  BY <1>2, <1>3 DEF NFTInv, ValuesInv
<1>5. QED
  BY <1>4 DEF CollateralValue

LEMMA RatioAbove ==
  ASSUME NEW due \in Nat, NEW worth \in Nat, worth > 0, NEW bound \in Nat, 10000 <= bound,
         ((due * 10000) \div worth) % (MaxU32 + 1) > bound
  PROVE  worth < due
<1> DEFINE q == (due * 10000) \div worth
<1>1. due * 10000 \in Nat
  OBVIOUS
<1>2. q \in Nat /\ q * worth <= due * 10000
  BY <1>1, DivFloor, DivNat
<1>3. q % (MaxU32 + 1) <= q
  <2>1. MaxU32 + 1 \in Nat /\ MaxU32 + 1 > 0
    BY LendingAssumption
  <2> HIDE DEF q
  <2> DEFINE m == MaxU32 + 1
  <2>2. m \in Nat /\ m > 0
    BY <2>1
  <2> HIDE DEF m
  <2>3. q % m <= q
    BY <1>2, <2>2
  <2>4. QED
    BY <2>3 DEF m
<1>4. q % (MaxU32 + 1) \in Nat
  BY <1>2, LendingAssumption
<1>5. q > 10000
  BY <1>2, <1>3, <1>4
<1> HIDE DEF q
<1>6. 10001 * worth <= q * worth
  BY <1>2, <1>5, MulMono
<1>7. q * worth \in Nat
  BY <1>2, MulNat
<1>8. QED
  BY <1>2, <1>6, <1>7

\* The collateral of loan i is handed to account a.
Seized(i, a) ==
  /\ LoanEnded(i) /\ Outstanding(i) /\ loans'[i].liquidated
  /\ loans[i].token \in 1 .. Len(nfts) /\ a \in Addresses
  /\ TransferOwnership(loans[i].token, a)
  /\ a \in {loans[i].lender, bestBid[i].bidder}
  /\ \/ now > loans[i].due + GracePeriod
     \/ 0 < CollateralValue(loans[i].token) /\ CollateralValue(loans[i].token) < TotalDue(i)

\* What no liquidation touches.
LendingKeeps ==
  /\ SuppliesStay /\ StatisticsStay /\ ListingsStay /\ OffersStay /\ SharesStay /\ UseStays
  /\ RecordsKept /\ trades' = trades

besideExecution ==
  << adminVars, collections, switchVars, marketVars, shareVars, activeLoans, collateralOf, valueVars >>

LEMMA PartialStep ==
  ASSUME NFTInv, NEW i \in 1 .. Len(loans), PartialLiquidation(i), UNCHANGED besideExecution,
         queue' \in Seq(1 .. Len(loans))
  PROVE  /\ NFTInv' /\ LendingKeeps /\ OwnersStay /\ LoansStay
         /\ (QueueSound /\ IsInjective(queue') => QueueSound')
<1> DEFINE pay == TotalDue(i) - (TotalDue(i) * 5000) \div 10000
           r == [loans[i] EXCEPT !.repayment = pay]
<1>1. loans[i] \in LoanRecord
  BY EntriesTyped
<1>2. pay \in Nat
  <2> DEFINE d == TotalDue(i)
             h == (d * 5000) \div 10000
  <2>1. d \in Nat
    BY DueTyped
  <2> HIDE DEF d
  <2>2. d * 5000 \in Nat
    BY <2>1
  <2>3. h \in Nat /\ h * 10000 <= d * 5000
    BY <2>2, DivFloor, DivNat
  <2> HIDE DEF h
  <2>4. d - h \in Nat
    BY <2>1, <2>3
  <2>5. QED
    BY <2>4 DEF d, h
<1>3. /\ loans' = [loans EXCEPT ![i] = r]
      /\ UNCHANGED nfts /\ UNCHANGED ownerTokens /\ UNCHANGED portfolio /\ bestBid' = bestBid
  BY DEF PartialLiquidation
<1> HIDE DEF pay
<1>4. /\ r \in LoanRecord /\ r.token = loans[i].token /\ r.borrower = loans[i].borrower
      /\ r.lender = loans[i].lender /\ r.amount = loans[i].amount /\ r.repaid = loans[i].repaid
      /\ r.liquidated = loans[i].liquidated /\ r.active = loans[i].active
  BY <1>1, <1>2 DEF LoanRecord
<1> HIDE DEF r
<1>5. /\ loans' \in Seq(LoanOf(Len(nfts))) /\ Len(loans') = Len(loans)
      /\ \A x \in 1 .. Len(loans) : loans'[x] = IF x = i THEN r ELSE loans[x]
  BY <1>3, <1>4, LoanChanges
<1>6. UNCHANGED besideLoans /\ UNCHANGED activeLoans /\ UNCHANGED collateralOf
  BY <1>3 DEF besideExecution, besideLoans, tokenVars
<1>7. /\ AdminTypeOK' /\ TokensInv' /\ SwitchInv' /\ MarketInv' /\ FractionalTypeOK' /\ ValuesInv'
      /\ OwnersStay /\ SuppliesStay /\ StatisticsStay /\ SharesStay /\ UseStays
      /\ UNCHANGED listingVars /\ UNCHANGED offerVars /\ trades' = trades /\ nfts' = nfts
  BY <1>6, BesideLoans
<1>8. PledgeInv' /\ CountsInv' /\ ListingsStay /\ OffersStay
  BY <1>3, <1>6, <1>7, PartsStay, UnchangedStays DEF listingVars, offerVars
<1>9. LoansInv'
  BY <1>5, <1>7 DEF NFTInv, LoansInv
<1>10. LiquidationInv'
  BY <1>3, <1>5 DEF NFTInv, LiquidationInv
<1>11. /\ \A x \in 1 .. Len(loans) :
            /\ loans'[x].active = loans[x].active /\ loans'[x].borrower = loans[x].borrower
            /\ loans'[x].lender = loans[x].lender /\ loans'[x].token = loans[x].token
            /\ loans'[x].amount = loans[x].amount /\ loans'[x].repaid = loans[x].repaid
            /\ loans'[x].liquidated = loans[x].liquidated
  BY <1>4, <1>5
<1>12. LoansStay /\ RecordsKept
  BY <1>3, <1>5, <1>11, SizesTyped DEF LoansStay, RecordsKept
<1>13. ASSUME QueueSound, IsInjective(queue') PROVE QueueSound'
  <2>1. DOMAIN loans' = 1 .. Len(loans)
    BY <1>5, LenProperties
  <2>2. QED
    BY <1>3, <1>11, <1>13, <2>1, BidsSound DEF QueueSound
<1>14. QED
  BY <1>7, <1>8, <1>9, <1>10, <1>12, <1>13 DEF NFTInv, LendingKeeps

LEMMA FullStep ==
  ASSUME NFTInv, NEW i \in 1 .. Len(loans), Undercollateralized(i), FullLiquidation(i),
         UNCHANGED besideExecution, queue' \in Seq(1 .. Len(loans))
  PROVE  /\ NFTInv' /\ LendingKeeps /\ \E a : Seized(i, a)
         /\ (QueueSound /\ IsInjective(queue') => QueueSound')
<1> DEFINE a == IF bestBid[i] # NoBid THEN bestBid[i].bidder ELSE loans[i].lender
<1>1. /\ Seize(i, a) /\ LTV(i) > PartialLTV /\ bestBid' = [bestBid EXCEPT ![i] = NoBid]
      /\ Outstanding(i) /\ CollateralValue(loans[i].token) > 0
  BY DEF FullLiquidation, Undercollateralized
<1>2. i \in 1 .. MaxLoans /\ bestBid \in [1 .. MaxLoans -> BidRecord]
  BY LoanPlaces DEF NFTInv, LiquidationInv
<1>3. a \in Addresses /\ a \in {loans[i].lender, bestBid[i].bidder}
  BY <1>2, PartiesTyped DEF NFTInv, LiquidationInv
<1>4. UNCHANGED besideSeizure /\ activeLoans' \in Nat
  BY DEF besideExecution, besideSeizure, NFTInv, CountsInv
<1> HIDE DEF a
<1>5. /\ LiquidationInv' => NFTInv'
      /\ LoanEnded(i) /\ loans[i].token \in 1 .. Len(nfts) /\ TransferOwnership(loans[i].token, a)
      /\ loans'[i].liquidated /\ trades' = trades /\ RecordsKept
      /\ SuppliesStay /\ StatisticsStay /\ ListingsStay /\ OffersStay /\ SharesStay /\ UseStays
  BY <1>1, <1>3, <1>4, SeizeStep
<1>6. /\ Len(loans') = Len(loans) /\ \A x \in 1 .. Len(loans) : loans'[x].borrower = loans[x].borrower
  BY <1>5 DEF LoanEnded
<1>7. NoBid \in BidRecord
  BY DEF NoBid, BidRecord
<1>8. /\ bestBid' \in [1 .. MaxLoans -> BidRecord]
      /\ \A x \in 1 .. MaxLoans : bestBid'[x] = IF x = i THEN NoBid ELSE bestBid[x]
  BY <1>1, <1>2, <1>7
<1>9. LiquidationInv'
  BY <1>6, <1>8 DEF NFTInv, LiquidationInv
<1>10. CollateralValue(loans[i].token) < TotalDue(i)
  <2> DEFINE worth == CollateralValue(loans[i].token)
             due == TotalDue(i)
  <2>1. worth \in Nat /\ due \in Nat /\ worth > 0
    BY <1>1, <1>5, CollateralTyped, DueTyped
  <2>2. ((due * 10000) \div worth) % (MaxU32 + 1) > PartialLTV
    BY <1>1 DEF LTV
  <2> HIDE DEF worth, due
  <2>3. PartialLTV \in Nat /\ 10000 <= PartialLTV
    BY LendingAssumption
  <2>4. worth < due
    BY <2>1, <2>2, <2>3, RatioAbove
  <2>5. QED
    BY <2>4 DEF worth, due
<1>11. Seized(i, a)
  BY <1>1, <1>3, <1>5, <1>10 DEF Seized
<1>12. ASSUME QueueSound, IsInjective(queue') PROVE QueueSound'
  <2>1. DOMAIN loans' = 1 .. Len(loans')
    BY <1>5, <1>9, LenProperties DEF NFTInv, LoansInv
  <2>2. QED
    BY <1>6, <1>8, <1>12, <2>1, BidsSound DEF QueueSound
<1>13. QED
  BY <1>5, <1>9, <1>11, <1>12 DEF LendingKeeps

LEMMA ExecuteStep ==
  ASSUME NFTInv, NEW i \in DOMAIN loans, ExecuteLiquidation(i), UNCHANGED adminVars
  PROVE  /\ NFTInv' /\ LendingKeeps /\ (QueueSound => QueueSound')
         /\ (OwnersStay /\ LoansStay) \/ \E j, a : Seized(j, a)
<1>1. /\ Undercollateralized(i) /\ (PartialLiquidation(i) \/ FullLiquidation(i))
      /\ UNCHANGED besideExecution /\ queue' = queue
  BY DEF ExecuteLiquidation, besideExecution
<1>2. i \in 1 .. Len(loans) /\ queue' \in Seq(1 .. Len(loans))
  BY <1>1, SizesTyped DEF NFTInv, LiquidationInv
<1>3. QueueSound => IsInjective(queue')
  BY <1>1 DEF QueueSound
<1>4. CASE PartialLiquidation(i)
  BY <1>1, <1>2, <1>3, <1>4, PartialStep
<1>5. CASE FullLiquidation(i)
  BY <1>1, <1>2, <1>3, <1>5, FullStep
<1>6. QED
  BY <1>1, <1>4, <1>5

LEMMA ProcessQueueStep ==
  ASSUME NFTInv, ProcessQueue, UNCHANGED adminVars
  PROVE  /\ NFTInv' /\ LendingKeeps /\ (QueueSound => QueueSound')
         /\ (OwnersStay /\ LoansStay) \/ \E j, a : Seized(j, a)
<1> DEFINE due == {k \in DOMAIN queue : Undercollateralized(queue[k])}
           k == Min(due)
           i == queue[k]
<1>1. /\ due # {} /\ (PartialLiquidation(i) \/ FullLiquidation(i))
      /\ UNCHANGED besideExecution /\ queue' = RemoveAt(queue, k)
  BY DEF ProcessQueue, besideExecution
<1>2. DOMAIN queue = 1 .. Len(queue) /\ queue \in Seq(1 .. Len(loans))
  BY SizesTyped DEF NFTInv, LiquidationInv
<1>3. due \subseteq Nat
  BY <1>2
<1>4. k \in due
  <2> HIDE DEF due
  <2>1. \E x \in due : \A y \in due : x <= y
    BY <1>1, <1>3, LeastNatural
  <2>2. QED
    BY <2>1 DEF Min
<1>5. k \in 1 .. Len(queue) /\ Undercollateralized(i) /\ i \in 1 .. Len(loans)
  BY <1>2, <1>4, EntriesTyped
<1> HIDE DEF due, k, i
<1>6. queue' \in Seq(1 .. Len(loans))
  <2> DEFINE s1 == SubSeq(queue, 1, k - 1)
             s2 == SubSeq(queue, k + 1, Len(queue))
  <2>1. Len(queue) \in Nat /\ k \in Nat /\ \A x \in 1 .. Len(queue) : queue[x] \in 1 .. Len(loans)
    BY <1>5, SizesTyped, EntriesTyped
  <2>2. \A x \in 1 .. k - 1 : queue[x] \in 1 .. Len(loans)
    BY <1>5, <2>1
  <2>3. \A x \in k + 1 .. Len(queue) : queue[x] \in 1 .. Len(loans)
    BY <1>5, <2>1
  <2>4. s1 \in Seq(1 .. Len(loans))
    BY <2>1, <2>2, SubSeqProperties
  <2>5. s2 \in Seq(1 .. Len(loans))
    BY <2>1, <2>3, SubSeqProperties
  <2>6. s1 \o s2 \in Seq(1 .. Len(loans))
    BY <2>4, <2>5, ConcatProperties
  <2>7. QED
    BY <1>1, <2>6 DEF RemoveAt
<1>7. QueueSound => IsInjective(queue')
  BY <1>1, <1>2, <1>5, InjectiveWithout DEF QueueSound
<1>8. CASE PartialLiquidation(i)
  BY <1>1, <1>5, <1>6, <1>7, <1>8, PartialStep
<1>9. CASE FullLiquidation(i)
  BY <1>1, <1>5, <1>6, <1>7, <1>9, FullStep
<1>10. QED
  BY <1>1, <1>8, <1>9

\* Cancelling a request, and new values of tokens and collections.
LEMMA QuietStep ==
  ASSUME NFTInv, NEW v \in Values, NEW t, NEW c,
         (t \in Tokens /\ SetValuation(t, v)) \/ (c \in DOMAIN collections /\ UpdateFloor(c, v)),
         UNCHANGED adminVars
  PROVE  NFTInv' /\ AllStay /\ RecordsKept
<1>1. /\ UNCHANGED storageVars /\ UNCHANGED marketVars /\ UNCHANGED shareVars /\ UNCHANGED loanVars
      /\ UNCHANGED liquidationVars
  BY DEF SetValuation, UpdateFloor
<1>2. /\ UNCHANGED tokenVars /\ UNCHANGED portfolio /\ UNCHANGED switchVars /\ UNCHANGED loans
      /\ UNCHANGED activeLoans /\ UNCHANGED collateralOf /\ UNCHANGED listingVars /\ UNCHANGED offerVars
      /\ UNCHANGED trades /\ UNCHANGED listings /\ UNCHANGED nfts
  BY <1>1 DEF storageVars, loanVars, marketVars, listingVars, tokenVars
<1>3. ValuesInv'
  <2>1. /\ valuations \in [1 .. MaxTokens -> [estimate : Nat, floor : Nat]]
        /\ floors \in [1 .. MaxCollections -> Nat] /\ v \in Nat
    BY LendingAssumption DEF NFTInv, ValuesInv
  <2>2. CASE t \in Tokens /\ SetValuation(t, v)
    <3>1. t \in 1 .. Len(nfts)
      BY <2>2, SizesTyped DEF Tokens
    <3>2. nfts[t].collection \in 1 .. Len(collections)
      BY <3>1, EntriesTyped
    <3> DEFINE low == collections[nfts[t].collection].floor
    <3>3. low \in Nat
      BY <3>2, EntriesTyped DEF CollectionRecord
    <3> DEFINE e == [estimate |-> v, floor |-> low]
    <3>4. e \in [estimate : Nat, floor : Nat]
      BY <2>1, <3>3
    <3> HIDE DEF low
    <3>5. valuations' = [valuations EXCEPT ![t] = e] /\ floors' = floors
      BY <2>2 DEF SetValuation, low
    <3> HIDE DEF e
    <3>6. QED
      BY <2>1, <3>4, <3>5 DEF ValuesInv
  <2>3. CASE c \in DOMAIN collections /\ UpdateFloor(c, v)
    BY <2>1, <2>3 DEF UpdateFloor, ValuesInv
  <2>4. QED
    BY <2>2, <2>3
<1>4. NFTInv'
  BY <1>1, <1>2, <1>3, PartsStay DEF NFTInv, listingVars, offerVars
<1>5. AllStay /\ RecordsKept
  BY <1>1, <1>2, UnchangedStays, SameRecords DEF AllStay
<1>6. QED
  BY <1>4, <1>5

\* Time passes, or nothing happens at all.
LEMMA IdleStep ==
  ASSUME NFTInv, AdminTypeOK',
         UNCHANGED << storageVars, marketVars, shareVars, loanVars, valueVars, liquidationVars >>
  PROVE  NFTInv' /\ AllStay /\ RecordsKept /\ trades' = trades
<1>1. /\ UNCHANGED tokenVars /\ UNCHANGED portfolio /\ UNCHANGED switchVars /\ UNCHANGED loans
      /\ UNCHANGED activeLoans /\ UNCHANGED collateralOf /\ UNCHANGED listingVars /\ UNCHANGED offerVars
      /\ UNCHANGED marketVars /\ UNCHANGED shareVars /\ UNCHANGED valueVars /\ UNCHANGED liquidationVars
      /\ UNCHANGED trades /\ UNCHANGED listings /\ UNCHANGED nfts
  BY DEF storageVars, loanVars, marketVars, listingVars, tokenVars
<1>2. NFTInv'
  BY <1>1, PartsStay DEF NFTInv, listingVars, offerVars
<1>3. AllStay /\ RecordsKept
  BY <1>1, UnchangedStays, SameRecords DEF AllStay
<1>4. QED
  BY <1>1, <1>2, <1>3

-----------------------------------------------------------------------------
(* What a step does, in the terms of each property *)

CollectionAdded ==
  /\ nfts' = nfts /\ trades' = trades /\ Len(collections') = Len(collections) + 1
  /\ \A c \in 1 .. Len(collections) : collections'[c] = collections[c]
  /\ \A c \in 1 .. Len(collections') : c = Len(collections) + 1 =>
       collections'[c].supply = 0 /\ collections'[c].volume = 0 /\ collections'[c].floor = 0

\* The commitment a sale of token t by a to b at price p fulfils and closes.
Fulfils(t, a, b, p) ==
  \/ \E o \in 1 .. Len(offers) :
       /\ OfferClosed(o) /\ Valid(offers[o])
       /\ offers[o].token = t /\ offers[o].buyer = b /\ offers[o].price = p
  \/ \E l \in 1 .. Len(listings) :
       /\ ListingClosed(l) /\ listings[l].token = t /\ listings[l].seller = a
       /\ \/ /\ listings[l].auction /\ listings[l].bidder = b /\ listings[l].bid = p
             /\ now > listings[l].expires /\ listings[l].bid >= listings[l].minBid
          \/ ~listings[l].auction /\ listings[l].price = p /\ Valid(listings[l])

Sold(t, a, b, p) ==
  /\ Traded(t, a, b, p) /\ Fulfils(t, a, b, p)
  /\ nfts[t].owner = a /\ b \in Addresses /\ TransferOwnership(t, b)

OwnersMove ==
  \/ OwnersStay
  \/ \E a, c, k : Minted(a, c, k)
  \/ \E t, a, b, p : Sold(t, a, b, p)
  \/ \E i, a : Seized(i, a)

SuppliesMove == SuppliesStay \/ CollectionAdded \/ \E a, c, k : Minted(a, c, k)
StatisticsMove == StatisticsStay \/ CollectionAdded \/ \E t, a, b, p : Sold(t, a, b, p)
ListingsMove == ListingsStay \/ (\E a, t : ListingOpened(a, t)) \/ \E l : ListingClosed(l)
OffersMove == OffersStay \/ (\E a : OfferOpened(a)) \/ \E o : OfferClosed(o)

\* The five operations on shares.
Cut(t, a, n) ==
  /\ n > 0 /\ ~nfts[t].fractional /\ ~Pledged(t)
  /\ ShareStep(t, [shares[t] EXCEPT ![a] = n], Holders(shareholders[t], a, n), TRUE, n, 0)
  /\ UNCHANGED << listings, collateralOf >>
Bought(t, a, n) ==
  /\ nfts[t].fractional /\ nfts[t].circulating + n <= nfts[t].supply
  /\ ShareStep(t, [shares[t] EXCEPT ![a] = shares[t][a] + n], Holders(shareholders[t], a, shares[t][a] + n),
               TRUE, nfts[t].supply, nfts[t].circulating + n)
SoldBack(t, a, n) ==
  /\ n > 0 /\ shares[t][a] >= n
  /\ ShareStep(t, [shares[t] EXCEPT ![a] = shares[t][a] - n], Holders(shareholders[t], a, shares[t][a] - n),
               nfts[t].fractional, nfts[t].supply,
               IF nfts[t].circulating < n THEN 0 ELSE nfts[t].circulating - n)
HandedOn(t, a, b, n) ==
  /\ a # b /\ shares[t][a] >= n
  /\ ShareStep(t, [shares[t] EXCEPT ![a] = shares[t][a] - n, ![b] = shares[t][b] + n],
               Holders(Holders(shareholders[t], a, shares[t][a] - n), b, shares[t][b] + n),
               nfts[t].fractional, nfts[t].supply, nfts[t].circulating)
Dissolved(t) ==
  ShareStep(t, [b \in Addresses |-> IF b \in ToSet(shareholders[t]) THEN 0 ELSE shares[t][b]], << >>, FALSE, 1, 1)

SharesMove ==
  \/ SharesStay
  \/ \E t \in 1 .. Len(nfts), a \in Addresses, n \in Nat :
       Cut(t, a, n) \/ Bought(t, a, n) \/ SoldBack(t, a, n) \/ \E b \in Addresses : HandedOn(t, a, b, n)
  \/ \E t \in 1 .. Len(nfts) : Dissolved(t)

LoansMove ==
  \/ LoansStay
  \/ \E t : LoanRequested(t) /\ UNCHANGED portfolio
  \/ \E i, a : LoanStarted(i, a)
  \/ \E i : LoanEnded(i)

\* A use of a token begins, none of the other two being there.
UseMove ==
  \/ UseStays
  \/ \E a, t : ListingOpened(a, t) /\ ~Pledged(t) /\ UNCHANGED << nfts, collateralOf >>
  \/ \E t \in 1 .. Len(nfts), a \in Addresses, n \in Nat : Cut(t, a, n)
  \/ \E t : /\ LoanRequested(t) /\ ~nfts[t].fractional /\ UNCHANGED << listings, nfts >>
            /\ \A l \in DOMAIN listings : listings[l].token = t => ~listings[l].active

MarketMoves == OwnersMove /\ SuppliesMove /\ StatisticsMove /\ ListingsMove /\ OffersMove
LendingMoves == SharesMove /\ LoansMove /\ UseMove /\ (QueueSound => QueueSound') /\ RecordsKept

Stepped == NFTInv' /\ MarketMoves /\ LendingMoves

LEMMA StayingSteps ==
  ASSUME NFTInv, NFTInv', AllStay, RecordsKept
  PROVE  Stepped
<1>1. QueueSound => QueueSound'
  BY BidsKept DEF AllStay, NFTInv
<1>2. QED
  BY <1>1 DEF AllStay, Stepped, MarketMoves, LendingMoves, OwnersMove, SuppliesMove, StatisticsMove,
              ListingsMove, OffersMove, SharesMove, LoansMove, UseMove

restOfStorage == << adminVars, marketVars, shareVars, loanVars, valueVars, liquidationVars >>

LEMMA StorageSteps ==
  ASSUME NFTInv, StorageNext, UNCHANGED restOfStorage
  PROVE  Stepped
<1>1. UNCHANGED adminVars /\ UNCHANGED restOfNFTs /\ UNCHANGED loans
  BY DEF restOfStorage, restOfNFTs, loanVars
<1>2. RecordsKept
  BY <1>1, SameRecords
<1>3. ASSUME NEW a \in Creators, NEW r \in Royalties, NEW s \in MaxSupplies, CreateCollection(a, r, s)
      PROVE  Stepped
  <2>1. /\ NFTInv' /\ OwnersStay /\ ListingsStay /\ OffersStay /\ SharesStay /\ LoansStay /\ UseStays /\ BidsStay
        /\ CollectionAdded
    BY <1>1, <1>3, CollectionCreated DEF CollectionAdded
  <2>2. QueueSound => QueueSound'
    BY <2>1, BidsKept DEF NFTInv
  <2>3. QED
    BY <1>2, <2>1, <2>2 DEF Stepped, MarketMoves, LendingMoves, OwnersMove, SuppliesMove, StatisticsMove,
                            ListingsMove, OffersMove, SharesMove, LoansMove, UseMove
<1>4. ASSUME NEW a \in Creators, NEW c \in DOMAIN collections, NEW s \in Standards, NEW n \in Nat, NEW k \in Nat,
             Mint(a, c, s, n, k)
      PROVE  Stepped
  <2>1. a \in Addresses
    BY NFTAssumption
  <2>2. /\ NFTInv' /\ Minted(a, c, k)
        /\ StatisticsStay /\ ListingsStay /\ OffersStay /\ SharesStay /\ LoansStay /\ UseStays /\ BidsStay
    BY <1>1, <1>4, <2>1, MintStep
  <2>3. QueueSound => QueueSound'
    BY <2>2, BidsKept DEF NFTInv
  <2>4. QED
    BY <1>2, <2>2, <2>3 DEF Stepped, MarketMoves, LendingMoves, OwnersMove, SuppliesMove, StatisticsMove,
                            ListingsMove, OffersMove, SharesMove, LoansMove, UseMove
<1>5. ASSUME NEW a \in Creators, NEW c \in DOMAIN collections, NEW active \in Switches, SetMintingStatus(a, c, active)
      PROVE  Stepped
  <2>1. PICK r : r = [collections[c] EXCEPT !.minting = active]
    OBVIOUS
  <2>2. collections[c] \in CollectionRecord /\ active \in BOOLEAN
    BY SizesTyped, EntriesTyped, NFTAssumption
  <2>3. /\ r \in CollectionRecord /\ r.supply = collections[c].supply /\ r.maxSupply = collections[c].maxSupply
        /\ r.volume = collections[c].volume /\ r.floor = collections[c].floor
    BY <2>1, <2>2 DEF CollectionRecord
  <2>4. /\ collections' = [collections EXCEPT ![c] = r] /\ UNCHANGED << nfts, ownerTokens, portfolio, switchVars >>
    BY <1>5, <2>1 DEF SetMintingStatus
  <2>5. NFTInv' /\ AllStay
    BY <1>1, <2>3, <2>4, CollectionEdited
  <2>6. QED
    BY <1>2, <2>5, StayingSteps
<1>6. ASSUME NEW a \in Creators, NEW c \in DOMAIN collections, NEW r \in Royalties, UpdateCollectionMetadata(a, c, r)
      PROVE  Stepped
  <2>1. PICK e : e = [collections[c] EXCEPT !.royalty = r]
    OBVIOUS
  <2>2. collections[c] \in CollectionRecord /\ r \in Nat
    BY SizesTyped, EntriesTyped, NFTAssumption
  <2>3. /\ e \in CollectionRecord /\ e.supply = collections[c].supply /\ e.maxSupply = collections[c].maxSupply
        /\ e.volume = collections[c].volume /\ e.floor = collections[c].floor
    BY <2>1, <2>2 DEF CollectionRecord
  <2>4. /\ collections' = [collections EXCEPT ![c] = e] /\ UNCHANGED << nfts, ownerTokens, portfolio, switchVars >>
    BY <1>6, <2>1 DEF UpdateCollectionMetadata
  <2>5. NFTInv' /\ AllStay
    BY <1>1, <2>3, <2>4, CollectionEdited
  <2>6. QED
    BY <1>2, <2>5, StayingSteps
<1>7. ASSUME NEW a \in Creators, NEW c \in DOMAIN collections, NEW b \in Creators, TransferCollectionOwnership(a, c, b)
      PROVE  Stepped
  <2>1. PICK e : e = [collections[c] EXCEPT !.owner = b]
    OBVIOUS
  <2>2. collections[c] \in CollectionRecord /\ b \in Addresses
    BY SizesTyped, EntriesTyped, NFTAssumption
  <2>3. /\ e \in CollectionRecord /\ e.supply = collections[c].supply /\ e.maxSupply = collections[c].maxSupply
        /\ e.volume = collections[c].volume /\ e.floor = collections[c].floor
    BY <2>1, <2>2 DEF CollectionRecord
  <2>4. /\ collections' = [collections EXCEPT ![c] = e] /\ UNCHANGED << nfts, ownerTokens, portfolio, switchVars >>
    BY <1>7, <2>1 DEF TransferCollectionOwnership
  <2>5. NFTInv' /\ AllStay
    BY <1>1, <2>3, <2>4, CollectionEdited
  <2>6. QED
    BY <1>2, <2>5, StayingSteps
<1>8. ASSUME NEW a \in Addresses, NEW paused, NEW bps, NEW u,
             \/ paused \in Switches /\ SetMarketplacePause(a, paused)
             \/ bps \in PlatformFees /\ UpdatePlatformFee(a, bps)
             \/ u \in Freezable /\ (FreezeUser(a, u) \/ UnfreezeUser(a, u))
      PROVE  Stepped
  <2>1. NFTInv' /\ AllStay
    BY <1>1, <1>8, SwitchesSet
  <2>2. QED
    BY <1>2, <2>1, StayingSteps
<1>9. QED
  BY <1>3, <1>4, <1>5, <1>6, <1>7, <1>8, NFTAssumption DEF StorageNext, MintNFT, BatchMint

LEMMA MarketSteps ==
  ASSUME NFTInv, MarketNext, UNCHANGED restOfMarket
  PROVE  Stepped
<1>1. UNCHANGED loans /\ DOMAIN listings = 1 .. Len(listings) /\ DOMAIN offers = 1 .. Len(offers)
  BY SizesTyped DEF restOfMarket
<1>2. RecordsKept
  BY <1>1, SameRecords
<1>3. ASSUME NEW a \in Addresses, NEW t \in Tokens, NEW p \in Prices, NEW n \in Units, NEW d \in Durations,
             NEW auction \in Auctions, NEW m \in Prices, CreateListing(a, t, p, n, d, auction, m)
      PROVE  Stepped
  <2>1. /\ NFTInv' /\ ListingOpened(a, t) /\ ~Pledged(t) /\ UNCHANGED << nfts, collateralOf >>
        /\ OwnersStay /\ SuppliesStay /\ StatisticsStay /\ OffersStay /\ SharesStay /\ LoansStay /\ BidsStay
    BY <1>3, CreateListingStep
  <2>2. QueueSound => QueueSound'
    BY <2>1, BidsKept DEF NFTInv
  <2>3. ListingsMove /\ UseMove
    BY <2>1 DEF ListingsMove, UseMove
  <2>4. QED
    BY <1>2, <2>1, <2>2, <2>3 DEF Stepped, MarketMoves, LendingMoves, OwnersMove, SuppliesMove, StatisticsMove,
                                  OffersMove, SharesMove, LoansMove
<1>4. ASSUME NEW a \in Addresses, NEW t \in Tokens, NEW p \in Prices, NEW n \in Units, NEW d \in Durations,
             CreateOffer(a, t, p, n, d)
      PROVE  Stepped
  <2>1. /\ NFTInv' /\ OfferOpened(a) /\ OwnersStay /\ SuppliesStay /\ StatisticsStay /\ ListingsStay
        /\ SharesStay /\ LoansStay /\ UseStays /\ BidsStay
    BY <1>4, CreateOfferStep
  <2>2. QueueSound => QueueSound'
    BY <2>1, BidsKept DEF NFTInv
  <2>3. QED
    BY <1>2, <2>1, <2>2 DEF Stepped, MarketMoves, LendingMoves, OwnersMove, SuppliesMove, StatisticsMove,
                            ListingsMove, OffersMove, SharesMove, LoansMove, UseMove
<1>5. ASSUME NEW a \in Addresses, NEW l \in DOMAIN listings, CancelListing(a, l)
      PROVE  Stepped
  <2>1. /\ NFTInv' /\ ListingClosed(l) /\ OwnersStay /\ SuppliesStay /\ StatisticsStay /\ OffersStay
        /\ SharesStay /\ LoansStay /\ UseStays /\ BidsStay
    BY <1>5, CancelListingStep
  <2>2. QueueSound => QueueSound'
    BY <2>1, BidsKept DEF NFTInv
  <2>3. QED
    BY <1>2, <2>1, <2>2 DEF Stepped, MarketMoves, LendingMoves, OwnersMove, SuppliesMove, StatisticsMove,
                            ListingsMove, OffersMove, SharesMove, LoansMove, UseMove
<1>6. ASSUME NEW a \in Addresses, NEW o \in DOMAIN offers, CancelOffer(a, o)
      PROVE  Stepped
  <2>1. /\ NFTInv' /\ OfferClosed(o) /\ OwnersStay /\ SuppliesStay /\ StatisticsStay /\ ListingsStay
        /\ SharesStay /\ LoansStay /\ UseStays /\ BidsStay
    BY <1>6, CancelOfferStep
  <2>2. QueueSound => QueueSound'
    BY <2>1, BidsKept DEF NFTInv
  <2>3. QED
    BY <1>2, <2>1, <2>2 DEF Stepped, MarketMoves, LendingMoves, OwnersMove, SuppliesMove, StatisticsMove,
                            ListingsMove, OffersMove, SharesMove, LoansMove, UseMove
<1>7. ASSUME NEW a \in Addresses, NEW l \in DOMAIN listings, NEW p \in Bids, PlaceBid(a, l, p)
      PROVE  Stepped
  <2>1. NFTInv' /\ AllStay
    BY <1>7, PlaceBidStep
  <2>2. QED
    BY <1>2, <2>1, StayingSteps
\* The three sales.
<1>8. ASSUME NEW t, NEW a, NEW b, NEW p, Sold(t, a, b, p),
             NFTInv', SuppliesStay, ListingsMove, OffersMove, SharesStay, LoansStay, UseStays, BidsStay
      PROVE  Stepped
  <2>1. QueueSound => QueueSound'
    BY <1>8, BidsKept DEF NFTInv
  <2>2. OwnersMove /\ StatisticsMove
    BY <1>8 DEF OwnersMove, StatisticsMove
  <2>3. QED
    BY <1>2, <1>8, <2>1, <2>2 DEF Stepped, MarketMoves, LendingMoves, SuppliesMove, SharesMove, LoansMove, UseMove
<1>9. ASSUME NEW a \in Addresses, NEW o \in DOMAIN offers, AcceptOffer(a, o)
      PROVE  Stepped
  <2> DEFINE t == offers[o].token
             b == offers[o].buyer
             p == offers[o].price
  <2>1. /\ NFTInv' /\ OfferClosed(o) /\ Valid(offers[o]) /\ nfts[t].owner = a
        /\ TransferOwnership(t, b) /\ b \in Addresses /\ Traded(t, a, b, p)
        /\ SuppliesStay /\ ListingsStay /\ SharesStay /\ LoansStay /\ UseStays /\ BidsStay
    BY <1>9, AcceptOfferStep
  <2>2. Fulfils(t, a, b, p)
    BY <1>1, <2>1 DEF Fulfils
  <2> HIDE DEF t, b, p
  <2>3. Sold(t, a, b, p) /\ ListingsMove /\ OffersMove
    BY <2>1, <2>2 DEF Sold, ListingsMove, OffersMove
  <2>4. QED
    BY <1>8, <2>1, <2>3
<1>10. ASSUME NEW a \in Addresses, NEW l \in DOMAIN listings, BuyNFT(a, l)
       PROVE  Stepped
  <2> DEFINE t == listings[l].token
             s == listings[l].seller
             p == listings[l].price
  <2>1. /\ NFTInv' /\ ListingClosed(l) /\ nfts[t].owner = s /\ ~listings[l].auction /\ Valid(listings[l])
        /\ TransferOwnership(t, a) /\ Traded(t, s, a, p)
        /\ SuppliesStay /\ OffersStay /\ SharesStay /\ LoansStay /\ UseStays /\ BidsStay
    BY <1>10, BuyNFTStep
  <2>2. Fulfils(t, s, a, p)
    BY <1>1, <2>1 DEF Fulfils
  <2> HIDE DEF t, s, p
  <2>3. Sold(t, s, a, p) /\ ListingsMove /\ OffersMove
    BY <2>1, <2>2 DEF Sold, ListingsMove, OffersMove
  <2>4. QED
    BY <1>8, <2>1, <2>3
<1>11. ASSUME NEW l \in DOMAIN listings, FinalizeAuction(l)
       PROVE  Stepped
  <2> DEFINE t == listings[l].token
             s == listings[l].seller
             b == listings[l].bidder
             p == listings[l].bid
  <2>1. /\ NFTInv' /\ ListingClosed(l) /\ nfts[t].owner = s /\ listings[l].auction
        /\ now > listings[l].expires /\ b \in Addresses /\ TransferOwnership(t, b) /\ Traded(t, s, b, p)
        /\ SuppliesStay /\ OffersStay /\ SharesStay /\ LoansStay /\ UseStays /\ BidsStay
    BY <1>11, FinalizeAuctionStep
  <2>2. listings[l].bid >= listings[l].minBid
    BY <1>1, <2>1, EntriesTyped, NFTAssumption
  <2>3. Fulfils(t, s, b, p)
    BY <1>1, <2>1, <2>2 DEF Fulfils
  <2> HIDE DEF t, s, b, p
  <2>4. Sold(t, s, b, p) /\ ListingsMove /\ OffersMove
    BY <2>1, <2>3 DEF Sold, ListingsMove, OffersMove
  <2>5. QED
    BY <1>8, <2>1, <2>4
<1>12. QED
  BY <1>3, <1>4, <1>5, <1>6, <1>7, <1>9, <1>10, <1>11 DEF MarketNext

LEMMA FractionalSteps ==
  ASSUME NFTInv, FractionalNext, UNCHANGED restOfShares
  PROVE  Stepped
<1>1. UNCHANGED loans /\ DOMAIN nfts = 1 .. Len(nfts)
  BY SizesTyped DEF restOfShares
<1>2. RecordsKept
  BY <1>1, SameRecords
<1>3. ASSUME NFTInv', SharesMove, UseMove, OwnersStay, SuppliesStay, StatisticsStay, ListingsStay, OffersStay,
             LoansStay, BidsStay
      PROVE  Stepped
  <2>1. QueueSound => QueueSound'
    BY <1>3, BidsKept DEF NFTInv
  <2>2. QED
    BY <1>2, <1>3, <2>1 DEF Stepped, MarketMoves, LendingMoves, OwnersMove, SuppliesMove, StatisticsMove,
                            ListingsMove, OffersMove, LoansMove
<1>4. ASSUME NEW a \in Addresses, NEW t \in Tokens, NEW n \in ShareCounts, Fractionalize(a, t, n)
      PROVE  Stepped
  <2>1. /\ NFTInv' /\ n \in Nat /\ Cut(t, a, n) /\ OwnersStay /\ SuppliesStay /\ StatisticsStay
        /\ ListingsStay /\ OffersStay /\ LoansStay /\ BidsStay
    BY <1>4, FractionalizeStep DEF Cut
  <2>2. SharesMove /\ UseMove
    BY <1>1, <2>1 DEF SharesMove, UseMove, Tokens
  <2>3. QED
    BY <1>3, <2>1, <2>2
<1>5. ASSUME NEW a \in Addresses, NEW t \in Tokens, NEW n \in ShareLots, BuyShares(a, t, n)
      PROVE  Stepped
  <2>1. /\ NFTInv' /\ n \in Nat /\ Bought(t, a, n) /\ OwnersStay /\ SuppliesStay /\ StatisticsStay
        /\ ListingsStay /\ OffersStay /\ LoansStay /\ UseStays /\ BidsStay
    BY <1>5, BuySharesStep DEF Bought
  <2>2. SharesMove /\ UseMove
    BY <1>1, <2>1 DEF SharesMove, UseMove, Tokens
  <2>3. QED
    BY <1>3, <2>1, <2>2
<1>6. ASSUME NEW a \in Addresses, NEW t \in Tokens, NEW n \in ShareLots, SellShares(a, t, n)
      PROVE  Stepped
  <2>1. /\ NFTInv' /\ n \in Nat /\ SoldBack(t, a, n) /\ OwnersStay /\ SuppliesStay /\ StatisticsStay
        /\ ListingsStay /\ OffersStay /\ LoansStay /\ UseStays /\ BidsStay
    BY <1>6, SellSharesStep DEF SoldBack
  <2>2. SharesMove /\ UseMove
    BY <1>1, <2>1 DEF SharesMove, UseMove, Tokens
  <2>3. QED
    BY <1>3, <2>1, <2>2
<1>7. ASSUME NEW a \in Addresses, NEW b \in Addresses, NEW t \in Tokens, NEW n \in ShareLots,
             TransferShares(a, b, t, n)
      PROVE  Stepped
  <2>1. /\ NFTInv' /\ n \in Nat /\ HandedOn(t, a, b, n) /\ OwnersStay /\ SuppliesStay /\ StatisticsStay
        /\ ListingsStay /\ OffersStay /\ LoansStay /\ UseStays /\ BidsStay
    BY <1>7, TransferSharesStep DEF HandedOn
  <2>2. SharesMove /\ UseMove
    BY <1>1, <2>1 DEF SharesMove, UseMove, Tokens
  <2>3. QED
    BY <1>3, <2>1, <2>2
<1>8. ASSUME NEW a \in Addresses, NEW t \in Tokens, Defractionalize(a, t)
      PROVE  Stepped
  <2>1. /\ NFTInv' /\ Dissolved(t) /\ OwnersStay /\ SuppliesStay /\ StatisticsStay
        /\ ListingsStay /\ OffersStay /\ LoansStay /\ UseStays /\ BidsStay
    BY <1>8, DefractionalizeStep DEF Dissolved
  <2>2. SharesMove /\ UseMove
    BY <1>1, <2>1 DEF SharesMove, UseMove, Tokens
  <2>3. QED
    BY <1>3, <2>1, <2>2
<1>9. QED
  BY <1>4, <1>5, <1>6, <1>7, <1>8 DEF FractionalNext

LEMMA LendingSteps ==
  ASSUME NFTInv, LendingNext, UNCHANGED adminVars
  PROVE  Stepped
<1>1. DOMAIN loans = 1 .. Len(loans) /\ DOMAIN nfts = 1 .. Len(nfts)
  BY SizesTyped
<1>2. ASSUME NFTInv', LoansMove, UseMove, RecordsKept, OwnersStay, SuppliesStay, StatisticsStay, ListingsStay,
             OffersStay, SharesStay, BidsStay
      PROVE  Stepped
  <2>1. QueueSound => QueueSound'
    BY <1>2, BidsKept DEF NFTInv
  <2>2. QED
    BY <1>2, <2>1 DEF Stepped, MarketMoves, LendingMoves, OwnersMove, SuppliesMove, StatisticsMove,
                      ListingsMove, OffersMove, SharesMove
<1>3. ASSUME NEW a \in Addresses, NEW t \in Tokens, NEW n \in LoanAmounts, NEW r \in LoanRates,
             NEW d \in LoanDurations, RequestLoan(a, t, n, r, d)
      PROVE  Stepped
  <2>1. /\ NFTInv' /\ LoanRequested(t) /\ ~nfts[t].fractional /\ UNCHANGED << portfolio, listings, nfts >>
        /\ \A l \in DOMAIN listings : listings[l].token = t => ~listings[l].active
        /\ OwnersStay /\ SuppliesStay /\ StatisticsStay /\ ListingsStay /\ OffersStay /\ SharesStay
        /\ BidsStay /\ RecordsKept
    BY <1>3, RequestLoanStep
  <2>2. LoansMove /\ UseMove
    BY <2>1 DEF LoansMove, UseMove
  <2>3. QED
    BY <1>2, <2>1, <2>2
<1>4. ASSUME NEW a \in Addresses, NEW i \in DOMAIN loans, FundLoan(a, i)
      PROVE  Stepped
  <2>1. /\ NFTInv' /\ LoanStarted(i, a) /\ OwnersStay /\ SuppliesStay /\ StatisticsStay /\ ListingsStay
        /\ OffersStay /\ SharesStay /\ UseStays /\ BidsStay /\ RecordsKept
    BY <1>4, FundLoanStep
  <2>2. LoansMove /\ UseMove
    BY <2>1 DEF LoansMove, UseMove
  <2>3. QED
    BY <1>2, <2>1, <2>2
<1>5. ASSUME NEW a \in Addresses, NEW i \in DOMAIN loans, NEW n \in LoanAmounts, RepayLoan(a, i, n)
      PROVE  Stepped
  <2>1. /\ NFTInv' /\ LoanEnded(i) /\ OwnersStay /\ SuppliesStay /\ StatisticsStay /\ ListingsStay
        /\ OffersStay /\ SharesStay /\ UseStays /\ BidsStay /\ RecordsKept
    BY <1>5, RepayLoanStep
  <2>2. LoansMove /\ UseMove
    BY <2>1 DEF LoansMove, UseMove
  <2>3. QED
    BY <1>2, <2>1, <2>2
\* The three ways to a liquidation.
<1>6. ASSUME NFTInv', LendingKeeps, QueueSound => QueueSound',
             (OwnersStay /\ LoansStay) \/ \E j, a : Seized(j, a)
      PROVE  Stepped
  <2>1. OwnersMove /\ LoansMove
    BY <1>6 DEF OwnersMove, LoansMove, Seized
  <2>2. QED
    BY <1>6, <2>1 DEF LendingKeeps, Stepped, MarketMoves, LendingMoves, SuppliesMove, StatisticsMove,
                      ListingsMove, OffersMove, SharesMove, UseMove
<1>7. ASSUME NEW i \in DOMAIN loans, LiquidateLoan(i)
      PROVE  Stepped
  <2> DEFINE a == loans[i].lender
  <2>1. /\ NFTInv' /\ LoanEnded(i) /\ Outstanding(i) /\ now > loans[i].due + GracePeriod
        /\ loans[i].token \in 1 .. Len(nfts) /\ TransferOwnership(loans[i].token, a)
        /\ a \in Addresses /\ loans'[i].liquidated /\ trades' = trades /\ RecordsKept
        /\ SuppliesStay /\ StatisticsStay /\ ListingsStay /\ OffersStay /\ SharesStay /\ UseStays /\ BidsStay
    BY <1>7, LiquidateLoanStep
  <2>2. QueueSound => QueueSound'
    BY <2>1, BidsKept DEF NFTInv
  <2>3. a \in {loans[i].lender, bestBid[i].bidder}
    OBVIOUS
  <2> HIDE DEF a
  <2>4. Seized(i, a) /\ LendingKeeps
    BY <2>1, <2>3 DEF Seized, LendingKeeps
  <2>5. QED
    BY <1>6, <2>1, <2>2, <2>4
<1>8. ASSUME NEW i \in DOMAIN loans, ExecuteLiquidation(i)
      PROVE  Stepped
  BY <1>6, <1>8, ExecuteStep
<1>9. ASSUME ProcessQueue
      PROVE  Stepped
  BY <1>6, <1>9, ProcessQueueStep
\* The queue and the bids.
<1>10. ASSUME NFTInv', UNCHANGED besideBids, QueueSound => QueueSound'
       PROVE  Stepped
  <2>1. /\ OwnersStay /\ SuppliesStay /\ StatisticsStay /\ ListingsStay /\ OffersStay /\ SharesStay
        /\ LoansStay /\ UseStays /\ RecordsKept
    BY <1>10, BesideBids
  <2>2. QED
    BY <1>10, <2>1 DEF Stepped, MarketMoves, LendingMoves, OwnersMove, SuppliesMove, StatisticsMove,
                       ListingsMove, OffersMove, SharesMove, LoansMove, UseMove
<1>11. ASSUME NEW i \in DOMAIN loans, EnqueueLiquidation(i)
       PROVE  Stepped
  BY <1>10, <1>11, EnqueueStep
<1>12. ASSUME NEW a \in Addresses, NEW i \in DOMAIN loans, NEW n \in LiquidationBids, PlaceLiquidationBid(a, i, n)
       PROVE  Stepped
  BY <1>10, <1>12, PlaceLiquidationBidStep
<1>13. ASSUME MonitorAndQueue
       PROVE  Stepped
  BY <1>10, <1>13, MonitorStep
\* What changes nothing the properties are about.
<1>14. ASSUME NEW a \in Addresses, NEW i \in DOMAIN loans, CancelLoanRequest(a, i)
       PROVE  Stepped
  <2>1. UNCHANGED << storageVars, marketVars, shareVars, loanVars, valueVars, liquidationVars >>
    BY <1>14 DEF CancelLoanRequest
  <2>2. AdminTypeOK'
    BY PartsStay
  <2>3. QED
    BY <2>1, <2>2, IdleStep, StayingSteps
<1>15. ASSUME NEW t \in Tokens, NEW v \in Values, SetValuation(t, v)
       PROVE  Stepped
  <2>1. NFTInv' /\ AllStay /\ RecordsKept
    BY <1>15, QuietStep
  <2>2. QED
    BY <2>1, StayingSteps
<1>16. ASSUME NEW c \in DOMAIN collections, NEW v \in Values, UpdateFloor(c, v)
       PROVE  Stepped
  <2>1. NFTInv' /\ AllStay /\ RecordsKept
    BY <1>16, QuietStep
  <2>2. QED
    BY <2>1, StayingSteps
<1>17. QED
  BY <1>3, <1>4, <1>5, <1>7, <1>8, <1>9, <1>11, <1>12, <1>13, <1>14, <1>15, <1>16 DEF LendingNext

LEMMA TimePasses ==
  ASSUME AdminTypeOK, NEW dt \in TimeSteps, AdvanceTime(dt)
  PROVE  AdminTypeOK'
<1>1. dt \in Nat /\ SensitiveLimit \in Nat /\ 0 \in 0 .. SensitiveLimit
  BY AdminAssumption
<1>2. now' \in Nat /\ admin' \in Addresses
  BY <1>1 DEF AdvanceTime, AdminTypeOK
<1>3. sensitiveUsage' \in [Addresses -> 0 .. SensitiveLimit]
  <2>1. [a \in Addresses |-> 0] \in [Addresses -> 0 .. SensitiveLimit]
    BY <1>1
  <2>2. QED
    BY <2>1 DEF AdvanceTime, AdminTypeOK
<1>4. QED
  BY <1>2, <1>3 DEF AdminTypeOK

\* Every step of the suite.
LEMMA SuiteSteps ==
  ASSUME NFTInv, [NFTNext]_nftVars
  PROVE  Stepped
<1> DEFINE rest == << storageVars, marketVars, shareVars, loanVars, valueVars, liquidationVars >>
<1>1. ASSUME UNCHANGED rest, AdminTypeOK'
      PROVE  Stepped
  BY <1>1, IdleStep, StayingSteps
<1>2. CASE StorageNext /\ UNCHANGED << adminVars, marketVars, shareVars, loanVars, valueVars, liquidationVars >>
  BY <1>2, StorageSteps DEF restOfStorage
<1>3. CASE MarketNext /\ UNCHANGED << adminVars, shareVars, loans, activeLoans, valueVars, liquidationVars >>
  BY <1>3, MarketSteps DEF restOfMarket
<1>4. CASE FractionalNext /\ UNCHANGED << adminVars, loans, activeLoans, valueVars, liquidationVars >>
  BY <1>4, FractionalSteps DEF restOfShares
<1>5. CASE LendingNext /\ UNCHANGED adminVars
  BY <1>5, LendingSteps
<1>6. ASSUME NEW dt \in TimeSteps, AdvanceTime(dt), UNCHANGED rest
      PROVE  Stepped
  <2>1. AdminTypeOK'
    BY <1>6, TimePasses DEF NFTInv
  <2>2. QED
    BY <1>1, <1>6, <2>1
<1>7. CASE UNCHANGED nftVars
  <2>1. UNCHANGED adminVars /\ UNCHANGED rest
    BY <1>7 DEF nftVars
  <2>2. AdminTypeOK'
    BY <2>1, PartsStay
  <2>3. QED
    BY <1>1, <2>1, <2>2
<1>8. QED
  BY <1>2, <1>3, <1>4, <1>5, <1>6, <1>7 DEF NFTNext

LEMMA SuiteStarts ==
  ASSUME NFTInit
  PROVE  NFTInv
<1>1. /\ 0 \in 0 .. SensitiveLimit /\ InitialAdmin \in Addresses
  BY AdminAssumption
<1>2. AdminTypeOK
  BY <1>1 DEF NFTInit, AdminInit, AdminTypeOK
<1>3. /\ \A S : << >> \in Seq(S)
      /\ Len(<< >>) = 0
  BY EmptySeq
<1>4. TokensInv
  BY <1>3, NFTAssumption DEF NFTInit, StorageInit, TokensInv
<1>5. CountsInv /\ SwitchInv
  BY NFTAssumption DEF NFTInit, StorageInit, MarketInit, LendingInit, CountsInv, SwitchInv, EmptyPortfolio,
                       PortfolioRecord
<1>6. MarketInv /\ PledgeInv
  BY <1>3 DEF NFTInit, MarketInit, MarketInv, PledgeInv
<1>7. FractionalTypeOK
  BY <1>3 DEF NFTInit, FractionalInit, FractionalTypeOK
<1>8. LoansInv
  BY <1>3, LendingAssumption DEF NFTInit, LendingInit, LoansInv
<1>9. ValuesInv
  BY DEF NFTInit, LendingInit, ValuesInv, NoValuation
<1>10. LiquidationInv
  <2>1. NoBid \in BidRecord
    BY DEF NoBid, BidRecord
  <2>2. queue = << >> /\ bestBid = [i \in 1 .. MaxLoans |-> NoBid]
    BY DEF NFTInit, LendingInit
  <2> HIDE DEF NoBid, BidRecord
  <2>3. QED
    BY <1>3, <2>1, <2>2 DEF LiquidationInv
<1>11. QED
  BY <1>2, <1>4, <1>5, <1>6, <1>7, <1>8, <1>9, <1>10 DEF NFTInv

-----------------------------------------------------------------------------
(* Where a token is *)

OwnedBy(a) == {t \in 1 .. Len(nfts) : nfts[t].owner = a}

LEMMA IndexLists ==
  ASSUME NFTInv
  PROVE  OwnerIndexExact <=> \A a \in Addresses : Lists(ownerTokens[a], OwnedBy(a))
BY SizesTyped DEF OwnerIndexExact, Lists, OwnedBy, Tokens

\* transfer_ownership, a token handed to its owner included.
LEMMA TransferIndexed ==
  ASSUME NFTInv, \A a \in Addresses : Lists(ownerTokens[a], OwnedBy(a)),
         NEW t \in 1 .. Len(nfts), NEW to \in Addresses, TransferOwnership(t, to),
         NEW a \in Addresses
  PROVE  Lists(ownerTokens'[a], {x \in 1 .. Len(nfts') : nfts'[x].owner = a})
<1> DEFINE from == nfts[t].owner
           without == [ownerTokens EXCEPT ![from] = Only(@, Range(@) \ {t})]
           new == {x \in 1 .. Len(nfts') : nfts'[x].owner = a}
<1>1. /\ Len(nfts') = Len(nfts)
      /\ \A x \in 1 .. Len(nfts) : nfts'[x].owner = IF x = t THEN to ELSE nfts[x].owner
  BY OwnershipMoves
<1>2. /\ ownerTokens \in [Addresses -> Seq(Nat)] /\ from \in Addresses /\ t \in Nat
  BY SizesTyped, EntriesTyped DEF NFTInv, TokensInv, NFTRecord
<1>3. ownerTokens' = [without EXCEPT ![to] = Append(@, t)]
  BY DEF TransferOwnership
<1>4. ASSUME NEW b \in Addresses PROVE without[b] \in Seq(Nat) /\ Lists(without[b], OwnedBy(b) \ {t})
  <2>1. CASE b = from
    <3>1. without[b] = Only(ownerTokens[b], Range(ownerTokens[b]) \ {t})
      BY <1>2, <2>1
    <3> DEFINE old == ownerTokens[b]
               S == OwnedBy(b)
    <3>2. old \in Seq(Nat) /\ Lists(old, S)
      BY <1>2
    <3>3. without[b] = Only(old, Range(old) \ {t})
      BY <3>1
    <3> HIDE DEF without, old, S
    <3>4. /\ Only(old, Range(old) \ {t}) \in Seq(Nat)
          /\ Lists(Only(old, Range(old) \ {t}), S \ {t})
      BY <3>2, ListsOnly
    <3>5. QED
      BY <3>3, <3>4 DEF S
  <2>2. CASE b # from
    <3>1. without[b] = ownerTokens[b] /\ OwnedBy(b) \ {t} = OwnedBy(b)
      BY <1>2, <2>2 DEF OwnedBy
    <3>2. QED
      BY <1>2, <3>1
  <2>3. QED
    BY <2>1, <2>2
<1>5. new = IF a = to THEN (OwnedBy(a) \ {t}) \union {t} ELSE OwnedBy(a) \ {t}
  BY <1>1 DEF OwnedBy
<1>6. ownerTokens'[a] = IF a = to THEN Append(without[a], t) ELSE without[a]
  BY <1>2, <1>3
<1> HIDE DEF without, new
<1>7. CASE a = to
  <2>1. Lists(Append(without[a], t), (OwnedBy(a) \ {t}) \union {t})
    BY <1>2, <1>4, ListsAppend
  <2>2. QED
    BY <1>5, <1>6, <1>7, <2>1 DEF new
<1>8. CASE a # to
  BY <1>4, <1>5, <1>6, <1>8 DEF new
<1>9. QED
  BY <1>7, <1>8

\* Minting puts the new ids behind the old ones of the creator.
LEMMA MintIndexed ==
  ASSUME NFTInv, \A a \in Addresses : Lists(ownerTokens[a], OwnedBy(a)),
         NEW m, NEW c, NEW k, Minted(m, c, k), NEW a \in Addresses
  PROVE  Lists(ownerTokens'[a], {x \in 1 .. Len(nfts') : nfts'[x].owner = a})
<1> DEFINE n == Len(nfts)
           ids == [i \in 1 .. k |-> n + i]
           old == ownerTokens[a]
           new == {x \in 1 .. Len(nfts') : nfts'[x].owner = a}
<1>1. /\ m \in Addresses /\ k \in Nat /\ Len(nfts') = n + k
      /\ \A x \in 1 .. n : nfts'[x] = nfts[x]
      /\ \A x \in n + 1 .. n + k : nfts'[x].owner = m
      /\ ownerTokens' = [ownerTokens EXCEPT ![m] = @ \o ids]
  BY DEF Minted
<1>2. n \in Nat /\ ownerTokens \in [Addresses -> Seq(Nat)] /\ old \in Seq(Nat)
  BY SizesTyped DEF NFTInv, TokensInv
<1> HIDE DEF n
<1>3. \A x : x \in 1 .. n + k <=> x \in 1 .. n \/ x \in n + 1 .. n + k
  BY <1>1, <1>2
<1>4. new = IF a = m THEN OwnedBy(a) \union (n + 1 .. n + k) ELSE OwnedBy(a)
  <2>1. \A x \in 1 .. n : nfts'[x].owner = nfts[x].owner
    BY <1>1
  <2>2. QED
    BY <1>1, <1>3, <2>1 DEF OwnedBy, n
<1>5. CASE a # m
  BY <1>1, <1>2, <1>4, <1>5
<1>6. CASE a = m
  <2>1. ownerTokens'[a] = old \o ids
    BY <1>1, <1>2, <1>6
  <2>2. \A i \in 1 .. k : n + i \in Nat
    BY <1>1, <1>2
  <2>3. ids \in Seq(Nat) /\ Len(ids) = k /\ \A i \in 1 .. k : ids[i] = n + i
    BY <1>1, <2>2, BuiltTyped
  <2> HIDE DEF ids
  <2>4. DOMAIN ids = 1 .. k /\ DOMAIN old = 1 .. Len(old) /\ Len(old) \in Nat
    BY <1>2, <2>3, LenProperties
  <2>5. IsInjective(ids)
    BY <1>1, <1>2, <2>3, <2>4 DEF IsInjective
  <2>6. IsInjective(old) /\ ToSet(old) = OwnedBy(a)
    BY DEF Lists
  <2>7. \A i \in 1 .. Len(old) : old[i] \in 1 .. n
    BY <2>4, <2>6 DEF ToSet, OwnedBy, n
  <2>8. \A i \in 1 .. Len(old), j \in 1 .. Len(ids) : old[i] # ids[j]
    BY <1>1, <1>2, <2>3, <2>7
  <2>9. IsInjective(old \o ids) /\ old \o ids \in Seq(Nat)
    BY <1>2, <2>3, <2>5, <2>6, <2>8, InjectiveJoin
  <2>10. ToSet(old \o ids) = ToSet(old) \union (n + 1 .. n + k)
    <3>1. /\ Len(old \o ids) = Len(old) + k
          /\ \A i \in 1 .. Len(old) + k :
               (old \o ids)[i] = IF i <= Len(old) THEN old[i] ELSE ids[i - Len(old)]
      BY <1>2, <2>3, ConcatProperties
    <3>2. DOMAIN (old \o ids) = 1 .. Len(old) + k
      BY <2>9, <3>1, LenProperties
    <3>3. ASSUME NEW y \in ToSet(old \o ids) PROVE y \in ToSet(old) \union (n + 1 .. n + k)
      <4>1. PICK i \in 1 .. Len(old) + k : y = (old \o ids)[i]
        BY <3>2 DEF ToSet
      <4>2. CASE i <= Len(old)
        <5>1. i \in 1 .. Len(old) /\ y = old[i]
          BY <2>4, <3>1, <4>1, <4>2
        <5>2. QED
          BY <2>4, <5>1 DEF ToSet
      <4>3. CASE ~ (i <= Len(old))
        <5>1. i - Len(old) \in 1 .. k /\ y = ids[i - Len(old)]
          BY <1>1, <2>4, <3>1, <4>1, <4>3
        <5>2. y = n + (i - Len(old))
          BY <2>3, <5>1
        <5>3. QED
          BY <1>1, <1>2, <5>1, <5>2
      <4>4. QED
        BY <4>2, <4>3
    <3>4. ASSUME NEW y \in ToSet(old) PROVE y \in ToSet(old \o ids)
      <4>1. PICK i \in 1 .. Len(old) : y = old[i]
        BY <2>4 DEF ToSet
      <4>2. i \in 1 .. Len(old) + k /\ y = (old \o ids)[i]
        BY <1>1, <2>4, <3>1, <4>1
      <4>3. QED
        BY <3>2, <4>2 DEF ToSet
    <3>5. ASSUME NEW y \in n + 1 .. n + k PROVE y \in ToSet(old \o ids)
      <4>1. y - n \in 1 .. k /\ y = n + (y - n)
        BY <1>1, <1>2
      <4> DEFINE i == Len(old) + (y - n)
      <4>2. i \in 1 .. Len(old) + k /\ ~ (i <= Len(old)) /\ i - Len(old) = y - n
        BY <1>1, <1>2, <2>4, <4>1
      <4> HIDE DEF i
      <4>3. (old \o ids)[i] = y
        BY <2>3, <3>1, <4>1, <4>2
      <4>4. QED
        BY <3>2, <4>2, <4>3 DEF ToSet
    <3>6. QED
      BY <3>3, <3>4, <3>5
  <2>11. QED
    BY <1>4, <1>6, <2>1, <2>6, <2>9, <2>10 DEF Lists
<1>7. QED
  BY <1>5, <1>6

LEMMA OwnersKept ==
  ASSUME NFTInv, NFTInv', OwnersMove, OwnerIndexExact
  PROVE  OwnerIndexExact'
<1> DEFINE Good == \A a \in Addresses : Lists(ownerTokens'[a], {x \in 1 .. Len(nfts') : nfts'[x].owner = a})
<1>1. \A a \in Addresses : Lists(ownerTokens[a], OwnedBy(a))
  BY IndexLists
<1>2. Good
  <2>1. CASE OwnersStay
    <3>1. \A a \in Addresses : {x \in 1 .. Len(nfts') : nfts'[x].owner = a} = OwnedBy(a)
      BY <2>1 DEF OwnersStay, OwnedBy
    <3>2. QED
      BY <1>1, <2>1, <3>1 DEF OwnersStay
  <2>2. ASSUME NEW m, NEW c, NEW k, Minted(m, c, k)
        PROVE  Good
    BY <1>1, <2>2, MintIndexed
  <2>3. ASSUME NEW t \in 1 .. Len(nfts), NEW b \in Addresses, TransferOwnership(t, b)
        PROVE  Good
    BY <1>1, <2>3, TransferIndexed
  <2>4. CASE \E t, a, b, p : Sold(t, a, b, p)
    BY <2>3, <2>4 DEF Sold, Traded
  <2>5. CASE \E i, a : Seized(i, a)
    BY <2>3, <2>5 DEF Seized
  <2>6. QED
    BY <2>1, <2>2, <2>4, <2>5 DEF OwnersMove
<1>3. Len(nfts') \in Nat /\ DOMAIN nfts' = 1 .. Len(nfts')
  BY LenProperties DEF NFTInv, TokensInv
<1>4. QED
  BY <1>2, <1>3 DEF OwnerIndexExact, Lists, Tokens

-----------------------------------------------------------------------------
(* Counts *)

LEMMA CountUp ==
  ASSUME NEW A, IsFiniteSet(A), NEW x, x \notin A
  PROVE  Cardinality(A \union {x}) = Cardinality(A) + 1
BY FS_AddElement

LEMMA CountDown ==
  ASSUME NEW A, IsFiniteSet(A), NEW x, x \in A
  PROVE  Less(Cardinality(A)) = Cardinality(A \ {x})
<1>1. Cardinality(A) \in Nat /\ Cardinality(A \ {x}) = Cardinality(A) - 1 /\ Cardinality(A \ {x}) \in Nat
  BY FS_RemoveElement, FS_CardinalityType
<1>2. Cardinality(A) # 0
  BY <1>1
<1>3. QED
  BY <1>1, <1>2 DEF Less

LEMMA UpTo ==
  ASSUME NEW n \in Nat, NEW S, S \subseteq 1 .. n
  PROVE  IsFiniteSet(S) /\ Cardinality(S) \in Nat
<1>1. IsFiniteSet(1 .. n)
  BY FS_Interval
<1>2. QED
  BY <1>1, FS_Subset, FS_CardinalityType

MintedIn(c) == {t \in 1 .. Len(nfts) : nfts[t].collection = c}

LEMMA SuppliesKept ==
  ASSUME NFTInv, NFTInv', SuppliesMove, SupplyCapped
  PROVE  SupplyCapped'
<1> DEFINE new(c) == {t \in 1 .. Len(nfts') : nfts'[t].collection = c}
           Good == \A c \in 1 .. Len(collections') :
             /\ collections'[c].supply = Cardinality(new(c))
             /\ collections'[c].maxSupply > 0 => collections'[c].supply <= collections'[c].maxSupply
<1>1. /\ Len(nfts) \in Nat /\ Len(collections) \in Nat
      /\ \A c \in 1 .. Len(collections) :
           /\ collections[c].supply = Cardinality(MintedIn(c))
           /\ collections[c].maxSupply > 0 => collections[c].supply <= collections[c].maxSupply
  BY SizesTyped DEF SupplyCapped, MintedIn, Tokens
<1>2. Len(nfts') \in Nat /\ DOMAIN nfts' = 1 .. Len(nfts') /\ DOMAIN collections' = 1 .. Len(collections')
  BY LenProperties DEF NFTInv, TokensInv
<1>3. Good
  <2>1. CASE SuppliesStay
    <3>1. \A c : new(c) = MintedIn(c)
      BY <2>1 DEF SuppliesStay, MintedIn
    <3> HIDE DEF new
    <3>2. QED
      BY <1>1, <2>1, <3>1 DEF SuppliesStay
  <2>2. CASE CollectionAdded
    <3> DEFINE k == Len(collections) + 1
    <3>1. \A c : new(c) = MintedIn(c)
      BY <2>2 DEF CollectionAdded, MintedIn
    <3>2. new(k) = {}
      <4>1. \A t \in 1 .. Len(nfts) : nfts[t].collection \in 1 .. Len(collections)
        BY EntriesTyped
      <4>2. \A t \in 1 .. Len(nfts) : nfts[t].collection # k
        BY <1>1, <4>1
      <4>3. MintedIn(k) = {}
        BY <4>2 DEF MintedIn
      <4> HIDE DEF k, new
      <4>4. QED
        BY <3>1, <4>3
    <3>3. Cardinality(new(k)) = 0
      BY <3>2, FS_EmptySet
    <3>4. \A c \in 1 .. Len(collections') : collections'[c] \in CollectionRecord
      BY ElementOfSeq DEF NFTInv, TokensInv
    <3>5. \A c \in 1 .. Len(collections') : collections'[c].maxSupply \in Nat
      BY <3>4 DEF CollectionRecord
    <3>6. /\ Len(collections') = k
          /\ \A c \in 1 .. Len(collections) : collections'[c] = collections[c]
          /\ \A c \in 1 .. Len(collections') : c = k => collections'[c].supply = 0
      BY <2>2 DEF CollectionAdded
    <3>7. \A c \in 1 .. Len(collections') : c \in 1 .. Len(collections) \/ c = k
      BY <1>1, <3>6
    <3> HIDE DEF new, k
    <3>8. QED
      BY <1>1, <3>1, <3>3, <3>5, <3>6, <3>7
  <2>3. ASSUME NEW a, NEW d, NEW k, Minted(a, d, k)
        PROVE  Good
    <3> DEFINE n == Len(nfts)
               ids == n + 1 .. n + k
    <3>1. /\ d \in 1 .. Len(collections) /\ k \in Nat /\ Len(nfts') = n + k
          /\ \A x \in 1 .. n : nfts'[x] = nfts[x]
          /\ \A x \in n + 1 .. n + k : nfts'[x].collection = d
          /\ Len(collections') = Len(collections)
          /\ \A c \in 1 .. Len(collections) :
               /\ collections'[c].maxSupply = collections[c].maxSupply
               /\ collections'[c].supply = IF c = d THEN collections[c].supply + k ELSE collections[c].supply
          /\ collections[d].maxSupply > 0 => collections[d].supply + k <= collections[d].maxSupply
      BY <2>3 DEF Minted
    <3> HIDE DEF n
    <3>2. n \in Nat /\ \A x : x \in 1 .. n + k <=> x \in 1 .. n \/ x \in ids
      BY <1>1, <3>1 DEF n
    <3>3. \A c : new(c) = IF c = d THEN MintedIn(c) \union ids ELSE MintedIn(c)
      <4>1. \A x \in 1 .. n : nfts'[x].collection = nfts[x].collection
        BY <3>1
      <4>2. QED
        BY <3>1, <3>2, <4>1 DEF MintedIn, n
    <3>4. Cardinality(MintedIn(d) \union ids) = Cardinality(MintedIn(d)) + k
      <4> DEFINE lo == n + 1
                 hi == n + k
      <4>1. IsFiniteSet(ids) /\ Cardinality(ids) = k
        <5>1. lo \in Int /\ hi \in Int /\ (IF lo > hi THEN 0 ELSE hi - lo + 1) = k
          BY <3>1, <3>2
        <5>2. ids = lo .. hi
          OBVIOUS
        <5> HIDE DEF lo, hi, ids
        <5>3. QED
          BY <5>1, <5>2, FS_Interval
      <4>2. MintedIn(d) \subseteq 1 .. n
        BY DEF MintedIn, n
      <4>3. IsFiniteSet(MintedIn(d)) /\ Cardinality(MintedIn(d)) \in Nat
        BY <3>2, <4>2, UpTo
      <4>4. MintedIn(d) \cap ids = {}
        BY <3>2, <4>2
      <4> HIDE DEF ids
      <4>5. Cardinality(MintedIn(d) \cap ids) = 0
        BY <4>4, FS_EmptySet
      <4> DEFINE old == MintedIn(d)
      <4>6. Cardinality(old \union ids) = Cardinality(old) + Cardinality(ids) - Cardinality(old \cap ids)
        <5>1. IsFiniteSet(old) /\ IsFiniteSet(ids)
          BY <4>1, <4>3
        <5> HIDE DEF old
        <5>2. QED
          BY <5>1, FS_Union
      <4>7. QED
        BY <3>1, <4>1, <4>3, <4>5, <4>6
    <3> HIDE DEF new, ids
    <3>5. QED
      BY <1>1, <3>1, <3>3, <3>4
  <2>4. QED
    BY <2>1, <2>2, <2>3 DEF SuppliesMove
<1>4. QED
  BY <1>2, <1>3 DEF SupplyCapped, Tokens

\* The active listings, by the accounts they belong to.
LEMMA ListingsKept ==
  ASSUME NFTInv, NFTInv', ListingsMove,
         activeListings = Cardinality(ActiveListingsOf(Addresses)),
         \A a \in Addresses : portfolio[a].listings = Cardinality(ActiveListingsOf({a}))
  PROVE  /\ activeListings' = Cardinality(ActiveListingsOf(Addresses)')
         /\ \A a \in Addresses : portfolio'[a].listings = Cardinality(ActiveListingsOf({a})')
<1> DEFINE n == Len(listings)
           old(S) == {l \in 1 .. n : listings[l].active /\ listings[l].seller \in S}
           new(S) == {l \in 1 .. Len(listings') : listings'[l].active /\ listings'[l].seller \in S}
           Good == /\ activeListings' = Cardinality(new(Addresses))
                   /\ \A a \in Addresses : portfolio'[a].listings = Cardinality(new({a}))
<1>1. /\ n \in Nat /\ activeListings = Cardinality(old(Addresses))
      /\ \A a \in Addresses : portfolio[a].listings = Cardinality(old({a}))
  BY SizesTyped DEF ActiveListingsOf
<1>2. \A S : IsFiniteSet(old(S)) /\ Cardinality(old(S)) \in Nat
  <2>1. ASSUME NEW S PROVE IsFiniteSet(old(S)) /\ Cardinality(old(S)) \in Nat
    <3>1. old(S) \subseteq 1 .. n
      OBVIOUS
    <3> HIDE DEF old, n
    <3>2. QED
      BY <1>1, <3>1, UpTo
  <2>2. QED
    BY <2>1
<1>3. \A l \in 1 .. n : listings[l].seller \in Addresses
  BY EntriesTyped DEF ListingRecord
<1>4. Good
  <2>1. CASE ListingsStay
    <3>1. \A S : new(S) = old(S)
      BY <2>1 DEF ListingsStay
    <3> HIDE DEF new, old, n
    <3>2. QED
      BY <1>1, <2>1, <3>1 DEF ListingsStay
  <2>2. ASSUME NEW s, NEW t, ListingOpened(s, t)
        PROVE  Good
    <3> DEFINE x == n + 1
    <3>1. /\ s \in Addresses /\ Len(listings') = x /\ \A l \in 1 .. n : listings'[l] = listings[l]
          /\ listings'[x].active /\ listings'[x].seller = s
          /\ activeListings' = activeListings + 1
      BY <2>2 DEF ListingOpened
    <3>2. \A a \in Addresses : portfolio'[a].listings = IF a = s THEN portfolio[a].listings + 1 ELSE portfolio[a].listings
      BY <2>2, <3>1 DEF ListingOpened, PortfolioAs, ListingsNow
    <3> HIDE DEF n
    <3>3. \A l : l \in 1 .. x <=> l \in 1 .. n \/ l = x
      BY <1>1
    <3>4. x \notin 1 .. n
      BY <1>1
    <3> HIDE DEF x
    <3>5. \A S : new(S) = IF s \in S THEN old(S) \union {x} ELSE old(S)
      BY <3>1, <3>3
    <3>6. \A S : x \notin old(S)
      BY <3>4
    <3> HIDE DEF new, old
    <3>7. \A S : s \in S => Cardinality(new(S)) = Cardinality(old(S)) + 1
      BY <1>2, <3>5, <3>6, CountUp
    <3>8. \A a \in Addresses : a # s => new({a}) = old({a})
      BY <3>5
    <3>9. QED
      BY <1>1, <3>1, <3>2, <3>7, <3>8
  <2>3. ASSUME NEW x, ListingClosed(x)
        PROVE  Good
    <3> DEFINE s == listings[x].seller
    <3>1. /\ x \in 1 .. n /\ listings[x].active /\ Len(listings') = n
          /\ \A l \in 1 .. n : /\ listings'[l].active = IF l = x THEN FALSE ELSE listings[l].active
                               /\ listings'[l].seller = listings[l].seller
          /\ activeListings' = Less(activeListings)
      BY <2>3 DEF ListingClosed
    <3>2. s \in Addresses
      BY <1>3, <3>1
    <3>3. \A a \in Addresses : portfolio'[a].listings = IF a = s THEN Less(portfolio[a].listings) ELSE portfolio[a].listings
      BY <2>3, <3>2 DEF ListingClosed, PortfolioAs, ListingsNow
    <3>4. \A S : s \in S => new(S) = old(S) \ {x} /\ x \in old(S)
      BY <3>1
    <3>5. \A S : s \notin S => new(S) = old(S)
      BY <3>1
    <3> HIDE DEF new, old, n, s
    <3>6. \A S : s \in S => Cardinality(new(S)) = Less(Cardinality(old(S)))
      BY <1>2, <3>4, CountDown
    <3>7. \A a \in Addresses : a # s => new({a}) = old({a})
      BY <3>5
    <3>8. QED
      BY <1>1, <3>1, <3>2, <3>3, <3>6, <3>7
  <2>4. QED
    BY <2>1, <2>2, <2>3 DEF ListingsMove
<1>5. DOMAIN listings' = 1 .. Len(listings')
  BY LenProperties DEF NFTInv, MarketInv
<1>6. QED
  BY <1>4, <1>5 DEF ActiveListingsOf

LEMMA OffersKept ==
  ASSUME NFTInv, NFTInv', OffersMove,
         activeOffers = Cardinality(ActiveOffersOf(Addresses)),
         \A a \in Addresses : portfolio[a].offers = Cardinality(ActiveOffersOf({a}))
  PROVE  /\ activeOffers' = Cardinality(ActiveOffersOf(Addresses)')
         /\ \A a \in Addresses : portfolio'[a].offers = Cardinality(ActiveOffersOf({a})')
<1> DEFINE n == Len(offers)
           old(S) == {o \in 1 .. n : offers[o].active /\ offers[o].buyer \in S}
           new(S) == {o \in 1 .. Len(offers') : offers'[o].active /\ offers'[o].buyer \in S}
           Good == /\ activeOffers' = Cardinality(new(Addresses))
                   /\ \A a \in Addresses : portfolio'[a].offers = Cardinality(new({a}))
<1>1. /\ n \in Nat /\ activeOffers = Cardinality(old(Addresses))
      /\ \A a \in Addresses : portfolio[a].offers = Cardinality(old({a}))
  BY SizesTyped DEF ActiveOffersOf
<1>2. \A S : IsFiniteSet(old(S)) /\ Cardinality(old(S)) \in Nat
  <2>1. ASSUME NEW S PROVE IsFiniteSet(old(S)) /\ Cardinality(old(S)) \in Nat
    <3>1. old(S) \subseteq 1 .. n
      OBVIOUS
    <3> HIDE DEF old, n
    <3>2. QED
      BY <1>1, <3>1, UpTo
  <2>2. QED
    BY <2>1
<1>3. \A o \in 1 .. n : offers[o].buyer \in Addresses
  BY EntriesTyped DEF OfferRecord
<1>4. Good
  <2>1. CASE OffersStay
    <3>1. \A S : new(S) = old(S)
      BY <2>1 DEF OffersStay
    <3> HIDE DEF new, old, n
    <3>2. QED
      BY <1>1, <2>1, <3>1 DEF OffersStay
  <2>2. ASSUME NEW s, OfferOpened(s)
        PROVE  Good
    <3> DEFINE x == n + 1
    <3>1. /\ s \in Addresses /\ Len(offers') = x /\ \A o \in 1 .. n : offers'[o] = offers[o]
          /\ offers'[x].active /\ offers'[x].buyer = s
          /\ activeOffers' = activeOffers + 1
      BY <2>2 DEF OfferOpened
    <3>2. \A a \in Addresses : portfolio'[a].offers = IF a = s THEN portfolio[a].offers + 1 ELSE portfolio[a].offers
      BY <2>2, <3>1 DEF OfferOpened, PortfolioAs, OffersNow
    <3> HIDE DEF n
    <3>3. \A o : o \in 1 .. x <=> o \in 1 .. n \/ o = x
      BY <1>1
    <3>4. x \notin 1 .. n
      BY <1>1
    <3> HIDE DEF x
    <3>5. \A S : new(S) = IF s \in S THEN old(S) \union {x} ELSE old(S)
      BY <3>1, <3>3
    <3>6. \A S : x \notin old(S)
      BY <3>4
    <3> HIDE DEF new, old
    <3>7. \A S : s \in S => Cardinality(new(S)) = Cardinality(old(S)) + 1
      BY <1>2, <3>5, <3>6, CountUp
    <3>8. \A a \in Addresses : a # s => new({a}) = old({a})
      BY <3>5
    <3>9. QED
      BY <1>1, <3>1, <3>2, <3>7, <3>8
  <2>3. ASSUME NEW x, OfferClosed(x)
        PROVE  Good
    <3> DEFINE s == offers[x].buyer
    <3>1. /\ x \in 1 .. n /\ offers[x].active /\ Len(offers') = n
          /\ \A o \in 1 .. n : /\ offers'[o].active = IF o = x THEN FALSE ELSE offers[o].active
                               /\ offers'[o].buyer = offers[o].buyer
          /\ activeOffers' = Less(activeOffers)
      BY <2>3 DEF OfferClosed
    <3>2. s \in Addresses
      BY <1>3, <3>1
    <3>3. \A a \in Addresses : portfolio'[a].offers = IF a = s THEN Less(portfolio[a].offers) ELSE portfolio[a].offers
      BY <2>3, <3>2 DEF OfferClosed, PortfolioAs, OffersNow
    <3>4. \A S : s \in S => new(S) = old(S) \ {x} /\ x \in old(S)
      BY <3>1
    <3>5. \A S : s \notin S => new(S) = old(S)
      BY <3>1
    <3> HIDE DEF new, old, n, s
    <3>6. \A S : s \in S => Cardinality(new(S)) = Less(Cardinality(old(S)))
      BY <1>2, <3>4, CountDown
    <3>7. \A a \in Addresses : a # s => new({a}) = old({a})
      BY <3>5
    <3>8. QED
      BY <1>1, <3>1, <3>2, <3>3, <3>6, <3>7
  <2>4. QED
    BY <2>1, <2>2, <2>3 DEF OffersMove
<1>5. DOMAIN offers' = 1 .. Len(offers')
  BY LenProperties DEF NFTInv, MarketInv
<1>6. QED
  BY <1>4, <1>5 DEF ActiveOffersOf

LEMMA MarketCountsKept ==
  ASSUME NFTInv, NFTInv', ListingsMove, OffersMove, MarketCountsExact
  PROVE  MarketCountsExact'
<1>1. /\ activeListings = Cardinality(ActiveListingsOf(Addresses))
      /\ \A a \in Addresses : portfolio[a].listings = Cardinality(ActiveListingsOf({a}))
  BY DEF MarketCountsExact
<1>2. /\ activeOffers = Cardinality(ActiveOffersOf(Addresses))
      /\ \A a \in Addresses : portfolio[a].offers = Cardinality(ActiveOffersOf({a}))
  BY DEF MarketCountsExact
<1>3. /\ activeListings' = Cardinality(ActiveListingsOf(Addresses)')
      /\ \A a \in Addresses : portfolio'[a].listings = Cardinality(ActiveListingsOf({a})')
  BY <1>1, ListingsKept
<1>4. /\ activeOffers' = Cardinality(ActiveOffersOf(Addresses)')
      /\ \A a \in Addresses : portfolio'[a].offers = Cardinality(ActiveOffersOf({a})')
  BY <1>2, OffersKept
<1>5. QED
  BY <1>3, <1>4 DEF MarketCountsExact

LEMMA LoanCountsKept ==
  ASSUME NFTInv, NFTInv', LoansMove, LoanCountsExact
  PROVE  LoanCountsExact'
<1> DEFINE n == Len(loans)
           took(a) == {i \in 1 .. n : loans[i].active /\ loans[i].borrower = a}
           gave(a) == {i \in 1 .. n : loans[i].active /\ loans[i].lender = a}
           takes(a) == {i \in 1 .. Len(loans') : loans'[i].active /\ loans'[i].borrower = a}
           gives(a) == {i \in 1 .. Len(loans') : loans'[i].active /\ loans'[i].lender = a}
           Good == \A a \in Addresses : /\ portfolio'[a].loansTaken = Cardinality(takes(a))
                                        /\ portfolio'[a].loansGiven = Cardinality(gives(a))
<1>1. /\ n \in Nat
      /\ \A a \in Addresses : /\ portfolio[a].loansTaken = Cardinality(took(a))
                              /\ portfolio[a].loansGiven = Cardinality(gave(a))
  BY SizesTyped DEF LoanCountsExact
<1>2. \A a : IsFiniteSet(took(a)) /\ IsFiniteSet(gave(a))
  <2>1. ASSUME NEW a PROVE IsFiniteSet(took(a)) /\ IsFiniteSet(gave(a))
    <3>1. took(a) \subseteq 1 .. n /\ gave(a) \subseteq 1 .. n
      OBVIOUS
    <3> HIDE DEF took, gave, n
    <3>2. QED
      BY <1>1, <3>1, UpTo
  <2>2. QED
    BY <2>1
<1>3. Good
  <2>1. CASE LoansStay
    <3>1. \A a : takes(a) = took(a) /\ gives(a) = gave(a)
      BY <2>1 DEF LoansStay
    <3> HIDE DEF takes, gives, took, gave, n
    <3>2. QED
      BY <1>1, <2>1, <3>1 DEF LoansStay
  <2>2. ASSUME NEW t, LoanRequested(t), UNCHANGED portfolio
        PROVE  Good
    <3> DEFINE x == n + 1
    <3>1. Len(loans') = x /\ ~loans'[x].active /\ \A i \in 1 .. n : loans'[i] = loans[i]
      BY <2>2 DEF LoanRequested
    <3> HIDE DEF n
    <3>2. \A i : i \in 1 .. x <=> i \in 1 .. n \/ i = x
      BY <1>1
    <3> HIDE DEF x
    <3>3. \A a : takes(a) = took(a) /\ gives(a) = gave(a)
      BY <3>1, <3>2
    <3> HIDE DEF takes, gives, took, gave
    <3>4. QED
      BY <1>1, <2>2, <3>3
  <2>3. ASSUME NEW x, NEW l, LoanStarted(x, l)
        PROVE  Good
    <3> DEFINE b == loans[x].borrower
    <3>1. /\ x \in 1 .. n /\ ~loans[x].active /\ l \in Addresses /\ Len(loans') = n
          /\ \A i \in 1 .. n : i # x => loans'[i] = loans[i]
          /\ loans'[x].active /\ loans'[x].borrower = b /\ loans'[x].lender = l
      BY <2>3 DEF LoanStarted
    <3>2. b \in Addresses
      BY <3>1, PartiesTyped
    <3>3. \A a \in Addresses :
            /\ portfolio'[a].loansTaken = IF a = b THEN portfolio[a].loansTaken + 1 ELSE portfolio[a].loansTaken
            /\ portfolio'[a].loansGiven = IF a = l THEN portfolio[a].loansGiven + 1 ELSE portfolio[a].loansGiven
      BY <2>3, <3>1, <3>2 DEF LoanStarted, PortfolioAs, TakenNow, GivenNow
    <3> HIDE DEF b, n
    <3>4. \A a : /\ takes(a) = IF a = b THEN took(a) \union {x} ELSE took(a)
                 /\ gives(a) = IF a = l THEN gave(a) \union {x} ELSE gave(a)
                 /\ x \notin took(a) /\ x \notin gave(a)
      BY <3>1
    <3> HIDE DEF takes, gives, took, gave
    <3>5. \A a : /\ Cardinality(took(a) \union {x}) = Cardinality(took(a)) + 1
                 /\ Cardinality(gave(a) \union {x}) = Cardinality(gave(a)) + 1
      BY <1>2, <3>4, CountUp
    <3>6. QED
      BY <1>1, <3>3, <3>4, <3>5
  <2>4. ASSUME NEW x, LoanEnded(x)
        PROVE  Good
    <3> DEFINE b == loans[x].borrower
               l == loans[x].lender
    <3>1. /\ x \in 1 .. n /\ loans[x].active /\ Len(loans') = n
          /\ \A i \in 1 .. n : i # x => loans'[i] = loans[i]
          /\ ~loans'[x].active
      BY <2>4 DEF LoanEnded
    <3>2. b \in Addresses /\ l \in Addresses
      BY <3>1, PartiesTyped
    <3>3. \A a \in Addresses :
            /\ portfolio'[a].loansTaken = IF a = b THEN Less(portfolio[a].loansTaken) ELSE portfolio[a].loansTaken
            /\ portfolio'[a].loansGiven = IF a = l THEN Less(portfolio[a].loansGiven) ELSE portfolio[a].loansGiven
      BY <2>4, <3>2 DEF LoanEnded, PortfolioAs, TakenNow, GivenNow
    <3>4. \A a : /\ takes(a) = took(a) \ {x} /\ (a # b => takes(a) = took(a))
                 /\ gives(a) = gave(a) \ {x} /\ (a # l => gives(a) = gave(a))
      BY <3>1
    <3>5. x \in took(b) /\ x \in gave(l)
      BY <3>1
    <3> HIDE DEF takes, gives, took, gave, n, b, l
    <3>6. /\ Less(Cardinality(took(b))) = Cardinality(took(b) \ {x})
          /\ Less(Cardinality(gave(l))) = Cardinality(gave(l) \ {x})
      BY <1>2, <3>5, CountDown
    <3>7. QED
      BY <1>1, <3>2, <3>3, <3>4, <3>6
  <2>5. QED
    BY <2>1, <2>2, <2>3, <2>4 DEF LoansMove
<1>4. DOMAIN loans' = 1 .. Len(loans')
  BY LenProperties DEF NFTInv, LoansInv
<1>5. QED
  BY <1>3, <1>4 DEF LoanCountsExact

-----------------------------------------------------------------------------
(* Uses of a token *)

LEMMA UseKept ==
  ASSUME NFTInv, NFTInv', UseMove, ExclusiveUse
  PROVE  ExclusiveUse'
<1> DEFINE Used(t) == /\ \A l \in 1 .. Len(listings') : listings'[l].token = t => ~listings'[l].active
                      /\ t \in 1 .. Len(nfts') => ~nfts'[t].fractional
           Good == \A t \in 1 .. MaxTokens : collateralOf'[t] # 0 => Used(t)
<1>1. /\ DOMAIN listings = 1 .. Len(listings) /\ Len(listings) \in Nat /\ Len(nfts) \in Nat
      /\ \A t \in 1 .. MaxTokens : Pledged(t) =>
           /\ \A l \in 1 .. Len(listings) : listings[l].token = t => ~listings[l].active
           /\ t \in 1 .. Len(nfts) => ~nfts[t].fractional
  BY SizesTyped DEF ExclusiveUse, Tokens
<1>2. Len(listings') \in Nat /\ Len(nfts') \in Nat
  BY LenProperties DEF NFTInv, MarketInv, TokensInv
<1>3. Good
  <2>1. CASE UseStays
    <3>1. \A x \in 1 .. Len(nfts') : x \in 1 .. Len(nfts) \/ x \in Len(nfts) + 1 .. Len(nfts')
      BY <1>1, <1>2, <2>1 DEF UseStays
    <3>2. QED
      BY <1>1, <2>1, <3>1 DEF UseStays, Pledged
  <2>2. ASSUME NEW a, NEW t, ListingOpened(a, t), ~Pledged(t), UNCHANGED << nfts, collateralOf >>
        PROVE  Good
    <3>1. \A l \in 1 .. Len(listings') : l \in 1 .. Len(listings) \/ l = Len(listings) + 1
      BY <1>1, <1>2, <2>2 DEF ListingOpened
    <3>2. QED
      BY <1>1, <2>2, <3>1 DEF ListingOpened, Pledged
  <2>3. ASSUME NEW t \in 1 .. Len(nfts), NEW a \in Addresses, NEW n \in Nat, Cut(t, a, n)
        PROVE  Good
    <3>1. /\ ~Pledged(t) /\ UNCHANGED << listings, collateralOf >> /\ Len(nfts') = Len(nfts)
          /\ \A x \in 1 .. Len(nfts) : x # t => nfts'[x] = nfts[x]
      BY <2>3 DEF Cut, ShareStep
    <3>2. QED
      BY <1>1, <3>1 DEF Pledged
  <2>4. ASSUME NEW t, LoanRequested(t), ~nfts[t].fractional, UNCHANGED << listings, nfts >>,
               \A l \in DOMAIN listings : listings[l].token = t => ~listings[l].active
        PROVE  Good
    <3>1. collateralOf' = [collateralOf EXCEPT ![t] = Len(loans) + 1]
      BY <2>4 DEF LoanRequested
    <3>2. \A x \in 1 .. MaxTokens : x # t => collateralOf'[x] = collateralOf[x]
      BY <3>1 DEF NFTInv, PledgeInv
    <3>3. QED
      BY <1>1, <2>4, <3>2 DEF Pledged
  <2>5. QED
    BY <2>1, <2>2, <2>3, <2>4 DEF UseMove
<1>4. DOMAIN listings' = 1 .. Len(listings') /\ DOMAIN nfts' = 1 .. Len(nfts')
  BY LenProperties DEF NFTInv, MarketInv, TokensInv
<1>5. QED
  BY <1>3, <1>4 DEF ExclusiveUse, Pledged, Tokens

-----------------------------------------------------------------------------
(* Shares in existence *)

\* What holds of a token with shares f, holders list, and a record that says
\* fr, sup and circ.
ShareSound(f, list, fr, sup, circ) ==
  /\ Held(f, list)
  /\ ~fr => SumFunctionOnSet(f, Addresses) = 0
  /\ fr => SumFunctionOnSet(f, Addresses) <= sup + circ /\ circ <= sup

LEMMA SharesSumTo ==
  ASSUME NEW f \in [Addresses -> Nat]
  PROVE  /\ SumFunctionOnSet(f, Addresses) \in Nat
         /\ \A a \in Addresses : f[a] <= SumFunctionOnSet(f, Addresses)
         /\ \A a \in Addresses, n \in Nat :
              SumFunctionOnSet([f EXCEPT ![a] = n], Addresses) = SumFunctionOnSet(f, Addresses) - f[a] + n
<1>1. IsFiniteSet(Addresses) /\ \A x \in Addresses : f[x] \in Nat /\ f[x] \in Int
  BY NFTAssumption
<1>2. ASSUME NEW a \in Addresses, NEW n \in Nat
      PROVE  SumFunctionOnSet([f EXCEPT ![a] = n], Addresses) = SumFunctionOnSet(f, Addresses) - f[a] + n
  <2> DEFINE g == [f EXCEPT ![a] = n]
  <2>1. g[a] = n /\ g[a] \in Int /\ \A x \in Addresses : a # x => g[x] = f[x]
    OBVIOUS
  <2> HIDE DEF g
  <2>2. SumFunctionOnSet(g, Addresses) = SumFunctionOnSet(f, Addresses) - f[a] + g[a]
    <3>1. \A x \in Addresses : x # a => g[x] = f[x]
      BY <2>1
    <3>2. QED
      BY <1>1, <2>1, <3>1, SumChange
  <2>3. QED
    BY <2>1, <2>2 DEF g
<1>3. QED
  BY <1>1, <1>2, SumType, SumBounds

LEMMA ShareStepSound ==
  ASSUME NFTInv, NEW t \in 1 .. Len(nfts), NEW f, NEW list, NEW fr, NEW sup, NEW circ,
         ShareStep(t, f, list, fr, sup, circ), ShareSound(f, list, fr, sup, circ),
         \A x \in 1 .. Len(nfts) :
           ShareSound(shares[x], shareholders[x], nfts[x].fractional, nfts[x].supply, nfts[x].circulating),
         NEW x \in 1 .. Len(nfts)
  PROVE  ShareSound(shares'[x], shareholders'[x], nfts'[x].fractional, nfts'[x].supply, nfts'[x].circulating)
<1>1. /\ x \in 1 .. MaxTokens /\ t \in 1 .. MaxTokens
      /\ shares \in [1 .. MaxTokens -> [Addresses -> Nat]] /\ shareholders \in [1 .. MaxTokens -> Seq(Addresses)]
  BY SharesTyped
<1>2. CASE x = t
  BY <1>1, <1>2 DEF ShareStep
<1>3. CASE x # t
  <2>1. shares'[x] = shares[x] /\ shareholders'[x] = shareholders[x] /\ nfts'[x] = nfts[x]
    BY <1>1, <1>3 DEF ShareStep
  <2>2. QED
    BY <2>1
<1>4. QED
  BY <1>2, <1>3

\* Each of the five operations leaves its own token sound.
LEMMA SharesMoveSound ==
  ASSUME NFTInv, NEW t \in 1 .. Len(nfts), NEW a \in Addresses, NEW b \in Addresses, NEW n \in Nat,
         ShareSound(shares[t], shareholders[t], nfts[t].fractional, nfts[t].supply, nfts[t].circulating)
  PROVE  /\ Cut(t, a, n) =>
              ShareSound([shares[t] EXCEPT ![a] = n], Holders(shareholders[t], a, n), TRUE, n, 0)
         /\ Bought(t, a, n) =>
              ShareSound([shares[t] EXCEPT ![a] = shares[t][a] + n],
                         Holders(shareholders[t], a, shares[t][a] + n),
                         TRUE, nfts[t].supply, nfts[t].circulating + n)
         /\ SoldBack(t, a, n) =>
              ShareSound([shares[t] EXCEPT ![a] = shares[t][a] - n],
                         Holders(shareholders[t], a, shares[t][a] - n),
                         nfts[t].fractional, nfts[t].supply,
                         IF nfts[t].circulating < n THEN 0 ELSE nfts[t].circulating - n)
         /\ HandedOn(t, a, b, n) =>
              ShareSound([shares[t] EXCEPT ![a] = shares[t][a] - n, ![b] = shares[t][b] + n],
                         Holders(Holders(shareholders[t], a, shares[t][a] - n), b, shares[t][b] + n),
                         nfts[t].fractional, nfts[t].supply, nfts[t].circulating)
         /\ Dissolved(t) =>
              ShareSound([c \in Addresses |-> IF c \in ToSet(shareholders[t]) THEN 0 ELSE shares[t][c]],
                         << >>, FALSE, 1, 1)
<1> DEFINE f == shares[t]
           list == shareholders[t]
           fr == nfts[t].fractional
           sup == nfts[t].supply
           circ == nfts[t].circulating
           sum == SumFunctionOnSet(f, Addresses)
<1>1. /\ f \in [Addresses -> Nat] /\ list \in Seq(Addresses) /\ Held(f, list)
      /\ ~fr => sum = 0
      /\ fr => sum <= sup + circ /\ circ <= sup
  BY SharesTyped DEF ShareSound
<1>2. fr \in BOOLEAN /\ sup \in Nat /\ circ \in Nat
  BY EntriesTyped DEF NFTRecord
<1>3. sum \in Nat /\ f[a] \in Nat /\ f[b] \in Nat /\ f[a] <= sum
  BY <1>1, SharesSumTo
<1>4. ASSUME Cut(t, a, n)
      PROVE  ShareSound([f EXCEPT ![a] = n], Holders(list, a, n), TRUE, n, 0)
  <2>1. ~fr /\ n > 0
    BY <1>4 DEF Cut
  <2> HIDE DEF f, list, fr, sup, circ
  <2>2. sum = 0 /\ f[a] = 0
    BY <1>1, <1>3, <2>1
  <2>3. SumFunctionOnSet([f EXCEPT ![a] = n], Addresses) = sum - f[a] + n
    BY <1>1, SharesSumTo
  <2>4. Held([f EXCEPT ![a] = n], Holders(list, a, n))
    BY <1>1, HoldersHeld
  <2>5. QED
    BY <2>1, <2>2, <2>3, <2>4 DEF ShareSound
<1>5. ASSUME Bought(t, a, n)
      PROVE  ShareSound([f EXCEPT ![a] = f[a] + n], Holders(list, a, f[a] + n), TRUE, sup, circ + n)
  <2>1. fr /\ circ + n <= sup
    BY <1>5 DEF Bought
  <2> DEFINE m == f[a] + n
  <2>2. m \in Nat
    BY <1>3
  <2> HIDE DEF f, list, fr, sup, circ, sum
  <2>3. m = f[a] + n
    OBVIOUS
  <2> HIDE DEF m
  <2>4. SumFunctionOnSet([f EXCEPT ![a] = m], Addresses) = sum - f[a] + m
    BY <1>1, <2>2, SharesSumTo DEF sum
  <2>5. Held([f EXCEPT ![a] = m], Holders(list, a, m))
    BY <1>1, <2>2, HoldersHeld
  <2>6. sum - f[a] + m <= sup + (circ + n)
    BY <1>1, <1>2, <1>3, <2>1, <2>3
  <2>7. ShareSound([f EXCEPT ![a] = m], Holders(list, a, m), TRUE, sup, circ + n)
    BY <2>1, <2>4, <2>5, <2>6 DEF ShareSound
  <2>8. QED
    BY <2>7 DEF m
<1>6. ASSUME SoldBack(t, a, n)
      PROVE  ShareSound([f EXCEPT ![a] = f[a] - n], Holders(list, a, f[a] - n),
                        fr, sup, IF circ < n THEN 0 ELSE circ - n)
  <2>1. n > 0 /\ f[a] >= n
    BY <1>6 DEF SoldBack
  <2> DEFINE m == f[a] - n
             rest == IF circ < n THEN 0 ELSE circ - n
  <2>2. m \in Nat /\ m = f[a] - n
    BY <1>3, <2>1
  <2> HIDE DEF f, list, fr, sup, circ, sum, m
  <2>3. SumFunctionOnSet([f EXCEPT ![a] = m], Addresses) = sum - f[a] + m
    BY <1>1, <2>2, SharesSumTo DEF sum
  <2>4. Held([f EXCEPT ![a] = m], Holders(list, a, m))
    BY <1>1, <2>2, HoldersHeld
  <2>5. fr
    BY <1>1, <1>2, <1>3, <2>1
  <2>6. sum - f[a] + m <= sup + rest /\ rest <= sup
    BY <1>1, <1>2, <1>3, <2>1, <2>2, <2>5
  <2> HIDE DEF rest
  <2>7. ShareSound([f EXCEPT ![a] = m], Holders(list, a, m), fr, sup, rest)
    BY <2>3, <2>4, <2>5, <2>6 DEF ShareSound
  <2>8. QED
    BY <2>7 DEF m, rest
<1>7. ASSUME HandedOn(t, a, b, n)
      PROVE  ShareSound([f EXCEPT ![a] = f[a] - n, ![b] = f[b] + n],
                        Holders(Holders(list, a, f[a] - n), b, f[b] + n), fr, sup, circ)
  <2>1. a # b /\ f[a] >= n
    BY <1>7 DEF HandedOn
  <2> DEFINE x == f[a] - n
             y == f[b] + n
             g == [f EXCEPT ![a] = x]
             mid == Holders(list, a, x)
  <2>2. x \in Nat /\ y \in Nat /\ x = f[a] - n /\ y = f[b] + n
    BY <1>3, <2>1
  <2> HIDE DEF f, list, fr, sup, circ, sum, x, y
  <2>3. g \in [Addresses -> Nat] /\ g[b] = f[b] /\ [f EXCEPT ![a] = x, ![b] = y] = [g EXCEPT ![b] = y]
    BY <1>1, <2>1, <2>2
  <2>4. mid \in Seq(Addresses) /\ Held(g, mid)
    BY <1>1, <2>2, HoldersHeld, HoldersTyped
  <2>5. SumFunctionOnSet(g, Addresses) = sum - f[a] + x
    BY <1>1, <2>2, SharesSumTo DEF sum
  <2> HIDE DEF g, mid
  <2>6. Held([g EXCEPT ![b] = y], Holders(mid, b, y))
    BY <2>2, <2>3, <2>4, HoldersHeld
  <2>7. SumFunctionOnSet([g EXCEPT ![b] = y], Addresses) = SumFunctionOnSet(g, Addresses) - g[b] + y
    <3>1. g \in [Addresses -> Nat] /\ y \in Nat
      BY <2>2, <2>3
    <3>2. QED
      BY <3>1, SharesSumTo
  <2>8. SumFunctionOnSet([g EXCEPT ![b] = y], Addresses) = sum
    <3> DEFINE all == SumFunctionOnSet([g EXCEPT ![b] = y], Addresses)
               some == SumFunctionOnSet(g, Addresses)
    <3>1. all = some - g[b] + y /\ some = sum - f[a] + x
      BY <2>5, <2>7
    <3> HIDE DEF all, some
    <3>2. g[b] = f[b] /\ f[a] \in Nat /\ f[b] \in Nat /\ sum \in Nat
      BY <1>3, <2>3
    <3>3. all = (sum - f[a] + (f[a] - n)) - f[b] + (f[b] + n)
      BY <2>2, <3>1, <3>2
    <3>4. \A v, w, k, z \in Nat : (z - v + (v - k)) - w + (w + k) = z
      OBVIOUS
    <3>5. QED
      BY <3>2, <3>3, <3>4 DEF all
  <2>9. ShareSound([g EXCEPT ![b] = y], Holders(mid, b, y), fr, sup, circ)
    BY <1>1, <2>6, <2>8 DEF ShareSound, sum
  <2>10. ShareSound([f EXCEPT ![a] = x, ![b] = y], Holders(mid, b, y), fr, sup, circ)
    BY <2>3, <2>9
  <2>11. QED
    BY <2>10 DEF x, y, mid
<1>8. ASSUME Dissolved(t)
      PROVE  ShareSound([c \in Addresses |-> IF c \in ToSet(list) THEN 0 ELSE f[c]], << >>, FALSE, 1, 1)
  <2> DEFINE g == [c \in Addresses |-> IF c \in ToSet(list) THEN 0 ELSE f[c]]
  <2>1. \A c \in Addresses : c \notin ToSet(list) => f[c] = 0
    <3>1. ToSet(list) = {c \in Addresses : f[c] > 0}
      BY <1>1 DEF Held, Lists
    <3>2. \A c \in Addresses : f[c] \in Nat
      BY <1>1
    <3> HIDE DEF f, list
    <3>3. QED
      BY <3>1, <3>2
  <2>2. \A c \in Addresses : g[c] = 0
    BY <2>1
  <2> HIDE DEF g
  <2>3. SumFunctionOnSet(g, Addresses) = 0
    BY <2>2, NFTAssumption, SumZero
  <2>4. {c \in Addresses : g[c] > 0} = {}
    BY <2>2
  <2>5. Held(g, << >>)
    BY <2>4, ListsEmpty DEF Held
  <2>6. QED
    BY <2>3, <2>5 DEF ShareSound, g
<1>9. QED
  BY <1>4, <1>5, <1>6, <1>7, <1>8

\* The two properties of shares, token by token.
SharesSound ==
  /\ \A t \in 1 .. Len(nfts) :
       ShareSound(shares[t], shareholders[t], nfts[t].fractional, nfts[t].supply, nfts[t].circulating)
  /\ \A t \in 1 .. MaxTokens : t \notin 1 .. Len(nfts) => ShareSound(shares[t], shareholders[t], FALSE, 0, 0)

LEMMA SharesSoundMeans ==
  ASSUME NFTInv
  PROVE  SharesSound <=> ShareholdersExact /\ IssueBounded
<1>1. /\ DOMAIN nfts = 1 .. Len(nfts)
      /\ \A t \in 1 .. MaxTokens : shares[t] \in [Addresses -> Nat]
      /\ \A t \in 1 .. Len(nfts) : t \in 1 .. MaxTokens /\ nfts[t].fractional \in BOOLEAN
  BY SizesTyped, SharesTyped, EntriesTyped DEF NFTInv, FractionalTypeOK, NFTRecord
<1>2. \A t \in 1 .. MaxTokens : Issued(t) = SumFunctionOnSet(shares[t], Addresses)
  BY <1>1 DEF Issued, SumFunction
<1>3. QED
  BY <1>1, <1>2 DEF SharesSound, ShareSound, Held, Lists, ShareholdersExact, IssueBounded, Tokens

LEMMA SharesKept ==
  ASSUME NFTInv, NFTInv', SharesMove, ShareholdersExact, IssueBounded
  PROVE  ShareholdersExact' /\ IssueBounded'
<1>1. /\ Len(nfts) \in Nat /\ DOMAIN nfts = 1 .. Len(nfts)
      /\ \A t \in 1 .. Len(nfts) :
           ShareSound(shares[t], shareholders[t], nfts[t].fractional, nfts[t].supply, nfts[t].circulating)
      /\ \A t \in 1 .. MaxTokens : t \notin 1 .. Len(nfts) => ShareSound(shares[t], shareholders[t], FALSE, 0, 0)
  BY SizesTyped, SharesSoundMeans DEF SharesSound
<1>2. /\ Len(nfts') \in Nat /\ DOMAIN nfts' = 1 .. Len(nfts') /\ Len(nfts') <= MaxTokens /\ MaxTokens \in Nat
      /\ shares' \in [1 .. MaxTokens -> [Addresses -> Nat]]
  BY LenProperties, NFTAssumption DEF NFTInv, TokensInv, FractionalTypeOK
<1> DEFINE Good ==
      /\ \A t \in 1 .. Len(nfts') :
           ShareSound(shares'[t], shareholders'[t], nfts'[t].fractional, nfts'[t].supply, nfts'[t].circulating)
      /\ \A t \in 1 .. MaxTokens : t \notin 1 .. Len(nfts') => ShareSound(shares'[t], shareholders'[t], FALSE, 0, 0)
<1>3. ASSUME NEW t \in 1 .. Len(nfts), NEW f, NEW list, NEW fr, NEW sup, NEW circ,
             ShareStep(t, f, list, fr, sup, circ), ShareSound(f, list, fr, sup, circ)
      PROVE  Good
  <2>1. \A x \in 1 .. Len(nfts) :
          ShareSound(shares'[x], shareholders'[x], nfts'[x].fractional, nfts'[x].supply, nfts'[x].circulating)
    BY <1>1, <1>3, ShareStepSound
  <2>2. Len(nfts') = Len(nfts)
    BY <1>3 DEF ShareStep
  <2>3. ASSUME NEW x \in 1 .. MaxTokens, x \notin 1 .. Len(nfts)
        PROVE  shares'[x] = shares[x] /\ shareholders'[x] = shareholders[x]
    <3>1. x # t
      BY <2>3
    <3>2. shares' = [shares EXCEPT ![t] = f] /\ shareholders' = [shareholders EXCEPT ![t] = list]
      BY <1>3 DEF ShareStep
    <3>3. QED
      BY <3>1, <3>2 DEF NFTInv, FractionalTypeOK
  <2>4. QED
    BY <1>1, <2>1, <2>2, <2>3
<1>4. Good
  <2>1. CASE SharesStay
    <3>1. /\ shares' = shares /\ shareholders' = shareholders /\ Len(nfts') >= Len(nfts)
          /\ \A x \in 1 .. Len(nfts) : /\ nfts'[x].fractional = nfts[x].fractional
                                       /\ nfts'[x].supply = nfts[x].supply
                                       /\ nfts'[x].circulating = nfts[x].circulating
          /\ \A x \in Len(nfts) + 1 .. Len(nfts') : ~nfts'[x].fractional
      BY <2>1 DEF SharesStay, shareVars
    <3>2. ASSUME NEW x \in 1 .. Len(nfts'), x \notin 1 .. Len(nfts)
          PROVE  ShareSound(shares'[x], shareholders'[x], nfts'[x].fractional, nfts'[x].supply, nfts'[x].circulating)
      <4>1. x \in Len(nfts) + 1 .. Len(nfts') /\ x \in 1 .. MaxTokens
        BY <1>1, <1>2, <3>2
      <4>2. ShareSound(shares[x], shareholders[x], FALSE, 0, 0) /\ ~nfts'[x].fractional
        BY <1>1, <3>1, <3>2, <4>1
      <4>3. QED
        BY <3>1, <4>2 DEF ShareSound
    <3>3. \A x \in 1 .. Len(nfts) :
            ShareSound(shares'[x], shareholders'[x], nfts'[x].fractional, nfts'[x].supply, nfts'[x].circulating)
      BY <1>1, <3>1
    <3>4. \A x \in 1 .. MaxTokens : x \notin 1 .. Len(nfts') => ShareSound(shares'[x], shareholders'[x], FALSE, 0, 0)
      <4>1. \A x \in 1 .. MaxTokens : x \notin 1 .. Len(nfts') => x \notin 1 .. Len(nfts)
        BY <1>1, <1>2, <3>1
      <4>2. QED
        BY <1>1, <3>1, <4>1
    <3>5. QED
      BY <3>2, <3>3, <3>4
  <2>2. ASSUME NEW t \in 1 .. Len(nfts), NEW a \in Addresses, NEW n \in Nat, Cut(t, a, n)
        PROVE  Good
    <3> DEFINE f == [shares[t] EXCEPT ![a] = n]
               list == Holders(shareholders[t], a, n)
               sup == n
               circ == 0
    <3>1. ShareStep(t, f, list, TRUE, sup, circ)
      BY <2>2 DEF Cut
    <3>2. ShareSound(f, list, TRUE, sup, circ)
      BY <1>1, <2>2, SharesMoveSound
    <3> HIDE DEF f, list, sup, circ
    <3>3. QED
      BY <1>3, <3>1, <3>2
  <2>3. ASSUME NEW t \in 1 .. Len(nfts), NEW a \in Addresses, NEW n \in Nat, Bought(t, a, n)
        PROVE  Good
    <3> DEFINE f == [shares[t] EXCEPT ![a] = shares[t][a] + n]
               list == Holders(shareholders[t], a, shares[t][a] + n)
               sup == nfts[t].supply
               circ == nfts[t].circulating + n
    <3>1. ShareStep(t, f, list, TRUE, sup, circ)
      BY <2>3 DEF Bought
    <3>2. ShareSound(f, list, TRUE, sup, circ)
      BY <1>1, <2>3, SharesMoveSound
    <3> HIDE DEF f, list, sup, circ
    <3>3. QED
      BY <1>3, <3>1, <3>2
  <2>4. ASSUME NEW t \in 1 .. Len(nfts), NEW a \in Addresses, NEW n \in Nat, SoldBack(t, a, n)
        PROVE  Good
    <3> DEFINE f == [shares[t] EXCEPT ![a] = shares[t][a] - n]
               list == Holders(shareholders[t], a, shares[t][a] - n)
               sup == nfts[t].supply
               circ == IF nfts[t].circulating < n THEN 0 ELSE nfts[t].circulating - n
    <3>1. ShareStep(t, f, list, nfts[t].fractional, sup, circ)
      BY <2>4 DEF SoldBack
    <3>2. ShareSound(f, list, nfts[t].fractional, sup, circ)
      BY <1>1, <2>4, SharesMoveSound
    <3> HIDE DEF f, list, sup, circ
    <3>3. QED
      BY <1>3, <3>1, <3>2
  <2>5. ASSUME NEW t \in 1 .. Len(nfts), NEW a \in Addresses, NEW b \in Addresses, NEW n \in Nat,
               HandedOn(t, a, b, n)
        PROVE  Good
    <3> DEFINE f == [shares[t] EXCEPT ![a] = shares[t][a] - n, ![b] = shares[t][b] + n]
               list == Holders(Holders(shareholders[t], a, shares[t][a] - n), b, shares[t][b] + n)
               sup == nfts[t].supply
               circ == nfts[t].circulating
    <3>1. ShareStep(t, f, list, nfts[t].fractional, sup, circ)
      BY <2>5 DEF HandedOn
    <3>2. ShareSound(f, list, nfts[t].fractional, sup, circ)
      BY <1>1, <2>5, SharesMoveSound
    <3> HIDE DEF f, list, sup, circ
    <3>3. QED
      BY <1>3, <3>1, <3>2
  <2>6. ASSUME NEW t \in 1 .. Len(nfts), Dissolved(t)
        PROVE  Good
    <3>1. InitialAdmin \in Addresses /\ 0 \in Nat
      BY AdminAssumption
    <3>2. QED
      BY <1>1, <1>3, <2>6, <3>1, SharesMoveSound DEF Dissolved
  <2>7. QED
    BY <2>1, <2>2, <2>3, <2>4, <2>5, <2>6 DEF SharesMove
<1>5. \A t \in 1 .. MaxTokens : Issued(t)' = SumFunctionOnSet(shares'[t], Addresses)
  BY <1>2 DEF Issued, SumFunction
<1>6. \A t \in 1 .. Len(nfts') : t \in 1 .. MaxTokens /\ nfts'[t].fractional \in BOOLEAN
  <2>1. \A t \in 1 .. Len(nfts') : nfts'[t] \in NFTRecord
    BY ElementOfSeq DEF NFTInv, TokensInv, NFTOf
  <2>2. QED
    BY <1>2, <2>1 DEF NFTRecord
<1>7. QED
  BY <1>2, <1>4, <1>5, <1>6 DEF ShareSound, Held, Lists, ShareholdersExact, IssueBounded, Tokens

-----------------------------------------------------------------------------
(* The statistics of a collection and the history of its sales *)

SoldIn(c) == {i \in 1 .. Len(trades) : nfts[trades[i].token].collection = c}
TradePrices == [i \in 1 .. Len(trades) |-> trades[i].price]

\* The floor of a collection is written by its first sale.
FloorsOfSales == \A c \in 1 .. Len(collections) : SoldIn(c) = {} => collections[c].floor = 0

\* What the statistics say: sales s at prices f add up to v, and the lowest is low.
SalesSound(f, s, v, low) ==
  /\ v = SumFunctionOnSet(f, s)
  /\ s # {} => low \in {f[i] : i \in s}
  /\ \A i \in s : low <= f[i]
  /\ s = {} => low = 0

LEMMA SalesSoundMeans ==
  ASSUME NFTInv
  PROVE  StatisticsAgree /\ FloorsOfSales <=>
         \A c \in 1 .. Len(collections) :
           SalesSound(TradePrices, SoldIn(c), collections[c].volume, collections[c].floor)
<1>1. DOMAIN collections = 1 .. Len(collections) /\ DOMAIN trades = 1 .. Len(trades)
  BY SizesTyped
<1>2. \A c : \A i \in SoldIn(c) : TradePrices[i] = trades[i].price
  BY DEF SoldIn, TradePrices
<1>3. \A c : {TradePrices[i] : i \in SoldIn(c)} = {trades[i].price : i \in SoldIn(c)}
  BY <1>2
<1>4. \A c : {i \in DOMAIN trades : nfts[trades[i].token].collection = c} = SoldIn(c)
  BY <1>1 DEF SoldIn
<1>5. [i \in DOMAIN trades |-> trades[i].price] = TradePrices
  BY <1>1 DEF TradePrices
<1>6. StatisticsAgree <=>
        \A c \in 1 .. Len(collections) :
          /\ collections[c].volume = SumFunctionOnSet(TradePrices, SoldIn(c))
          /\ SoldIn(c) # {} => collections[c].floor \in {trades[i].price : i \in SoldIn(c)}
          /\ \A i \in SoldIn(c) : collections[c].floor <= trades[i].price
  BY <1>1, <1>4, <1>5 DEF StatisticsAgree
<1>7. QED
  BY <1>2, <1>3, <1>6 DEF SalesSound, FloorsOfSales

LEMMA SalesStart == \A f : SalesSound(f, {}, 0, 0)
BY SumEmpty DEF SalesSound

\* One more sale, at price p.
LEMMA SaleCounted ==
  ASSUME NEW n \in Nat, NEW s, s \subseteq 1 .. n, NEW f, \A i \in 1 .. n : f[i] \in Nat /\ f[i] > 0,
         NEW v, NEW low, SalesSound(f, s, v, low),
         NEW p \in Nat, p > 0, NEW g, g[n + 1] = p, \A i \in 1 .. n : g[i] = f[i]
  PROVE  SalesSound(g, s \union {n + 1}, v + p, FloorAfter(low, p))
<1> DEFINE x == n + 1
           all == s \union {x}
<1>1. IsFiniteSet(s) /\ x \notin s /\ \A i \in s : f[i] \in Nat /\ f[i] > 0 /\ f[i] \in Int /\ g[i] = f[i]
  <2>1. IsFiniteSet(s)
    BY UpTo
  <2>2. x \notin 1 .. n
    OBVIOUS
  <2> HIDE DEF x
  <2>3. \A i \in s : i \in 1 .. n
    OBVIOUS
  <2>4. \A i \in s : f[i] \in Nat /\ f[i] > 0 /\ g[i] = f[i]
    BY <2>3
  <2>5. x \notin s
    BY <2>2, <2>3
  <2>6. \A k : k \in Nat => k \in Int
    OBVIOUS
  <2>7. QED
    BY <2>1, <2>4, <2>5, <2>6
<1> HIDE DEF x
<1>2. IsFiniteSet(all)
  BY <1>1, FS_AddElement
<1>3. g[x] = p /\ \A i \in all : g[i] \in Int
  BY <1>1 DEF x
<1>4. SumFunctionOnSet(g, all) = g[x] + SumFunctionOnSet(g, all \ {x})
  <2>1. x \in all
    OBVIOUS
  <2> HIDE DEF all
  <2>2. QED
    BY <1>2, <1>3, <2>1, SumRemove
<1>5. all \ {x} = s
  BY <1>1
<1>6. SumFunctionOnSet(g, s) = SumFunctionOnSet(f, s) /\ SumFunctionOnSet(f, s) \in Int
  BY <1>1, SumAgree, SumType
<1>7. v + p = SumFunctionOnSet(g, all)
  BY <1>3, <1>4, <1>5, <1>6 DEF SalesSound
<1>8. CASE s = {}
  <2>1. low = 0 /\ FloorAfter(low, p) = p /\ all = {x}
    BY <1>8 DEF SalesSound, FloorAfter
  <2>2. QED
    BY <1>3, <1>7, <2>1 DEF SalesSound, x
<1>9. CASE s # {}
  <2>1. PICK j \in s : low = f[j]
    BY <1>9 DEF SalesSound
  <2>2. low \in Nat /\ low > 0 /\ \A i \in s : low <= f[i]
    BY <1>1, <2>1 DEF SalesSound
  <2>3. CASE p < low
    <3>1. FloorAfter(low, p) = p
      BY <2>3 DEF FloorAfter
    <3>2. \A i \in all : p <= g[i]
      BY <1>1, <1>3, <2>2, <2>3
    <3>3. QED
      BY <1>3, <1>7, <3>1, <3>2 DEF SalesSound, x
  <2>4. CASE ~ (p < low)
    <3>1. FloorAfter(low, p) = low
      BY <2>2, <2>4 DEF FloorAfter
    <3>2. low <= p
      BY <2>2, <2>4
    <3>3. (\A i \in all : low <= g[i]) /\ low = g[j] /\ j \in all
      BY <1>1, <1>3, <2>1, <2>2, <3>2
    <3>4. QED
      BY <1>7, <3>1, <3>3 DEF SalesSound, x
  <2>5. QED
    BY <2>3, <2>4
<1>10. QED
  BY <1>8, <1>9

\* The sum and the lowest price do not depend on how the prices are written.
LEMMA SalesSame ==
  ASSUME NEW n \in Nat, NEW s, s \subseteq 1 .. n, NEW f, \A i \in 1 .. n : f[i] \in Nat,
         NEW v, NEW low, SalesSound(f, s, v, low), NEW g, \A i \in 1 .. n : g[i] = f[i]
  PROVE  SalesSound(g, s, v, low)
<1>1. IsFiniteSet(s) /\ \A i \in s : f[i] \in Int /\ g[i] = f[i]
  <2>1. IsFiniteSet(s)
    BY UpTo
  <2>2. \A i \in s : i \in 1 .. n
    OBVIOUS
  <2>3. \A i \in s : f[i] \in Int /\ g[i] = f[i]
    BY <2>2
  <2>4. QED
    BY <2>1, <2>3
<1>2. SumFunctionOnSet(g, s) = SumFunctionOnSet(f, s)
  BY <1>1, SumAgree
<1>3. {g[i] : i \in s} = {f[i] : i \in s}
  BY <1>1
<1>4. QED
  BY <1>1, <1>2, <1>3 DEF SalesSound

LEMMA StatisticsKept ==
  ASSUME NFTInv, NFTInv', StatisticsMove, StatisticsAgree, FloorsOfSales
  PROVE  StatisticsAgree' /\ FloorsOfSales'
<1> DEFINE n == Len(trades)
           new(c) == {i \in 1 .. Len(trades') : nfts'[trades'[i].token].collection = c}
           prices == [i \in 1 .. Len(trades') |-> trades'[i].price]
           Good == \A c \in 1 .. Len(collections') :
                     SalesSound(prices, new(c), collections'[c].volume, collections'[c].floor)
<1>1. /\ n \in Nat /\ Len(nfts) \in Nat /\ Len(collections) \in Nat
      /\ \A i \in 1 .. n : /\ trades[i].price \in Nat /\ trades[i].price > 0
                           /\ trades[i].token \in 1 .. Len(nfts)
      /\ \A x \in 1 .. Len(nfts) : nfts[x].collection \in 1 .. Len(collections)
  BY SizesTyped, EntriesTyped DEF TradeRecord
<1>2. \A c \in 1 .. Len(collections) :
        SalesSound(TradePrices, SoldIn(c), collections[c].volume, collections[c].floor)
  BY SalesSoundMeans
<1>3. /\ \A i \in 1 .. n : TradePrices[i] = trades[i].price /\ TradePrices[i] \in Nat /\ TradePrices[i] > 0
      /\ \A c : SoldIn(c) \subseteq 1 .. n
  BY <1>1 DEF TradePrices, SoldIn
<1>4. Good
  <2>1. CASE StatisticsStay
    <3>1. /\ trades' = trades /\ Len(collections') = Len(collections)
          /\ \A x \in 1 .. Len(nfts) : nfts'[x].collection = nfts[x].collection
          /\ \A c \in 1 .. Len(collections) : /\ collections'[c].volume = collections[c].volume
                                              /\ collections'[c].floor = collections[c].floor
      BY <2>1 DEF StatisticsStay
    <3>2. prices = TradePrices /\ \A c : new(c) = SoldIn(c)
      BY <1>1, <3>1 DEF TradePrices, SoldIn
    <3> HIDE DEF prices, new, n
    <3>3. QED
      BY <1>2, <3>1, <3>2
  <2>2. CASE CollectionAdded
    <3> DEFINE k == Len(collections) + 1
    <3>1. /\ trades' = trades /\ nfts' = nfts /\ Len(collections') = k
          /\ \A c \in 1 .. Len(collections) : collections'[c] = collections[c]
          /\ \A c \in 1 .. Len(collections') : c = k => collections'[c].volume = 0 /\ collections'[c].floor = 0
      BY <2>2 DEF CollectionAdded
    <3>2. prices = TradePrices /\ \A c : new(c) = SoldIn(c)
      BY <3>1 DEF TradePrices, SoldIn
    <3>3. SoldIn(k) = {}
      <4>1. \A i \in 1 .. n : nfts[trades[i].token].collection \in 1 .. Len(collections)
        BY <1>1
      <4>2. \A i \in 1 .. n : nfts[trades[i].token].collection # k
        BY <1>1, <4>1
      <4>3. QED
        BY <4>2 DEF SoldIn
    <3>4. \A c \in 1 .. Len(collections') : c \in 1 .. Len(collections) \/ c = k
      BY <1>1, <3>1
    <3> HIDE DEF prices, new, n, k
    <3>5. ASSUME NEW c \in 1 .. Len(collections'), c = k
          PROVE  SalesSound(prices, new(c), collections'[c].volume, collections'[c].floor)
      <4>1. new(c) = {} /\ collections'[c].volume = 0 /\ collections'[c].floor = 0
        BY <3>1, <3>2, <3>3, <3>5
      <4>2. QED
        BY <4>1, SalesStart
    <3>6. QED
      BY <1>2, <3>1, <3>2, <3>4, <3>5
  <2>3. ASSUME NEW t, NEW a, NEW b, NEW p, Traded(t, a, b, p)
        PROVE  Good
    <3> DEFINE d == nfts[t].collection
    <3>1. /\ t \in 1 .. Len(nfts) /\ p \in Nat /\ p > 0
          /\ \A x \in 1 .. Len(nfts) : nfts'[x].collection = nfts[x].collection
          /\ Len(collections') = Len(collections)
          /\ \A c \in 1 .. Len(collections) :
               /\ c # d => collections'[c] = collections[c]
               /\ c = d => /\ collections'[c].volume = collections[c].volume + p
                           /\ collections'[c].floor = FloorAfter(collections[c].floor, p)
          /\ Len(trades') = n + 1
          /\ \A i \in 1 .. n : trades'[i] = trades[i]
          /\ trades'[n + 1].token = t /\ trades'[n + 1].price = p
      BY <2>3 DEF Traded
    <3>2. n + 1 \in 1 .. n + 1 /\ \A i : i \in 1 .. n + 1 <=> i \in 1 .. n \/ i = n + 1
      BY <1>1
    <3>3. prices[n + 1] = p /\ \A i \in 1 .. n : prices[i] = TradePrices[i]
      BY <1>3, <3>1, <3>2
    <3>4. ASSUME NEW i \in 1 .. n
          PROVE  nfts'[trades'[i].token].collection = nfts[trades[i].token].collection
      BY <1>1, <3>1
    <3>5. nfts'[trades'[n + 1].token].collection = d
      BY <3>1
    <3>6. \A c : new(c) = IF c = d THEN SoldIn(c) \union {n + 1} ELSE SoldIn(c)
      BY <3>1, <3>2, <3>4, <3>5 DEF SoldIn
    <3> HIDE DEF n, prices, new, d
    <3>7. ASSUME NEW c \in 1 .. Len(collections)
          PROVE  SalesSound(prices, new(c), collections'[c].volume, collections'[c].floor)
      <4> DEFINE f == TradePrices
                 s == SoldIn(c)
                 v == collections[c].volume
                 low == collections[c].floor
      <4>1. /\ SalesSound(f, s, v, low) /\ s \subseteq 1 .. n /\ (\A i \in 1 .. n : f[i] \in Nat /\ f[i] > 0)
            /\ \A i \in 1 .. n : prices[i] = f[i]
        BY <1>2, <1>3, <3>3
      <4> HIDE DEF f, s, v, low
      <4>2. CASE c = d
        <5>1. SalesSound(prices, s \union {n + 1}, v + p, FloorAfter(low, p))
          BY <1>1, <3>1, <3>3, <4>1, SaleCounted
        <5>2. new(c) = s \union {n + 1}
          BY <3>6, <4>2 DEF s
        <5>3. collections'[c].volume = v + p /\ collections'[c].floor = FloorAfter(low, p)
          BY <3>1, <4>2 DEF v, low
        <5>4. QED
          BY <5>1, <5>2, <5>3
      <4>3. CASE c # d
        <5>1. SalesSound(prices, s, v, low)
          BY <1>1, <4>1, SalesSame
        <5>2. QED
          BY <3>1, <3>6, <4>3, <5>1 DEF s, v, low
      <4>4. QED
        BY <4>2, <4>3
    <3>8. QED
      BY <3>1, <3>7
  <2>4. QED
    BY <2>1, <2>2, <2>3 DEF StatisticsMove, Sold
<1>5. DOMAIN collections' = 1 .. Len(collections') /\ DOMAIN trades' = 1 .. Len(trades')
  BY LenProperties DEF NFTInv, TokensInv, MarketInv
<1>6. [i \in DOMAIN trades' |-> trades'[i].price] = prices
  BY <1>5
<1>7. \A c : {i \in DOMAIN trades' : nfts'[trades'[i].token].collection = c} = new(c)
  BY <1>5
<1>8. \A c : \A i \in new(c) : prices[i] = trades'[i].price
  OBVIOUS
<1>9. \A c : {prices[i] : i \in new(c)} = {trades'[i].price : i \in new(c)}
  BY <1>8
<1>10. FloorsOfSales'
  <2>1. \A c : SoldIn(c)' = new(c)
    BY DEF SoldIn
  <2> HIDE DEF new, prices
  <2>2. QED
    BY <1>4, <2>1 DEF FloorsOfSales, SalesSound
<1>11. StatisticsAgree'
  <2> HIDE DEF new, prices
  <2>1. \A c \in 1 .. Len(collections') :
          /\ collections'[c].volume = SumFunctionOnSet(prices, new(c))
          /\ new(c) # {} => collections'[c].floor \in {trades'[i].price : i \in new(c)}
          /\ \A i \in new(c) : collections'[c].floor <= trades'[i].price
    BY <1>4, <1>8, <1>9 DEF SalesSound
  <2>2. QED
    BY <1>5, <1>6, <1>7, <2>1 DEF StatisticsAgree
<1>12. QED
  BY <1>10, <1>11

-----------------------------------------------------------------------------
(* Where the properties start, and the theorems *)

LEMMA EmptyStart ==
  ASSUME NFTInit
  PROVE  /\ DOMAIN collections = {} /\ DOMAIN nfts = {} /\ DOMAIN listings = {} /\ DOMAIN offers = {}
         /\ DOMAIN trades = {} /\ DOMAIN loans = {} /\ queue = << >>
         /\ Len(collections) = 0 /\ Len(nfts) = 0
<1>1. DOMAIN << >> = {} /\ Len(<< >>) = 0
  BY EmptySeq
<1>2. QED
  BY <1>1 DEF NFTInit, StorageInit, MarketInit, LendingInit

LEMMA RegistriesStart ==
  ASSUME NFTInit
  PROVE  RegistriesAgree /\ FloorsOfSales
<1>1. Cardinality({}) = 0
  BY FS_EmptySet
<1>2. OwnerIndexExact
  <2>1. \A a \in Addresses : ownerTokens[a] = << >>
    BY DEF NFTInit, StorageInit
  <2>2. \A a : {t \in Tokens : nfts[t].owner = a} = {}
    BY EmptyStart DEF Tokens
  <2>3. QED
    BY <2>1, <2>2, ListsEmpty DEF OwnerIndexExact, Lists
<1>3. SupplyCapped /\ StatisticsAgree
  BY EmptyStart DEF SupplyCapped, StatisticsAgree
<1>4. MarketCountsExact
  <2>1. \A S : ActiveListingsOf(S) = {} /\ ActiveOffersOf(S) = {}
    BY EmptyStart DEF ActiveListingsOf, ActiveOffersOf
  <2>2. /\ activeListings = 0 /\ activeOffers = 0
        /\ \A a \in Addresses : portfolio[a].listings = 0 /\ portfolio[a].offers = 0
    BY DEF NFTInit, MarketInit, StorageInit, EmptyPortfolio
  <2>3. QED
    BY <1>1, <2>1, <2>2 DEF MarketCountsExact
<1>5. FloorsOfSales
  <2>1. 1 .. 0 = {}
    OBVIOUS
  <2>2. QED
    BY <2>1, EmptyStart DEF FloorsOfSales
<1>6. QED
  BY <1>2, <1>3, <1>4, <1>5 DEF RegistriesAgree

LEMMA LendingStarts ==
  ASSUME NFTInit
  PROVE  LendingSound /\ ExclusiveUse
<1>1. Cardinality({}) = 0
  BY FS_EmptySet
<1>2. ShareholdersExact
  <2> DEFINE f == [a \in Addresses |-> 0]
  <2>1. \A t \in 1 .. MaxTokens : shareholders[t] = << >> /\ shares[t] = f
    BY DEF NFTInit, FractionalInit
  <2>2. DOMAIN f = Addresses /\ \A a \in Addresses : f[a] = 0
    OBVIOUS
  <2> HIDE DEF f
  <2>3. SumFunctionOnSet(f, Addresses) = 0
    BY <2>2, NFTAssumption, SumZero
  <2>4. ASSUME NEW t \in 1 .. MaxTokens
        PROVE  Issued(t) = 0 /\ {a \in Addresses : shares[t][a] > 0} = {}
    <3>1. Issued(t) = SumFunctionOnSet(f, Addresses)
      <4>1. Issued(t) = SumFunctionOnSet(shares[t], DOMAIN shares[t])
        BY DEF Issued, SumFunction
      <4>2. shares[t] = f
        BY <2>1
      <4>3. QED
        BY <2>2, <4>1, <4>2
    <3>2. shares[t] = f
      BY <2>1
    <3>3. \A a \in Addresses : shares[t][a] = 0
      BY <2>2, <3>2
    <3>4. \A k : k = 0 => ~(k > 0)
      OBVIOUS
    <3>5. {a \in Addresses : shares[t][a] > 0} = {}
      BY <3>3, <3>4, Zenon
    <3>6. QED
      BY <2>3, <3>1, <3>5
  <2>5. QED
    BY <2>1, <2>4, ListsEmpty DEF ShareholdersExact, Lists
<1>3. IssueBounded
  BY EmptyStart DEF IssueBounded, Tokens
<1>4. LoanCountsExact
  <2>1. \A a \in Addresses : portfolio[a].loansTaken = 0 /\ portfolio[a].loansGiven = 0
    BY DEF NFTInit, StorageInit, EmptyPortfolio
  <2>2. \A a : /\ {i \in DOMAIN loans : loans[i].active /\ loans[i].borrower = a} = {}
               /\ {i \in DOMAIN loans : loans[i].active /\ loans[i].lender = a} = {}
    BY EmptyStart
  <2>3. QED
    BY <1>1, <2>1, <2>2 DEF LoanCountsExact
<1>5. QueueSound
  <2>1. IsInjective(queue)
    BY EmptyStart, ListsEmpty DEF Lists
  <2>2. \A i \in 1 .. MaxLoans : bestBid[i] = NoBid
    BY DEF NFTInit, LendingInit
  <2>3. QED
    BY <2>1, <2>2 DEF QueueSound
<1>6. NFTTypeOK
  BY SuiteStarts, NFTInvTypes
<1>7. ExclusiveUse
  <2>1. \A t \in 1 .. MaxTokens : ~Pledged(t)
    BY DEF NFTInit, MarketInit, Pledged
  <2>2. QED
    BY <2>1 DEF ExclusiveUse
<1>8. QED
  BY <1>2, <1>3, <1>4, <1>5, <1>6, <1>7 DEF LendingSound

(* NFTInv holds in every reachable state: whatever the properties say of    *)
(* the registries, the ids they are indexed with are there to be read.      *)
THEOREM SuiteAlwaysInv == NFTSpec => []NFTInv
<1>1. NFTInit => NFTInv
  BY SuiteStarts
<1>2. NFTInv /\ [NFTNext]_nftVars => NFTInv'
  BY SuiteSteps DEF Stepped
<1>3. QED
  BY <1>1, <1>2, PTL DEF NFTSpec

(* The registries of tokens, listings, offers and sales count each other    *)
(* right: the index of owners names every token once and under its owner, a *)
(* collection's supply counts its tokens and stays within its cap, the      *)
(* counts of active listings and offers, over all and in every portfolio,   *)
(* are those of the entries, and the statistics of a collection are those   *)
(* of its recorded sales (mint_nft, batch_mint, transfer_ownership,         *)
(* execute_trade, deactivate_listing, deactivate_offer). It takes that a    *)
(* collection nobody has sold from has no floor, and that no sale is at     *)
(* price zero, or update_stats would take a floor of zero for none.         *)
THEOREM RegistriesAlwaysAgree == NFTSpec => []RegistriesAgree
<1> DEFINE Inv == NFTInv /\ RegistriesAgree /\ FloorsOfSales
<1>1. NFTInit => Inv
  BY SuiteStarts, RegistriesStart
<1>2. ASSUME Inv, [NFTNext]_nftVars
      PROVE  Inv'
  <2>1. NFTInv' /\ MarketMoves
    BY <1>2, SuiteSteps DEF Stepped
  <2>2. OwnerIndexExact'
    BY <1>2, <2>1, OwnersKept DEF MarketMoves, RegistriesAgree
  <2>3. SupplyCapped'
    BY <1>2, <2>1, SuppliesKept DEF MarketMoves, RegistriesAgree
  <2>4. MarketCountsExact'
    BY <1>2, <2>1, MarketCountsKept DEF MarketMoves, RegistriesAgree
  <2>5. StatisticsAgree' /\ FloorsOfSales'
    BY <1>2, <2>1, StatisticsKept DEF MarketMoves, RegistriesAgree
  <2>6. QED
    BY <2>1, <2>2, <2>3, <2>4, <2>5 DEF RegistriesAgree
<1>3. Inv => RegistriesAgree
  OBVIOUS
<1> HIDE DEF Inv
<1>4. QED
  BY <1>1, <1>2, <1>3, PTL DEF NFTSpec

(* A token serves one purpose at a time: create_listing looks at the        *)
(* pledge, request_loan at the listings and the fractions and               *)
(* fractionalize_nft at the pledge, each when it is called, and that is     *)
(* enough, because none of them can begin beside another and the pledge     *)
(* outlasts the loan.                                                       *)
THEOREM UseAlwaysExclusive == NFTSpec => []ExclusiveUse
<1> DEFINE Inv == NFTInv /\ ExclusiveUse
<1>1. NFTInit => Inv
  BY SuiteStarts, LendingStarts
<1>2. ASSUME Inv, [NFTNext]_nftVars
      PROVE  Inv'
  <2>1. NFTInv' /\ UseMove
    BY <1>2, SuiteSteps DEF Stepped, LendingMoves
  <2>2. QED
    BY <1>2, <2>1, UseKept
<1>3. Inv => ExclusiveUse
  OBVIOUS
<1> HIDE DEF Inv
<1>4. QED
  BY <1>1, <1>2, <1>3, PTL DEF NFTSpec

(* Shares, loans and the liquidation queue add up: the list of shareholders *)
(* is exact and the shares issued are bounded whatever is bought, sold and  *)
(* handed on, the portfolios count the active loans through funding,        *)
(* repayment and either liquidation, and the queue names no loan twice      *)
(* (fractional.rs, lending.rs).                                             *)
THEOREM LendingAlwaysSound == NFTSpec => []LendingSound
<1> DEFINE Inv == NFTInv /\ LendingSound
<1>1. NFTInit => Inv
  BY SuiteStarts, LendingStarts
<1>2. ASSUME Inv, [NFTNext]_nftVars
      PROVE  Inv'
  <2>1. NFTInv' /\ LendingMoves
    BY <1>2, SuiteSteps DEF Stepped
  <2>2. NFTTypeOK'
    BY <2>1, NFTInvTypes, PTL
  <2>3. ShareholdersExact' /\ IssueBounded'
    BY <1>2, <2>1, SharesKept DEF LendingMoves, LendingSound
  <2>4. LoanCountsExact'
    BY <1>2, <2>1, LoanCountsKept DEF LendingMoves, LendingSound
  <2>5. QueueSound'
    BY <1>2, <2>1 DEF LendingMoves, LendingSound
  <2>6. QED
    BY <2>1, <2>2, <2>3, <2>4, <2>5 DEF LendingSound
<1>3. Inv => LendingSound
  OBVIOUS
<1> HIDE DEF Inv
<1>4. QED
  BY <1>1, <1>2, <1>3, PTL DEF NFTSpec

(* Every recorded sale closes, in the same step, one live listing or offer  *)
(* at the price it stood at, or an ended auction at its highest bid, so no  *)
(* commitment is used twice and none after it is cancelled (accept_offer,   *)
(* buy_nft and finalize_auction, each around execute_trade).                *)
THEOREM SalesAlwaysUseCommitments == NFTSpec => SalesUseCommitments
<1> DEFINE Step == trades' # trades =>
                     /\ Len(trades') = Len(trades) + 1
                     /\ ClosesOffer(Last(trades')) \/ ClosesListing(Last(trades'))
<1>1. NFTInit => NFTInv
  BY SuiteStarts
<1>2. ASSUME NFTInv, [NFTNext]_nftVars
      PROVE  NFTInv' /\ Step
  <2>1. NFTInv' /\ StatisticsMove
    BY <1>2, SuiteSteps DEF Stepped, MarketMoves
  <2>2. DOMAIN offers = 1 .. Len(offers) /\ DOMAIN listings = 1 .. Len(listings)
    BY <1>2, SizesTyped
  <2>3. ASSUME NEW t, NEW a, NEW b, NEW p, Sold(t, a, b, p)
        PROVE  Step
    <3>1. /\ Len(trades') = Len(trades) + 1 /\ Last(trades').token = t /\ Last(trades').price = p
          /\ Last(trades').seller = a /\ Last(trades').buyer = b
      BY <2>3 DEF Sold, Traded, Last
    <3>2. ASSUME NEW o \in 1 .. Len(offers), OfferClosed(o), Valid(offers[o]),
                 offers[o].token = t, offers[o].buyer = b, offers[o].price = p
          PROVE  ClosesOffer(Last(trades'))
      BY <2>2, <3>1, <3>2 DEF ClosesOffer, OfferClosed, Valid
    <3>3. ASSUME NEW l \in 1 .. Len(listings),
                 ListingClosed(l), listings[l].token = t, listings[l].seller = a,
                 \/ /\ listings[l].auction /\ listings[l].bidder = b /\ listings[l].bid = p
                    /\ now > listings[l].expires /\ listings[l].bid >= listings[l].minBid
                 \/ ~listings[l].auction /\ listings[l].price = p /\ Valid(listings[l])
          PROVE  ClosesListing(Last(trades'))
      BY <2>2, <3>1, <3>3 DEF ClosesListing, ListingClosed, Valid
    <3>4. QED
      BY <2>3, <3>1, <3>2, <3>3 DEF Sold, Fulfils
  <2>4. QED
    BY <2>1, <2>3 DEF StatisticsMove, StatisticsStay, CollectionAdded
<1> HIDE DEF Step
<1>3. Step => [Step]_<<marketVars, now>>
  OBVIOUS
<1>4. QED
  BY <1>1, <1>2, <1>3, PTL DEF NFTSpec, SalesUseCommitments, Step

(* A token changes owner by a recorded sale or by the liquidation of an     *)
(* overdue or under-secured loan it backs, to the lender or the leading     *)
(* bidder, and what has happened to a loan stays on record                  *)
(* (transfer_ownership in execute_trade, liquidate_loan and                 *)
(* execute_liquidation).                                                    *)
THEOREM MovesAlwaysOnRecord == NFTSpec => MovesOnRecord
<1> DEFINE Owners ==
             \A t \in Tokens : nfts'[t].owner # nfts[t].owner =>
               \/ /\ trades' # trades
                  /\ << Last(trades').token, Last(trades').seller, Last(trades').buyer >>
                       = << t, nfts[t].owner, nfts'[t].owner >>
               \/ \E i \in DOMAIN loans :
                    /\ loans[i].token = t /\ Outstanding(i) /\ loans'[i].liquidated
                    /\ nfts'[t].owner \in {loans[i].lender, bestBid[i].bidder}
                    /\ \/ now > loans[i].due + GracePeriod
                       \/ 0 < CollateralValue(t) /\ CollateralValue(t) < TotalDue(i)
           Records ==
             \A i \in DOMAIN loans :
               /\ loans[i].repaid => loans'[i].repaid
               /\ loans[i].liquidated => loans'[i].liquidated
               /\ << loans'[i].token, loans'[i].borrower, loans'[i].amount >>
                    = << loans[i].token, loans[i].borrower, loans[i].amount >>
           Step == Owners /\ Records
<1>1. NFTInit => NFTInv
  BY SuiteStarts
<1>2. ASSUME NFTInv, [NFTNext]_nftVars
      PROVE  NFTInv' /\ Step
  <2>1. NFTInv' /\ OwnersMove /\ RecordsKept
    BY <1>2, SuiteSteps DEF Stepped, MarketMoves, LendingMoves
  <2>2. DOMAIN nfts = 1 .. Len(nfts) /\ DOMAIN loans = 1 .. Len(loans) /\ Len(trades) \in Nat
    BY <1>2, SizesTyped
  <2>3. Records
    BY <2>1, <2>2 DEF RecordsKept
  <2>4. ASSUME NEW t \in Tokens, nfts'[t].owner # nfts[t].owner, OwnersStay
        PROVE  FALSE
    BY <2>2, <2>4 DEF OwnersStay, Tokens
  <2>5. ASSUME NEW t \in Tokens, nfts'[t].owner # nfts[t].owner, NEW a, NEW c, NEW k, Minted(a, c, k)
        PROVE  FALSE
    BY <2>2, <2>5 DEF Minted, Tokens
  <2>6. ASSUME NEW t \in Tokens, nfts'[t].owner # nfts[t].owner,
               NEW x, NEW a, NEW b, NEW p, Sold(x, a, b, p)
        PROVE  /\ trades' # trades
               /\ << Last(trades').token, Last(trades').seller, Last(trades').buyer >>
                    = << t, nfts[t].owner, nfts'[t].owner >>
    <3>1. /\ x \in 1 .. Len(nfts) /\ b \in Addresses /\ nfts[x].owner = a /\ TransferOwnership(x, b)
          /\ Len(trades') = Len(trades) + 1
          /\ Last(trades').token = x /\ Last(trades').seller = a /\ Last(trades').buyer = b
      BY <2>6 DEF Sold, Traded, Last
    <3>2. \A y \in 1 .. Len(nfts) : nfts'[y].owner = IF y = x THEN b ELSE nfts[y].owner
      BY <1>2, <3>1, OwnershipMoves
    <3>3. t = x /\ nfts'[t].owner = b
      BY <2>2, <2>6, <3>2 DEF Tokens
    <3>4. trades' # trades
      BY <2>2, <3>1
    <3>5. QED
      BY <3>1, <3>3, <3>4
  <2>7. ASSUME NEW t \in Tokens, nfts'[t].owner # nfts[t].owner, NEW i, NEW a, Seized(i, a)
        PROVE  /\ i \in DOMAIN loans
               /\ loans[i].token = t /\ Outstanding(i) /\ loans'[i].liquidated
               /\ nfts'[t].owner \in {loans[i].lender, bestBid[i].bidder}
               /\ \/ now > loans[i].due + GracePeriod
                  \/ 0 < CollateralValue(t) /\ CollateralValue(t) < TotalDue(i)
    <3> DEFINE x == loans[i].token
    <3>1. /\ i \in DOMAIN loans /\ Outstanding(i) /\ loans'[i].liquidated
          /\ x \in 1 .. Len(nfts) /\ a \in Addresses /\ TransferOwnership(x, a)
          /\ a \in {loans[i].lender, bestBid[i].bidder}
          /\ \/ now > loans[i].due + GracePeriod
             \/ 0 < CollateralValue(x) /\ CollateralValue(x) < TotalDue(i)
      BY <2>2, <2>7 DEF Seized, LoanEnded
    <3> HIDE DEF x
    <3>2. \A y \in 1 .. Len(nfts) : nfts'[y].owner = IF y = x THEN a ELSE nfts[y].owner
      BY <1>2, <3>1, OwnershipMoves
    <3>3. t = x /\ nfts'[t].owner = a
      BY <2>2, <2>7, <3>2 DEF Tokens
    <3>4. loans[i].token = t
      BY <3>3 DEF x
    <3>5. QED
      BY <3>1, <3>3, <3>4
  <2>8. Owners
    BY <2>1, <2>4, <2>5, <2>6, <2>7 DEF OwnersMove
  <2>9. QED
    BY <2>1, <2>3, <2>8
<1> HIDE DEF Step
<1>3. Step => [Step]_nftVars
  OBVIOUS
<1>4. QED
  BY <1>1, <1>2, <1>3, PTL DEF NFTSpec, MovesOnRecord, Step
=============================================================================
