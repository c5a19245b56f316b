--------------------------- MODULE NFTMarketplace ---------------------------
(***************************************************************************)
(* Listings, auctions and offers (src/nft_marketplace.rs over the          *)
(* ListingRegistry, OfferRegistry and TradeHistory of src/nft_storage.rs). *)
(* No payment is moved: a sale moves the token, updates the statistics and *)
(* records the split of the price.                                         *)
(***************************************************************************)
EXTENDS NFTStorage

CONSTANTS
  Prices,            \* prices, minimum bids and offers tried
  Bids,              \* bids placed on an auction
  Durations,         \* durations asked for, 0 = the default
  Auctions,          \* kinds of listing made: TRUE for an auction
  DefaultListingDuration, MaxListingDuration,
  DefaultOfferDuration, MaxOfferDuration,
  MaxListings,       \* bound on the listings
  MaxOffers          \* bound on the offers

ASSUME MarketAssumption ==
  /\ Prices \subseteq Nat /\ Bids \subseteq Nat /\ Durations \subseteq Nat
  /\ {DefaultListingDuration, MaxListingDuration,
      DefaultOfferDuration, MaxOfferDuration} \subseteq Nat
  /\ MaxListings \in Nat /\ MaxOffers \in Nat /\ Auctions \subseteq BOOLEAN

VARIABLES
  listings, activeListings,    \* ListingRegistry and its active_count
  offers, activeOffers,        \* OfferRegistry and its active_count
  trades,                      \* TradeHistory
  collateralOf                 \* LoanRegistry.collateral_loans: token -> loan id, 0 if none

listingVars == << listings, activeListings >>
offerVars == << offers, activeOffers >>
marketVars == << listingVars, offerVars, trades >>

MarketInit ==
  /\ listings = << >> /\ activeListings = 0
  /\ offers = << >> /\ activeOffers = 0
  /\ trades = << >>
  /\ collateralOf = [t \in 1 .. MaxTokens |-> 0]

\* get_loan_by_collateral(..).is_some(): the entry is written by create_loan
\* and never removed, so a token that once backed a request stays pledged.
Pledged(t) == collateralOf[t] # 0

Shorter(d, max) == IF d < max THEN d ELSE max
ExpiryOf(d, default, max) == now + (IF d = 0 THEN default ELSE Shorter(d, max))

\* Mutant: an expired item is still valid.
ValidWhileActive(item) == item.active

\* is_valid of a listing and of an offer.
Valid(item) == item.active /\ now <= item.expires

ListingAmount(t, amount) ==
  IF nfts[t].standard = "ERC721" THEN amount = 1
  ELSE amount # 0 /\ amount <= nfts[t].circulating

CreateListing(seller, t, price, amount, d, auction, minBid) ==
  /\ MayTrade(seller)
  /\ price > 0
  /\ t \in Tokens /\ nfts[t].owner = seller
  /\ ~Pledged(t)
  /\ ListingAmount(t, amount)
  /\ auction => minBid > 0
  /\ Len(listings) < MaxListings
  /\ listings' = Append(listings,
       [token |-> t, seller |-> seller, price |-> price, amount |-> amount,
        expires |-> ExpiryOf(d, DefaultListingDuration, MaxListingDuration),
        auction |-> auction, minBid |-> IF auction THEN minBid ELSE 0,
        bid |-> 0, bidder |-> NoUser, active |-> TRUE])
  /\ activeListings' = activeListings + 1
  /\ portfolio' = [portfolio EXCEPT ![seller].listings = @ + 1]
  /\ UNCHANGED << tokenVars, switchVars, offerVars, trades, collateralOf >>

\* Mutant: an inactive listing can be deactivated again.
CloseListingTwice(l) ==
  /\ listings' = [listings EXCEPT ![l].active = FALSE]
  /\ activeListings' = Less(activeListings)
  /\ portfolio' = [portfolio EXCEPT ![listings[l].seller].listings = Less(@)]

\* deactivate_listing refuses a listing that is not active, and the callers
\* then take one off the seller's portfolio.
CloseListing(l) ==
  /\ listings[l].active
  /\ listings' = [listings EXCEPT ![l].active = FALSE]
  /\ activeListings' = Less(activeListings)
  /\ portfolio' = [portfolio EXCEPT ![listings[l].seller].listings = Less(@)]

CancelListing(seller, l) ==
  /\ l \in DOMAIN listings /\ listings[l].seller = seller
  /\ CloseListing(l)
  /\ UNCHANGED << tokenVars, switchVars, offerVars, trades, collateralOf >>

PlaceBid(bidder, l, amount) ==
  /\ MayTrade(bidder)
  /\ l \in DOMAIN listings
  /\ listings[l].auction
  /\ Valid(listings[l])
  /\ listings[l].seller # bidder
  /\ amount >= listings[l].minBid
  /\ amount > listings[l].bid
  /\ listings' = [listings EXCEPT ![l].bid = amount, ![l].bidder = bidder]
  /\ UNCHANGED << storageVars, activeListings, offerVars, trades, collateralOf >>

OfferAmount(t, amount) ==
  IF nfts[t].standard = "ERC721" THEN amount \in {0, 1} ELSE amount # 0

CreateOffer(buyer, t, price, amount, d) ==
  /\ MayTrade(buyer)
  /\ price > 0
  /\ t \in Tokens /\ nfts[t].owner # buyer
  /\ OfferAmount(t, amount)
  /\ Len(offers) < MaxOffers
  /\ offers' = Append(offers,
       [token |-> t, buyer |-> buyer, price |-> price, amount |-> MintAmount(nfts[t].standard, amount),
        expires |-> ExpiryOf(d, DefaultOfferDuration, MaxOfferDuration), active |-> TRUE])
  /\ activeOffers' = activeOffers + 1
  /\ portfolio' = [portfolio EXCEPT ![buyer].offers = @ + 1]
  /\ UNCHANGED << tokenVars, switchVars, listingVars, trades, collateralOf >>

CloseOffer(o) ==
  /\ offers[o].active
  /\ offers' = [offers EXCEPT ![o].active = FALSE]
  /\ activeOffers' = Less(activeOffers)
  /\ portfolio' = [portfolio EXCEPT ![offers[o].buyer].offers = Less(@)]

CancelOffer(buyer, o) ==
  /\ o \in DOMAIN offers /\ offers[o].buyer = buyer
  /\ CloseOffer(o)
  /\ UNCHANGED << tokenVars, switchVars, listingVars, trades, collateralOf >>

Share(price, bps) == (price * bps) \div 10000
FloorAfter(floor, price) == IF floor = 0 \/ price < floor THEN price ELSE floor

\* execute_trade: the whole token changes hands, whatever amount was agreed;
\* neither a pledge nor a fractionalisation stands in its way, and the owned
\* tokens of the two portfolios are left as they were.
ExecuteTrade(t, seller, buyer, price, amount) ==
  LET c == nfts[t].collection IN
  /\ nfts[t].owner = seller
  /\ TransferOwnership(t, buyer)
  /\ collections' = [collections EXCEPT ![c].volume = @ + price,
                                        ![c].floor = FloorAfter(@, price)]
  /\ trades' = Append(trades,
       [token |-> t, seller |-> seller, buyer |-> buyer, price |-> price, amount |-> amount,
        fee |-> Share(price, platformFee), royalty |-> Share(price, collections[c].royalty)])

AcceptOffer(seller, o) ==
  /\ Open
  /\ o \in DOMAIN offers
  /\ Valid(offers[o])
  /\ nfts[offers[o].token].owner = seller
  /\ ExecuteTrade(offers[o].token, seller, offers[o].buyer, offers[o].price, offers[o].amount)
  /\ CloseOffer(o)
  /\ UNCHANGED << switchVars, listingVars, collateralOf >>

BuyNFT(buyer, l) ==
  /\ MayTrade(buyer)
  /\ l \in DOMAIN listings
  /\ ~listings[l].auction
  /\ Valid(listings[l])
  /\ listings[l].seller # buyer
  /\ ExecuteTrade(listings[l].token, listings[l].seller, buyer, listings[l].price, listings[l].amount)
  /\ CloseListing(l)
  /\ UNCHANGED << switchVars, offerVars, collateralOf >>

\* Anyone may finalize, paused or not; a cancelled auction is refused by
\* CloseListing, after the trade has been written and with it.
FinalizeAuction(l) ==
  /\ l \in DOMAIN listings
  /\ listings[l].auction
  /\ now > listings[l].expires
  /\ listings[l].bidder # NoUser
  /\ ExecuteTrade(listings[l].token, listings[l].seller, listings[l].bidder,
                  listings[l].bid, listings[l].amount)
  /\ CloseListing(l)
  /\ UNCHANGED << switchVars, offerVars, collateralOf >>

MarketNext ==
  \/ \E a \in Addresses, t \in Tokens, p \in Prices, n \in Units, d \in Durations :
       \/ \E auction \in Auctions, m \in Prices : CreateListing(a, t, p, n, d, auction, m)
       \/ CreateOffer(a, t, p, n, d)
  \/ \E a \in Addresses, l \in DOMAIN listings :
       CancelListing(a, l) \/ BuyNFT(a, l) \/ \E p \in Bids : PlaceBid(a, l, p)
  \/ \E l \in DOMAIN listings : FinalizeAuction(l)
  \/ \E a \in Addresses, o \in DOMAIN offers : CancelOffer(a, o) \/ AcceptOffer(a, o)

ListingRecord ==
  [token : Nat, seller : Addresses, price : Nat, amount : Nat, expires : Nat, auction : BOOLEAN,
   minBid : Nat, bid : Nat, bidder : Addresses \union {NoUser}, active : BOOLEAN]

OfferRecord ==
  [token : Nat, buyer : Addresses, price : Nat, amount : Nat, expires : Nat, active : BOOLEAN]

TradeRecord ==
  [token : Nat, seller : Addresses, buyer : Addresses, price : Nat, amount : Nat,
   fee : Nat, royalty : Nat]

MarketTypeOK ==
  /\ listings \in Seq(ListingRecord) /\ activeListings \in Nat
  /\ offers \in Seq(OfferRecord) /\ activeOffers \in Nat
  /\ trades \in Seq(TradeRecord)
  /\ collateralOf \in [1 .. MaxTokens -> Nat]

ActiveListingsOf(S) == {l \in DOMAIN listings : listings[l].active /\ listings[l].seller \in S}
ActiveOffersOf(S) == {o \in DOMAIN offers : offers[o].active /\ offers[o].buyer \in S}

(* The registries' active counts and the counts in every portfolio are the  *)
(* numbers of listings and offers that are active: the decrements saturate, *)
(* so one call that took two off, or took one off the wrong portfolio,      *)
(* would go unnoticed (deactivate_listing, decrement_portfolio_listings).   *)
MarketCountsExact ==
  /\ activeListings = Cardinality(ActiveListingsOf(Addresses))
  /\ activeOffers = Cardinality(ActiveOffersOf(Addresses))
  /\ \A a \in Addresses :
       /\ portfolio[a].listings = Cardinality(ActiveListingsOf({a}))
       /\ portfolio[a].offers = Cardinality(ActiveOffersOf({a}))

\* The offer or listing that a sale of token t to buyer fulfils is closed by
\* the same step and stood at the price of the sale.
ClosesOffer(trade) ==
  \E o \in DOMAIN offers :
    /\ offers[o].active /\ ~offers'[o].active
    /\ << offers[o].token, offers[o].buyer, offers[o].price >>
         = << trade.token, trade.buyer, trade.price >>
    /\ now <= offers[o].expires

ClosesListing(trade) ==
  \E l \in DOMAIN listings :
    /\ listings[l].active /\ ~listings'[l].active
    /\ << listings[l].token, listings[l].seller >> = << trade.token, trade.seller >>
    /\ IF listings[l].auction
       THEN /\ << listings[l].bidder, listings[l].bid >> = << trade.buyer, trade.price >>
            /\ now > listings[l].expires /\ listings[l].bid >= listings[l].minBid
       ELSE listings[l].price = trade.price /\ now <= listings[l].expires

(* Every recorded sale uses up one live commitment: an unexpired listing or *)
(* offer, or an auction that has ended at its highest bid, closed by the    *)
(* sale itself, so no commitment is used twice and none after it is         *)
(* cancelled (execute_trade and then the deactivation, in accept_offer,     *)
(* buy_nft and finalize_auction).                                           *)
SalesUseCommitments ==
  [][trades' # trades =>
       /\ Len(trades') = Len(trades) + 1
       /\ ClosesOffer(Last(trades')) \/ ClosesListing(Last(trades'))]_<<marketVars, now>>

(* A collection's volume and floor are those of the recorded sales of its   *)
(* tokens: the statistics written by one half of execute_trade and the      *)
(* history written by the other half tell the same story.                   *)
StatisticsAgree ==
  \A c \in DOMAIN collections :
    LET sold == {i \in DOMAIN trades : nfts[trades[i].token].collection = c}
    IN  /\ collections[c].volume = SumFunctionOnSet([i \in DOMAIN trades |-> trades[i].price], sold)
        /\ sold # {} => collections[c].floor \in {trades[i].price : i \in sold}
        /\ \A i \in sold : collections[c].floor <= trades[i].price
=============================================================================
