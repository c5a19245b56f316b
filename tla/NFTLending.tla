----------------------------- MODULE NFTLending -----------------------------
(***************************************************************************)
(* What ties a token beside the market: fractional ownership               *)
(* (src/nft_fractional.rs over the FractionalRegistry of                   *)
(* src/nft_storage.rs), then loans against tokens and their liquidation    *)
(* (src/nft_lending.rs over the LoanRegistry and ValuationRegistry, and    *)
(* the valuation setters of src/nft.rs).  The clock counts days.           *)
(***************************************************************************)
EXTENDS NFTMarketplace

CONSTANTS
  ShareCounts,       \* total_shares asked for
  MinShares, MaxShares,
  ShareLots          \* numbers of shares bought, sold and transferred

ASSUME FractionalAssumption ==
  /\ ShareCounts \subseteq Nat /\ ShareLots \subseteq Nat
  /\ MinShares \in Nat \ {0} /\ MaxShares \in Nat

VARIABLES
  shares,            \* FractionalRegistry.shares, 0 where there is no entry
  shareholders       \* FractionalRegistry.token_shareholders

shareVars == << shares, shareholders >>

FractionalInit ==
  /\ shares = [t \in 1 .. MaxTokens |-> [a \in Addresses |-> 0]]
  /\ shareholders = [t \in 1 .. MaxTokens |-> << >>]

\* set_shares enters a new holder at the end of the list; remove_shareholder
\* drops the entry and the listed name.
Holders(list, a, n) ==
  IF n = 0 THEN Only(list, Range(list) \ {a})
  ELSE IF a \in ToSet(list) THEN list ELSE Append(list, a)

SetShares(t, a, n) ==
  /\ shares' = [shares EXCEPT ![t][a] = n]
  /\ shareholders' = [shareholders EXCEPT ![t] = Holders(@, a, n)]

Fractionalize(owner, t, total) ==
  /\ MayTrade(owner)
  /\ MinShares <= total /\ total <= MaxShares
  /\ t \in Tokens /\ nfts[t].owner = owner
  /\ ~nfts[t].fractional
  /\ nfts[t].standard = "ERC721"
  /\ ~Pledged(t)
  /\ nfts' = [nfts EXCEPT ![t].fractional = TRUE, ![t].supply = total, ![t].circulating = 0]
  /\ SetShares(t, owner, total)
  /\ UNCHANGED << collections, ownerTokens, portfolio, switchVars, marketVars, collateralOf >>

\* The shares sold come out of supply - circulating, which is the whole supply
\* although the owner was given all of it.
BuyShares(buyer, t, n) ==
  /\ MayTrade(buyer)
  /\ n # 0
  /\ t \in Tokens /\ nfts[t].fractional
  /\ nfts[t].circulating + n <= nfts[t].supply
  /\ SetShares(t, buyer, shares[t][buyer] + n)
  /\ nfts' = [nfts EXCEPT ![t].circulating = @ + n]
  /\ UNCHANGED << collections, ownerTokens, portfolio, switchVars, marketVars, collateralOf >>

SellShares(seller, t, n) ==
  /\ Open
  /\ n # 0
  /\ t \in Tokens
  /\ shares[t][seller] >= n
  /\ SetShares(t, seller, shares[t][seller] - n)
  /\ nfts' = [nfts EXCEPT ![t].circulating = IF @ < n THEN 0 ELSE @ - n]
  /\ UNCHANGED << collections, ownerTokens, portfolio, switchVars, marketVars, collateralOf >>

TransferShares(from, to, t, n) ==
  /\ MayTrade(from)
  /\ n # 0
  /\ from # to
  /\ t \in Tokens /\ nfts[t].fractional
  /\ shares[t][from] >= n
  /\ shares' = [shares EXCEPT ![t] = [@ EXCEPT ![from] = shares[t][from] - n, ![to] = shares[t][to] + n]]
  /\ shareholders' = [shareholders EXCEPT ![t] =
       Holders(Holders(@, from, shares[t][from] - n), to, shares[t][to] + n)]
  /\ UNCHANGED << storageVars, marketVars, collateralOf >>

\* Whoever holds as many shares as the supply may dissolve them: the token
\* keeps its owner, and every other holder's entry goes too.
Defractionalize(holder, t) ==
  /\ Open
  /\ t \in Tokens /\ nfts[t].fractional
  /\ shares[t][holder] = nfts[t].supply
  /\ nfts' = [nfts EXCEPT ![t].fractional = FALSE, ![t].supply = 1, ![t].circulating = 1]
  /\ shares' = [shares EXCEPT ![t] = [a \in Addresses |->
       IF a \in ToSet(shareholders[t]) THEN 0 ELSE @[a]]]
  /\ shareholders' = [shareholders EXCEPT ![t] = << >>]
  /\ UNCHANGED << collections, ownerTokens, portfolio, switchVars, marketVars, collateralOf >>

FractionalNext ==
  \E a \in Addresses, t \in Tokens :
    \/ \E n \in ShareCounts : Fractionalize(a, t, n)
    \/ \E n \in ShareLots :
         \/ BuyShares(a, t, n) \/ SellShares(a, t, n)
         \/ \E b \in Addresses : TransferShares(a, b, t, n)
    \/ Defractionalize(a, t)

FractionalTypeOK ==
  /\ shares \in [1 .. MaxTokens -> [Addresses -> Nat]]
  /\ shareholders \in [1 .. MaxTokens -> Seq(Addresses)]

Issued(t) == SumFunction(shares[t])

(* get_shareholders lists exactly the accounts that hold shares, once each, *)
(* and only a fractionalized token has any: defractionalize_nft walks the   *)
(* list to remove the entries, so a holder missing from it would keep       *)
(* shares of a whole token.                                                 *)
ShareholdersExact ==
  \A t \in 1 .. MaxTokens :
    /\ IsInjective(shareholders[t])
    /\ ToSet(shareholders[t]) = {a \in Addresses : shares[t][a] > 0}
    /\ (t \notin Tokens \/ ~nfts[t].fractional) => Issued(t) = 0

(* The shares in existence are at most the supply handed to the owner by    *)
(* fractionalize_nft plus what the circulating supply says was sold: the    *)
(* over-issue of buy_fractional_shares is bounded by twice the supply,      *)
(* however often shares are sold back and the counter saturates.            *)
IssueBounded ==
  \A t \in Tokens : nfts[t].fractional =>
    /\ Issued(t) <= nfts[t].supply + nfts[t].circulating
    /\ nfts[t].circulating <= nfts[t].supply

-----------------------------------------------------------------------------
(* Loans, valuations and liquidations *)

CONSTANTS
  LoanAmounts, LoanRates, LoanDurations,
  MinLoanDuration, MaxLoanDuration, MaxRate,
  GracePeriod,          \* LIQUIDATION_GRACE_PERIOD
  InterestPrecision,    \* INTEREST_PRECISION
  TriggerLTV,           \* LIQUIDATION_TRIGGER_LTV_BPS
  PartialLTV,           \* PARTIAL_LIQUIDATION_LTV_BPS
  Values,               \* valuations and collection floors set
  LiquidationBids,      \* bids placed on a liquidation
  MaxQueue,             \* MAX_LIQUIDATION_QUEUE_SIZE
  MaxU32,               \* u32::MAX
  MaxLoans              \* bound on the loans

ASSUME LendingAssumption ==
  /\ LoanAmounts \subseteq Nat /\ LoanRates \subseteq Nat /\ LoanDurations \subseteq Nat
  /\ Values \subseteq Nat /\ LiquidationBids \subseteq Nat
  /\ {MinLoanDuration, MaxLoanDuration, MaxRate, GracePeriod, MaxQueue, MaxLoans} \subseteq Nat
  /\ InterestPrecision \in Nat \ {0}
  /\ {TriggerLTV, PartialLTV, MaxU32} \subseteq Nat
  /\ TriggerLTV < PartialLTV /\ 10000 <= PartialLTV /\ PartialLTV < MaxU32

VARIABLES
  loans, activeLoans,   \* LoanRegistry and its active_count
  valuations,           \* ValuationRegistry.valuations: the estimate and the floor at that time
  floors,               \* ValuationRegistry.collection_floors
  queue,                \* LIQUIDATION_QUEUE_KEY
  bestBid               \* LIQUIDATION_BID_REGISTRY_KEY

loanVars == << loans, activeLoans, collateralOf >>
valueVars == << valuations, floors >>
liquidationVars == << queue, bestBid >>
nftVars == << adminVars, storageVars, marketVars, shareVars, loanVars, valueVars, liquidationVars >>

NoValuation == [estimate |-> 0, floor |-> 0]
NoBid == [bidder |-> NoUser, amount |-> 0]

LendingInit ==
  /\ loans = << >> /\ activeLoans = 0
  /\ valuations = [t \in 1 .. MaxTokens |-> NoValuation]
  /\ floors = [c \in 1 .. MaxCollections |-> 0]
  /\ queue = << >>
  /\ bestBid = [i \in 1 .. MaxLoans |-> NoBid]

\* calculate_interest and fund_loan: the daily interest is divided by 10000
\* and by the precision it had been multiplied with, and the total by the
\* precision once more.
Interest(amount, bps, days) ==
  (((amount * bps) \div 10000) * days) \div InterestPrecision

TotalDue(i) ==
  loans[i].amount + (IF ~loans[i].active \/ loans[i].repaid THEN 0
                     ELSE Interest(loans[i].amount, loans[i].bps,
                                   IF now < loans[i].start THEN 0 ELSE now - loans[i].start))

\* A loan that can be repaid or liquidated.
Outstanding(i) == loans[i].active /\ ~loans[i].repaid /\ ~loans[i].liquidated

\* Mutant: the listings of the token are not looked at.
RequestLoanListed(borrower, t, amount, bps, d) ==
  /\ MayTrade(borrower)
  /\ amount > 0
  /\ bps # 0 /\ bps <= MaxRate
  /\ MinLoanDuration <= d /\ d <= MaxLoanDuration
  /\ t \in Tokens /\ nfts[t].owner = borrower
  /\ ~Pledged(t)
  /\ ~nfts[t].fractional
  /\ Len(loans) < MaxLoans
  /\ loans' = Append(loans,
       [token |-> t, borrower |-> borrower, lender |-> borrower, amount |-> amount, bps |-> bps,
        repayment |-> amount, start |-> 0, duration |-> d, due |-> 0,
        active |-> FALSE, repaid |-> FALSE, liquidated |-> FALSE])
  /\ collateralOf' = [collateralOf EXCEPT ![t] = Len(loans) + 1]
  /\ activeLoans' = activeLoans + 1
  /\ UNCHANGED << storageVars, marketVars, shareVars, valueVars, liquidationVars >>

RequestLoan(borrower, t, amount, bps, d) ==
  /\ MayTrade(borrower)
  /\ amount > 0
  /\ bps # 0 /\ bps <= MaxRate
  /\ MinLoanDuration <= d /\ d <= MaxLoanDuration
  /\ t \in Tokens /\ nfts[t].owner = borrower
  /\ ~Pledged(t)
  /\ ~nfts[t].fractional
  /\ \A l \in DOMAIN listings : listings[l].token = t => ~listings[l].active
  /\ Len(loans) < MaxLoans
  /\ loans' = Append(loans,
       [token |-> t, borrower |-> borrower, lender |-> borrower, amount |-> amount, bps |-> bps,
        repayment |-> amount, start |-> 0, duration |-> d, due |-> 0,
        active |-> FALSE, repaid |-> FALSE, liquidated |-> FALSE])
  /\ collateralOf' = [collateralOf EXCEPT ![t] = Len(loans) + 1]
  /\ activeLoans' = activeLoans + 1
  /\ UNCHANGED << storageVars, marketVars, shareVars, valueVars, liquidationVars >>

\* Only is_active is asked: a loan that was repaid or liquidated is inactive
\* and may be funded again, as may a request the borrower cancelled.
FundLoan(lender, i) ==
  /\ MayTrade(lender)
  /\ i \in DOMAIN loans
  /\ ~loans[i].active
  /\ loans[i].borrower # lender
  /\ loans' = [loans EXCEPT ![i].lender = lender, ![i].start = now, ![i].active = TRUE,
                            ![i].due = now + loans[i].duration,
                            ![i].repayment = loans[i].amount
                              + Interest(loans[i].amount, loans[i].bps, loans[i].duration)]
  /\ portfolio' = [portfolio EXCEPT ![loans[i].borrower].loansTaken = @ + 1,
                                    ![lender].loansGiven = @ + 1]
  /\ UNCHANGED << tokenVars, switchVars, marketVars, shareVars, activeLoans, collateralOf,
                  valueVars, liquidationVars >>

\* Mutant: the lender's portfolio is forgotten.
LoanEndsBorrower(i) ==
  [portfolio EXCEPT ![loans[i].borrower].loansTaken = Less(@)]

\* The portfolios of both parties when a loan ends.
LoanEnds(i) ==
  [portfolio EXCEPT ![loans[i].borrower].loansTaken = Less(@),
                    ![loans[i].lender].loansGiven = Less(@)]

RepayLoan(borrower, i, amount) ==
  /\ Open
  /\ i \in DOMAIN loans /\ loans[i].borrower = borrower
  /\ Outstanding(i)
  /\ amount >= TotalDue(i)
  /\ loans' = [loans EXCEPT ![i].repaid = TRUE, ![i].active = FALSE]
  /\ activeLoans' = Less(activeLoans)
  /\ portfolio' = LoanEnds(i)
  /\ UNCHANGED << tokenVars, switchVars, marketVars, shareVars, collateralOf,
                  valueVars, liquidationVars >>

\* The collateral of loan i goes to a, who is credited with one more token;
\* whoever owned it before is not asked and loses none in the portfolio.
Seize(i, a) ==
  /\ TransferOwnership(loans[i].token, a)
  /\ portfolio' = [LoanEnds(i) EXCEPT ![a].nfts = @ + 1]
  /\ loans' = [loans EXCEPT ![i].liquidated = TRUE, ![i].active = FALSE]

\* Mutant: no grace period.
LiquidateLoanEarly(i) ==
  /\ i \in DOMAIN loans /\ Outstanding(i)
  /\ now > loans[i].due
  /\ Seize(i, loans[i].lender)
  /\ activeLoans' = Less(activeLoans)
  /\ UNCHANGED << collections, switchVars, marketVars, shareVars, collateralOf,
                  valueVars, liquidationVars >>

LiquidateLoan(i) ==
  /\ i \in DOMAIN loans /\ Outstanding(i)
  /\ now > loans[i].due + GracePeriod
  /\ Seize(i, loans[i].lender)
  /\ activeLoans' = Less(activeLoans)
  /\ UNCHANGED << collections, switchVars, marketVars, shareVars, collateralOf,
                  valueVars, liquidationVars >>

\* cancel_loan_request checks the caller and the flag and writes nothing.
CancelLoanRequest(borrower, i) ==
  /\ i \in DOMAIN loans /\ loans[i].borrower = borrower
  /\ ~loans[i].active
  /\ UNCHANGED << storageVars, marketVars, shareVars, loanVars, valueVars, liquidationVars >>

\* set_nft_valuation keeps the estimate and the collection's current floor.
SetValuation(t, value) ==
  /\ t \in Tokens
  /\ valuations' = [valuations EXCEPT ![t] =
       [estimate |-> value, floor |-> collections[nfts[t].collection].floor]]
  /\ UNCHANGED << storageVars, marketVars, shareVars, loanVars, floors, liquidationVars >>

UpdateFloor(c, value) ==
  /\ floors' = [floors EXCEPT ![c] = value]
  /\ UNCHANGED << storageVars, marketVars, shareVars, loanVars, valuations, liquidationVars >>

\* get_collateral_value: the estimate, the floor it was made at, the
\* collection's floor; 0 stands for ValuationNotAvailable.
CollateralValue(t) ==
  LET v == valuations[t] IN
  IF v.estimate > 0 THEN v.estimate
  ELSE IF v.floor > 0 THEN v.floor
  ELSE floors[nfts[t].collection]

LTV(i) == ((TotalDue(i) * 10000) \div CollateralValue(loans[i].token)) % (MaxU32 + 1)

Undercollateralized(i) ==
  /\ Outstanding(i)
  /\ CollateralValue(loans[i].token) > 0
  /\ LTV(i) > TriggerLTV

EnqueueLiquidation(i) ==
  /\ i \in DOMAIN loans /\ Undercollateralized(i)
  /\ Len(queue) < MaxQueue
  /\ queue' = IF i \in ToSet(queue) THEN queue ELSE Append(queue, i)
  /\ UNCHANGED << storageVars, marketVars, shareVars, loanVars, valueVars, bestBid >>

PlaceLiquidationBid(bidder, i, amount) ==
  /\ amount > 0
  /\ i \in DOMAIN loans /\ Undercollateralized(i)
  /\ loans[i].borrower # bidder
  /\ bestBid[i] # NoBid => amount > bestBid[i].amount
  /\ bestBid' = [bestBid EXCEPT ![i] = [bidder |-> bidder, amount |-> amount]]
  /\ UNCHANGED << storageVars, marketVars, shareVars, loanVars, valueVars, queue >>

\* The first branch of execute_liquidation: half of the debt is taken to be
\* recovered, but the amount due, and with it the LTV, stays what it was.
PartialLiquidation(i) ==
  /\ LTV(i) <= PartialLTV
  /\ loans' = [loans EXCEPT ![i].repayment = TotalDue(i) - (TotalDue(i) * 5000) \div 10000]
  /\ UNCHANGED << nfts, ownerTokens, portfolio, bestBid >>

\* The second: the collateral goes to the best bidder, or else to the lender,
\* and the registry's active count is left alone.
FullLiquidation(i) ==
  /\ LTV(i) > PartialLTV
  /\ Seize(i, IF bestBid[i] # NoBid THEN bestBid[i].bidder ELSE loans[i].lender)
  /\ bestBid' = [bestBid EXCEPT ![i] = NoBid]

ExecuteLiquidation(i) ==
  /\ i \in DOMAIN loans /\ Undercollateralized(i)
  /\ PartialLiquidation(i) \/ FullLiquidation(i)
  /\ UNCHANGED << collections, switchVars, marketVars, shareVars, activeLoans, collateralOf,
                  valueVars, queue >>

\* monitor_and_queue_liquidations: in id order, at most MaxQueue loans a call,
\* whatever the queue holds already.
MonitorAndQueue ==
  LET wanting == {i \in DOMAIN loans : Undercollateralized(i) /\ i \notin ToSet(queue)}
      sorted  == Only([i \in 1 .. Len(loans) |-> i], wanting)
      added   == SubSeq(sorted, 1, Shorter(Len(sorted), MaxQueue))
  IN  /\ queue' = queue \o added
      /\ UNCHANGED << storageVars, marketVars, shareVars, loanVars, valueVars, bestBid >>

\* process_liquidation_queue with max_items = 1: the first loan in the queue
\* that can be liquidated is, and leaves the queue; those ahead of it stay.
ProcessQueue ==
  LET due == {k \in DOMAIN queue : Undercollateralized(queue[k])} IN
  /\ due # {}
  /\ LET k == Min(due) IN
       /\ PartialLiquidation(queue[k]) \/ FullLiquidation(queue[k])
       /\ queue' = RemoveAt(queue, k)
  /\ UNCHANGED << collections, switchVars, marketVars, shareVars, activeLoans, collateralOf,
                  valueVars >>

LendingNext ==
  \/ \E a \in Addresses, t \in Tokens, n \in LoanAmounts, r \in LoanRates, d \in LoanDurations :
       RequestLoan(a, t, n, r, d)
  \/ \E a \in Addresses, i \in DOMAIN loans :
       \/ FundLoan(a, i) \/ CancelLoanRequest(a, i)
       \/ \E n \in LoanAmounts : RepayLoan(a, i, n)
       \/ \E n \in LiquidationBids : PlaceLiquidationBid(a, i, n)
  \/ \E i \in DOMAIN loans :
       LiquidateLoan(i) \/ EnqueueLiquidation(i) \/ ExecuteLiquidation(i)
  \/ \E t \in Tokens, v \in Values : SetValuation(t, v)
  \/ \E c \in DOMAIN collections, v \in Values : UpdateFloor(c, v)
  \/ MonitorAndQueue
  \/ ProcessQueue

LoanRecord ==
  [token : Nat, borrower : Addresses, lender : Addresses, amount : Nat, bps : Nat,
   repayment : Nat, start : Nat, duration : Nat, due : Nat,
   active : BOOLEAN, repaid : BOOLEAN, liquidated : BOOLEAN]

LendingTypeOK ==
  /\ loans \in Seq(LoanRecord) /\ activeLoans \in Nat
  /\ valuations \in [1 .. MaxTokens -> [estimate : Nat, floor : Nat]]
  /\ floors \in [1 .. MaxCollections -> Nat]
  /\ queue \in Seq(1 .. MaxLoans)
  /\ bestBid \in [1 .. MaxLoans -> [bidder : Addresses \union {NoUser}, amount : Nat]]
=============================================================================
