------------------------------ MODULE NFTSuite ------------------------------
(***************************************************************************)
(* The NFT modules together: minting, marketplace, fractional ownership    *)
(* and lending read and write the same registries in the instance storage. *)
(***************************************************************************)
EXTENDS NFTLending

NFTInit ==
  /\ AdminInit /\ StorageInit /\ MarketInit /\ FractionalInit /\ LendingInit

NFTNext ==
  \/ StorageNext /\ UNCHANGED << adminVars, marketVars, shareVars, loanVars, valueVars, liquidationVars >>
  \/ MarketNext /\ UNCHANGED << adminVars, shareVars, loans, activeLoans, valueVars, liquidationVars >>
  \/ FractionalNext /\ UNCHANGED << adminVars, loans, activeLoans, valueVars, liquidationVars >>
  \/ LendingNext /\ UNCHANGED adminVars
  \/ \E dt \in TimeSteps :
       /\ AdvanceTime(dt)
       /\ UNCHANGED << storageVars, marketVars, shareVars, loanVars, valueVars, liquidationVars >>

NFTSpec == NFTInit /\ [][NFTNext]_nftVars

NFTTypeOK ==
  /\ AdminTypeOK
  /\ StorageTypeOK
  /\ MarketTypeOK
  /\ FractionalTypeOK
  /\ LendingTypeOK

(* A token serves one purpose that ties it to its owner: a pledged token    *)
(* has no active listing and is not fractionalized, although create_listing *)
(* looks at the pledge, request_loan at the listings and at the fractions,  *)
(* and fractionalize_nft at the pledge, each at its own time.               *)
ExclusiveUse ==
  \A t \in 1 .. MaxTokens : Pledged(t) =>
    /\ \A l \in DOMAIN listings : listings[l].token = t => ~listings[l].active
    /\ t \in Tokens => ~nfts[t].fractional

(* Every portfolio counts the active loans its owner has taken and given,   *)
(* through repayment, either kind of liquidation and a loan that is funded  *)
(* again by another lender.                                                 *)
LoanCountsExact ==
  \A a \in Addresses :
    /\ portfolio[a].loansTaken
         = Cardinality({i \in DOMAIN loans : loans[i].active /\ loans[i].borrower = a})
    /\ portfolio[a].loansGiven
         = Cardinality({i \in DOMAIN loans : loans[i].active /\ loans[i].lender = a})

(* A token changes owner by a recorded sale from the old owner to the new,  *)
(* or by the liquidation of a loan it backs, and then it goes to the lender *)
(* of that loan or to the bidder who was leading (execute_trade, Seize).    *)
(* What has happened to a loan stays on record, although fund_loan may put  *)
(* it into force again.                                                     *)
MovesOnRecord ==
  [][/\ \A t \in Tokens : nfts'[t].owner # nfts[t].owner =>
          \/ /\ trades' # trades
             /\ << Last(trades').token, Last(trades').seller, Last(trades').buyer >>
                  = << t, nfts[t].owner, nfts'[t].owner >>
          \/ \E i \in DOMAIN loans :
               /\ loans[i].token = t /\ Outstanding(i) /\ loans'[i].liquidated
               /\ nfts'[t].owner \in {loans[i].lender, bestBid[i].bidder}
               /\ \/ now > loans[i].due + GracePeriod
                  \/ 0 < CollateralValue(t) /\ CollateralValue(t) < TotalDue(i)
     /\ \A i \in DOMAIN loans :
          /\ loans[i].repaid => loans'[i].repaid
          /\ loans[i].liquidated => loans'[i].liquidated
          /\ << loans'[i].token, loans'[i].borrower, loans'[i].amount >>
               = << loans[i].token, loans[i].borrower, loans[i].amount >>]_nftVars

(* The liquidation queue names no loan twice and a standing bid belongs to  *)
(* a loan on record and comes from somebody else than its borrower.         *)
QueueSound ==
  /\ IsInjective(queue)
  /\ \A i \in 1 .. MaxLoans :
       bestBid[i] # NoBid => i \in DOMAIN loans /\ bestBid[i].bidder # loans[i].borrower

(* The registries of tokens, listings, offers and sales count each other    *)
(* right, whatever mints, transfers, sales, bids and cancellations came in  *)
(* between.                                                                 *)
RegistriesAgree == OwnerIndexExact /\ SupplyCapped /\ MarketCountsExact /\ StatisticsAgree

(* Shares, loans and the liquidation queue add up through sales, buy-outs,  *)
(* repayments and liquidations of either kind.                              *)
LendingSound ==
  NFTTypeOK /\ ShareholdersExact /\ IssueBounded /\ LoanCountsExact /\ QueueSound
=============================================================================
