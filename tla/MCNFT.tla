-------------------------------- MODULE MCNFT --------------------------------
(* Three accounts; ann is the administrator and mints.  The clock counts      *)
(* days.                                                                      *)
EXTENDS NFTSuite, TLC

MCNone == {}
MCTwoDays == {2}
MCSales == {FALSE}
MCKinds == BOOLEAN
MCOn == {TRUE}
MC1155 == {"ERC1155"}
MCTwo == {2}
MCBatches == {1, 2}
MCTimeSteps == {1}
MCOne == {1}
MCUnits == {1, 2}
MCPrices == {1, 2}
MCPrice == {2}
MCAuctionBids == {2, 3}
MC721 == {"ERC721"}
MCRoyalties == {0}
MCShareCounts == {2}
MCLots == {1, 2}
MCFees == {250}
MCLoanAmounts == {100}
MCRates == {100}
MCLoanDurations == {1}
MCValues == {80, 120}
MCBids == {90, 110}
MCTraders == Permutations(Addresses \ {InitialAdmin})

\* The registries are looked at, not the bounds: no listing, offer or sale
\* beyond MaxTrades is made.
CONSTANT MaxTrades
MCBound == Len(trades) <= MaxTrades
=============================================================================
