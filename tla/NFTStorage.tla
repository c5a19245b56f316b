----------------------------- MODULE NFTStorage -----------------------------
(***************************************************************************)
(* The registries the NFT modules share (src/nft_storage.rs over the types *)
(* of src/nft_types.rs), the minting operations that fill them             *)
(* (src/nft_minting.rs) and the switches read by every user operation: the *)
(* marketplace pause and the frozen accounts of src/emergency.rs.          *)
(*                                                                         *)
(* A step is one successful call; a call that returns Err writes nothing.  *)
(* Ids are positions: token t is nfts[t], listing l is listings[l].        *)
(***************************************************************************)
EXTENDS AdminControl, FiniteSets, SeqFilter

CONSTANTS
  NoUser,            \* Option::None of an address
  PlatformFees,      \* fees, in basis points, an administrator may set
  DefaultFee,        \* DEFAULT_PLATFORM_FEE_BPS
  Royalties,         \* royalties a collection may be created with
  MaxRoyalty,        \* MAX_ROYALTY_BPS
  MaxSupplies,       \* max_supply choices for a collection, 0 = unlimited
  Standards,         \* the token standards minted, among ERC721 and ERC1155
  Units,             \* amounts minted, listed and offered
  BatchSizes,        \* numbers of tokens minted in one batch
  MaxCollections,    \* bound on the collections
  MaxTokens,         \* bound on the tokens
  Creators,          \* accounts that create and are handed collections
  Switches,          \* values the pause and minting switches are set to
  Freezable          \* accounts the emergency administrator may freeze

ASSUME NFTAssumption ==
  /\ NoUser \notin Addresses /\ IsFiniteSet(Addresses)
  /\ Units \subseteq Nat /\ Royalties \subseteq Nat /\ PlatformFees \subseteq Nat
  /\ DefaultFee \in Nat /\ MaxSupplies \subseteq Nat
  /\ BatchSizes \subseteq Nat /\ MaxCollections \in Nat /\ MaxTokens \in Nat
  /\ Standards \subseteq {"ERC721", "ERC1155"}
  /\ Freezable \subseteq Addresses /\ Creators \subseteq Addresses
  /\ Switches \subseteq BOOLEAN

VARIABLES
  collections,       \* CollectionRegistry
  nfts,              \* NFTRegistry.nfts
  ownerTokens,       \* NFTRegistry.owner_tokens
  portfolio,         \* PORTFOLIO_REGISTRY_KEY
  marketPaused,      \* MARKETPLACE_PAUSED_KEY
  frozen,            \* EmergencyKey::FrozenUsers
  platformFee        \* PLATFORM_FEE_BPS_KEY

tokenVars == << collections, nfts, ownerTokens >>
switchVars == << marketPaused, frozen, platformFee >>
storageVars == << tokenVars, portfolio, switchVars >>

EmptyPortfolio ==
  [nfts |-> 0, listings |-> 0, offers |-> 0, loansTaken |-> 0, loansGiven |-> 0]

StorageInit ==
  /\ collections = << >>
  /\ nfts = << >>
  /\ ownerTokens = [a \in Addresses |-> << >>]
  /\ portfolio = [a \in Addresses |-> EmptyPortfolio]
  /\ marketPaused = FALSE
  /\ frozen = {}
  /\ platformFee = DefaultFee

Tokens == DOMAIN nfts

\* The two checks that open almost every operation.
Open == ~marketPaused
MayTrade(a) == Open /\ a \notin frozen

\* Counters saturate at zero.
Less(n) == IF n = 0 THEN 0 ELSE n - 1

\* transfer_ownership: the token leaves the old owner's index and goes to the
\* end of the new owner's.
TransferOwnership(t, to) ==
  /\ nfts' = [nfts EXCEPT ![t].owner = to]
  /\ ownerTokens' =
       LET without == [ownerTokens EXCEPT ![nfts[t].owner] = Only(@, Range(@) \ {t})]
       IN  [without EXCEPT ![to] = Append(@, t)]

CreateCollection(owner, royalty, maxSupply) ==
  /\ MayTrade(owner)
  /\ royalty <= MaxRoyalty
  /\ Len(collections) < MaxCollections
  /\ collections' = Append(collections,
       [owner |-> owner, royalty |-> royalty, maxSupply |-> maxSupply,
        supply |-> 0, minting |-> TRUE, volume |-> 0, floor |-> 0])
  /\ UNCHANGED << nfts, ownerTokens, portfolio, switchVars >>

\* The amount a standard admits: ERC721 stands for one unit whatever is asked.
MintAmount(standard, amount) == IF standard = "ERC721" THEN 1 ELSE amount
Mintable(standard, amount) == IF standard = "ERC721" THEN amount \in {0, 1} ELSE amount # 0

\* The tokens n .. n + k - 1 go to the creator: one for mint_nft, k for
\* batch_mint, which stops the whole call at the first refusal.
Mint(creator, c, standard, amount, k) ==
  /\ MayTrade(creator)
  /\ c \in DOMAIN collections
  /\ collections[c].owner = creator
  /\ collections[c].minting
  /\ collections[c].maxSupply > 0 => collections[c].supply + k <= collections[c].maxSupply
  /\ Mintable(standard, amount)
  /\ Len(nfts) + k <= MaxTokens
  /\ nfts' = nfts \o [i \in 1 .. k |->
       [owner |-> creator, collection |-> c, standard |-> standard, fractional |-> FALSE,
        supply |-> MintAmount(standard, amount), circulating |-> MintAmount(standard, amount)]]
  /\ ownerTokens' = [ownerTokens EXCEPT ![creator] = @ \o [i \in 1 .. k |-> Len(nfts) + i]]
  /\ collections' = [collections EXCEPT ![c].supply = @ + k]
  /\ portfolio' = [portfolio EXCEPT ![creator].nfts = @ + k]
  /\ UNCHANGED switchVars

MintNFT(creator, c, standard, amount) == Mint(creator, c, standard, amount, 1)
BatchMint(creator, c, standard, k) == Mint(creator, c, standard, 1, k)

\* Neither of the next three asks whether the marketplace is paused.
SetMintingStatus(owner, c, active) ==
  /\ c \in DOMAIN collections /\ collections[c].owner = owner
  /\ collections' = [collections EXCEPT ![c].minting = active]
  /\ UNCHANGED << nfts, ownerTokens, portfolio, switchVars >>

UpdateCollectionMetadata(owner, c, royalty) ==
  /\ c \in DOMAIN collections /\ collections[c].owner = owner
  /\ royalty <= MaxRoyalty
  /\ collections' = [collections EXCEPT ![c].royalty = royalty]
  /\ UNCHANGED << nfts, ownerTokens, portfolio, switchVars >>

TransferCollectionOwnership(owner, c, newOwner) ==
  /\ c \in DOMAIN collections /\ collections[c].owner = owner
  /\ collections' = [collections EXCEPT ![c].owner = newOwner]
  /\ UNCHANGED << nfts, ownerTokens, portfolio, switchVars >>

SetMarketplacePause(caller, paused) ==
  /\ IsAdmin(caller)
  /\ marketPaused' = paused
  /\ UNCHANGED << tokenVars, portfolio, frozen, platformFee >>

UpdatePlatformFee(caller, bps) ==
  /\ IsAdmin(caller)
  /\ platformFee' = bps
  /\ UNCHANGED << tokenVars, portfolio, marketPaused, frozen >>

\* emergency.rs keeps an administrator of its own; here it is the initial one.
FreezeUser(caller, a) ==
  /\ caller = InitialAdmin
  /\ frozen' = frozen \union {a}
  /\ UNCHANGED << tokenVars, portfolio, marketPaused, platformFee >>

UnfreezeUser(caller, a) ==
  /\ caller = InitialAdmin
  /\ frozen' = frozen \ {a}
  /\ UNCHANGED << tokenVars, portfolio, marketPaused, platformFee >>

StorageNext ==
  \/ \E a \in Creators :
       \/ \E r \in Royalties, s \in MaxSupplies : CreateCollection(a, r, s)
       \/ \E c \in DOMAIN collections :
            \/ \E s \in Standards, n \in Units : MintNFT(a, c, s, n)
            \/ \E s \in Standards, k \in BatchSizes : BatchMint(a, c, s, k)
            \/ \E active \in Switches : SetMintingStatus(a, c, active)
            \/ \E r \in Royalties : UpdateCollectionMetadata(a, c, r)
            \/ \E b \in Creators : TransferCollectionOwnership(a, c, b)
  \/ \E a \in Addresses :
       \/ \E paused \in Switches : SetMarketplacePause(a, paused)
       \/ \E bps \in PlatformFees : UpdatePlatformFee(a, bps)
       \/ \E u \in Freezable : FreezeUser(a, u) \/ UnfreezeUser(a, u)

CollectionRecord ==
  [owner : Addresses, royalty : Nat, maxSupply : Nat, supply : Nat,
   minting : BOOLEAN, volume : Nat, floor : Nat]

NFTRecord ==
  [owner : Addresses, collection : Nat, standard : {"ERC721", "ERC1155"},
   fractional : BOOLEAN, supply : Nat, circulating : Nat]

PortfolioRecord ==
  [nfts : Nat, listings : Nat, offers : Nat, loansTaken : Nat, loansGiven : Nat]

StorageTypeOK ==
  /\ collections \in Seq(CollectionRecord)
  /\ nfts \in Seq(NFTRecord)
  /\ ownerTokens \in [Addresses -> Seq(Nat)]
  /\ portfolio \in [Addresses -> PortfolioRecord]
  /\ marketPaused \in BOOLEAN
  /\ frozen \subseteq Addresses
  /\ platformFee \in Nat

(* get_nfts_by_owner answers from owner_tokens alone: every token is in     *)
(* the index of its owner, once, and in nobody else's, whatever sales,      *)
(* self-transfers and liquidations moved it (transfer_ownership).           *)
OwnerIndexExact ==
  \A a \in Addresses :
    /\ IsInjective(ownerTokens[a])
    /\ ToSet(ownerTokens[a]) = {t \in Tokens : nfts[t].owner = a}

(* A collection's total_supply counts the tokens minted in it and never     *)
(* passes max_supply, whether they are minted one by one or in a batch.     *)
SupplyCapped ==
  \A c \in DOMAIN collections :
    /\ collections[c].supply = Cardinality({t \in Tokens : nfts[t].collection = c})
    /\ collections[c].maxSupply > 0 => collections[c].supply <= collections[c].maxSupply
=============================================================================
