# PeerX contracts in TLA+

This directory is a verification development for the repository's Soroban
contracts and the market data service beside them: TLA+ modules translated from
the source, TLC configurations that check them on small instances, and TLAPS
proofs, for every value of the constants, of every safety property the passing
configurations check.

Contents: [the system](#the-system) · [what is hard](#what-is-hard) ·
[modules](#the-modules) · [the runs](#the-runs) · [bounds](#bounds-and-why-they-are-enough) ·
[fairness](#fairness-and-deadlock) · [proofs](#the-proofs) ·
[disagreements found](#where-code-and-text-disagree) · [also noted](#also-noted) ·
[not modelled](#what-is-not-modelled) · [plan](#plan).

## The system

The heart of the repository is one Soroban contract, `counter`. Its entry points
are in `counter/src/lib.rs`; the components they call are modules of that crate.
`lib.rs` includes `counter/portfolio.rs`, `trading.rs`, `batch.rs` and `tiers.rs`
from the crate's root. Files of the same names under `counter/src/` are mocks that
the contract does not compile; they are not modelled.

The host executes one invocation at a time. An invocation that panics or returns
an error leaves no trace in storage. There is therefore no interleaving inside a
call, and **each entry point is one action**: its guards are the conditions under
which the call returns `Ok`, its effect is everything the call stores. What
interleaves is whole calls: users, operators, administrators and the ledger clock
act in any order, and most entry points can be called by anyone at any time.

The market data service (`market-data-streaming`) is a tokio program. There the
tasks interleave at every await and between every two accesses to a shared map, and
**each access under one lock is one action**.

| component | state it keeps | operations | who else touches it | what makes it correct |
|---|---|---|---|---|
| administration (`admin.rs`, `set_admin`) | one administrator; a per-address counter of sensitive actions per window | `set_admin`, the sensitive limiter | every administrative entry point | the guard is re-read at every phase of a multi-phase operation |
| treasury (`treasury.rs`) | balance, two lifetime counters, timelock, requests | deposit, set timelock, request, execute | staking deposits its penalties here | counters agree; a request is paid once, not early, and only if covered |
| staking (`staking_bonus.rs`) | stake records, per-user and global totals, registry, distributions | stake, early exit, claim stake, claim bonus, distribute | treasury, governance power | totals agree with records; nothing is paid twice; principal is conserved |
| KYC (`kyc.rs`) | operators, one record per user, overrides, two durations | operators, submit, resubmit, review, propose and execute override, settings | gates every trading call | final outcomes move only by timelocked overrides; only operators verify, and only others |
| pool registry (`liquidity_pool.rs`) | pools and LP tokens per provider | register, add, remove, swap, route search | multi-hop executor | no pool empties; nobody is diluted; quotes are honoured |
| portfolio (`portfolio.rs`, `tiers.rs`) | balances, pnl, trade counts, badges, leaderboard, the two-sided pool, LP positions | helpers of the trading calls | all trading calls load and store it whole | no overdraft; LP totals, user counts and leaderboard agree; badges follow the record |
| trading (`trading.rs`, `batch.rs`, `lib.rs`) | the portfolio, posted prices, slippage limit, rate counters | swap, safe_swap, preflight, batches, mint, add and remove liquidity, settings | oracle, risk checks, KYC, tiers | trades and liquidity moves conserve value; rounding never favours the trader |
| orders (`orders.rs`) | orders, one book per pair | place, cancel, matching pass | KYC | an order is filled once, never after it was cancelled or ran out; its status and time of filling tell which |
| referrals (`referral_system.rs`) | referrers, balances, volumes | register, commissions of a swap, withdraw | swap, sensitive limiter | no fee returns to its payer; what is earned is kept or withdrawn |
| oracle adapter (`oracle_adapter.rs`) | settings and feed per pair | initialize, update, configure, reset | – | what is reported was accepted |
| alerts (`alerts.rs`) | alerts per owner | create, subscribe, three checks, cleanup | – | an alert is live exactly while it is due |
| fee progression (`fee_progression.rs`) | achievements and streaks | record activity, bonus, calculate | – | discounts follow achievements |
| dynamic fees (five files) | fee, configuration, override, history, authorized operators | initialize, update, set by hand, override, configure, trim | – | the history is one story; a busier network is not cheaper; an update ends an override that ran out |
| parameters (`governance_params.rs`) | delay, pending updates, values | delay, propose, execute | administrator | the abstract timelock |
| proposals (`governance_system.rs`) | configuration, proposals, votes | create, vote, execute, cancel, configure | staking (power), administrator | tallies are votes; what executes had carried |
| decentralization schedule (`governance/`) | clock, timelock, council proposals, log, contract state, ballots | tick, direct and queued settings, council proposals, ballots | – | the log justifies the state; phases get reported; ballots decide |
| NFT suite (`nft_*.rs`) | collections, tokens, listings, offers, trades, shares, loans, valuations, liquidations | about thirty operations over shared registries | emergency switches | registries agree; a token is tied once; sales use up commitments |
| market data: server (`websocket.rs`) | connections, subscribers | connect, subscribe, disconnect, broadcast | its own tasks | index and connections agree; broadcasts end |
| market data: connections (`connection.rs`) | map, metrics | add, remove, send, idle cleanup | its own tasks | metrics account for the map and the tasks under way |
| market data: book (`orderbook.rs`) | two sides, last id | update | the network | the book shows the newest updates |
| market data: history (`historical.rs`) | data, cache, sessions | store, retrieve, replay | its own tasks | replays show stored data in order |

Interactions inside the contract: every trading call passes `require_verified_user`
(KYC); `swap` reads tiers, rate counters, risk limits, prices and the pool and writes
the portfolio once; `unstake_early` writes staking and treasury in one invocation;
`kyc_update_status`, `set_admin`, `propose_override` and `withdraw_commission` draw
on one sensitive budget per address; a proposal's votes weigh what their voters have
staked, and an executed one may replace the administrator that parameter updates
answer to; `execute_multi_hop_swap` is meant to read the registry the `pool_*` calls
write. The NFT modules share one storage: listing, fractionalizing and pledging a
token each look into the registries of the others.

## What is hard

* **Multi-phase operations.** A withdrawal, an override or a parameter update is
  announced, then executed. Between the phases the administrator may be replaced, the
  timelock changed, the balance spent by another request, the record moved by another
  override. Orders, offers, listings, loans, ballots and proposals live through many
  calls of different people.
* **Redundant state.** Totals next to records (staking, LP tokens, treasury counters,
  vote tallies, active counts of listings and loans), copies of a value (the pnl in
  the leaderboard), facts inferred from counts (a first trade), indexes.
* **Rounding.** Each pool and fee formula rounds several times; a direction that
  favours the caller adds up over calls of several users.
* **Guards in several copies.** `preflight_swap` repeats the guards of `swap`, the
  rate counter is checked on one path and raised on another, the batch executors have
  shorter versions of the liquidity operations.
* **Time.** Timelocks, lock and holding periods, expiries, phases of the schedule,
  price staleness and rate windows all compare stored times with a clock that jumps.
* **Partial failure.** A failed batch takes the portfolio back but not everything
  its operations wrote.
* **Concurrency and delivery**, in the market data service: copies taken before an
  await, two locks for one fact, updates lost, repeated and late.

Crashes, lost messages and retries do not occur inside the contract: the host makes
invocations atomic. `PROJECT.json` lists the hazards at their lines, each with the
properties that cover it.

## The modules

| module | models | extends |
|---|---|---|
| `AdminControl` | clock, administrator, sensitive limiter | – |
| `TimelockQueue` | abstract specification: a two-phase timelocked operation | – |
| `Treasury` | `treasury.rs`, `treasury_*` | `AdminControl` |
| `Staking` | `staking_bonus.rs` on top of the treasury | `Treasury` |
| `Vault` | staking and treasury as the contract runs them | `Staking` |
| `KYC` | `kyc.rs`, `kyc_*` | `AdminControl` |
| `LiquidityPool` | `liquidity_pool.rs`, `pool_*`, `find_best_route` | – |
| `MultiHop` | `execute_multi_hop_swap` next to the registry | `LiquidityPool` |
| `Portfolio` | `portfolio.rs` and `tiers.rs` as operators on one record | – |
| `Exchange` | the trading entry points over the portfolio, and the checks of `invariants.rs` on them | `Portfolio` |
| `GovernanceParams` | `governance_params.rs` | `AdminControl` |
| `Proposals` | `governance_system.rs` over the stakes | `GovernanceParams` |
| `Council` | `governance/governance.rs`, `governance/admin.rs` | – |
| `Voting` | `governance/voting.rs` | – |
| `Governance` | the three ways to govern together | the three above |
| `Orders`, `Referral`, `OracleAdapter`, `Alerts`, `FeeProgression` | the file of that name | `AdminControl` |
| `Badges` | badges of `portfolio.rs` and their announcement (`events.rs`) | – |
| `DynamicFees` | `fee_adjustment_manager.rs` and the four files it calls | – |
| `Services` | the seven services together | the seven above |
| `NFTStorage` | registries, collections, minting, switches | `AdminControl` |
| `NFTMarketplace` | listings, auctions, offers, sales | `NFTStorage` |
| `NFTLending` | shares, loans, valuations, liquidations | `NFTMarketplace` |
| `NFTSuite` | the three together, and the properties that relate them | `NFTLending` |
| `FeedServer`, `FeedConnections`, `OrderBookFeed`, `FeedHistory` | `websocket.rs`, `connection.rs`, `orderbook.rs`, `historical.rs` | – |
| `MarketData` | the four together | the four above |
| `SeqFilter` | `Only`: the loop that takes entries out of a list | – |
| `Sums` | lemmas: arithmetic, sums over finite sets, folds over sequences, `Only`, greatest elements | `SeqFilter` |
| `VaultProofs`, `PoolProofs`, `ExchangeProofs`, `GovernanceProofs`, `ServicesProofs`, `NFTProofs`, `MarketDataProofs` | theorems | the modules they are about (`GovernanceProofs`: `Governance` and `KYC`), `Sums` |
| `MC*` | instances for TLC; those of the other modules are their `.cfg` alone | the module they are named after |

Conventions. Variables and operators carry the names of the code where TLA+ allows.
A Rust id `n` that counts from 0 is position `n + 1` of a sequence. Operators whose
comment begins with *Mutant* are deliberately wrong variants of the definition that
follows them. No specification uses them; each stands for a plausible mistake, and
replacing the right definition by it makes a property of a run fail. This shows that
the property does depend on that line of the code. *History* variables are not in the
code; they remember what happened for a property to be stated.

Components that share nothing are composed by a variable (`focus`, `part`) that is
chosen once and names the one whose steps are explored: one run then covers them all
without multiplying their states.

### AdminControl and TimelockQueue

`admin` is `ADMIN_KEY`. The code never writes it except in `set_admin` (and in an
executed proposal), so the instance begins with a deployment that stored one
(`InitialAdmin`). `set_admin` and the pause functions are free functions outside the
contract's implementation block; `SetAdmin` is modelled because every administrative
guard reads what it writes. `RecordSensitive` is the check and the write of
`SensitiveRateLimiter`; the storage key contains the window, so entering another
window reads a counter of zero.

`TimelockQueue` is the abstract promise: an announced operation becomes due after the
delay in force when it was announced, is carried out at most once and not before, and
later changes of the delay do not move it. `Treasury`, `KYC` and `GovernanceParams`
each define a refinement mapping (`Promise`, `OverridePromise`, `ParamTimelock`) and
check the abstract specification as a property; all three refinements are also proved.

### Treasury, Staking, Vault

`Deposit`, `RequestWithdraw` and `ExecuteWithdraw` are `treasury_deposit` and the two
phases of `treasury_withdraw`. `SetTimelockDuration` is a public function without a
guard and without an entry point in `lib.rs`; it is kept as an action because the
requests must be correct under any configuration of it. `Credit` is the shared body of
a deposit; staking uses it too. Additions saturate at `MaxI128`.

The clock of staking counts days. `stakes[u]` holds the records; `unlock_at`,
`claimable_at` and `bonus_amount`, which the code stores, are operators on the fields
they are computed from once. `Enrol` appends to the registry at a user's first stake,
and nobody ever leaves it. `UnstakeEarly` does not look at the lock (the code charges
its penalty at any time) and deposits the penalty only when it is positive.
`ExecuteDistribution` is the whole pass over the registry. Staking does not touch the
portfolio: what a call returns to its user is the history variable `returned`. `Vault`
adds outside deposits and withdrawals, with `toppedUp` as history, so that one
equation relates principal, penalties, deposits and withdrawals.

### KYC

A record is `[status, finalized_at, updated_by, expires_at]`; `-1` stands for `None`.
`UpdateStatus` has the code's order of checks: operator, sensitive budget, not oneself,
not finalized, not expired while pending, allowed transition. `ExecuteOverride` reads
the record again and overwrites its status whatever it has become. Reasons and their
length limits are left out.

### LiquidityPool and MultiHop

The multi-token registry. Tokens are numbers in the order of the symbols, since the
registration normalises pairs by that order. `Isqrt` is the code's Newton loop as a
recursive function. `Fits` is `checked_mul`. LP tokens of the initial reserves are
counted in the total and credited to nobody (`seeded` remembers them). `BestRoutes` is
the set of routes `find_best_route` may return: which of several equal ones comes first
depends on the order of the map and is left open. Withdrawals are of at least zero
tokens. `MultiHop` adds the storage key that `execute_multihop_swap` loads the registry
from.

### Portfolio and Exchange

`Portfolio` is a value, as in the code: a record loaded, transformed by helpers and
stored. Each helper is an operator from portfolio to portfolio; assertions that make
the call panic are separate predicates (`CanDebit`). `Exchange` has one action per
entry point. `SwapGoesThrough` collects the guards of `swap` in order: hourly limit,
concentration, position limit, fee, then what `perform_swap` asserts: usable price,
positive output, slippage, funds for both debits. `PerformSwap` performs the writes of
the code, including the transfer at par to the output asset that comes before the
second debit and the credit. `BatchRun` folds the operations of a batch; a swap that
panics reverts the whole call, an operation that returns an error stops an atomic batch
and is skipped by a best-effort one. The checks of `invariants.rs`, which only tests
call, are operators here and are asked of every step.

Simplifications: every user has passed KYC and nobody was referred; the circuit breaker
is never active (no entry point trips it); the pause flag is unset (only
`preflight_swap` reads it); the price tolerance of a pair is a constant; levels posted
for the pool are not negative. The batch entry points call `record_swap_op`, which the
limiter does not define; it is read as `record_swap`.

### GovernanceParams, Proposals, Council, Voting

`updates` are the pending updates by id; two of one parameter may be executed in either
order. In `Proposals` the power of a voter is what it has staked at the moment
(`StakeMore` and `LeaveStake` move it); `finalize_proposal` sets an execution time in
the very call that compares it with the clock, and a call that returns `Err` loses it,
hence `Ripe`. A call carries the accounts that `signed` it (`signers` remembers them).
An executed proposal about quorum or approval goes through `set_config`, which asks for
the administrator's authorization and validates: `Authorized` and `ValidConfig` are
guards of the whole call, so a carried vote on either takes effect only in a call the
administrator signed too. Values voted on are cut to 32 bits (`AsU32`). `admin.rs` does not define the `get_admin` and `set_admin` that
`governance_system.rs` calls; they are read as the functions of the contract that do.

`Council` is the schedule of the governance crate: phases follow from the clock,
`Tick` notices them, a fee is set directly or queued, a trade size is proposed, approved
and executed by guardians. Ids, hashes in the code, are the records they are hashes of,
so the same operation queued twice in one second replaces its entry. `Voting` has the
ballots: `Counted` is a vote, which a late one turns into the expiry of the ballot.

### The services

`Orders` keeps `story`, the placements, cancellations and passes so far, and states
that the orders are what the story makes of them. `Referral` has commissions of two
levels by the tier of the trader's volume before the fee. `OracleAdapter` is one feed
with deviation breaker, fallback, window and staleness; a refused update keeps what it
stored, because its callers go on. `Alerts` walks the alerts of an owner or of all.
`Badges` models the atomic batch that fails: the portfolio is not written back, the
buffer of announcements is; and the flush, which empties the buffer whether or not the
log level lets its event through. `FeeProgression` works through the list of
achievements in the order of the code; a bonus may be given inactive and then counts
neither as held nor as a discount. `DynamicFees` has the manager's decision
(`UpdateFees`), the congestion score, the formula with its trend, the override and the
trimmed history. `initialize` stores whatever configuration it is given, and
`update_config` looks at the bounds of the fee alone: `FirstConfigs` and `FeeConfigs` are
any records of the type, and what a property needs beyond that (`Rising`) is its
premise. Products are cut to the width of a fee (`Multiplied`), sums saturate.

### The NFT suite

Listings, offers, loans and shares over common registries with active counts that are
decremented with saturation. A sale moves the token, updates the statistics and records
the split of the price; payments are not in the code. `MonitorAndQueue` fills the
liquidation queue from valuations, `ProcessQueue` takes loans from it later. The suite sits behind
`#[cfg(feature = "experimental")]`. `initialize` (`nft.rs:30`), which may be called again
and then replaces every registry by an empty one, is the initial state and not an
action.

### Market data

`FeedServer`: one task per connection (`Accept`, requests, `Close`) and one per feed
that copies the list of subscribers and then sends to one after the other. A request
names a list of symbols, any of `Lists`: none, several, or one twice. The broadcaster
gets an entry for each, and the connection's list of data types is extended for each;
which types those are, none or many, no step depends on and is left out, so a
subscription is the set of symbols with an entry. `WebSocketServer::new` builds its
validator without a single allowed symbol (`validation.rs:117` then refuses every
request that names one); `Allowed` is a constant, and the run takes a server that
allows two.
`FeedConnections`: adding and removing are two steps each, because map and metrics have
locks of their own; counters wrap as in a release build of that crate. `OrderBookFeed`:
the network delivers any update at any time, any number of times; a quantity is tested
before it is rounded, so a level may be shown with none. `FeedHistory`:
retrieval looks into the cache, awaits the storage, awaits the cache write; sessions
are opened afterwards; position and playing state of a session are kept, though no
property depends on them. `delete_old_data` (`historical.rs:475`) has no caller and is
left out: it would make the cache remember what the storage has forgotten. The crate does not compile as given (`data_sources.rs` has
`pub async def`); the model is of the source text.

## The runs

A passing run explores every state its constants and bounds allow.

| run | module, cfg | distinct states | what is checked |
|---|---|---|---|
| `vault` | `MCVault`, `Vault.cfg` | 329,102 | `LedgerExact`, `StakingSound`, `VaultConserved`: stored totals, records, principal, bonuses, penalties and withdrawals account for each other; `RecordsOnlyAge`: a stake is written once, only its flags move on, an early exit pays its penalty in the same step; `ImplementsTimelock`: withdrawals keep the abstract timelock |
| `kyc` | `KYC`, `KYC.cfg` | 660,993 | `FinalizedIffTerminal`; `ReviewsSound`: a verification is the act of a current operator on somebody else's live review; `TerminalOnlyByOverride`, `OverridesTimelocked` |
| `pool` | `LiquidityPool`, `LiquidityPool.cfg` | 164,431 | `PoolSound`: no pool is emptied, LP tokens are accounted for; `QuoteHonoured`: the hops of a route found pay what was quoted; `NobodyDiluted`: no step of anybody lowers the worth of an LP token |
| `exchange` | `MCExchange`, `Exchange.cfg` | 369,580 | `PortfolioSound`: no overdraft, LP tokens, user counts and leaderboard agree; `PoolValueKept`: no trade lowers the product of the reserves; `ValueConserved`: trades against the pool and liquidity moves create and destroy nothing |
| `nft_market` | `MCNFT`, `NFTMarket.cfg` | 840,216 | `RegistriesAgree`: indexes, counts and statistics agree with the records; `SalesUseCommitments`: every sale uses up one live listing or offer |
| `nft_lending` | `MCNFT`, `NFTLending.cfg` | 725,694 | `ExclusiveUse`: a pledged token is in no other use; `LendingSound`: shares, loans and queue agree; `MovesOnRecord`: ownership moves by sale or liquidation only |
| `governance` | `MCGovernance`, `Governance.cfg` | 790,424 | `CommittedWasAnnounced`, `ParamsTimelocked`: parameters change as announced; `VotesDecide`: tallies are the votes and results follow; `PowerMovesProperly`: administrator and configuration move in no third way, and the configuration never without the administrator's authorization; `LogJustifies`: the log proves every change; `PhasesReported`: every phase is reported in the end |
| `services` | `MCServices`, `Services.cfg` | 680,266 | `OrdersFollowStory`, `ReferralSound`, `FeedSound`, `AlertsSound`, `BadgesSound`, `DiscountsSound`, `FeesSound`, and `OverrideKept`: an update ends the override that has run out |
| `market` | `MarketData`, `MarketData.cfg` | 456,131 | `BookkeepingAgrees`: index, map and metrics account for the tasks under way; `BookFollowsFeed`: the book is the last word of the feed, and full before it leaves a level out; `HistorySound`; `BroadcastsEnd` and `FoundIdleGoes`: broadcasts and cleanups finish |

Three more runs end in a counterexample. Each checks one sentence of the repository
that the code does not keep; see [below](#where-code-and-text-disagree).

Each property has a mutant in `PROJECT.json`: a definition with one plausible mistake
under which TLC finds that property violated with the same configuration.

## Bounds, and why they are enough

Bounds sit in guards (`Max*` constants) or in a state constraint (`MCBound`, stated
with its reason in the MC module). None of them forbids an interleaving among the
calls it leaves.

* **vault.** Two stakers up to symmetry, two administrators, two requests, two stakes
  each, the clock at 0, 30 and 60 days. Lock terms of 7, 30 and 60 days give a stake
  that is open, one just unlocked and one long unlocked, below, at and above the first
  bonus tier. Stakes of 15 and 200 earn no bonus and one; both pay a penalty. A
  withdrawal of 15 is covered only by a deposit and a penalty together. `MaxI128` is
  60 so that a counter saturates. Requests under changing administrators and changing
  timelocks are explored without stakes, stakes with one request: what the two share
  is the balance.
* **kyc.** The administrator and a user, each operator and applicant in turn; two
  overrides are the fewest that overlap. Expiry falls after two days, the timelock
  takes one or two, the clock goes to three.
* **pool.** Three tokens and two pools are the smallest registry with a route of two
  hops; two providers the fewest of whom one can be diluted. Reserves up to 6 make
  every division round. The proof of `NobodyDiluted` has no such bound.
* **exchange.** Three users for a leaderboard of two. Four calls fill the pool, trade,
  and withdraw. A `Precision` of 4 instead of a million makes prices round, and position
  limits near the balances make the guards bite. The concentration limit is 10000, as a
  carried proposal may set it: under the default of 5000 only batches swap. One clock
  step of a day rolls every window. `ValueConserved` does not speak of liquidity operations inside a batch, which
  are unbalanced in the code (see the hazards).
* **nft_market, nft_lending.** Buyer, seller and a third. One token and one loan
  suffice for every pair of uses of the same token; two tokens and two listings for the
  indexes and counts. The clock passes every term and the grace period.
* **governance.** Two voters with one unit of stake that may move, one proposal, one
  parameter update; the two proposal kinds that change the configuration and the
  administrator, with a value that is valid only after the cut to 32 bits; calls signed
  by the executor alone and by the administrator too. The width is 16 bits in the run,
  since TLC's integers have 32 themselves. The schedule advances three months at a time up to the last phase,
  which skips phases as a late caller would; three guardians with a threshold of two.
  One ballot, three voters. The other proofs drop these bounds.
* **services.** Two orders that can match or run out; three accounts for a circle of
  referrals; prices that jump by half and come back in steps below the threshold;
  alerts of two owners; batches of two whose second operation fails; a streak of two
  days, bonuses active and not; both kinds of log level, changed by the administrator;
  four network conditions from quiet to critical, a first configuration that passes
  `update_config` and one that does not (a maximum below the minimum, no
  cooldown, so that automatic updates activate and end overrides within a clock of
  three), and fees of 16 bits.
* **market.** Two clients, two connections and one cleanup, with every interleaving of
  their lock sections; requests of no symbol, of two and of one named twice; six updates
  of which any may be lost, repeated or late, with removals, two words on one price and
  quantities that round to nothing, for a book of two levels a side; two history
  requests that share a cache key.

## Fairness and deadlock

In the contract nothing runs by itself, so its specifications state fairness only
where the source says somebody calls: `tick` of the decentralization schedule is to be
called periodically (`WF` of `Tick`), and time passes up to its bound. Of `update_fees`
nothing of the kind is said and nothing assumed: that an override ends is promised for
the step of the next update (`OverrideKept`), not in the end.

In the market data service tokio runs every task that is ready: weak fairness of a
client's task while it handles a request (`Handle`), of delivering and ending a
broadcast that has begun, of the cleanup task and of its removals. Clients are not
obliged to connect, ask or leave, and the network not to deliver.

`CHECK_DEADLOCK FALSE` stands in every cfg because all callers may stop at any time
and the bounds end every behaviour. No modelled part of the code waits for another one: the
server holds no lock across an await. (`health_check` of the load balancer,
`connection.rs:313`, does; it guards a list that nothing fills, and is not modelled.)

## The proofs

All theorems hold for every value of the constants that the named assumptions of the
modules admit; each is evaluated by TLC in a run. Most are the code's types and
constants (amounts are integers, steps of time positive, sets of accounts finite where
the code sums over them). Those that say more, and why:

* `DefaultIsValid`: the initial governance configuration passes the check its successors
  must pass. The default of the code does.
* `ArgumentAssumption` takes levels posted for the pool and amounts in a batch that are
  not negative, and `PoolSound` withdrawals of at least zero tokens; `set_pool_liquidity` and
  `remove_liquidity` of the registry check neither sign.
* `ProgressionAssumption`: volumes and basis points are not negative; the clock starts
  after the second day of its epoch.
* In the NFT suite `PartialLTV` is at least 10000, as in the code.

Nothing is assumed of fee configurations, first prices, symbols or votes beyond their
types: where a property needs more it says so in its own premise (`Rising` in
`FeesSound`).

In every proof module one invariant is inductive and everything else follows from it.
The proof that a step keeps it has one lemma per action, put together by one lemma that
splits the next-state relation. Composed systems are proved part by part: a part's
lemma assumes that the others leave its variables alone.

* **`Sums`.** What the proofs share: floors of quotients; `SumFunctionOnSet` when it is
  empty, gets an element, changes at one; folds over a sequence, prefix by prefix, which
  give `Only` its meaning (it keeps the chosen entries, in order); greatest elements.
  The library's induction theorems take an operator as a parameter, which no installed
  back end can instantiate. Induction is therefore the argument of the least
  counterexample, over `WFMin`. The loops that take entries out of a list are `Only`, a
  fold, and not `SelectSeq`, of which the back ends know nothing.
* **`VaultProofs`.** `TreasuryInv` is types, the ledger equation and, for each request,
  "announced at least its delay before it is due". `TreasuryWithdrawn` says that the
  withdrawal counter is the sum of what was paid until it saturates, and
  `TreasuryImplementsTimelock` maps each step to a step of `TimelockQueue` or to a
  stutter. `VaultInv` joins this (staking only credits the balance) with the types of
  the records, the totals as sums over them, the bonuses still held, the exact registry
  and the balance of the whole. `KindSum` lemmas say how one changed record moves a sum
  over users and positions. `DistributionInv` spaces the distributions. The attempt to
  prove `RecordsOnlyAge` showed that it must state the penalty with the saturating
  addition of the code.
* **`PoolProofs`.** `SqrtIsFloor` is the Newton loop for every input, again by the least
  counterexample, over the recursive function. `PoolInv` is types, positive reserves
  and the LP sums. `NobodyEverDiluted` reduces each deposit, withdrawal and swap to
  inequalities about floors of quotients. `QuotesAlwaysHonoured` needs nothing about which
  route is the best, since every candidate pays what it promises: `HopsUnfold` gives the
  recursive function that follows the hops on routes of one and two, and `LegsDiffer`
  shows that no candidate goes through one pool twice, so that the first hop does not
  move the price of the second.
* **`ExchangeProofs`.** `ExchangeInv` is the portfolio as one record: balances and
  reserves that are not negative, LP tokens as the sum of the positions, users and
  active users as counts (who is active has traded), a leaderboard that is descending,
  names nobody twice and never shows less than the pnl. One lemma per helper of
  `portfolio.rs`, then one per entry point; a batch is a fold of operations that each keep the
  invariant, whether the batch stops at the first error or skips it.
  `PoolValueAlwaysKept` takes the four roundings of a trade together;
  `ValueAlwaysConserved` follows the double debit through. `set_pool_liquidity` posts any
  level in the code and the theorem takes levels that are not negative; amounts of mints
  and withdrawals in a batch are natural numbers because mint refuses others.
* **`GovernanceProofs`.** `GovInv` contains for each proposal that its tallies are the
  sums of its votes and that its result follows from them; `VotingInv` the same for
  ballots; `ParamInv` that every pending update is valid and aged; `CouncilInv` that the
  log's last word on every open operation is its queuing, that a proposal's approvals
  are those on record since its creation, and that the phases reported form a chain;
  `CarriedIsMet` is what a proposal that changes the administrator or the configuration must have been.
  The KYC review is proved beside it: `KYCInv` adds `ProposalsAged`, every override was
  proposed at least the minimum timelock before it is due. From it follow that outcomes
  move only by aged overrides, that reviews are sound, and the refinement.
* **`ServicesProofs`.** The services share the clock and nothing else: `ClockStep` and,
  per service, a lemma that foreign steps leave it alone. `OrdersInv` relates every
  order to its story through the passes of any length. `ReferralSound` is inductive as
  it stands: a registration looks at three levels, so it closes no circle of that
  length, and each fee pays at most the shares of the top tier. `AdapterInv` says that the
  feed holds accepted prices and, once tripped, the one in force at the trip.
  `BadgesInv` follows the buffer through the batch that is rolled back. `FeesInv` says that the history told so far, trimmed from both
  sides, ends at the present fee. For `DearerWhenBusier` a chain of monotone steps takes a
  higher score to a fee that is not lower, from multipliers that rise and a product that
  is not cut, for configurations that need not be valid. `ProgressionInv` says which achievements stand and since when,
  `AlertsInv` which ids the list of an owner has; the walk over the list is a fold
  proved element by element.
  In `FeeProgression` trade volumes and basis points of bonuses are natural numbers; the
  risk achievement given out by `apply_achievement_bonus`, which only tests call, is kept in `given`
  and excepted.
* **`NFTProofs`.** `NFTInv` says that every id kept in a registry is the id of an entry
  that exists and that nothing is listed, offered, bid for or sold at price zero. For
  each property there is a predicate of what may happen to the state it reads
  (`OwnersMove`, `StatisticsMove`, `SharesMove`, `LoansMove` and so on, each a stay or
  one of a few moves). One lemma per action shows that it is such a move, `SuiteSteps`
  puts the thirty together, and one lemma per property shows that the moves keep it. So
  the effect of an action on a registry is worked out once and not once per property.
  `StatisticsAgree` is not inductive alone: `update_stats` takes a floor of zero for
  "no sale yet", so it needs `FloorsOfSales` (a collection nobody has sold from has
  floor zero) and the positive prices. Accounts are a finite set; `PartialLTV` is at
  least 10000, as in the code (`PARTIAL_LIQUIDATION_LTV_BPS`), so that a loan that is
  sold at once owes more than its collateral is worth, through the cut to 32 bits.
* **`MarketDataProofs`.** `MarketInv` joins four parts that share no variable.
  *Server*: a task writes the two records of a subscription one after the other, symbol by
  symbol of its list, so `BookkeepingAgrees` is not inductive; `Fits` says, for
  each place a task can be at, how the two may differ there, and `FitsFollow` reduces a step
  to the client that takes it.
  *Connections*: the metrics equal the connections and messages counted, corrected by the
  tasks between their two locks; one lemma for the modular counter and one for the sum of
  messages, each from what a step does to the sets. *Book*: an update is a fold of its
  level changes. `SideFollows` says that a kept level is the last word of the newest
  update that names it, rounded, and that a level the newest update set is missing only
  from a full book of better ones: `ShownIsBest` finds the best of the levels left out and
  counts those ahead of it. Bids and asks are one proof, with the order as a parameter. *History*: the answer of the storage grows only
  at its end, since data are appended, and what the limit keeps of a list is a prefix of what it
  keeps of a longer one; so what a task has read before its await is still a prefix
  (`ReadIsPast`) when it fills the cache. The session bound counts the tasks that have
  passed the check and not yet inserted. The sets of symbols, connections and tasks are
  finite: the model takes cardinalities and sums over them.

Only model-checked: `PhasesReported`, `BroadcastsEnd` and `FoundIdleGoes`, the liveness properties, as `ENABLED` and fairness are out of the
prover's reach; and the three runs that end in a counterexample. There are no `RECURSIVE` operators in the
development: recursion is written as recursive functions and folds.


## Where code and text disagree

* **`orders_expired`** — `match_pending_orders` looks at the expiry before the status
  (`orders.rs:179`) of every order in the book, where filled orders stay. So a filled
  order is Expired from the first pass after its expiry on, against `orders.rs:22`, "Order
  expired without being filled". `OrdersFollowStory` says what does hold: the time of
  filling is kept and still tells.
* **`exchange_preflight`** — `preflight_swap` leaves out the concentration and position
  limits of `swap` and the second debit. With two assets the larger is at least half of
  the total, which is the default concentration limit, so a green checklist does not
  mean that the swap goes through (lib.rs:562 says it does).
* **`multi_hop_route`** — `execute_multihop_swap` loads the registry from `"pools"`
  (`trading.rs:193`), the registering calls keep it under `"lpreg"` (`lib.rs:276`).
  Every route just discovered fails (lib.rs:1626: "Execute a multi-hop swap along a
  discovered route").

## Also noted

What else came up while modelling, each in the model as the code has it.

*Staking, KYC, pool, trading*
* `execute_distribution` adds a stake's whole bonus again in every period
  (`staking_bonus.rs:541`; the table at line 10 gives one bonus per term).
* `execute_override` does not test that the record is still final: of two overlapping
  overrides the second executes on a record that is under review again (`kyc.rs:605`).
* `remove_liquidity` subtracts payouts from the recorded deposits (`lib.rs:1489`). One
  side reaches zero while LP tokens remain, and the 101 % check (`invariants.rs:409`)
  refuses the rest.
* The invariant checks expect that the product of the reserves does not rise after a
  swap (`invariants.rs:69`); through the pool it never falls (`PoolValueKept`). Only
  tests call them.
* `swap` compares the hourly counter with the limit (`lib.rs:459`) and never raises it;
  only a batch that contains swaps does, against README.md:88, "tier-aware per-hour
  budgets for swaps and LP operations". By default this stays hidden behind the
  concentration limit of 5000 (`risk_metrics.rs:74`), which refuses whoever holds any
  amount of the two assets, the larger always being half or more; a carried proposal may
  raise that limit.
* The Babylonian loop of `add_liquidity` swings between the root and its successor when
  the product is one below a square (`BabylonianIsNear`).
* A failing atomic batch takes the portfolio back and not the announcement buffer: a
  badge nobody holds is announced (`batch.rs:203`). And a flush under a log level above
  Info, the default on mainnet (`observability.rs:41`), removes the buffer and announces
  nothing (`events.rs:81`).

*Governance*
* `finalize_proposal` stores its execution time and returns `Err` in the same call, so
  the host drops it: a carried proposal executes only if the delay is zero.
* A fee queued before the last phase executes in it, although `governance.rs:8` calls
  that phase immutable. `GuardianOverride` only logs. An older queued update can
  overwrite a newer one.
* Quorum and approval voted on go through `set_config`, which asks for the
  administrator's authorization (`governance_system.rs:275`): without it a carried
  proposal of this kind fails. Values are cut to 32 bits before they are validated.
* The governed `FeeBps` is written to another key than the one of
  `governance_params.rs`, without validation.
* In `voting.rs` a late vote is refused and yet sets the ballot to expired, so one with
  quorum and majority can no longer pass; a quorum decides before the deadline.
* In `multi_asset_staking.rs` later additions earn from the first `staked_at`.

*Services*
* Cancelled orders, too, become Expired in a later pass. Only tests call the pass.
* The circularity check of referrals sees circles of up to three.
  `withdraw_commission` resets the balance without a transfer.
* The oracle's fallback price may be arbitrarily old; a deviation is cut to 32 bits
  before it is compared.
* The alert checks are "called from trading / LP operations" (`alerts.rs:212`) only in
  a file that is not compiled. Subscribing to an expired alert arms it again.
* Three of the badges are never awarded: the trackers behind them have no caller. The
  trader badge is looked at only by `add_liquidity`.
* Fee progression counts calculations within one day, not days, and a calculation on
  the next day leaves the streak; the discount for risk outlives an excessive loss.
  Nothing stacks: `fee_progression.rs:121` speaks of a consistency discount
  "stackable up to 10 bps", but a new streak replaces the achievement before it, and
  whatever discount an achievement of that category names, it counts 2
  (`DiscountsSound`). `fee_progression_tests.rs` puts five such achievements into the
  list by hand and expects 10 (line 187), where the 30 % cap of that tier leaves 9, and one
  "2 streaks worth" and expects 4 of it (line 431). The module is not declared in
  `lib.rs`.
* Neither `initialize` nor `update_config` asks that multipliers rise with the congestion,
  and `apply_multiplier` cuts a product to 32 bits: under such a configuration a busier
  network may pay less.
* Manual fee updates ignore cap and cooldown; the override's own cap is never read; new
  configurations do not clamp the current fee; a second `initialize` would break the
  chain of the history.

*NFT suite*
* Interest is divided by its precision twice and is zero for realistic principals,
  against `nft_lending_tests.rs`.
* A sale by offer or trade does not look at a pledge; a liquidation afterwards takes the
  token from its new owner. `fund_loan` funds a finished loan again;
  `cancel_loan_request` writes nothing; an executed liquidation leaves the active count.
* `monitor_and_queue` does not count what is already queued; shares can be issued up to
  twice; `defractionalize` wipes the shares of others; an offer followed by a purchase
  gets around "Prevent self-dealing".

*Market data*
* A level of less than half a unit is shown with quantity zero (`orderbook.rs:199` tests
  before it rounds).
* A request that fails ends the task and leaves its connection in the map; dead
  subscribers stay; two subscriptions are two deliveries.
* The connection limit looks at a pool that stays empty. A removal that overtakes the
  counting takes `active_connections` below zero. Broadcasts do not count as activity,
  so a connection that only receives them is cleaned up as idle; one that becomes
  active after the scan goes too.
* "Invalidate cache for this symbol" (`historical.rs:94`) never meets an entry that
  `retrieve_data` made; the cache key omits time of day and limit.

## What is not modelled

Reasons are in `PROJECT.json` under each component.

* *No entry point reaches it*: circuit breaker (never fed), bridge and nonces, emergency
  controls (the flag is read by `preflight_swap` only), `multi_asset_staking.rs`,
  private transactions, the matching engine and order types of the market data crate
  (not declared in its `lib.rs`).
* *No state that another part reads*: analytics, events, observability, rewards, risk
  scores.
* *Clients and tools*: command line, SDK, exporter, audit tools, market data sources and
  codecs.
* *Stand-alone stubs*: small crates without shared state with the contract, some of
  them incomplete.
* Within modelled components: events, reasons and other texts, display queries, payment
  tokens the code names and never moves, the quota arithmetic of the rate limiting
  library.

## Plan

Done: the seven component groups above, composed; the abstract timelock and its three
refinements; proofs of every safety property and every refinement the passing runs check.

What would add most next: an abstract specification of a sale for the NFT suite and of
a replay session for the history, with their refinements; the badge trackers and the
circuit breaker once something calls them.
