-------------------------------- MODULE Badges --------------------------------
(***************************************************************************)
(* Badges of the compiled portfolio (counter/portfolio.rs) and their       *)
(* announcement (src/events.rs).  A badge is recorded in the Portfolio,    *)
(* which an entry point writes back when it succeeds; the announcement is  *)
(* buffered in temporary storage at once and published by the next flush,  *)
(* unless the log level (src/observability.rs) holds it back by then.      *)
(* The trackers behind WealthBuilder, Diversifier and Consistency are      *)
(* written by functions that nothing calls, so these are never awarded.    *)
(***************************************************************************)
EXTENDS AdminControl, Sequences, SequencesExt

CONSTANTS
  Traders,
  TraderBadgeAt,  \* trades the Trader badge asks for, 10 in the code
  BatchSize,      \* bound: operations of a batch, at most MAX_BATCH_SIZE
  MaxTrades,      \* bound: trades of one trader
  MaxDeposits,    \* bound: deposits of one trader
  MaxBuffer       \* bound: a failed batch adds to the buffer up to this length

ASSUME BadgesAssumption ==
  /\ TraderBadgeAt \in Nat \ {0} /\ BatchSize \in Nat \ {0} /\ MaxTrades \in Nat /\ MaxDeposits \in Nat
  /\ MaxBuffer \in Nat

VARIABLES
  record,         \* Portfolio: trades and LP deposits by trader, badges held
  buffer,         \* EVENT_BUFFER_KEY
  logsInfo,       \* LOG_LEVEL_KEY is Debug or Info, so that an Info event is published
  announced,      \* history: the badges published
  lost            \* history: the badges whose buffer ran out of its lifetime, or was
                  \* flushed while the log level held the event back

badgesVars == << record, buffer, logsInfo, announced, lost >>

\* A Portfolio being worked on, and the buffer with it.
Work == [on |-> record, buffer |-> buffer]

BadgesInit ==
  /\ record = [trades |-> [u \in Traders |-> 0], deposits |-> [u \in Traders |-> 0], held |-> {}]
  /\ buffer = << >> /\ announced = {} /\ lost = {}
  /\ logsInfo \in BOOLEAN   \* default_log_level: Warn on mainnet, lower elsewhere

\* award_badge.
Awarded(w, u, badge) ==
  IF << u, badge >> \in w.on.held THEN w
  ELSE [on |-> [w.on EXCEPT !.held = @ \union {<< u, badge >>}],
        buffer |-> Append(w.buffer, << u, badge >>)]

\* record_trade.
Traded(w, u) ==
  LET n == [w EXCEPT !.on.trades[u] = @ + 1] IN
  IF w.on.trades[u] = 0 THEN Awarded(n, u, "FirstTrade") ELSE n

\* record_lp_deposit.
Deposited(w, u) == [w EXCEPT !.on.deposits[u] = @ + 1]

\* check_and_award_badges.
Checked(w, u) ==
  LET t == IF w.on.trades[u] >= TraderBadgeAt THEN Awarded(w, u, "Trader") ELSE w IN
  IF t.on.deposits[u] >= 1 THEN Awarded(t, u, "LiquidityProvider") ELSE t

WithinBounds(w) == \A u \in Traders : w.on.trades[u] <= MaxTrades /\ w.on.deposits[u] <= MaxDeposits

Save(w) == WithinBounds(w) /\ record' = w.on

\* flush_badge_events: the buffer goes, whether or not its event gets past the
\* log level.
Flush(b) ==
  /\ buffer' = << >>
  /\ announced' = announced \union (IF logsInfo THEN Range(b) ELSE {})
  /\ lost' = lost \union (IF logsInfo THEN {} ELSE Range(b))
  /\ UNCHANGED logsInfo

\* set_log_level.
SetLogLevel(a, info) ==
  /\ IsAdmin(a)
  /\ logsInfo' = info
  /\ UNCHANGED << record, buffer, announced, lost >>

\* swap and safe_swap, as far as they succeed.
SwapForBadge(u) == LET w == Traded(Work, u) IN Save(w) /\ Flush(w.buffer)

\* The record_trade entry point does not flush.
RecordTradeForBadge(u) ==
  LET w == Traded(Work, u) IN
  /\ Save(w)
  /\ buffer' = w.buffer
  /\ UNCHANGED << logsInfo, announced, lost >>

\* add_liquidity.
AddLiquidityForBadge(u) == LET w == Checked(Deposited(Work, u), u) IN Save(w) /\ Flush(w.buffer)

\* Operations of a batch; a failing one is a swap beyond the balance of its user.
Operations == [kind : {"swap", "deposit", "failing"}, user : Traders]

\* execute_single_operation; AddLiquidity counts the deposit and checks nothing.
Executed(w, op) ==
  CASE op.kind = "swap" -> Traded(w, op.user)
    [] op.kind = "deposit" -> Deposited(w, op.user)
    [] op.kind = "failing" -> w

\* The operations before the first that fails.
BeforeFailure(ops) ==
  LET first == SelectInSeq(ops, LAMBDA op : op.kind = "failing") IN
  IF first = 0 THEN ops ELSE SubSeq(ops, 1, first - 1)

\* Mutant: a failed batch takes the whole buffer back.
BufferAfterFailureCleared(w) == << >>

\* A failed batch restores the Portfolio and leaves the buffer as it is by then.
BufferAfterFailure(w) == w.buffer

\* execute_batch_atomic.
BatchAtomic(ops) ==
  LET w == FoldLeft(Executed, Work, BeforeFailure(ops)) IN
  IF BeforeFailure(ops) = ops
  THEN Save(w) /\ Flush(w.buffer)
  ELSE /\ WithinBounds(w) /\ Len(w.buffer) <= MaxBuffer
       /\ buffer' = BufferAfterFailure(w)
       /\ UNCHANGED << record, logsInfo, announced, lost >>

\* execute_batch_best_effort.
BatchBestEffort(ops) ==
  LET w == FoldLeft(Executed, Work, ops) IN Save(w) /\ Flush(w.buffer)

\* The lifetime of a temporary entry runs out.
BufferRunsOut ==
  /\ buffer # << >>
  /\ buffer' = << >>
  /\ lost' = lost \union Range(buffer)
  /\ UNCHANGED << record, logsInfo, announced >>

Batches == UNION {[1 .. n -> Operations] : n \in 1 .. BatchSize}

BadgesNext ==
  \/ \E u \in Traders : SwapForBadge(u) \/ RecordTradeForBadge(u) \/ AddLiquidityForBadge(u)
  \/ \E ops \in Batches : BatchAtomic(ops) \/ BatchBestEffort(ops)
  \/ BufferRunsOut
  \/ \E a \in Addresses, info \in BOOLEAN : SetLogLevel(a, info)

BadgesTypeOK ==
  /\ record.trades \in [Traders -> 0 .. MaxTrades]
  /\ record.held \subseteq Traders \X {"FirstTrade", "Trader", "LiquidityProvider"}
  /\ logsInfo \in BOOLEAN

(* Badges and activity agree through swaps, recorded trades, deposits and    *)
(* batches that are rolled back: whoever traded has FirstTrade and nobody    *)
(* else, the others are held only on their terms; and every badge held was   *)
(* announced, waits in the buffer, or was in a buffer that a flush emptied   *)
(* under a log level above Info or that ran out of its lifetime              *)
(* (portfolio.rs record_trade, check_and_award_badges, batch.rs, events.rs,  *)
(* observability.rs).                                                        *)
BadgesSound ==
  /\ BadgesTypeOK
  /\ \A u \in Traders :
       /\ << u, "FirstTrade" >> \in record.held <=> record.trades[u] > 0
       /\ << u, "Trader" >> \in record.held => record.trades[u] >= TraderBadgeAt
       /\ << u, "LiquidityProvider" >> \in record.held => record.deposits[u] > 0
  /\ record.held \subseteq announced \union Range(buffer) \union lost
=============================================================================
