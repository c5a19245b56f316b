------------------------------- MODULE Council -------------------------------
(***************************************************************************)
(* The scheduled hand-over of power of the governance crate: the phases,   *)
(* timelock, multi-signature and log of src/governance/governance.rs under *)
(* the AdminController of src/governance/admin.rs.                         *)
(*                                                                         *)
(* Operation and proposal ids are hashes of what they stand for and of the *)
(* second they were made in; they are modelled as those records, so making *)
(* the same one twice in a second gives the same id and replaces the entry.*)
(* The clock is taken never to run backwards.                              *)
(***************************************************************************)
EXTENDS Integers, Sequences, SequencesExt, FiniteSets

CONSTANTS
  Guardians,           \* the guardian addresses of the schedule
  MultisigThreshold,   \* MULTISIG_THRESHOLD
  MultisigTotal,       \* MULTISIG_TOTAL
  SecsPerMonth,        \* SECS_PER_MONTH
  TimelockDelay,       \* TIMELOCK_DELAY_SECS
  Fees, InitialFee,    \* fees set, and the one of AdminController::new
  Sizes, InitialSize,  \* trade sizes proposed, and the initial one
  CouncilTimeSteps,           \* how far the clock moves at once
  MaxCouncilTime,             \* bound: the clock stops here
  MaxOps,              \* bound on the timelocked operations
  MaxCouncilProposals, \* bound on the multi-signature proposals
  MaxLog               \* bound on the log when a call is made

ASSUME CouncilAssumption ==
  /\ IsFiniteSet(Guardians) /\ Cardinality(Guardians) = MultisigTotal
  /\ MultisigThreshold \in 1 .. MultisigTotal
  /\ SecsPerMonth \in Nat \ {0} /\ TimelockDelay \in Nat \ {0}
  /\ CouncilTimeSteps \subseteq Nat \ {0} /\ MaxCouncilTime \in Nat

VARIABLES
  time,                \* now_secs() - deployed_at
  ops,                 \* Timelock.entries
  council,             \* MultiSigCoordinator.proposals
  log,                 \* GovernanceLog.entries
  lastReported,        \* last_reported_phase
  tradingPaused, feeBps, maxTradeSize   \* ContractState

stateVars == << tradingPaused, feeBps, maxTradeSize >>
councilVars == << time, ops, council, log, lastReported, stateVars >>

Phases == << "FullAdmin", "PauseOnly", "MultiSig", "DaoOnly" >>

\* from_elapsed: the months run from 0.
PhaseAt(t) ==
  LET months == t \div SecsPerMonth IN
  IF months <= 2 THEN "FullAdmin"
  ELSE IF months <= 5 THEN "PauseOnly"
  ELSE IF months <= 11 THEN "MultiSig"
  ELSE "DaoOnly"

Phase == PhaseAt(time)

\* append: an event with the time it was logged at.
Logged(event) == log' = Append(log, [event EXCEPT !.at = time])

PhaseEvent(from, to) == [kind |-> "Phase", at |-> 0, about |-> << from, to >>, by |-> "none"]
Event(kind, id, by) == [kind |-> kind, at |-> 0, about |-> id, by |-> by]

CouncilInit ==
  /\ time = 0
  /\ ops = << >> /\ council = << >>
  /\ log = << PhaseEvent("FullAdmin", "FullAdmin") >>
  /\ lastReported = "FullAdmin"
  /\ tradingPaused = FALSE /\ feeBps = InitialFee /\ maxTradeSize = InitialSize

\* A map with one entry set.
With(f, id, entry) == [i \in DOMAIN f \union {id} |-> IF i = id THEN entry ELSE f[i]]

\* Mutant: only a step to the next phase is noticed.
TickAdjacent ==
  /\ \E i \in 1 .. 3 : << lastReported, Phase >> = << Phases[i], Phases[i + 1] >>
  /\ Logged(PhaseEvent(lastReported, Phase))
  /\ lastReported' = Phase
  /\ UNCHANGED << time, ops, council, stateVars >>

\* tick: phases that came and went between two calls are never reported.
Tick ==
  /\ Phase # lastReported
  /\ Logged(PhaseEvent(lastReported, Phase))
  /\ lastReported' = Phase
  /\ UNCHANGED << time, ops, council, stateVars >>

\* assert_can_pause and assert_can_modify_state; the callers are the
\* administrator's, whose address never changes.
CanPause == Phase \in {"FullAdmin", "PauseOnly"}
CanModify == Phase = "FullAdmin"

SetPaused(paused) ==
  /\ CanPause
  /\ tradingPaused' = paused
  /\ UNCHANGED << time, ops, council, log, lastReported, feeBps, maxTradeSize >>

SetFeeDirect(fee) ==
  /\ CanModify
  /\ feeBps' = fee
  /\ UNCHANGED << time, ops, council, log, lastReported, tradingPaused, maxTradeSize >>

\* queue_set_fee_bps is open in every phase but the last.
QueueSetFee(fee) ==
  LET id == [fee |-> fee, at |-> time] IN
  /\ Phase # "DaoOnly"
  /\ Len(log) < MaxLog
  /\ Cardinality(DOMAIN ops \union {id}) <= MaxOps
  /\ ops' = With(ops, id, [eta |-> time + TimelockDelay, executed |-> FALSE, cancelled |-> FALSE])
  /\ Logged(Event("Queued", id, "admin"))
  /\ UNCHANGED << time, council, lastReported, stateVars >>

Ready(id) == ~ops[id].executed /\ ~ops[id].cancelled /\ time >= ops[id].eta

\* execute_set_fee_bps: whoever presents the payload, in whatever phase.
ExecuteSetFee(id, fee) ==
  /\ id \in DOMAIN ops
  /\ Len(log) < MaxLog
  /\ Ready(id)
  /\ fee = id.fee
  /\ ops' = [ops EXCEPT ![id].executed = TRUE]
  /\ feeBps' = fee
  /\ Logged(Event("Executed", id, "anyone"))
  /\ UNCHANGED << time, council, lastReported, tradingPaused, maxTradeSize >>

\* An operation may be cancelled more than once.
CancelOperation(id) ==
  /\ id \in DOMAIN ops
  /\ Len(log) < MaxLog
  /\ ~ops[id].executed
  /\ ops' = [ops EXCEPT ![id].cancelled = TRUE]
  /\ Logged(Event("Cancelled", id, "anyone"))
  /\ UNCHANGED << time, council, lastReported, stateVars >>

ProposeMaxTradeSize(g, size) ==
  LET id == [proposer |-> g, size |-> size, at |-> time] IN
  /\ Phase \in {"MultiSig", "DaoOnly"}
  /\ g \in Guardians
  /\ Len(log) < MaxLog
  /\ Cardinality(DOMAIN council \union {id}) <= MaxCouncilProposals
  /\ council' = With(council, id, [approvals |-> {g}, executed |-> FALSE])
  /\ Logged(Event("Created", id, g))
  /\ UNCHANGED << time, ops, lastReported, stateVars >>

ApproveMaxTradeSize(id, g) ==
  /\ id \in DOMAIN council
  /\ Len(log) < MaxLog
  /\ g \in Guardians
  /\ ~council[id].executed
  /\ g \notin council[id].approvals
  /\ council' = [council EXCEPT ![id].approvals = @ \union {g}]
  /\ Logged(Event("Approved", id, g))
  /\ UNCHANGED << time, ops, lastReported, stateVars >>

\* Mutant: the proposer is counted twice.
ApprovedCountingTwice(id) == Cardinality(council[id].approvals) + 1 >= MultisigThreshold

Approved(id) == Cardinality(council[id].approvals) >= MultisigThreshold

Payload(id, size) == size = id.size

ExecuteMaxTradeSize(id, size) ==
  /\ id \in DOMAIN council
  /\ Len(log) < MaxLog
  /\ ~council[id].executed
  /\ Approved(id)
  /\ Payload(id, size)
  /\ council' = [council EXCEPT ![id].executed = TRUE]
  /\ maxTradeSize' = size
  /\ Logged(Event("CouncilExecuted", id, "anyone"))
  /\ UNCHANGED << time, ops, lastReported, tradingPaused, feeBps >>

\* The override of a guardian leaves a trace in the log and nothing else.
GuardianOverride(g) ==
  /\ g \in Guardians
  /\ Len(log) < MaxLog
  /\ Logged(Event("Override", << >>, g))
  /\ UNCHANGED << time, ops, council, lastReported, stateVars >>

TimePasses(dt) ==
  /\ time + dt <= MaxCouncilTime
  /\ time' = time + dt
  /\ UNCHANGED << ops, council, log, lastReported, stateVars >>

CouncilNext ==
  \/ Tick
  \/ \E dt \in CouncilTimeSteps : TimePasses(dt)
  \/ \E paused \in BOOLEAN : SetPaused(paused)
  \/ \E fee \in Fees : SetFeeDirect(fee) \/ QueueSetFee(fee) \/ \E id \in DOMAIN ops : ExecuteSetFee(id, fee)
  \/ \E id \in DOMAIN ops : CancelOperation(id)
  \/ \E g \in Guardians :
       \/ \E s \in Sizes : ProposeMaxTradeSize(g, s)
       \/ \E id \in DOMAIN council : ApproveMaxTradeSize(id, g)
       \/ GuardianOverride(g)
  \/ \E id \in DOMAIN council, s \in Sizes : ExecuteMaxTradeSize(id, s)

CouncilSpec == CouncilInit /\ [][CouncilNext]_councilVars

OpIds == [fee : Fees, at : 0 .. MaxCouncilTime]
CouncilIds == [proposer : Guardians, size : Sizes, at : 0 .. MaxCouncilTime]

CouncilTypeOK ==
  /\ time \in 0 .. MaxCouncilTime
  /\ DOMAIN ops \subseteq OpIds
  /\ \A id \in DOMAIN ops :
       /\ ops[id] \in [eta : Nat, executed : BOOLEAN, cancelled : BOOLEAN]
       /\ ~(ops[id].executed /\ ops[id].cancelled)
  /\ DOMAIN council \subseteq CouncilIds
  /\ \A id \in DOMAIN council :
       council[id] \in [approvals : SUBSET Guardians, executed : BOOLEAN]
  /\ lastReported \in ToSet(Phases)
  /\ tradingPaused \in BOOLEAN /\ feeBps \in Fees \union {InitialFee}
  /\ maxTradeSize \in Sizes \union {InitialSize}

\* The events about an id before position k, the last queuing or creation of
\* it, and what followed.
About(id, k) ==
  {j \in 1 .. k - 1 : log[j].kind \notin {"Phase", "Override"} /\ log[j].about = id}
Opening(id, k) == {j \in About(id, k) : log[j].kind \in {"Queued", "Created"}}
LastOf(S) == CHOOSE j \in S : \A i \in S : i <= j

(* The log justifies every executed fee change: the last thing it says of    *)
(* the operation before is that it was queued, a full delay earlier, so      *)
(* neither a cancellation nor an earlier execution lies between.             *)
FeeTrail ==
  \A k \in DOMAIN log : log[k].kind = "Executed" =>
    LET id == log[k].about IN
    /\ About(id, k) # {}
    /\ log[LastOf(About(id, k))].kind = "Queued"
    /\ log[k].at >= log[LastOf(About(id, k))].at + TimelockDelay

(* The log justifies every executed trade size: since the proposal was last  *)
(* created enough different guardians, its proposer among them, are on       *)
(* record, and none of this happened before the multi-signature phase.       *)
CouncilTrail ==
  \A k \in DOMAIN log : log[k].kind = "CouncilExecuted" =>
    LET id == log[k].about IN
    /\ Opening(id, k) # {}
    /\ LET first == LastOf(Opening(id, k))
           since == {j \in About(id, k) : j >= first}
       IN  /\ Cardinality({log[j].by : j \in since}) >= MultisigThreshold
           /\ \A j \in since : log[j].kind # "CouncilExecuted"
           /\ PhaseAt(log[first].at) \in {"MultiSig", "DaoOnly"}

(* The trade limit in force is the one of the last proposal the log says was *)
(* executed: the payload presented at execution is the one approved.         *)
SizeFromTrail ==
  LET done == {k \in DOMAIN log : log[k].kind = "CouncilExecuted"} IN
  maxTradeSize = IF done = {} THEN InitialSize ELSE log[LastOf(done)].about.size

Rank(phase) == CHOOSE i \in 1 .. 4 : Phases[i] = phase

PhaseEvents == {k \in DOMAIN log : log[k].kind = "Phase"}
EarlierPhases(k) == {j \in PhaseEvents : j < k}

(* The phase transitions in the log form one chain that only goes forward,   *)
(* however late tick is called and however many phases it skips.             *)
PhaseChain ==
  /\ \A k \in PhaseEvents \ {1} :
       LET before == LastOf(EarlierPhases(k)) IN
       /\ log[k].about[1] = log[before].about[2]
       /\ Rank(log[before].about[2]) < Rank(log[k].about[2])
  /\ log[LastOf(PhaseEvents)].about[2] = lastReported

(* Whoever reads the log can reconstruct what was done: it justifies every   *)
(* fee change and every trade size carried out, leads to the limit in force, *)
(* and tells the phases in order.                                            *)
LogJustifies == CouncilTypeOK /\ FeeTrail /\ CouncilTrail /\ SizeFromTrail /\ PhaseChain

(* Every phase that begins is reported in the end, or has given way to a     *)
(* later one that is.                                                        *)
PhasesReported ==
  \A i \in 1 .. 4 : (Rank(Phase) >= i) ~> (Rank(lastReported) >= i)
=============================================================================
