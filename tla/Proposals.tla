------------------------------ MODULE Proposals ------------------------------
(***************************************************************************)
(* The stake-weighted proposals of src/governance_system.rs over the types *)
(* of src/governance_types.rs, next to the timelocked parameters of the    *)
(* same contract: both answer to the administrator, whom an executed       *)
(* proposal may replace.  The power of a voter is what it has staked at    *)
(* the moment (staking_bonus.rs).                                          *)
(***************************************************************************)
EXTENDS GovernanceParams, FiniteSetsExt, Functions

CONSTANTS
  ProposalActions,     \* what may be proposed: see ActionKinds
  Periods,             \* voting periods asked for
  Configs,             \* configurations the administrator may set
  DefaultConfig,       \* GovernanceConfig::default
  StakeAmounts,        \* amounts staked
  U32,                 \* 2^32, where `as u32` cuts
  MaxPower,            \* bound on what one account has staked
  MaxProposals         \* bound on the proposals

\* ProposalType and ParamKey: new_value is an i128.
ActionKinds ==
  [kind : {"Param", "Quorum", "Approval"}, value : Int]
  \union [kind : {"AdminUpgrade"}, value : Addresses]
  \union [kind : {"Pause"}, value : BOOLEAN]

GovernanceConfig ==
  [minPeriod : Nat, maxPeriod : Nat, quorum : Nat, approval : Nat, delay : Nat, cooldown : Nat]

ASSUME ProposalAssumption ==
  /\ ProposalActions \subseteq ActionKinds
  /\ Configs \subseteq GovernanceConfig /\ DefaultConfig \in GovernanceConfig
  /\ Periods \subseteq Nat /\ StakeAmounts \subseteq Nat \ {0}
  /\ U32 \in Nat /\ U32 > 10000
  /\ MaxPower \in Nat /\ MaxProposals \in Nat
  /\ IsFiniteSet(Addresses)

VARIABLES
  power,               \* StakingBonusManager::get_user_total_staked
  config,              \* GovernanceKey::Config
  proposals,           \* GovernanceKey::Proposal, by id
  votes,               \* GovernanceKey::ProposalVotes, by id
  lastProposal,        \* GovernanceKey::VoterLastProposal, 0 if none
  pausedFlag,          \* the instance key "paused"
  feeSetting,          \* the instance keys written by execute_parameter_change
  signers              \* history: who authorized the latest set_admin, set_config or
                       \* execute_proposal

proposalVars ==
  << power, config, proposals, votes, lastProposal, pausedFlag, feeSetting, signers >>
govVars == << adminVars, paramVars, proposalVars >>

Options == {"For", "Against", "Abstain"}
NoVote == [option |-> "None", power |-> 0]

ProposalInit ==
  /\ power = [a \in Addresses |-> 0]
  /\ config = DefaultConfig
  /\ proposals = << >>
  /\ votes = << >>
  /\ lastProposal = [a \in Addresses |-> 0]
  /\ pausedFlag = FALSE
  /\ feeSetting = Unset
  /\ signers = {}

TotalPower == SumFunction(power)

\* Staking and leaving change the power of votes that are cast from now on.
ChangeStake(a, n) ==
  /\ power' = [power EXCEPT ![a] = n]
  /\ UNCHANGED << config, proposals, votes, lastProposal, pausedFlag, feeSetting, signers >>

StakeMore(a, n) == power[a] + n <= MaxPower /\ ChangeStake(a, power[a] + n)
LeaveStake(a) == power[a] > 0 /\ ChangeStake(a, 0)

\* A first proposal is measured against time zero as well.
CooledDown(a) == now - lastProposal[a] >= config.cooldown

CreateProposal(proposer, action, period) ==
  /\ config.minPeriod <= period /\ period <= config.maxPeriod
  /\ CooledDown(proposer)
  /\ power[proposer] > 0
  /\ Len(proposals) < MaxProposals
  /\ proposals' = Append(proposals,
       [proposer |-> proposer, action |-> action, start |-> now, end |-> now + period,
        status |-> "Active", for |-> 0, against |-> 0, abstain |-> 0, total |-> TotalPower,
        quorum |-> (config.quorum * TotalPower) \div 10000, approval |-> config.approval,
        executableAt |-> 0, executed |-> FALSE])
  /\ votes' = Append(votes, [a \in Addresses |-> NoVote])
  /\ lastProposal' = [lastProposal EXCEPT ![proposer] = now]
  /\ UNCHANGED << power, config, pausedFlag, feeSetting, signers >>

MayVote(a, p) ==
  /\ proposals[p].status = "Active"
  /\ proposals[p].start <= now /\ now <= proposals[p].end
  /\ votes[p][a] = NoVote
  /\ power[a] > 0

CastVote(voter, p, option) ==
  /\ p \in DOMAIN proposals
  /\ MayVote(voter, p)
  /\ votes' = [votes EXCEPT ![p][voter] = [option |-> option, power |-> power[voter]]]
  /\ proposals' = [proposals EXCEPT
       ![p].for = @ + (IF option = "For" THEN power[voter] ELSE 0),
       ![p].against = @ + (IF option = "Against" THEN power[voter] ELSE 0),
       ![p].abstain = @ + (IF option = "Abstain" THEN power[voter] ELSE 0)]
  /\ UNCHANGED << power, config, lastProposal, pausedFlag, feeSetting, signers >>

\* Mutant: the quorum is forgotten.
CarriedWithoutQuorum(p) ==
  /\ p.for + p.against > 0
  /\ (p.for * 10000) \div (p.for + p.against) >= p.approval

\* finalize_proposal: abstentions count for neither the quorum nor the rate.
Carried(p) ==
  LET cast == p.for + p.against IN
  /\ cast >= p.quorum
  /\ (IF cast > 0 THEN (p.for * 10000) \div cast ELSE 0) >= p.approval

\* A proposal that carries gets its execution time from finalize_proposal, in
\* the very call that then compares it with the clock; a call that comes too
\* early returns Err, so the time it has set is lost with it and the next call
\* sets a later one.
Ripe(p) == now >= now + config.delay

MayExecute(p) ==
  /\ p.status \in {"Active", "Passed"} /\ ~p.executed
  /\ now >= p.end
  /\ Carried(p)
  /\ Ripe(p)

\* set_config's validation, also behind a governed quorum or approval.
ValidConfig(c) ==
  /\ c.minPeriod # 0 /\ c.maxPeriod >= c.minPeriod
  /\ c.quorum <= 10000 /\ c.approval <= 10000

ASSUME DefaultIsValid == ValidConfig(DefaultConfig)

\* `new_value as u32` keeps the low 32 bits of the value voted on.
AsU32(value) == value % U32

\* Mutant: the executor's authorization is enough.
AuthorizedByExecutor(signed, action) == signed # {}

\* Whose authorization an execution needs: the executor's, who is any of those
\* that signed, and, for the two values that go through set_config, also the
\* administrator's, for set_config asks for it wherever it is called from.
Authorized(signed, action) ==
  /\ signed # {}
  /\ action.kind \in {"Quorum", "Approval"} => admin \in signed

\* The configuration an action leaves behind.
Reconfigured(action) ==
  CASE action.kind = "Quorum"   -> [config EXCEPT !.quorum = AsU32(action.value)]
    [] action.kind = "Approval" -> [config EXCEPT !.approval = AsU32(action.value)]
    [] OTHER -> config

\* execute_proposal_action.  The fee is written to an instance key of its own,
\* not to the ParamValue of governance_params.rs.
Apply(action) ==
  /\ action.kind \in {"Quorum", "Approval"} => ValidConfig(Reconfigured(action))
  /\ config' = Reconfigured(action)
  /\ admin' = IF action.kind = "AdminUpgrade" THEN action.value ELSE admin
  /\ pausedFlag' = IF action.kind = "Pause" THEN action.value ELSE pausedFlag
  /\ feeSetting' = IF action.kind = "Param" THEN AsU32(action.value) ELSE feeSetting

ExecuteProposal(signed, p) ==
  /\ p \in DOMAIN proposals
  /\ MayExecute(proposals[p])
  /\ Authorized(signed, proposals[p].action)
  /\ Apply(proposals[p].action)
  /\ proposals' = [proposals EXCEPT ![p].executed = TRUE, ![p].status = "Executed",
                                    ![p].executableAt = now + config.delay]
  /\ signers' = signed
  /\ UNCHANGED << now, sensitiveUsage, paramVars, power, votes, lastProposal >>

CancelProposal(canceller, p) ==
  /\ p \in DOMAIN proposals
  /\ proposals[p].proposer = canceller
  /\ proposals[p].status = "Active" /\ now <= proposals[p].end
  /\ proposals' = [proposals EXCEPT ![p].status = "Cancelled"]
  /\ UNCHANGED << power, config, votes, lastProposal, pausedFlag, feeSetting, signers >>

SetConfig(caller, c) ==
  /\ IsAdmin(caller)
  /\ ValidConfig(c)
  /\ config' = c
  /\ signers' = {caller}
  /\ UNCHANGED << power, proposals, votes, lastProposal, pausedFlag, feeSetting >>

ProposalNext ==
  \/ \E a \in Addresses :
       \/ \E n \in StakeAmounts : StakeMore(a, n)
       \/ LeaveStake(a)
       \/ \E x \in ProposalActions, d \in Periods : CreateProposal(a, x, d)
       \/ \E c \in Configs : SetConfig(a, c)
  \/ \E a \in Addresses, p \in DOMAIN proposals :
       CancelProposal(a, p) \/ \E o \in Options : CastVote(a, p, o)

GovInit == AdminInit /\ ParamInit /\ ProposalInit

GovNext ==
  \/ ProposalNext /\ UNCHANGED << adminVars, paramVars >>
  \/ \E signed \in SUBSET Addresses, p \in DOMAIN proposals : ExecuteProposal(signed, p)
  \/ ParamNext /\ UNCHANGED << adminVars, proposalVars >>
  \/ \E a, b \in Addresses :
       /\ SetAdmin(a, b) /\ signers' = {a}
       /\ UNCHANGED << paramVars, power, config, proposals, votes, lastProposal, pausedFlag,
                      feeSetting >>
  \/ \E dt \in TimeSteps : AdvanceTime(dt) /\ UNCHANGED << paramVars, proposalVars >>

GovSpec == GovInit /\ [][GovNext]_govVars

ProposalRecord ==
  [proposer : Addresses, action : ProposalActions, start : Nat, end : Nat,
   status : {"Active", "Executed", "Cancelled"}, for : Nat, against : Nat, abstain : Nat,
   total : Nat, quorum : Nat, approval : Nat, executableAt : Nat, executed : BOOLEAN]

GovTypeOK ==
  /\ AdminTypeOK
  /\ ParamTypeOK
  /\ power \in [Addresses -> Nat]
  /\ config \in GovernanceConfig /\ ValidConfig(config)
  /\ proposals \in Seq(ProposalRecord)
  /\ votes \in Seq([Addresses -> [option : Options \union {"None"}, power : Nat]])
  /\ lastProposal \in [Addresses -> Nat]
  /\ pausedFlag \in BOOLEAN
  /\ signers \subseteq Addresses

CountedFor(p, option) ==
  SumFunction([a \in Addresses |-> IF votes[p][a].option = option THEN votes[p][a].power ELSE 0])

(* The three tallies of a proposal are the sums of the votes on record, each *)
(* at the power its voter had when voting, although stakes move afterwards   *)
(* (cast_vote keeps the votes and the tallies under two keys).               *)
TalliesExact ==
  \A p \in DOMAIN proposals :
    /\ proposals[p].for = CountedFor(p, "For")
    /\ proposals[p].against = CountedFor(p, "Against")
    /\ proposals[p].abstain = CountedFor(p, "Abstain")

(* What was executed had carried: its quorum, taken when it was created, and *)
(* its approval are met by the votes on record, its voting had ended, and    *)
(* nobody could add a vote at the very end after it was counted.             *)
ExecutedWasCarried ==
  \A p \in DOMAIN proposals : proposals[p].executed =>
    /\ CountedFor(p, "For") + CountedFor(p, "Against") >= proposals[p].quorum
    /\ CountedFor(p, "For") * 10000
         >= proposals[p].approval * (CountedFor(p, "For") + CountedFor(p, "Against"))
    /\ now >= proposals[p].end

(* Votes and results agree: the tallies are the votes on record, and what    *)
(* was executed had carried by them.                                         *)
ProposalsDecided == GovTypeOK /\ TalliesExact /\ ExecutedWasCarried

\* The proposals that carried and are executed in the step.
JustExecuted ==
  {p \in DOMAIN proposals :
     ~proposals[p].executed /\ proposals'[p].executed /\ Carried(proposals[p])}

\* What is voted on is the administrator to come.
IsSuccession(action) == action = [kind |-> "AdminUpgrade", value |-> admin']

\* What is voted on is the quorum or the approval, cut to 32 bits, and nothing
\* else of the configuration changes with it.
IsReform(action) ==
  \/ action.kind = "Quorum" /\ config' = [config EXCEPT !.quorum = AsU32(action.value)]
  \/ action.kind = "Approval" /\ config' = [config EXCEPT !.approval = AsU32(action.value)]

(* The administrator is replaced by a call the administrator authorized, in  *)
(* which no proposal is touched, or by a proposal to that effect, executed   *)
(* in that step after it carried.  The configuration never changes without   *)
(* the authorization of the administrator of the moment, not even by a       *)
(* proposal that carried (set_config asks for it inside execute_proposal);   *)
(* when a proposal changes it, it carried, and it sets the one value voted   *)
(* on, cut to 32 bits (set_admin, set_config, execute_parameter_change).     *)
AdminMovesProperly ==
  [][/\ admin' # admin =>
          \/ signers' = {admin} /\ proposals' = proposals
          \/ \E p \in JustExecuted : IsSuccession(proposals[p].action)
     /\ config' # config =>
          /\ admin \in signers'
          /\ \/ proposals' = proposals
             \/ \E p \in JustExecuted : IsReform(proposals[p].action)]_govVars
=============================================================================
