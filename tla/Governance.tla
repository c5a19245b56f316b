------------------------------ MODULE Governance ------------------------------
(***************************************************************************)
(* The three ways the system is governed: the stake-weighted proposals and *)
(* timelocked parameters of the contract (Proposals), the schedule that    *)
(* hands power from an administrator to a council (Council), and the       *)
(* ballots of the phase after it (Voting).  None reads another's state, so *)
(* `focus` names the one whose calls are explored.                         *)
(***************************************************************************)
EXTENDS Proposals, Council, Voting

VARIABLE focus

governanceVars == << govVars, councilVars, votingVars, focus >>

GovernanceInit ==
  /\ GovInit /\ CouncilInit /\ VotingInit
  /\ focus \in {"Proposals", "Council", "Voting"}

OfProposals(Step) ==
  focus = "Proposals" /\ Step /\ UNCHANGED << councilVars, votingVars, focus >>
OfCouncil(Step) == focus = "Council" /\ Step /\ UNCHANGED << govVars, votingVars, focus >>
OfVoting(Step) == focus = "Voting" /\ Step /\ UNCHANGED << govVars, councilVars, focus >>

GovernanceNext == OfProposals(GovNext) \/ OfCouncil(CouncilNext) \/ OfVoting(VotingNext)

\* "Call periodically to detect and log phase transitions": tick is called
\* again and again, and time goes on.
GovernanceSpec ==
  /\ GovernanceInit /\ [][GovernanceNext]_governanceVars
  /\ WF_governanceVars(OfCouncil(Tick))
  /\ WF_governanceVars(OfCouncil(\E dt \in CouncilTimeSteps : TimePasses(dt)))

-----------------------------------------------------------------------------
(* Votes and results agree, in proposals weighed by stake (governance_system *)
(* .rs) as in ballots counted by head (voting.rs): the tallies are the votes *)
(* on record, and what was executed had carried by them, although stakes     *)
(* move, late votes come in and results are taken early.                     *)
VotesDecide == ProposalsDecided /\ BallotsDecide

(* Power moves in the two ways the contract provides, and no outcome voted   *)
(* on is revised: the administrator is replaced by a call it authorized or   *)
(* by a proposal that carried, the configuration changes only when the       *)
(* administrator authorized it, voted on or not, and a decided ballot stands.*)
PowerMovesProperly == AdminMovesProperly /\ OutcomesStand
=============================================================================
