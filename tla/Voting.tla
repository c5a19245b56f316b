------------------------------- MODULE Voting -------------------------------
(***************************************************************************)
(* The ballots of the DAO phase (src/governance/voting.rs): one member one *)
(* vote, a quorum counted in voters, and a deadline that votes, results    *)
(* and executions race for.                                                *)
(*                                                                         *)
(* This is plain Rust: a call that returns an error keeps what it wrote    *)
(* before, so a vote that comes too late closes the ballot.  Every call    *)
(* passes the time it is made at; callers read it off one clock.           *)
(***************************************************************************)
EXTENDS Integers, Sequences, FiniteSets

CONSTANTS
  Voters,              \* who may vote: anybody
  Quorums, Deadlines,  \* arguments of create_proposal
  BallotTimeSteps,     \* how far the clock moves at once
  MaxBallots,          \* bound on the ballots opened
  MaxBallotTime        \* bound: the clock stops here

ASSUME VotingAssumption ==
  /\ IsFiniteSet(Voters)
  /\ Quorums \subseteq Nat /\ Deadlines \subseteq Nat
  /\ BallotTimeSteps \subseteq Nat \ {0}
  /\ MaxBallots \in Nat /\ MaxBallotTime \in Nat

VARIABLES
  ballots,             \* GovernanceVoting.proposals, by id
  ballotClock          \* the `now` of the calls

votingVars == << ballots, ballotClock >>

BallotStatus == {"Active", "Passed", "Rejected", "Expired", "Executed"}

Ballot ==
  [votes_for : Nat, votes_against : Nat, quorum : Nat, until : Nat,
   status : BallotStatus, voters : SUBSET Voters]

VotingInit == ballots = << >> /\ ballotClock = 0

OpenBallot(quorum, deadline) ==
  /\ Len(ballots) < MaxBallots
  /\ ballots' = Append(ballots,
       [votes_for |-> 0, votes_against |-> 0, quorum |-> quorum,
        until |-> ballotClock + deadline, status |-> "Active", voters |-> {}])
  /\ UNCHANGED ballotClock

Late(b) == ballotClock > b.until

\* The ballot after a vote.  A vote cast too late is refused, yet expires it.
Counted(b, voter, inFavor) ==
  IF Late(b) THEN [b EXCEPT !.status = "Expired"]
  ELSE [b EXCEPT !.voters = @ \cup {voter},
                 !.votes_for = IF inFavor THEN @ + 1 ELSE @,
                 !.votes_against = IF inFavor THEN @ ELSE @ + 1]

VoteOnBallot(id, voter, inFavor) ==
  /\ ballots[id].status = "Active"
  /\ Late(ballots[id]) \/ voter \notin ballots[id].voters
  /\ ballots' = [ballots EXCEPT ![id] = Counted(@, voter, inFavor)]
  /\ UNCHANGED ballotClock

HasQuorum(b) == b.votes_for + b.votes_against >= b.quorum
ForWins(b) == b.votes_for > b.votes_against

\* A quorum decides at once, also long before the deadline.
Outcome(b) ==
  IF ~HasQuorum(b) THEN "Expired"
  ELSE IF ForWins(b) THEN "Passed" ELSE "Rejected"

FinalizeBallot(id) ==
  /\ ballots[id].status = "Active"
  /\ HasQuorum(ballots[id]) \/ Late(ballots[id])
  /\ ballots' = [ballots EXCEPT ![id].status = Outcome(ballots[id])]
  /\ UNCHANGED ballotClock

ExecuteBallot(id) ==
  /\ ballots[id].status = "Passed"
  /\ ballots' = [ballots EXCEPT ![id].status = "Executed"]
  /\ UNCHANGED ballotClock

BallotTimePasses(d) ==
  /\ ballotClock + d <= MaxBallotTime
  /\ ballotClock' = ballotClock + d
  /\ UNCHANGED ballots

VotingNext ==
  \/ \E quorum \in Quorums, deadline \in Deadlines : OpenBallot(quorum, deadline)
  \/ \E id \in DOMAIN ballots, voter \in Voters, inFavor \in BOOLEAN :
       VoteOnBallot(id, voter, inFavor)
  \/ \E id \in DOMAIN ballots : FinalizeBallot(id)
  \/ \E id \in DOMAIN ballots : ExecuteBallot(id)
  \/ \E d \in BallotTimeSteps : BallotTimePasses(d)

VotingSpec == VotingInit /\ [][VotingNext]_votingVars

-----------------------------------------------------------------------------
(* Properties *)

VotingTypeOK == ballots \in Seq(Ballot) /\ ballotClock \in Nat

(* A ballot counts its voters, each once, and its outcome is what they said: *)
(* whatever order votes, results, late votes and executions came in, what    *)
(* passed or was executed had a quorum and a majority, what was rejected had *)
(* a quorum without one, and nothing expires before its deadline.            *)
BallotsDecide ==
  /\ VotingTypeOK
  /\ \A id \in DOMAIN ballots :
       LET b == ballots[id] IN
       /\ b.votes_for + b.votes_against = Cardinality(b.voters)
       /\ b.status \in {"Passed", "Executed"} => HasQuorum(b) /\ ForWins(b)
       /\ b.status = "Rejected" => HasQuorum(b) /\ ~ForWins(b)
       /\ b.status = "Expired" => Late(b)

(* Once decided, a ballot neither counts another vote nor changes its        *)
(* outcome, but for the one execution of one that passed.                    *)
OutcomesStand ==
  [][\A id \in DOMAIN ballots :
       LET b == ballots[id] IN
       b.status # "Active" =>
         ballots'[id] \in {b} \cup
           (IF b.status = "Passed" THEN {[b EXCEPT !.status = "Executed"]} ELSE {})]_votingVars
=============================================================================
