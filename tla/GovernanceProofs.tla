-------------------------- MODULE GovernanceProofs --------------------------
(***************************************************************************)
(* Theorems about governance, for every set of accounts, voters and        *)
(* parameters and every bound: ballots and stake-weighted proposals decide *)
(* by the votes on record, parameters stay timelocked, administration and  *)
(* decided outcomes move only the ways the contract provides, and the log  *)
(* of the council's schedule justifies what the council did.  At the end   *)
(* KYC, the other component that acts by announcement: finalized_at marks  *)
(* exactly the final records, a final outcome only moves by an override    *)
(* announced in time, and overrides implement the abstract TimelockQueue.  *)
(***************************************************************************)
EXTENDS Governance, KYC, SequenceTheorems, Sums

-----------------------------------------------------------------------------
(* Ballots *)

BallotOK(b) ==
  /\ b \in Ballot
  /\ b.votes_for + b.votes_against = Cardinality(b.voters)
  /\ b.status \in {"Passed", "Executed"} => HasQuorum(b) /\ ForWins(b)
  /\ b.status = "Rejected" => HasQuorum(b) /\ ~ForWins(b)
  /\ b.status = "Expired" => Late(b)

VotingInv ==
  /\ ballotClock \in Nat
  /\ ballots \in Seq(Ballot)
  /\ \A id \in 1 .. Len(ballots) : BallotOK(ballots[id])

\* What OutcomesStand says of one ballot.
Stands(b, c) ==
  b.status # "Active" =>
    c \in {b} \cup (IF b.status = "Passed" THEN {[b EXCEPT !.status = "Executed"]} ELSE {})

AllStand == \A id \in 1 .. Len(ballots) : id \in 1 .. Len(ballots') /\ Stands(ballots[id], ballots'[id])

\* A step that replaces one ballot.
LEMMA BallotStep ==
  ASSUME VotingInv, NEW id \in 1 .. Len(ballots), NEW c, BallotOK(c), Stands(ballots[id], c),
         ballots' = [ballots EXCEPT ![id] = c], UNCHANGED ballotClock
  PROVE  VotingInv' /\ AllStand
<1>1. c \in Ballot /\ ballots \in Seq(Ballot)
  BY DEF BallotOK, VotingInv
<1>2. /\ ballots' \in Seq(Ballot) /\ Len(ballots') = Len(ballots)
      /\ \A i \in 1 .. Len(ballots) : ballots'[i] = IF i = id THEN c ELSE ballots[i]
  BY <1>1, ExceptSeq
<1>3. \A i \in 1 .. Len(ballots) : BallotOK(ballots'[i])
  BY <1>2 DEF VotingInv
<1>4. \A b : BallotOK(b)' <=> BallotOK(b)
  BY DEF BallotOK, HasQuorum, ForWins, Late
<1>5. VotingInv'
  BY <1>2, <1>3, <1>4 DEF VotingInv, BallotOK, HasQuorum, ForWins, Late
<1>6. AllStand
  BY <1>2 DEF AllStand, Stands
<1>7. QED
  BY <1>5, <1>6

LEMMA CountedOK ==
  ASSUME NEW b, BallotOK(b), b.status = "Active", ballotClock \in Nat,
         NEW voter \in Voters, NEW inFavor \in BOOLEAN, Late(b) \/ voter \notin b.voters
  PROVE  BallotOK(Counted(b, voter, inFavor))
<1> DEFINE c == Counted(b, voter, inFavor)
<1>1. PICK f \in Nat, a \in Nat, q \in Nat, w \in Nat, V \in SUBSET Voters :
        b = [votes_for |-> f, votes_against |-> a, quorum |-> q, until |-> w,
             status |-> "Active", voters |-> V]
  BY DEF BallotOK, Ballot
<1>2. CASE Late(b)
  <2>1. c = [votes_for |-> f, votes_against |-> a, quorum |-> q, until |-> w,
             status |-> "Expired", voters |-> V]
    BY <1>1, <1>2 DEF Counted
  <2>2. c \in Ballot
    BY <2>1 DEF Ballot, BallotStatus
  <2>3. QED
    BY <1>1, <1>2, <2>1, <2>2 DEF BallotOK, Late
<1>3. CASE ~ Late(b)
  <2> DEFINE f2 == IF inFavor THEN f + 1 ELSE f
             a2 == IF inFavor THEN a ELSE a + 1
             V2 == V \cup {voter}
  <2>1. c = [votes_for |-> f2, votes_against |-> a2, quorum |-> q, until |-> w,
             status |-> "Active", voters |-> V2]
    BY <1>1, <1>3 DEF Counted
  <2>2. f2 \in Nat /\ a2 \in Nat /\ f2 + a2 = f + a + 1 /\ V2 \in SUBSET Voters
    OBVIOUS
  <2>3. IsFiniteSet(V) /\ voter \notin V
    BY <1>1, <1>3, VotingAssumption, FS_Subset
  <2>4. Cardinality(V2) = Cardinality(V) + 1
    BY <2>3, FS_AddElement
  <2>5. f + a = Cardinality(V)
    BY <1>1 DEF BallotOK
  <2> HIDE DEF f2, a2, V2
  <2>6. c \in Ballot
    BY <2>1, <2>2 DEF Ballot, BallotStatus
  <2>7. QED
    BY <2>1, <2>2, <2>4, <2>5, <2>6 DEF BallotOK
<1>4. QED
  BY <1>2, <1>3

\* A ballot that only gets another status.
LEMMA StatusOK ==
  ASSUME NEW b, BallotOK(b), NEW status \in BallotStatus,
         status \in {"Passed", "Executed"} => HasQuorum(b) /\ ForWins(b),
         status = "Rejected" => HasQuorum(b) /\ ~ForWins(b),
         status = "Expired" => Late(b)
  PROVE  BallotOK([b EXCEPT !.status = status])
<1> DEFINE c == [b EXCEPT !.status = status]
<1>1. /\ c \in Ballot /\ c.votes_for = b.votes_for /\ c.votes_against = b.votes_against
      /\ c.quorum = b.quorum /\ c.until = b.until /\ c.voters = b.voters /\ c.status = status
  BY DEF BallotOK, Ballot
<1> HIDE DEF c
<1>2. QED
  BY <1>1 DEF BallotOK, HasQuorum, ForWins, Late, c

LEMMA VotingInit_Inv == VotingInit => VotingInv
BY EmptySeq DEF VotingInit, VotingInv

LEMMA VotingStep ==
  ASSUME VotingInv, [VotingNext]_votingVars
  PROVE  VotingInv' /\ AllStand
<1>1. ballotClock \in Nat /\ ballots \in Seq(Ballot) /\ DOMAIN ballots = 1 .. Len(ballots)
      /\ Len(ballots) \in Nat /\ \A id \in 1 .. Len(ballots) : BallotOK(ballots[id])
  BY LenProperties DEF VotingInv
<1>2. CASE UNCHANGED votingVars
  BY <1>2, <1>1 DEF votingVars, VotingInv, AllStand, Stands, BallotOK, HasQuorum, ForWins, Late
<1>3. ASSUME NEW quorum \in Quorums, NEW deadline \in Deadlines, OpenBallot(quorum, deadline)
      PROVE  VotingInv' /\ AllStand
  <2> DEFINE c == [votes_for |-> 0, votes_against |-> 0, quorum |-> quorum,
                   until |-> ballotClock + deadline, status |-> "Active", voters |-> {}]
             n == Len(ballots)
             none == {}
  <2>1. c \in Ballot /\ c.status = "Active" /\ c.votes_for = 0 /\ c.votes_against = 0 /\ c.voters = {}
    BY <1>1, VotingAssumption DEF Ballot, BallotStatus
  <2> HIDE DEF c
  <2>2. BallotOK(c)
    BY <2>1, FS_EmptySet DEF BallotOK
  <2>3. ballots' = Append(ballots, c) /\ ballotClock' = ballotClock
    BY <1>3 DEF OpenBallot, c
  <2>4. /\ ballots' \in Seq(Ballot) /\ Len(ballots') = n + 1 /\ ballots'[n + 1] = c
        /\ \A i \in 1 .. n : ballots'[i] = ballots[i]
    BY <1>1, <2>1, <2>3, AppendProperties
  <2>5. \A i \in 1 .. n + 1 : i \in 1 .. n \/ i = n + 1
    BY <1>1
  <2>6. \A i \in 1 .. n + 1 : BallotOK(ballots'[i])
    BY <1>1, <2>2, <2>4, <2>5
  <2>7. VotingInv'
    BY <1>1, <2>3, <2>4, <2>6 DEF VotingInv, BallotOK, HasQuorum, ForWins, Late
  <2>8. AllStand
    BY <1>1, <2>4 DEF AllStand, Stands
  <2>9. QED
    BY <2>7, <2>8
<1>4. ASSUME NEW id \in 1 .. Len(ballots), NEW voter \in Voters, NEW inFavor \in BOOLEAN,
             VoteOnBallot(id, voter, inFavor)
      PROVE  VotingInv' /\ AllStand
  <2> DEFINE b == ballots[id]
             c == Counted(b, voter, inFavor)
  <2>1. /\ BallotOK(b) /\ b.status = "Active" /\ (Late(b) \/ voter \notin b.voters)
        /\ ballots' = [ballots EXCEPT ![id] = c] /\ UNCHANGED ballotClock
    BY <1>1, <1>4 DEF VoteOnBallot
  <2> HIDE DEF b
  <2>2. BallotOK(c) /\ Stands(b, c)
    BY <1>1, <2>1, CountedOK DEF Stands
  <2> HIDE DEF c
  <2>3. QED
    BY <2>1, <2>2, BallotStep DEF b
<1>5. ASSUME NEW id \in 1 .. Len(ballots), FinalizeBallot(id)
      PROVE  VotingInv' /\ AllStand
  <2> DEFINE b == ballots[id]
             c == [b EXCEPT !.status = Outcome(b)]
  <2>1. /\ BallotOK(b) /\ b.status = "Active" /\ (HasQuorum(b) \/ Late(b))
        /\ ballots' = [ballots EXCEPT ![id] = c] /\ UNCHANGED ballotClock
    BY <1>1, <1>5 DEF FinalizeBallot
  <2> HIDE DEF b
  <2>2. /\ Outcome(b) \in BallotStatus
        /\ Outcome(b) \in {"Passed", "Executed"} => HasQuorum(b) /\ ForWins(b)
        /\ Outcome(b) = "Rejected" => HasQuorum(b) /\ ~ForWins(b)
        /\ Outcome(b) = "Expired" => Late(b)
    BY <2>1 DEF Outcome, BallotStatus
  <2>3. BallotOK(c) /\ Stands(b, c)
    BY <2>1, <2>2, StatusOK DEF Stands
  <2> HIDE DEF c
  <2>4. QED
    BY <2>1, <2>3, BallotStep DEF b
<1>6. ASSUME NEW id \in 1 .. Len(ballots), ExecuteBallot(id)
      PROVE  VotingInv' /\ AllStand
  <2> DEFINE b == ballots[id]
             c == [b EXCEPT !.status = "Executed"]
  <2>1. /\ BallotOK(b) /\ b.status = "Passed"
        /\ ballots' = [ballots EXCEPT ![id] = c] /\ UNCHANGED ballotClock
    BY <1>1, <1>6 DEF ExecuteBallot
  <2> HIDE DEF b
  <2>2. HasQuorum(b) /\ ForWins(b)
    BY <2>1 DEF BallotOK
  <2>3. BallotOK(c)
    <3>1. "Executed" \in BallotStatus
      BY DEF BallotStatus
    <3>2. QED
      BY <2>1, <2>2, <3>1, StatusOK
  <2>4. Stands(b, c)
    BY <2>1 DEF Stands
  <2> HIDE DEF c
  <2>5. QED
    BY <2>1, <2>3, <2>4, BallotStep DEF b
<1>7. ASSUME NEW d \in BallotTimeSteps, BallotTimePasses(d)
      PROVE  VotingInv' /\ AllStand
  <2>1. ballotClock' \in Nat /\ ballotClock' > ballotClock /\ ballots' = ballots
    BY <1>1, <1>7, VotingAssumption DEF BallotTimePasses
  <2>2. \A i \in 1 .. Len(ballots) : ballots[i] \in Ballot
    BY <1>1
  <2>3. \A i \in 1 .. Len(ballots) : Late(ballots[i]) => ballotClock' > ballots[i].until
    BY <1>1, <2>1, <2>2 DEF Late, Ballot
  <2>4. VotingInv'
    BY <1>1, <2>1, <2>3 DEF VotingInv, BallotOK, HasQuorum, ForWins, Late
  <2>5. AllStand
    BY <1>1, <2>1 DEF AllStand, Stands
  <2>6. QED
    BY <2>4, <2>5
<1>8. QED
  BY <1>1, <1>2, <1>3, <1>4, <1>5, <1>6, <1>7 DEF VotingNext

-----------------------------------------------------------------------------
(* Parameters *)

\* An update on record was valid, and is carried out after its own delay only.
UpdateOK(r) ==
  /\ ValidParam(r.param, r.value)
  /\ r.due >= r.at + MinParamDelay
  /\ r.done => now >= r.due

\* The value of a parameter is that of a carried out update, or none is.
DoneFor(p) == {i \in 1 .. Len(updates) : updates[i].param = p /\ updates[i].done}

Committed(p) ==
  /\ DoneFor(p) = {} => params[p] = Unset
  /\ DoneFor(p) # {} => \E i \in DoneFor(p) : params[p] = updates[i].value

ParamInv ==
  /\ now \in Nat
  /\ ParamTypeOK
  /\ \A i \in 1 .. Len(updates) : UpdateOK(updates[i])
  /\ \A p \in Params : Committed(p)

\* What a step of the whole is to the parameters.
ParamStep ==
  \/ UNCHANGED << now, paramVars >>
  \/ \E a \in Addresses :
       /\ UNCHANGED now
       /\ \/ \E d \in ParamDelays : SetTimelockDelay(a, d)
          \/ \E p \in Params, v \in ParamValues : ProposeUpdate(a, p, v)
          \/ \E i \in DOMAIN updates : ExecuteUpdate(a, i)
  \/ \E dt \in TimeSteps : now' = now + dt /\ UNCHANGED paramVars

LEMMA UpdatesFacts ==
  ASSUME ParamTypeOK
  PROVE  /\ updates \in Seq(PendingUpdate) /\ Len(updates) \in Nat
         /\ DOMAIN updates = 1 .. Len(updates)
         /\ \A i \in 1 .. Len(updates) : updates[i] \in PendingUpdate
BY LenProperties DEF ParamTypeOK

LEMMA ParamInvStep ==
  ASSUME ParamInv, ParamStep PROVE ParamInv'
<1>1. /\ now \in Nat /\ paramDelay \in Nat /\ paramDelay >= MinParamDelay
      /\ params \in [Params -> ParamValues \union {Unset}] /\ MinParamDelay \in Nat
      /\ updates \in Seq(PendingUpdate) /\ Len(updates) \in Nat
      /\ DOMAIN updates = 1 .. Len(updates)
      /\ \A i \in 1 .. Len(updates) : updates[i] \in PendingUpdate /\ UpdateOK(updates[i])
      /\ \A p \in Params : Committed(p)
  BY UpdatesFacts, ParamAssumption DEF ParamInv, ParamTypeOK
<1>2. CASE UNCHANGED << now, paramVars >>
  BY <1>2 DEF ParamInv, ParamTypeOK, UpdateOK, Committed, DoneFor, paramVars
<1>3. ASSUME NEW a \in Addresses, NEW d \in ParamDelays, SetTimelockDelay(a, d), UNCHANGED now
      PROVE  ParamInv'
  <2>1. paramDelay' \in Nat /\ paramDelay' >= MinParamDelay /\ UNCHANGED << updates, params >>
    BY <1>3, ParamAssumption DEF SetTimelockDelay, AdmissibleDelay
  <2>2. QED
    BY <1>1, <1>3, <2>1 DEF ParamInv, ParamTypeOK, UpdateOK, Committed, DoneFor
<1>4. ASSUME NEW a \in Addresses, NEW p \in Params, NEW v \in ParamValues,
             ProposeUpdate(a, p, v), UNCHANGED now
      PROVE  ParamInv'
  <2> DEFINE r == [param |-> p, value |-> v, at |-> now, due |-> now + paramDelay, done |-> FALSE]
             n == Len(updates)
  <2>1. /\ r \in PendingUpdate /\ r.param = p /\ r.value = v /\ r.at = now
        /\ r.due = now + paramDelay /\ r.done = FALSE
    BY <1>1 DEF PendingUpdate
  <2>2. /\ ValidParam(p, v) /\ updates' = Append(updates, r)
        /\ UNCHANGED << paramDelay, params >>
    BY <1>4 DEF ProposeUpdate
  <2> HIDE DEF r
  <2>3. UpdateOK(r)
    BY <1>1, <2>1, <2>2 DEF UpdateOK
  <2>4. /\ updates' \in Seq(PendingUpdate) /\ Len(updates') = n + 1 /\ updates'[n + 1] = r
        /\ \A i \in 1 .. n : updates'[i] = updates[i]
    BY <1>1, <2>1, <2>2, AppendProperties
  <2>5. \A i \in 1 .. n + 1 : i \in 1 .. n \/ i = n + 1
    BY <1>1
  <2>6. 1 .. n \subseteq 1 .. n + 1
    BY <1>1
  <2>7. \A i \in 1 .. n + 1 : UpdateOK(updates'[i])
    BY <1>1, <2>3, <2>4, <2>5
  <2>8. \A q \in Params : DoneFor(q)' = DoneFor(q)
    <3>1. ASSUME NEW q \in Params, NEW i \in 1 .. n + 1
          PROVE  updates'[i].param = q /\ updates'[i].done <=>
                   i \in 1 .. n /\ updates[i].param = q /\ updates[i].done
      <4>1. CASE i = n + 1
        BY <1>1, <2>1, <2>4, <4>1
      <4>2. CASE i \in 1 .. n
        BY <2>4, <4>2
      <4>3. QED
        BY <2>5, <4>1, <4>2
    <3>2. QED
      BY <2>4, <2>6, <3>1 DEF DoneFor
  <2>9. \A q \in Params : Committed(q)'
    <3>1. SUFFICES ASSUME NEW q \in Params PROVE Committed(q)'
      OBVIOUS
    <3>2. DoneFor(q)' = DoneFor(q) /\ params'[q] = params[q] /\ Committed(q)
      BY <1>1, <2>2, <2>8
    <3>3. \A i \in DoneFor(q) : updates'[i].value = updates[i].value
      BY <2>4 DEF DoneFor
    <3>4. QED
      BY <3>2, <3>3 DEF Committed
  <2>10. ParamTypeOK'
    BY <1>1, <2>2, <2>4 DEF ParamTypeOK
  <2>11. QED
    BY <1>1, <1>4, <2>4, <2>7, <2>9, <2>10 DEF ParamInv, UpdateOK
<1>5. ASSUME NEW a \in Addresses, NEW i \in DOMAIN updates, ExecuteUpdate(a, i), UNCHANGED now
      PROVE  ParamInv'
  <2> DEFINE n == Len(updates)
             old == updates[i]
             r == [old EXCEPT !.done = TRUE]
  <2>1. /\ i \in 1 .. n /\ old \in PendingUpdate /\ UpdateOK(old) /\ now >= old.due
        /\ updates' = [updates EXCEPT ![i] = r]
        /\ params' = [params EXCEPT ![old.param] = old.value]
        /\ UNCHANGED paramDelay
    BY <1>1, <1>5 DEF ExecuteUpdate, Due
  <2>2. old.param \in Params /\ old.value \in ParamValues
    BY <2>1 DEF PendingUpdate
  <2> HIDE DEF old
  <2>3. /\ r \in PendingUpdate /\ r.param = old.param /\ r.value = old.value /\ r.at = old.at
        /\ r.due = old.due /\ r.done = TRUE
    BY <2>1 DEF PendingUpdate
  <2> HIDE DEF r
  <2>4. /\ updates' \in Seq(PendingUpdate) /\ Len(updates') = n
        /\ \A j \in 1 .. n : updates'[j] = IF j = i THEN r ELSE updates[j]
    BY <1>1, <2>1, <2>3, ExceptSeq
  <2>5. UpdateOK(r)
    BY <2>1, <2>3 DEF UpdateOK
  <2>6. /\ params' \in [Params -> ParamValues \union {Unset}]
        /\ \A q \in Params : params'[q] = IF q = old.param THEN old.value ELSE params[q]
    BY <1>1, <2>1, <2>2
  <2>7. \A q \in Params : q # old.param => DoneFor(q)' = DoneFor(q)
    <3>1. ASSUME NEW q \in Params, q # old.param, NEW j \in 1 .. n
          PROVE  updates'[j].param = q /\ updates'[j].done <=> updates[j].param = q /\ updates[j].done
      BY <2>3, <2>4, <3>1 DEF old
    <3>2. QED
      BY <2>4, <3>1 DEF DoneFor
  <2>8. ASSUME NEW q \in Params PROVE Committed(q)'
    <3>1. CASE q = old.param
      <4>1. i \in DoneFor(q)'
        BY <2>1, <2>3, <2>4, <3>1 DEF DoneFor
      <4>2. params'[q] = updates'[i].value
        BY <2>1, <2>3, <2>4, <2>6, <3>1
      <4>3. QED
        BY <4>1, <4>2 DEF Committed
    <3>2. CASE q # old.param
      <4>1. \A j \in 1 .. n : updates'[j].value = updates[j].value
        BY <2>3, <2>4 DEF old
      <4>2. DoneFor(q)' = DoneFor(q) /\ params'[q] = params[q] /\ Committed(q)
        BY <1>1, <2>6, <2>7, <3>2
      <4>3. \A j \in DoneFor(q) : updates'[j].value = updates[j].value
        BY <4>1 DEF DoneFor
      <4>4. QED
        BY <4>2, <4>3 DEF Committed
    <3>3. QED
      BY <3>1, <3>2
  <2>9. ParamTypeOK'
    BY <1>1, <2>1, <2>4, <2>6 DEF ParamTypeOK
  <2>10. \A j \in 1 .. n : UpdateOK(updates'[j])
    BY <1>1, <2>4, <2>5
  <2>11. QED
    BY <1>1, <1>5, <2>4, <2>8, <2>9, <2>10 DEF ParamInv, UpdateOK
<1>6. ASSUME NEW dt \in TimeSteps, now' = now + dt, UNCHANGED paramVars
      PROVE  ParamInv'
  <2>1. now' \in Nat /\ now' >= now
    BY <1>1, <1>6, AdminAssumption
  <2>2. \A i \in 1 .. Len(updates) : updates[i].due \in Nat /\ UpdateOK(updates[i])
    BY <1>1 DEF PendingUpdate
  <2>3. \A i \in 1 .. Len(updates) : updates[i].done => now' >= updates[i].due
    BY <1>1, <2>1, <2>2 DEF UpdateOK
  <2>4. QED
    BY <1>1, <1>6, <2>1, <2>2, <2>3
    DEF ParamInv, ParamTypeOK, UpdateOK, Committed, DoneFor, paramVars
<1>7. QED
  BY <1>2, <1>3, <1>4, <1>5, <1>6 DEF ParamStep

LEMMA ParamInitInv == ParamInit /\ AdminInit => ParamInv
<1> SUFFICES ASSUME ParamInit, AdminInit PROVE ParamInv
  OBVIOUS
<1>1. /\ now = 0 /\ paramDelay = DefaultParamDelay /\ updates = << >>
      /\ params = [p \in Params |-> Unset]
  BY DEF ParamInit, AdminInit
<1>2. Len(updates) = 0 /\ updates \in Seq(PendingUpdate)
  BY <1>1, EmptySeq
<1>3. ParamTypeOK
  BY <1>1, <1>2, ParamAssumption DEF ParamTypeOK
<1>4. \A p \in Params : Committed(p)
  BY <1>1, <1>2 DEF Committed, DoneFor
<1>5. QED
  BY <1>1, <1>2, <1>3, <1>4 DEF ParamInv

LEMMA CommittedFollows == ParamInv => CommittedWasAnnounced
<1> SUFFICES ASSUME ParamInv, NEW p \in Params
             PROVE  LET done == {i \in DOMAIN updates : updates[i].param = p /\ updates[i].done} IN
                    IF done = {} THEN params[p] = Unset
                    ELSE /\ params[p] \in {updates[i].value : i \in done}
                         /\ ValidParam(p, params[p])
                         /\ \A i \in done : now >= updates[i].at + MinParamDelay
  BY DEF CommittedWasAnnounced
<1>1. /\ Committed(p) /\ now \in Nat /\ MinParamDelay \in Nat
      /\ DOMAIN updates = 1 .. Len(updates)
      /\ \A i \in 1 .. Len(updates) : updates[i] \in PendingUpdate /\ UpdateOK(updates[i])
  BY UpdatesFacts, ParamAssumption DEF ParamInv
<1>2. {i \in DOMAIN updates : updates[i].param = p /\ updates[i].done} = DoneFor(p)
  BY <1>1 DEF DoneFor
<1>3. ASSUME NEW i \in DoneFor(p)
      PROVE  ValidParam(p, updates[i].value) /\ now >= updates[i].at + MinParamDelay
  <2>1. /\ updates[i].at \in Nat /\ updates[i].due \in Nat /\ updates[i].param = p
        /\ updates[i].done /\ UpdateOK(updates[i])
    BY <1>1, <1>3 DEF DoneFor, PendingUpdate
  <2>2. QED
    BY <1>1, <2>1 DEF UpdateOK
<1>4. QED
  BY <1>1, <1>2, <1>3 DEF Committed

\* The queue the refinement mapping shows to the abstract specification.
Shown(r) == [due |-> r.due, done |-> r.done]
ShownAll(us) == [i \in 1 .. Len(us) |-> Shown(us[i])]
Entry == [due : Nat, done : BOOLEAN]

LEMMA ShownType ==
  ASSUME NEW us \in Seq(PendingUpdate)
  PROVE  /\ ShownAll(us) \in Seq(Entry) /\ Len(ShownAll(us)) = Len(us)
         /\ \A i \in 1 .. Len(us) : ShownAll(us)[i] = Shown(us[i]) /\ Shown(us[i]) \in Entry
<1>1. Len(us) \in Nat /\ \A i \in 1 .. Len(us) : us[i] \in PendingUpdate
  BY LenProperties
<1>2. \A i \in 1 .. Len(us) : Shown(us[i]) \in Entry
  BY <1>1 DEF Shown, Entry, PendingUpdate
<1>3. QED
  BY <1>1, <1>2, IsASeq, LenProperties DEF ShownAll

LEMMA ParamRefinementInit == ParamInit /\ AdminInit => ParamTimelock!QueueInit
BY ParamAssumption, EmptySeq DEF ParamInit, AdminInit, ParamTimelock!QueueInit, ParamQueue

LEMMA ParamRefinementStep ==
  ASSUME ParamInv, ParamStep
  PROVE  [ParamTimelock!QueueNext]_(ParamTimelock!queueVars)
<1>1. /\ now \in Nat /\ paramDelay \in Nat /\ MinParamDelay \in Nat
      /\ updates \in Seq(PendingUpdate) /\ Len(updates) \in Nat
      /\ DOMAIN updates = 1 .. Len(updates)
      /\ \A i \in 1 .. Len(updates) : updates[i] \in PendingUpdate
  BY UpdatesFacts, ParamAssumption DEF ParamInv, ParamTypeOK
<1>2. ParamQueue = ShownAll(updates) /\ ParamQueue' = ShownAll(updates')
  BY DEF ParamQueue, ShownAll, Shown
<1>3. ShownAll(updates) \in Seq(Entry) /\ Len(ShownAll(updates)) = Len(updates)
      /\ \A i \in 1 .. Len(updates) : ShownAll(updates)[i] = Shown(updates[i])
  BY <1>1, ShownType
<1>4. CASE UNCHANGED << now, paramVars >>
  BY <1>4 DEF ParamTimelock!queueVars, ParamQueue, paramVars
<1>5. ASSUME NEW a \in Addresses, NEW d \in ParamDelays, SetTimelockDelay(a, d), UNCHANGED now
      PROVE  ParamTimelock!SetDelay
  BY <1>5, ParamAssumption
  DEF SetTimelockDelay, AdmissibleDelay, ParamTimelock!SetDelay, ParamQueue
<1>6. ASSUME NEW a \in Addresses, NEW p \in Params, NEW v \in ParamValues,
             ProposeUpdate(a, p, v), UNCHANGED now
      PROVE  ParamTimelock!Announce
  <2> DEFINE r == [param |-> p, value |-> v, at |-> now, due |-> now + paramDelay, done |-> FALSE]
             e == [due |-> now + paramDelay, done |-> FALSE]
             n == Len(updates)
             q == ShownAll(updates)
             s == ShownAll(updates')
  <2>1. r \in PendingUpdate /\ Shown(r) = e
    BY <1>1 DEF PendingUpdate, Shown
  <2>2. updates' = Append(updates, r) /\ UNCHANGED paramDelay
    BY <1>6 DEF ProposeUpdate
  <2> HIDE DEF r, e
  <2>3. /\ updates' \in Seq(PendingUpdate) /\ Len(updates') = n + 1 /\ updates'[n + 1] = r
        /\ \A i \in 1 .. n : updates'[i] = updates[i]
    BY <1>1, <2>1, <2>2, AppendProperties
  <2>4. s \in Seq(Entry) /\ Len(s) = n + 1 /\ \A i \in 1 .. n + 1 : s[i] = Shown(updates'[i])
    <3>1. s \in Seq(Entry) /\ Len(s) = Len(updates')
          /\ \A i \in 1 .. Len(updates') : s[i] = Shown(updates'[i])
      BY <2>3, ShownType
    <3>2. QED
      BY <2>3, <3>1
  <2>5. e \in Entry
    <3>1. Shown(r) \in Entry
      BY <2>1 DEF Shown, Entry, PendingUpdate
    <3>2. QED
      BY <2>1, <3>1
  <2>6. /\ Append(q, e) \in Seq(Entry) /\ Len(Append(q, e)) = n + 1 /\ Append(q, e)[n + 1] = e
        /\ \A i \in 1 .. n : Append(q, e)[i] = q[i]
    BY <1>3, <2>5, AppendProperties
  <2>7. \A i \in 1 .. n + 1 : s[i] = Append(q, e)[i]
    <3>1. \A i \in 1 .. n : s[i] = Append(q, e)[i]
      <4>1. \A i \in 1 .. n : i \in 1 .. n + 1
        BY <1>1
      <4>2. QED
        BY <1>3, <2>3, <2>4, <2>6, <4>1
    <3>2. s[n + 1] = Append(q, e)[n + 1]
      <4>1. n + 1 \in 1 .. n + 1
        BY <1>1
      <4>2. QED
        BY <2>1, <2>3, <2>4, <2>6, <4>1
    <3>3. \A i \in 1 .. n + 1 : i \in 1 .. n \/ i = n + 1
      BY <1>1
    <3>4. QED
      BY <3>1, <3>2, <3>3
  <2> DEFINE x == Append(q, e)
  <2> HIDE DEF q, s, n, x
  <2>8. s = x
    BY <2>4, <2>6, <2>7, SeqEqual DEF x
  <2>9. QED
    BY <1>2, <1>6, <2>2, <2>8 DEF ParamTimelock!Announce, q, s, e, x
<1>7. ASSUME NEW a \in Addresses, NEW i \in DOMAIN updates, ExecuteUpdate(a, i), UNCHANGED now
      PROVE  \E k \in 1 .. Len(ParamQueue) : ParamTimelock!CarryOut(k)
  <2> DEFINE n == Len(updates)
             old == updates[i]
             r == [old EXCEPT !.done = TRUE]
             q == ShownAll(updates)
             s == ShownAll(updates')
             x == [q EXCEPT ![i].done = TRUE]
  <2>1. /\ i \in 1 .. n /\ old \in PendingUpdate /\ ~ old.done /\ now >= old.due
        /\ updates' = [updates EXCEPT ![i] = r] /\ UNCHANGED paramDelay
    BY <1>1, <1>7 DEF ExecuteUpdate, Due
  <2>2. q[i] = Shown(old) /\ q[i] \in Entry /\ q[i].due = old.due /\ q[i].done = old.done
    <3>1. q[i] = Shown(old)
      BY <1>3, <2>1
    <3>2. QED
      BY <2>1, <3>1 DEF Shown, Entry, PendingUpdate
  <2>3. r \in PendingUpdate /\ r.due = old.due /\ r.done = TRUE
    BY <2>1 DEF PendingUpdate
  <2>4. Shown(r) = [due |-> old.due, done |-> TRUE]
    BY <2>3 DEF Shown
  <2> HIDE DEF r, old
  <2>5. /\ updates' \in Seq(PendingUpdate) /\ Len(updates') = n
        /\ \A j \in 1 .. n : updates'[j] = IF j = i THEN r ELSE updates[j]
    BY <1>1, <2>1, <2>3, ExceptSeq
  <2>6. s \in Seq(Entry) /\ Len(s) = n /\ \A j \in 1 .. n : s[j] = Shown(updates'[j])
    BY <2>5, ShownType
  <2> DEFINE e == [q[i] EXCEPT !.done = TRUE]
  <2>7. e \in Entry /\ e = [due |-> old.due, done |-> TRUE]
    <3> DEFINE y == q[i]
             w == [y EXCEPT !.done = TRUE]
    <3>1. y \in Entry /\ y.due = old.due
      BY <2>2
    <3> HIDE DEF y
    <3>2. w \in Entry /\ w.due = y.due /\ w.done = TRUE
      BY <3>1 DEF Entry
    <3> HIDE DEF w
    <3>3. w = [due |-> w.due, done |-> w.done]
      BY <3>2 DEF Entry
    <3>4. QED
      BY <3>1, <3>2, <3>3 DEF w, y
  <2> HIDE DEF e
  <2>8. x = [q EXCEPT ![i] = e]
    BY DEF e
  <2> HIDE DEF x
  <2>9. /\ x \in Seq(Entry) /\ Len(x) = n
        /\ \A j \in 1 .. n : x[j] = IF j = i THEN e ELSE q[j]
    <3>1. q \in Seq(Entry) /\ Len(q) = n /\ i \in 1 .. n
      BY <1>3, <2>1
    <3> HIDE DEF q, n
    <3>2. QED
      BY <3>1, <2>7, <2>8, ExceptSeq
  <2> HIDE DEF q, s, n
  <2>10. \A j \in 1 .. n : s[j] = x[j]
    BY <1>3, <2>4, <2>5, <2>6, <2>7, <2>9 DEF q, n
  <2>11. s = x
    BY <2>6, <2>9, <2>10, SeqEqual
  <2>12. Len(ParamQueue) = n
    BY <1>2, <1>3 DEF n
  <2>13. ParamTimelock!CarryOut(i)
    BY <1>2, <1>7, <2>1, <2>2, <2>11 DEF ParamTimelock!CarryOut, q, s, x, old
  <2>14. QED
    BY <2>1, <2>12, <2>13
<1>8. ASSUME NEW dt \in TimeSteps, now' = now + dt, UNCHANGED paramVars
      PROVE  ParamTimelock!TimePasses
  BY <1>1, <1>8, AdminAssumption DEF paramVars, ParamTimelock!TimePasses, ParamQueue
<1>9. QED
  BY <1>4, <1>5, <1>6, <1>7, <1>8 DEF ParamStep, ParamTimelock!QueueNext

-----------------------------------------------------------------------------
(* Proposals *)

Vote == [option : Options \union {"None"}, power : Nat]
Sheet == [Addresses -> Vote]

\* The votes of a sheet for an option.
Worth(sheet, option) ==
  [a \in Addresses |-> IF sheet[a].option = option THEN sheet[a].power ELSE 0]
Tally(sheet, option) == SumFunction(Worth(sheet, option))

LEMMA TallyType ==
  ASSUME NEW sheet \in Sheet, NEW option
  PROVE  /\ Tally(sheet, option) \in Nat
         /\ Tally(sheet, option) = SumFunctionOnSet(Worth(sheet, option), Addresses)
         /\ \A a \in Addresses : Worth(sheet, option)[a] \in Nat
<1>1. \A a \in Addresses : sheet[a] \in Vote
  BY DEF Sheet
<1>2. \A a \in Addresses : Worth(sheet, option)[a] \in Nat
  BY <1>1 DEF Worth, Vote
<1>3. Tally(sheet, option) = SumFunctionOnSet(Worth(sheet, option), Addresses)
  BY DEF Tally, Worth, SumFunction
<1> DEFINE f == Worth(sheet, option)
<1> HIDE DEF f
<1>4. SumFunctionOnSet(f, Addresses) \in Nat
  <2>1. IsFiniteSet(Addresses) /\ \A a \in Addresses : f[a] \in Nat
    BY <1>2, ProposalAssumption DEF f
  <2>2. QED
    BY <2>1, SumType
<1>5. QED
  BY <1>2, <1>3, <1>4 DEF f

\* A sheet nobody has voted on counts for nothing.
LEMMA TallyEmpty ==
  ASSUME NEW option \in Options
  PROVE  LET sheet == [a \in Addresses |-> NoVote] IN
         sheet \in Sheet /\ Tally(sheet, option) = 0
<1> DEFINE sheet == [a \in Addresses |-> NoVote]
           f == Worth(sheet, option)
<1>1. NoVote \in Vote /\ NoVote.option = "None"
  BY DEF NoVote, Vote
<1>2. sheet \in Sheet
  BY <1>1 DEF Sheet
<1>3. IsFiniteSet(Addresses) /\ \A a \in Addresses : f[a] = 0
  BY <1>1, ProposalAssumption DEF Worth, Options
<1>4. Tally(sheet, option) = SumFunctionOnSet(f, Addresses)
  BY <1>2, TallyType
<1> HIDE DEF f
<1>5. SumFunctionOnSet(f, Addresses) = 0
  BY <1>3, SumZero
<1>6. QED
  BY <1>2, <1>4, <1>5

\* A sheet with one more vote.
Voted(sheet, voter, option, n) == [sheet EXCEPT ![voter] = [option |-> option, power |-> n]]

\* A first vote of somebody adds its power to its option.
LEMMA TallyVote ==
  ASSUME NEW sheet \in Sheet, NEW voter \in Addresses, sheet[voter] = NoVote,
         NEW option \in Options, NEW n \in Nat
  PROVE  /\ Voted(sheet, voter, option, n) \in Sheet
         /\ \A o \in Options : Tally(Voted(sheet, voter, option, n), o) =
                               Tally(sheet, o) + IF o = option THEN n ELSE 0
<1> DEFINE v == [option |-> option, power |-> n]
           after == Voted(sheet, voter, option, n)
<1>1. v \in Vote /\ v.option = option /\ v.power = n /\ after = [sheet EXCEPT ![voter] = v]
  BY DEF Vote, Voted
<1> HIDE DEF v, after
<1>2. /\ after \in Sheet /\ after[voter] = v
      /\ \A a \in Addresses : a # voter => after[a] = sheet[a]
  BY <1>1 DEF Sheet
<1>3. SUFFICES ASSUME NEW o \in Options
               PROVE  Tally(after, o) = Tally(sheet, o) + IF o = option THEN n ELSE 0
  BY <1>2 DEF after
<1> DEFINE f == Worth(sheet, o)
           g == Worth(after, o)
<1>4. /\ f[voter] = 0 /\ g[voter] = IF o = option THEN n ELSE 0
      /\ \A a \in Addresses : a # voter => g[a] = f[a]
  BY <1>1, <1>2 DEF Worth, NoVote, Options
<1>5. /\ Tally(sheet, o) = SumFunctionOnSet(f, Addresses) /\ Tally(sheet, o) \in Nat
      /\ Tally(after, o) = SumFunctionOnSet(g, Addresses)
      /\ \A a \in Addresses : f[a] \in Nat
  BY <1>2, TallyType
<1> HIDE DEF f, g
<1>6. IsFiniteSet(Addresses) /\ (\A a \in Addresses : f[a] \in Int) /\ g[voter] \in Int
  BY <1>4, <1>5, ProposalAssumption
<1>7. SumFunctionOnSet(g, Addresses) = SumFunctionOnSet(f, Addresses) - f[voter] + g[voter]
  BY <1>4, <1>6, SumChange
<1>8. QED
  BY <1>4, <1>5, <1>7

\* Quorum and approval, met by the tallies of the record.
Met(r) ==
  /\ r.for + r.against >= r.quorum
  /\ r.for * 10000 >= r.approval * (r.for + r.against)

ProposalOK(r, sheet) ==
  /\ r \in ProposalRecord
  /\ sheet \in Sheet
  /\ r.for = Tally(sheet, "For")
  /\ r.against = Tally(sheet, "Against")
  /\ r.abstain = Tally(sheet, "Abstain")
  /\ r.executed <=> r.status = "Executed"
  /\ r.executed => Met(r) /\ now >= r.end

Sheets ==
  /\ proposals \in Seq(ProposalRecord)
  /\ votes \in Seq(Sheet)
  /\ Len(votes) = Len(proposals)
  /\ \A p \in 1 .. Len(proposals) : ProposalOK(proposals[p], votes[p])

GovInv ==
  /\ AdminTypeOK
  /\ ParamInv
  /\ power \in [Addresses -> Nat]
  /\ config \in GovernanceConfig /\ ValidConfig(config)
  /\ lastProposal \in [Addresses -> Nat]
  /\ pausedFlag \in BOOLEAN
  /\ signers \subseteq Addresses
  /\ Sheets

LEMMA DivMul ==
  ASSUME NEW x \in Nat, NEW y \in Nat, y > 0, NEW k \in Nat, x \div y >= k
  PROVE  x >= k * y
<1>1. x \div y \in Nat /\ (x \div y) * y <= x
  OBVIOUS
<1> DEFINE q == x \div y
<1> HIDE DEF q
<1>2. q \in Nat /\ q * y <= x /\ q >= k
  BY <1>1 DEF q
<1>3. k * y <= q * y
  BY <1>2
<1>4. k * y \in Nat /\ q * y \in Nat
  BY <1>2
<1>5. QED
  BY <1>2, <1>3, <1>4

\* finalize_proposal's division and the comparison it stands for.
LEMMA CarriedIsMet ==
  ASSUME NEW r \in ProposalRecord, Carried(r) PROVE Met(r)
<1> DEFINE f == r.for
           cast == r.for + r.against
           k == r.approval
<1>1. f \in Nat /\ cast \in Nat /\ k \in Nat /\ f <= cast
  BY DEF ProposalRecord
<1>2. cast >= r.quorum /\ (IF cast > 0 THEN (f * 10000) \div cast ELSE 0) >= k
  BY DEF Carried
<1> HIDE DEF f, cast, k
<1>3. f * 10000 >= k * cast
  <2>1. CASE cast > 0
    <3> DEFINE x == f * 10000
    <3>1. x \in Nat
      BY <1>1
    <3>2. x \div cast >= k
      BY <1>2, <2>1
    <3> HIDE DEF x
    <3>3. x >= k * cast
      BY <1>1, <2>1, <3>1, <3>2, DivMul
    <3>4. QED
      BY <3>3 DEF x
  <2>2. CASE cast = 0
    BY <1>1, <1>2, <2>2
  <2>3. QED
    BY <1>1, <2>1, <2>2
<1>4. QED
  BY <1>2, <1>3 DEF Met, f, cast, k

\* The records of a proposal before and after a vote, a cancellation and an
\* execution.
Unmoved(r, t) ==
  /\ t \in ProposalRecord
  /\ t.end = r.end /\ t.quorum = r.quorum /\ t.approval = r.approval

LEMMA ForSet ==
  ASSUME NEW s \in Seq(ProposalRecord), NEW p \in 1 .. Len(s), NEW v \in Nat
  PROVE  LET t == [s EXCEPT ![p].for = v] IN
         /\ t \in Seq(ProposalRecord) /\ Len(t) = Len(s)
         /\ \A i \in 1 .. Len(s) : i # p => t[i] = s[i]
         /\ Unmoved(s[p], t[p]) /\ t[p].status = s[p].status /\ t[p].executed = s[p].executed
         /\ t[p].for = v /\ t[p].against = s[p].against /\ t[p].abstain = s[p].abstain
<1> DEFINE r == s[p]
           c == [r EXCEPT !.for = v]
           t == [s EXCEPT ![p] = c]
<1>1. r \in ProposalRecord
  OBVIOUS
<1> HIDE DEF r
<1>2. /\ Unmoved(r, c) /\ c.status = r.status /\ c.executed = r.executed
      /\ c.for = v /\ c.against = r.against /\ c.abstain = r.abstain
  BY <1>1 DEF ProposalRecord, Unmoved
<1> HIDE DEF c
<1>3. /\ t \in Seq(ProposalRecord) /\ Len(t) = Len(s)
      /\ \A i \in 1 .. Len(s) : t[i] = IF i = p THEN c ELSE s[i]
  BY <1>2, ExceptSeq DEF Unmoved
<1>4. t = [s EXCEPT ![p].for = v]
  BY DEF c, r
<1> HIDE DEF t
<1>5. QED
  BY <1>2, <1>3, <1>4 DEF r

LEMMA AgainstSet ==
  ASSUME NEW s \in Seq(ProposalRecord), NEW p \in 1 .. Len(s), NEW v \in Nat
  PROVE  LET t == [s EXCEPT ![p].against = v] IN
         /\ t \in Seq(ProposalRecord) /\ Len(t) = Len(s)
         /\ \A i \in 1 .. Len(s) : i # p => t[i] = s[i]
         /\ Unmoved(s[p], t[p]) /\ t[p].status = s[p].status /\ t[p].executed = s[p].executed
         /\ t[p].for = s[p].for /\ t[p].against = v /\ t[p].abstain = s[p].abstain
<1> DEFINE r == s[p]
           c == [r EXCEPT !.against = v]
           t == [s EXCEPT ![p] = c]
<1>1. r \in ProposalRecord
  OBVIOUS
<1> HIDE DEF r
<1>2. /\ Unmoved(r, c) /\ c.status = r.status /\ c.executed = r.executed
      /\ c.for = r.for /\ c.against = v /\ c.abstain = r.abstain
  BY <1>1 DEF ProposalRecord, Unmoved
<1> HIDE DEF c
<1>3. /\ t \in Seq(ProposalRecord) /\ Len(t) = Len(s)
      /\ \A i \in 1 .. Len(s) : t[i] = IF i = p THEN c ELSE s[i]
  BY <1>2, ExceptSeq DEF Unmoved
<1>4. t = [s EXCEPT ![p].against = v]
  BY DEF c, r
<1> HIDE DEF t
<1>5. QED
  BY <1>2, <1>3, <1>4 DEF r

LEMMA AbstainSet ==
  ASSUME NEW s \in Seq(ProposalRecord), NEW p \in 1 .. Len(s), NEW v \in Nat
  PROVE  LET t == [s EXCEPT ![p].abstain = v] IN
         /\ t \in Seq(ProposalRecord) /\ Len(t) = Len(s)
         /\ \A i \in 1 .. Len(s) : i # p => t[i] = s[i]
         /\ Unmoved(s[p], t[p]) /\ t[p].status = s[p].status /\ t[p].executed = s[p].executed
         /\ t[p].for = s[p].for /\ t[p].against = s[p].against /\ t[p].abstain = v
<1> DEFINE r == s[p]
           c == [r EXCEPT !.abstain = v]
           t == [s EXCEPT ![p] = c]
<1>1. r \in ProposalRecord
  OBVIOUS
<1> HIDE DEF r
<1>2. /\ Unmoved(r, c) /\ c.status = r.status /\ c.executed = r.executed
      /\ c.for = r.for /\ c.against = r.against /\ c.abstain = v
  BY <1>1 DEF ProposalRecord, Unmoved
<1> HIDE DEF c
<1>3. /\ t \in Seq(ProposalRecord) /\ Len(t) = Len(s)
      /\ \A i \in 1 .. Len(s) : t[i] = IF i = p THEN c ELSE s[i]
  BY <1>2, ExceptSeq DEF Unmoved
<1>4. t = [s EXCEPT ![p].abstain = v]
  BY DEF c, r
<1> HIDE DEF t
<1>5. QED
  BY <1>2, <1>3, <1>4 DEF r

\* A status, and with it whether the proposal counts as executed and since when.
LEMMA StatusSet ==
  ASSUME NEW r \in ProposalRecord, NEW status \in {"Active", "Executed", "Cancelled"}
  PROVE  LET c == [r EXCEPT !.status = status] IN
         /\ Unmoved(r, c) /\ c.status = status /\ c.executed = r.executed
         /\ c.for = r.for /\ c.against = r.against /\ c.abstain = r.abstain
BY DEF ProposalRecord, Unmoved

LEMMA ExecutionSet ==
  ASSUME NEW r \in ProposalRecord, NEW at \in Nat
  PROVE  LET c == [r EXCEPT !.executed = TRUE, !.status = "Executed", !.executableAt = at] IN
         /\ Unmoved(r, c) /\ c.status = "Executed" /\ c.executed = TRUE
         /\ c.for = r.for /\ c.against = r.against /\ c.abstain = r.abstain
<1> DEFINE c1 == [r EXCEPT !.executed = TRUE]
           c2 == [c1 EXCEPT !.status = "Executed"]
           c3 == [c2 EXCEPT !.executableAt = at]
<1>1. /\ Unmoved(r, c1) /\ c1.executed = TRUE
      /\ c1.for = r.for /\ c1.against = r.against /\ c1.abstain = r.abstain
  BY DEF ProposalRecord, Unmoved
<1> HIDE DEF c1
<1>2. /\ Unmoved(r, c2) /\ c2.status = "Executed" /\ c2.executed = TRUE
      /\ c2.for = r.for /\ c2.against = r.against /\ c2.abstain = r.abstain
  BY <1>1, StatusSet DEF Unmoved
<1> HIDE DEF c2
<1>3. /\ Unmoved(r, c3) /\ c3.status = "Executed" /\ c3.executed = TRUE
      /\ c3.for = r.for /\ c3.against = r.against /\ c3.abstain = r.abstain
  BY <1>2 DEF ProposalRecord, Unmoved
<1>4. QED
  BY <1>3 DEF c1, c2

LEMMA ActionFacts ==
  ASSUME NEW x \in ProposalActions
  PROVE  /\ x = [kind |-> x.kind, value |-> x.value]
         /\ x.kind \in {"Quorum", "Approval"} => x.value \in Int
         /\ x.kind = "AdminUpgrade" => x.value \in Addresses
         /\ x.kind = "Pause" => x.value \in BOOLEAN
<1>1. x \in ActionKinds
  BY ProposalAssumption
<1>2. CASE x \in [kind : {"Param", "Quorum", "Approval"}, value : Int]
  BY <1>2
<1>3. CASE x \in [kind : {"AdminUpgrade"}, value : Addresses]
  BY <1>3
<1>4. CASE x \in [kind : {"Pause"}, value : BOOLEAN]
  BY <1>4
<1>5. QED
  BY <1>1, <1>2, <1>3, <1>4 DEF ActionKinds

LEMMA SheetsFacts ==
  ASSUME Sheets
  PROVE  /\ Len(proposals) \in Nat /\ DOMAIN proposals = 1 .. Len(proposals)
         /\ \A p \in 1 .. Len(proposals) :
              proposals[p] \in ProposalRecord /\ votes[p] \in Sheet /\ proposals[p].end \in Nat
BY LenProperties DEF Sheets, ProposalOK, ProposalRecord

LEMMA SheetsKept ==
  ASSUME Sheets, now \in Nat, now' \in Nat, now' >= now, UNCHANGED << proposals, votes >>
  PROVE  Sheets'
<1>1. \A p \in 1 .. Len(proposals) :
        ProposalOK(proposals[p], votes[p]) /\ proposals[p].end \in Nat
  BY SheetsFacts DEF Sheets
<1>2. \A p \in 1 .. Len(proposals) : proposals[p].executed => now' >= proposals[p].end
  BY <1>1 DEF ProposalOK
<1>3. \A p \in 1 .. Len(proposals) : ProposalOK(proposals[p], votes[p])'
  BY <1>1, <1>2 DEF ProposalOK
<1>4. QED
  BY <1>3 DEF Sheets

\* A step that replaces one proposal and its sheet.
LEMMA SheetsChange ==
  ASSUME Sheets, UNCHANGED now, NEW p \in 1 .. Len(proposals), NEW r, NEW v, ProposalOK(r, v),
         proposals' \in Seq(ProposalRecord), Len(proposals') = Len(proposals),
         proposals'[p] = r, \A i \in 1 .. Len(proposals) : i # p => proposals'[i] = proposals[i],
         votes' \in Seq(Sheet), Len(votes') = Len(votes),
         votes'[p] = v, \A i \in 1 .. Len(proposals) : i # p => votes'[i] = votes[i]
  PROVE  Sheets'
<1>1. \A i \in 1 .. Len(proposals) : ProposalOK(proposals'[i], votes'[i])
  BY DEF Sheets
<1>2. QED
  BY <1>1 DEF Sheets, ProposalOK

\* A step that adds a proposal with a sheet of its own.
LEMMA SheetsGrow ==
  ASSUME Sheets, UNCHANGED now, NEW r, NEW v, ProposalOK(r, v),
         proposals' = Append(proposals, r), votes' = Append(votes, v)
  PROVE  Sheets'
<1> DEFINE n == Len(proposals)
<1>1. /\ n \in Nat /\ Len(votes) = n /\ proposals \in Seq(ProposalRecord) /\ votes \in Seq(Sheet)
      /\ r \in ProposalRecord /\ v \in Sheet
  BY SheetsFacts DEF Sheets, ProposalOK
<1>2. /\ proposals' \in Seq(ProposalRecord) /\ Len(proposals') = n + 1
      /\ proposals'[n + 1] = r /\ \A i \in 1 .. n : proposals'[i] = proposals[i]
  BY <1>1, AppendProperties
<1>3. /\ votes' \in Seq(Sheet) /\ Len(votes') = n + 1
      /\ votes'[n + 1] = v /\ \A i \in 1 .. n : votes'[i] = votes[i]
  BY <1>1, AppendProperties
<1>4. \A i \in 1 .. n + 1 : i \in 1 .. n \/ i = n + 1
  BY <1>1
<1>5. \A i \in 1 .. n + 1 : ProposalOK(proposals'[i], votes'[i])
  BY <1>2, <1>3, <1>4 DEF Sheets
<1>6. QED
  BY <1>2, <1>3, <1>5 DEF Sheets, ProposalOK

LEMMA TotalPowerType == ASSUME power \in [Addresses -> Nat] PROVE TotalPower \in Nat
<1>1. IsFiniteSet(Addresses) /\ \A a \in Addresses : power[a] \in Nat
  BY ProposalAssumption
<1>2. DOMAIN power = Addresses
  OBVIOUS
<1> DEFINE f == power
<1>3. SumFunctionOnSet(f, Addresses) \in Nat
  <2> HIDE DEF f
  <2>1. IsFiniteSet(Addresses) /\ \A a \in Addresses : f[a] \in Nat
    BY <1>1 DEF f
  <2>2. QED
    BY <2>1, SumType
<1>4. QED
  BY <1>2, <1>3 DEF TotalPower, SumFunction

-----------------------------------------------------------------------------
(* Steps of the whole *)

LEMMA GovIsParamStep == ASSUME [GovNext]_govVars PROVE ParamStep
<1>1. CASE UNCHANGED govVars
  BY <1>1 DEF govVars, adminVars, ParamStep
<1>2. CASE ProposalNext /\ UNCHANGED << adminVars, paramVars >>
  BY <1>2 DEF adminVars, ParamStep
<1>3. CASE \E signed \in SUBSET Addresses, p \in DOMAIN proposals : ExecuteProposal(signed, p)
  BY <1>3 DEF ExecuteProposal, ParamStep
<1>4. CASE ParamNext /\ UNCHANGED << adminVars, proposalVars >>
  BY <1>4 DEF ParamNext, adminVars, ParamStep
<1>5. CASE \E a, b \in Addresses :
        /\ SetAdmin(a, b) /\ signers' = {a}
        /\ UNCHANGED << paramVars, power, config, proposals, votes, lastProposal, pausedFlag,
                       feeSetting >>
  BY <1>5 DEF SetAdmin, ParamStep
<1>6. CASE \E dt \in TimeSteps : AdvanceTime(dt) /\ UNCHANGED << paramVars, proposalVars >>
  BY <1>6 DEF AdvanceTime, ParamStep
<1>7. QED
  BY <1>1, <1>2, <1>3, <1>4, <1>5, <1>6 DEF GovNext

LEMMA GovInitInv == GovInit => GovInv
<1> SUFFICES ASSUME GovInit PROVE GovInv
  OBVIOUS
<1>1. ParamInv
  BY ParamInitInv DEF GovInit
<1>2. AdminTypeOK
  BY AdminAssumption DEF GovInit, AdminInit, AdminTypeOK
<1>3. /\ power \in [Addresses -> Nat] /\ lastProposal \in [Addresses -> Nat]
      /\ pausedFlag \in BOOLEAN /\ signers \subseteq Addresses
  BY DEF GovInit, ProposalInit
<1>4. config \in GovernanceConfig /\ ValidConfig(config)
  BY ProposalAssumption, DefaultIsValid DEF GovInit, ProposalInit
<1>5. proposals = << >> /\ votes = << >>
  BY DEF GovInit, ProposalInit
<1>6. Sheets
  BY <1>5, EmptySeq DEF Sheets
<1>7. QED
  BY <1>1, <1>2, <1>3, <1>4, <1>6 DEF GovInv

\* A vote: its sheet gets it, and the tally it goes to its power.
LEMMA CastVoteSheets ==
  ASSUME Sheets, power \in [Addresses -> Nat], UNCHANGED now,
         NEW voter \in Addresses, NEW p \in DOMAIN proposals, NEW option \in Options,
         CastVote(voter, p, option)
  PROVE  Sheets'
<1> DEFINE r == proposals[p]
           sheet == votes[p]
           n == power[voter]
           x == r.for + (IF option = "For" THEN n ELSE 0)
           y == r.against + (IF option = "Against" THEN n ELSE 0)
           z == r.abstain + (IF option = "Abstain" THEN n ELSE 0)
           v == [sheet EXCEPT ![voter] = [option |-> option, power |-> n]]
           s0 == proposals
           s1 == [s0 EXCEPT ![p].for = x]
           s2 == [s1 EXCEPT ![p].against = y]
           s3 == [s2 EXCEPT ![p].abstain = z]
<1>1. /\ p \in 1 .. Len(s0) /\ Len(s0) \in Nat /\ s0 \in Seq(ProposalRecord)
      /\ votes \in Seq(Sheet) /\ Len(votes) = Len(s0) /\ r \in ProposalRecord /\ sheet \in Sheet
      /\ ProposalOK(r, sheet) /\ r = s0[p]
  BY SheetsFacts DEF Sheets
<1>2. /\ r.status = "Active" /\ sheet[voter] = NoVote /\ n \in Nat
      /\ votes' = [votes EXCEPT ![p][voter] = [option |-> option, power |-> n]]
  BY DEF CastVote, MayVote
<1>3. proposals' = s3
  BY DEF CastVote
<1>4. r.for \in Nat /\ r.against \in Nat /\ r.abstain \in Nat
  BY <1>1 DEF ProposalRecord
<1>5. x \in Nat /\ y \in Nat /\ z \in Nat
  BY <1>2, <1>4
<1>6. /\ x = r.for + (IF "For" = option THEN n ELSE 0)
      /\ y = r.against + (IF "Against" = option THEN n ELSE 0)
      /\ z = r.abstain + (IF "Abstain" = option THEN n ELSE 0)
  OBVIOUS
<1>7. votes' = [votes EXCEPT ![p] = v]
  BY <1>2
<1> HIDE DEF x, y, z, r, s0
<1>8. /\ s1 \in Seq(ProposalRecord) /\ Len(s1) = Len(s0)
      /\ \A i \in 1 .. Len(s0) : i # p => s1[i] = s0[i]
      /\ Unmoved(r, s1[p]) /\ s1[p].status = r.status /\ s1[p].executed = r.executed
      /\ s1[p].for = x /\ s1[p].against = r.against /\ s1[p].abstain = r.abstain
  BY <1>1, <1>5, ForSet
<1> HIDE DEF s1
<1>9. /\ s2 \in Seq(ProposalRecord) /\ Len(s2) = Len(s1)
      /\ \A i \in 1 .. Len(s1) : i # p => s2[i] = s1[i]
      /\ Unmoved(s1[p], s2[p]) /\ s2[p].status = s1[p].status /\ s2[p].executed = s1[p].executed
      /\ s2[p].for = s1[p].for /\ s2[p].against = y /\ s2[p].abstain = s1[p].abstain
  <2>1. s1 \in Seq(ProposalRecord) /\ p \in 1 .. Len(s1) /\ y \in Nat
    BY <1>1, <1>5, <1>8
  <2>2. QED
    BY <2>1, AgainstSet
<1> HIDE DEF s2
<1>10. /\ s3 \in Seq(ProposalRecord) /\ Len(s3) = Len(s2)
       /\ \A i \in 1 .. Len(s2) : i # p => s3[i] = s2[i]
       /\ Unmoved(s2[p], s3[p]) /\ s3[p].status = s2[p].status /\ s3[p].executed = s2[p].executed
       /\ s3[p].for = s2[p].for /\ s3[p].against = s2[p].against /\ s3[p].abstain = z
  <2>1. s2 \in Seq(ProposalRecord) /\ p \in 1 .. Len(s2) /\ z \in Nat
    BY <1>1, <1>5, <1>8, <1>9
  <2>2. QED
    BY <2>1, AbstainSet
<1> HIDE DEF s3, v, sheet, n
<1>11. /\ v \in Sheet
       /\ \A o \in Options : Tally(v, o) = Tally(sheet, o) + IF o = option THEN n ELSE 0
  <2>1. sheet \in Sheet /\ sheet[voter] = NoVote /\ n \in Nat /\ option \in Options
    BY <1>1, <1>2
  <2>2. v = Voted(sheet, voter, option, n)
    BY DEF v, Voted
  <2>3. QED
    BY <2>1, <2>2, TallyVote
<1>12. ProposalOK(s3[p], v)
  <2> DEFINE c == s3[p]
  <2>1. /\ c \in ProposalRecord /\ c.for = x /\ c.against = y /\ c.abstain = z
        /\ c.status = "Active" /\ c.executed = r.executed
    BY <1>2, <1>8, <1>9, <1>10 DEF Unmoved, r
  <2>2. ~ r.executed
    BY <1>1, <1>2 DEF ProposalOK, r
  <2>3. "For" \in Options /\ "Against" \in Options /\ "Abstain" \in Options
    BY DEF Options
  <2>4. x = Tally(v, "For") /\ y = Tally(v, "Against") /\ z = Tally(v, "Abstain")
    BY <1>1, <1>6, <1>11, <2>3 DEF ProposalOK
  <2> HIDE DEF c
  <2>5. ProposalOK(c, v)
    BY <1>1, <1>11, <2>1, <2>2, <2>4 DEF ProposalOK, ProposalRecord
  <2>6. QED
    BY <2>5 DEF c
<1>13. /\ votes' \in Seq(Sheet) /\ Len(votes') = Len(votes)
       /\ \A i \in 1 .. Len(votes) : votes'[i] = IF i = p THEN v ELSE votes[i]
  BY <1>1, <1>7, <1>11, ExceptSeq
<1> DEFINE c == s3[p]
<1>14. /\ proposals' \in Seq(ProposalRecord) /\ Len(proposals') = Len(proposals)
       /\ proposals'[p] = c /\ \A i \in 1 .. Len(proposals) : i # p => proposals'[i] = proposals[i]
  BY <1>3, <1>8, <1>9, <1>10 DEF s0
<1>15. /\ votes' \in Seq(Sheet) /\ Len(votes') = Len(votes)
       /\ votes'[p] = v /\ \A i \in 1 .. Len(proposals) : i # p => votes'[i] = votes[i]
  BY <1>1, <1>13 DEF s0
<1>16. ProposalOK(c, v) /\ p \in 1 .. Len(proposals)
  BY <1>1, <1>12 DEF s0
<1> HIDE DEF c
<1>17. QED
  BY <1>14, <1>15, <1>16, SheetsChange

LEMMA CreateSheets ==
  ASSUME Sheets, now \in Nat, power \in [Addresses -> Nat], config \in GovernanceConfig,
         UNCHANGED now, NEW proposer \in Addresses, NEW action \in ProposalActions,
         NEW period \in Periods, CreateProposal(proposer, action, period)
  PROVE  Sheets'
<1> DEFINE quorum == (config.quorum * TotalPower) \div 10000
           r == [proposer |-> proposer, action |-> action, start |-> now, end |-> now + period,
                 status |-> "Active", for |-> 0, against |-> 0, abstain |-> 0,
                 total |-> TotalPower, quorum |-> quorum, approval |-> config.approval,
                 executableAt |-> 0, executed |-> FALSE]
           v == [a \in Addresses |-> NoVote]
<1>1. TotalPower \in Nat /\ config.quorum \in Nat /\ config.approval \in Nat /\ now + period \in Nat
  BY TotalPowerType, ProposalAssumption DEF GovernanceConfig
<1>2. quorum \in Nat
  <2> DEFINE x == config.quorum * TotalPower
  <2>1. x \in Nat
    BY <1>1
  <2> HIDE DEF x
  <2>2. x \div 10000 \in Nat
    BY <2>1
  <2>3. QED
    BY <2>2 DEF x
<1>3. /\ proposals' = Append(proposals, r) /\ votes' = Append(votes, v)
  BY DEF CreateProposal
<1> HIDE DEF quorum
<1>4. /\ r \in ProposalRecord /\ r.for = 0 /\ r.against = 0 /\ r.abstain = 0
      /\ r.status = "Active" /\ r.executed = FALSE
  BY <1>1, <1>2 DEF ProposalRecord
<1>5. v \in Sheet /\ Tally(v, "For") = 0 /\ Tally(v, "Against") = 0 /\ Tally(v, "Abstain") = 0
  <2>1. "For" \in Options /\ "Against" \in Options /\ "Abstain" \in Options
    BY DEF Options
  <2>2. QED
    BY <2>1, TallyEmpty
<1> HIDE DEF r, v
<1>6. ProposalOK(r, v)
  BY <1>4, <1>5 DEF ProposalOK
<1>7. QED
  BY <1>3, <1>6, SheetsGrow

\* A proposal changes its status, its votes stay.
LEMMA StatusSheets ==
  ASSUME Sheets, UNCHANGED << now, votes >>, NEW p \in DOMAIN proposals, NEW c,
         Unmoved(proposals[p], c), c.for = proposals[p].for, c.against = proposals[p].against,
         c.abstain = proposals[p].abstain, c.executed <=> c.status = "Executed",
         c.executed => Met(proposals[p]) /\ now >= proposals[p].end,
         proposals' = [proposals EXCEPT ![p] = c]
  PROVE  Sheets'
<1> DEFINE r == proposals[p]
           v == votes[p]
<1>1. /\ p \in 1 .. Len(proposals) /\ proposals \in Seq(ProposalRecord) /\ c \in ProposalRecord
      /\ ProposalOK(r, v) /\ votes \in Seq(Sheet) /\ Len(votes) = Len(proposals)
  BY SheetsFacts DEF Sheets, Unmoved
<1>2. /\ proposals' \in Seq(ProposalRecord) /\ Len(proposals') = Len(proposals)
      /\ \A i \in 1 .. Len(proposals) : proposals'[i] = IF i = p THEN c ELSE proposals[i]
  BY <1>1, ExceptSeq
<1>3. c.end = r.end /\ c.quorum = r.quorum /\ c.approval = r.approval
  BY DEF Unmoved
<1>4. /\ c.for = r.for /\ c.against = r.against /\ c.abstain = r.abstain
      /\ c.executed => Met(r) /\ now >= r.end
  OBVIOUS
<1> HIDE DEF r, v
<1>5. ProposalOK(c, v)
  BY <1>1, <1>3, <1>4 DEF ProposalOK, Met
<1>6. votes'[p] = v /\ \A i \in 1 .. Len(proposals) : i # p => votes'[i] = votes[i]
  BY DEF v
<1>7. /\ proposals'[p] = c
      /\ \A i \in 1 .. Len(proposals) : i # p => proposals'[i] = proposals[i]
  BY <1>1, <1>2
<1>8. votes' \in Seq(Sheet) /\ Len(votes') = Len(votes) /\ UNCHANGED now
  BY <1>1
<1>9. QED
  BY <1>1, <1>2, <1>5, <1>6, <1>7, <1>8, SheetsChange

LEMMA CancelSheets ==
  ASSUME Sheets, UNCHANGED now, NEW a \in Addresses, NEW p \in DOMAIN proposals,
         CancelProposal(a, p)
  PROVE  Sheets'
<1> DEFINE r == proposals[p]
           c == [r EXCEPT !.status = "Cancelled"]
<1>1. r \in ProposalRecord /\ ProposalOK(r, votes[p]) /\ r.status = "Active"
  BY SheetsFacts DEF Sheets, CancelProposal
<1>2. proposals' = [proposals EXCEPT ![p] = c] /\ UNCHANGED votes
  BY DEF CancelProposal
<1>3. ~ r.executed
  BY <1>1 DEF ProposalOK
<1> HIDE DEF r
<1>4. /\ Unmoved(r, c) /\ c.status = "Cancelled" /\ c.executed = r.executed
      /\ c.for = r.for /\ c.against = r.against /\ c.abstain = r.abstain
  BY <1>1, StatusSet
<1> HIDE DEF c
<1>5. c.executed <=> c.status = "Executed"
  BY <1>3, <1>4
<1>6. c.executed => Met(r) /\ now >= r.end
  BY <1>3, <1>4
<1>7. QED
  BY <1>2, <1>4, <1>5, <1>6, StatusSheets DEF r

\* What an execution is to the proposal it executes.
LEMMA ExecuteSheets ==
  ASSUME Sheets, now \in Nat, config \in GovernanceConfig, NEW signed, NEW p \in DOMAIN proposals,
         ExecuteProposal(signed, p)
  PROVE  /\ Sheets'
         /\ p \in JustExecuted
         /\ proposals[p].action \in ProposalActions /\ Apply(proposals[p].action)
<1> DEFINE r == proposals[p]
           at == now + config.delay
           c == [r EXCEPT !.executed = TRUE, !.status = "Executed", !.executableAt = at]
<1>1. /\ r \in ProposalRecord /\ p \in 1 .. Len(proposals) /\ proposals \in Seq(ProposalRecord)
      /\ r.action \in ProposalActions
  BY SheetsFacts DEF Sheets, ProposalRecord
<1>2. /\ Carried(r) /\ ~ r.executed /\ now >= r.end /\ Apply(r.action)
      /\ proposals' = [proposals EXCEPT ![p] = c] /\ UNCHANGED << now, votes >>
  BY DEF ExecuteProposal, MayExecute
<1>3. at \in Nat
  BY DEF GovernanceConfig
<1> HIDE DEF r, at
<1>4. /\ Unmoved(r, c) /\ c.status = "Executed" /\ c.executed = TRUE
      /\ c.for = r.for /\ c.against = r.against /\ c.abstain = r.abstain
  BY <1>1, <1>3, ExecutionSet
<1>5. Met(r)
  BY <1>1, <1>2, CarriedIsMet
<1> HIDE DEF c
<1>6. Sheets'
  BY <1>2, <1>4, <1>5, StatusSheets DEF r
<1>7. proposals'[p] = c
  BY <1>1, <1>2, <1>4, ExceptSeq DEF Unmoved
<1>8. QED
  BY <1>1, <1>2, <1>4, <1>6, <1>7 DEF r, JustExecuted

\* What AdminMovesProperly says of one step.
AdminMoves ==
  /\ admin' # admin =>
       \/ signers' = {admin} /\ proposals' = proposals
       \/ \E p \in JustExecuted : IsSuccession(proposals[p].action)
  /\ config' # config =>
       /\ admin \in signers'
       /\ \/ proposals' = proposals
          \/ \E p \in JustExecuted : IsReform(proposals[p].action)

LEMMA AsU32InNat == ASSUME NEW n \in Int PROVE AsU32(n) \in Nat
BY ProposalAssumption DEF AsU32

\* What an executed action leaves behind.
LEMMA Applied ==
  ASSUME admin \in Addresses, config \in GovernanceConfig, ValidConfig(config),
         pausedFlag \in BOOLEAN, NEW x \in ProposalActions, Apply(x)
  PROVE  /\ admin' \in Addresses /\ config' \in GovernanceConfig /\ ValidConfig(config')
         /\ pausedFlag' \in BOOLEAN
         /\ admin' # admin => IsSuccession(x)
         /\ config' # config => x.kind \in {"Quorum", "Approval"} /\ IsReform(x)
<1> DEFINE k == x.kind
           w == x.value
           n == AsU32(w)
<1>1. /\ x = [kind |-> k, value |-> w]
      /\ k \in {"Quorum", "Approval"} => n \in Nat
      /\ k = "AdminUpgrade" => w \in Addresses
      /\ k = "Pause" => w \in BOOLEAN
  BY ActionFacts, AsU32InNat
<1>2. /\ admin' = IF k = "AdminUpgrade" THEN w ELSE admin
      /\ pausedFlag' = IF k = "Pause" THEN w ELSE pausedFlag
  BY DEF Apply
<1>3. /\ k = "Quorum" => config' = [config EXCEPT !.quorum = n] /\ ValidConfig(config')
      /\ k = "Approval" => config' = [config EXCEPT !.approval = n] /\ ValidConfig(config')
      /\ k \notin {"Quorum", "Approval"} => config' = config
  BY DEF Apply, Reconfigured
<1>4. /\ k = "Quorum" /\ config' = [config EXCEPT !.quorum = n] => IsReform(x)
      /\ k = "Approval" /\ config' = [config EXCEPT !.approval = n] => IsReform(x)
  BY DEF IsReform
<1> HIDE DEF n
<1> HIDE DEF k, w
<1>5. admin' \in Addresses /\ (admin' # admin => IsSuccession(x))
  BY <1>1, <1>2 DEF IsSuccession
<1>6. pausedFlag' \in BOOLEAN
  BY <1>1, <1>2, Zenon
<1>7. CASE k = "Quorum"
  BY <1>1, <1>3, <1>4, <1>5, <1>6, <1>7 DEF GovernanceConfig, k
<1>8. CASE k = "Approval"
  BY <1>1, <1>3, <1>4, <1>5, <1>6, <1>8 DEF GovernanceConfig, k
<1>9. CASE k \notin {"Quorum", "Approval"}
  BY <1>3, <1>5, <1>6, <1>9
<1>10. QED
  BY <1>7, <1>8, <1>9

LEMMA GovStep ==
  ASSUME GovInv, [GovNext]_govVars
  PROVE  GovInv' /\ AdminMoves
<1>1. ParamInv'
  BY GovIsParamStep, ParamInvStep DEF GovInv
<1>2. /\ now \in Nat /\ admin \in Addresses /\ sensitiveUsage \in [Addresses -> 0 .. SensitiveLimit]
      /\ SensitiveLimit \in Nat /\ power \in [Addresses -> Nat]
      /\ config \in GovernanceConfig /\ ValidConfig(config)
      /\ lastProposal \in [Addresses -> Nat] /\ pausedFlag \in BOOLEAN
      /\ signers \subseteq Addresses /\ Sheets
  BY AdminAssumption DEF GovInv, AdminTypeOK
<1>3. CASE UNCHANGED govVars
  <2>1. UNCHANGED << now, admin, sensitiveUsage, power, config, proposals, votes,
                     lastProposal, pausedFlag, signers >>
    BY <1>3 DEF govVars, adminVars, proposalVars
  <2>2. Sheets'
    BY <1>2, <2>1, SheetsKept
  <2>3. QED
    BY <1>1, <1>2, <2>1, <2>2 DEF GovInv, AdminTypeOK, AdminMoves, ValidConfig
<1>4. CASE ProposalNext /\ UNCHANGED << adminVars, paramVars >>
  <2>1. UNCHANGED << now, admin, sensitiveUsage >>
    BY <1>4 DEF adminVars
  <2>2. AdminTypeOK'
    BY <1>2, <2>1 DEF AdminTypeOK
  <2>3. ASSUME NEW a \in Addresses, NEW n \in Nat, ChangeStake(a, n)
        PROVE  GovInv' /\ AdminMoves
    <3>1. /\ power' \in [Addresses -> Nat]
          /\ UNCHANGED << config, proposals, votes, lastProposal, pausedFlag, signers >>
      BY <1>2, <2>3 DEF ChangeStake
    <3>2. Sheets'
      BY <1>2, <2>1, <3>1, SheetsKept
    <3>3. QED
      BY <1>1, <1>2, <2>1, <2>2, <3>1, <3>2 DEF GovInv, AdminMoves, ValidConfig
  <2>4. ASSUME NEW a \in Addresses, NEW n \in StakeAmounts, StakeMore(a, n)
        PROVE  GovInv' /\ AdminMoves
    <3> DEFINE m == power[a] + n
    <3>1. m \in Nat /\ ChangeStake(a, m)
      BY <1>2, <2>4, ProposalAssumption DEF StakeMore
    <3> HIDE DEF m
    <3>2. QED
      BY <2>3, <3>1
  <2>5. ASSUME NEW a \in Addresses, LeaveStake(a)
        PROVE  GovInv' /\ AdminMoves
    BY <2>3, <2>5 DEF LeaveStake
  <2>6. ASSUME NEW a \in Addresses, NEW x \in ProposalActions, NEW d \in Periods,
               CreateProposal(a, x, d)
        PROVE  GovInv' /\ AdminMoves
    <3>1. /\ lastProposal' \in [Addresses -> Nat]
          /\ UNCHANGED << power, config, pausedFlag, signers >>
      BY <1>2, <2>6 DEF CreateProposal
    <3>2. Sheets'
      BY <1>2, <2>1, <2>6, CreateSheets
    <3>3. QED
      BY <1>1, <1>2, <2>1, <2>2, <3>1, <3>2 DEF GovInv, AdminMoves, ValidConfig
  <2>7. ASSUME NEW a \in Addresses, NEW c \in Configs, SetConfig(a, c)
        PROVE  GovInv' /\ AdminMoves
    <3>1. /\ c \in GovernanceConfig /\ ValidConfig(c) /\ config' = c
          /\ a = admin /\ signers' = {a}
          /\ UNCHANGED << power, proposals, votes, lastProposal, pausedFlag >>
      BY <2>7, ProposalAssumption DEF SetConfig, IsAdmin
    <3>2. Sheets'
      BY <1>2, <2>1, <3>1, SheetsKept
    <3>3. QED
      BY <1>1, <1>2, <2>1, <2>2, <3>1, <3>2 DEF GovInv, AdminMoves, ValidConfig
  <2>8. ASSUME NEW a \in Addresses, NEW p \in DOMAIN proposals, CancelProposal(a, p)
        PROVE  GovInv' /\ AdminMoves
    <3>1. UNCHANGED << power, config, lastProposal, pausedFlag, signers >>
      BY <2>8 DEF CancelProposal
    <3>2. Sheets'
      BY <1>2, <2>1, <2>8, CancelSheets
    <3>3. QED
      BY <1>1, <1>2, <2>1, <2>2, <3>1, <3>2 DEF GovInv, AdminMoves, ValidConfig
  <2>9. ASSUME NEW a \in Addresses, NEW p \in DOMAIN proposals, NEW o \in Options,
               CastVote(a, p, o)
        PROVE  GovInv' /\ AdminMoves
    <3>1. UNCHANGED << power, config, lastProposal, pausedFlag, signers >>
      BY <2>9 DEF CastVote
    <3>2. Sheets'
      BY <1>2, <2>1, <2>9, CastVoteSheets
    <3>3. QED
      BY <1>1, <1>2, <2>1, <2>2, <3>1, <3>2 DEF GovInv, AdminMoves, ValidConfig
  <2>10. QED
    BY <1>4, <2>4, <2>5, <2>6, <2>7, <2>8, <2>9 DEF ProposalNext
<1>5. ASSUME NEW signed \in SUBSET Addresses, NEW p \in DOMAIN proposals,
             ExecuteProposal(signed, p)
      PROVE  GovInv' /\ AdminMoves
  <2> DEFINE x == proposals[p].action
  <2>1. /\ Sheets' /\ p \in JustExecuted
        /\ x \in ProposalActions /\ Apply(x)
    BY <1>2, <1>5, ExecuteSheets
  <2>2. /\ UNCHANGED << now, sensitiveUsage, power, lastProposal >> /\ signers' = signed
        /\ x.kind \in {"Quorum", "Approval"} => admin \in signed
    BY <1>5 DEF ExecuteProposal, Authorized
  <2>3. p \in DOMAIN proposals /\ x = proposals[p].action
    OBVIOUS
  <2> HIDE DEF x
  <2>4. /\ admin' \in Addresses /\ config' \in GovernanceConfig /\ ValidConfig(config')
        /\ pausedFlag' \in BOOLEAN
        /\ admin' # admin => IsSuccession(x)
        /\ config' # config => x.kind \in {"Quorum", "Approval"} /\ IsReform(x)
    BY <1>2, <2>1, Applied
  <2>5. AdminMoves
    BY <2>1, <2>2, <2>3, <2>4, Zenon DEF AdminMoves
  <2>6. ValidConfig(config)'
    BY <2>4 DEF ValidConfig
  <2>7. QED
    BY <1>1, <1>2, <2>1, <2>2, <2>4, <2>5, <2>6 DEF GovInv, AdminTypeOK
<1>6. CASE ParamNext /\ UNCHANGED << adminVars, proposalVars >>
  <2>1. UNCHANGED << now, admin, sensitiveUsage, power, config, proposals, votes,
                     lastProposal, pausedFlag, signers >>
    BY <1>6 DEF adminVars, proposalVars
  <2>2. Sheets'
    BY <1>2, <2>1, SheetsKept
  <2>3. QED
    BY <1>1, <1>2, <2>1, <2>2 DEF GovInv, AdminTypeOK, AdminMoves, ValidConfig
<1>7. ASSUME NEW a \in Addresses, NEW b \in Addresses,
             SetAdmin(a, b), signers' = {a},
             UNCHANGED << paramVars, power, config, proposals, votes, lastProposal, pausedFlag,
                          feeSetting >>
      PROVE  GovInv' /\ AdminMoves
  <2>1. UNCHANGED << now, power, config, proposals, votes, lastProposal, pausedFlag >>
    BY <1>7 DEF SetAdmin
  <2>2. /\ sensitiveUsage' = [sensitiveUsage EXCEPT ![a] = @ + 1]
        /\ sensitiveUsage[a] < SensitiveLimit /\ admin' \in Addresses /\ a = admin
    BY <1>7 DEF SetAdmin, RecordSensitive, IsAdmin
  <2>3. sensitiveUsage' \in [Addresses -> 0 .. SensitiveLimit]
    BY <1>2, <2>2
  <2>4. Sheets'
    BY <1>2, <2>1, SheetsKept
  <2>5. QED
    BY <1>1, <1>2, <1>7, <2>1, <2>2, <2>3, <2>4
       DEF GovInv, AdminTypeOK, AdminMoves, ValidConfig
<1>8. ASSUME NEW dt \in TimeSteps, AdvanceTime(dt), UNCHANGED << paramVars, proposalVars >>
      PROVE  GovInv' /\ AdminMoves
  <2>1. UNCHANGED << admin, power, config, proposals, votes, lastProposal, pausedFlag, signers >>
    BY <1>8 DEF AdvanceTime, proposalVars
  <2>2. now' \in Nat /\ now' >= now
    BY <1>2, <1>8, AdminAssumption DEF AdvanceTime
  <2>3. sensitiveUsage' \in [Addresses -> 0 .. SensitiveLimit]
    BY <1>2, <1>8 DEF AdvanceTime
  <2>4. Sheets'
    BY <1>2, <2>1, <2>2, SheetsKept
  <2>5. QED
    BY <1>1, <1>2, <2>1, <2>2, <2>3, <2>4 DEF GovInv, AdminTypeOK, AdminMoves, ValidConfig
<1>9. QED
  BY <1>3, <1>4, <1>5, <1>6, <1>7, <1>8 DEF GovNext

-----------------------------------------------------------------------------
(* Theorems *)

LEMMA GovDecided == ASSUME GovInv PROVE ProposalsDecided
<1>1. /\ proposals \in Seq(ProposalRecord) /\ votes \in Seq(Sheet) /\ Len(votes) = Len(proposals)
      /\ DOMAIN proposals = 1 .. Len(proposals)
      /\ \A p \in 1 .. Len(proposals) : ProposalOK(proposals[p], votes[p])
  BY SheetsFacts DEF GovInv, Sheets
<1>2. GovTypeOK
  BY <1>1 DEF GovInv, ParamInv, GovTypeOK, Sheet, Vote
<1>3. \A p \in 1 .. Len(proposals), o \in Options : CountedFor(p, o) = Tally(votes[p], o)
  BY DEF CountedFor, Tally, Worth
<1>4. "For" \in Options /\ "Against" \in Options /\ "Abstain" \in Options
  BY DEF Options
<1>5. TalliesExact
  BY <1>1, <1>3, <1>4 DEF TalliesExact, ProposalOK
<1>6. ExecutedWasCarried
  <2>1. ASSUME NEW p \in 1 .. Len(proposals), proposals[p].executed
        PROVE  /\ Met(proposals[p]) /\ now >= proposals[p].end
               /\ proposals[p].for = CountedFor(p, "For")
               /\ proposals[p].against = CountedFor(p, "Against")
    BY <1>1, <1>3, <1>4, <2>1 DEF ProposalOK
  <2>2. QED
    BY <1>1, <2>1 DEF ExecutedWasCarried, Met
<1>7. QED
  BY <1>2, <1>5, <1>6 DEF ProposalsDecided

-----------------------------------------------------------------------------
(* The log of the schedule *)

CouncilActors == Guardians \cup {"admin", "anyone", "none"}
PhaseNames == {"FullAdmin", "PauseOnly", "MultiSig", "DaoOnly"}
FeeEvents == {"Queued", "Executed", "Cancelled"}
SizeEvents == {"Created", "Approved", "CouncilExecuted"}

LogEntry ==
  [kind : FeeEvents, at : Nat, about : OpIds, by : CouncilActors]
  \cup [kind : SizeEvents, at : Nat, about : CouncilIds, by : CouncilActors]
  \cup [kind : {"Phase"}, at : Nat, about : PhaseNames \X PhaseNames, by : CouncilActors]
  \cup [kind : {"Override"}, at : Nat, about : {<< >>}, by : CouncilActors]

\* j is the last element of S.
IsLast(j, S) == j \in S /\ \A i \in S : i <= j

LEMMA LastIs ==
  ASSUME NEW S, S \subseteq Int, NEW j, IsLast(j, S)
  PROVE  LastOf(S) = j
<1> DEFINE P(x) == x \in S /\ \A i \in S : i <= x
<1>1. \A x : P(x) => x = j
  BY DEF IsLast
<1>2. P(j)
  BY DEF IsLast
<1>3. LastOf(S) = CHOOSE x : P(x)
  BY DEF LastOf
<1> HIDE DEF P
<1>4. QED
  BY <1>1, <1>2, <1>3

\* All that the log says about id.
History(id) == About(id, Len(log) + 1)

\* A queued operation that is still open: the log last says it was queued.
OpOpen(id) ==
  ops[id].executed \/ ops[id].cancelled \/
    \E j \in History(id) :
      /\ IsLast(j, History(id)) /\ log[j].kind = "Queued"
      /\ ops[id].eta >= log[j].at + TimelockDelay

\* Since j, where it was last created, the log of a proposal has its approvals.
ApprovedSince(id, j) ==
  /\ IsLast(j, Opening(id, Len(log) + 1))
  /\ council[id].approvals = {log[i].by : i \in {h \in History(id) : h >= j}}
  /\ \A i \in History(id) : i >= j => log[i].kind # "CouncilExecuted"
  /\ PhaseAt(log[j].at) \in {"MultiSig", "DaoOnly"}

ProposalOpen(id) == council[id].executed \/ \E j \in History(id) : ApprovedSince(id, j)

\* The entry at k is the execution of an operation queued a full delay before.
FeeJustified(k) ==
  \E j \in About(log[k].about, k) :
    /\ IsLast(j, About(log[k].about, k)) /\ log[j].kind = "Queued"
    /\ log[k].at >= log[j].at + TimelockDelay

FeesJustified == \A k \in DOMAIN log : log[k].kind = "Executed" => FeeJustified(k)

\* The entry at k is the execution of a proposal enough guardians approved.
SizeJustified(k) ==
  \E j \in Opening(log[k].about, k) :
    /\ IsLast(j, Opening(log[k].about, k))
    /\ Cardinality({log[i].by : i \in {h \in About(log[k].about, k) : h >= j}}) >= MultisigThreshold
    /\ \A i \in About(log[k].about, k) : i >= j => log[i].kind # "CouncilExecuted"
    /\ PhaseAt(log[j].at) \in {"MultiSig", "DaoOnly"}

SizesJustified == \A k \in DOMAIN log : log[k].kind = "CouncilExecuted" => SizeJustified(k)

SizesDone == {k \in DOMAIN log : log[k].kind = "CouncilExecuted"}

SizeKnown ==
  \/ SizesDone = {} /\ maxTradeSize = InitialSize
  \/ \E j \in SizesDone : IsLast(j, SizesDone) /\ maxTradeSize = log[j].about.size

\* The phase reported at k follows the one reported before it.
Follows(k) ==
  \E j \in EarlierPhases(k) :
    /\ IsLast(j, EarlierPhases(k))
    /\ log[k].about[1] = log[j].about[2]
    /\ Rank(log[j].about[2]) < Rank(log[k].about[2])

PhaseKnown ==
  /\ \E j \in PhaseEvents : IsLast(j, PhaseEvents) /\ log[j].about[2] = lastReported
  /\ Rank(lastReported) <= Rank(Phase)
  /\ \A k \in PhaseEvents \ {1} : Follows(k)

LogTypeOK == CouncilTypeOK /\ log \in Seq(LogEntry)

CouncilInv ==
  /\ LogTypeOK
  /\ \A id \in DOMAIN ops : OpOpen(id)
  /\ \A id \in DOMAIN council : ProposalOpen(id)
  /\ FeesJustified /\ SizesJustified
  /\ SizeKnown /\ PhaseKnown

LEMMA IdsDiffer == \A a \in OpIds, b \in CouncilIds : a # b
<1>1. \A a \in OpIds : DOMAIN a = {"fee", "at"}
  BY DEF OpIds
<1>2. \A b \in CouncilIds : DOMAIN b = {"proposer", "size", "at"}
  BY DEF CouncilIds
<1>3. "size" \notin {"fee", "at"}
  OBVIOUS
<1>4. QED
  BY <1>1, <1>2, <1>3

-----------------------------------------------------------------------------
(* What an entry appended to the log changes *)

LEMMA Grown ==
  ASSUME log \in Seq(LogEntry), NEW e \in LogEntry, log' = Append(log, e)
  PROVE  /\ log' \in Seq(LogEntry) /\ Len(log) \in Nat
         /\ Len(log') = Len(log) + 1
         /\ DOMAIN log = 1 .. Len(log) /\ DOMAIN log' = 1 .. Len(log) + 1
         /\ log'[Len(log) + 1] = e
         /\ \A k \in 1 .. Len(log) : log'[k] = log[k] /\ log[k] \in LogEntry
BY AppendProperties, LenProperties, ElementOfSeq

\* The history up to a place that was there stays, and the whole one grows by
\* the new entry if that is about id.
LEMMA HistoryGrows ==
  ASSUME log \in Seq(LogEntry), NEW e \in LogEntry, log' = Append(log, e)
  PROVE  /\ \A id : \A k \in 1 .. Len(log) + 1 :
              About(id, k)' = About(id, k) /\ Opening(id, k)' = Opening(id, k)
         /\ \A id : History(id) \subseteq 1 .. Len(log)
         /\ \A id : e.kind \notin {"Phase", "Override"} /\ e.about = id =>
              History(id)' = History(id) \cup {Len(log) + 1}
         /\ \A id : ~ (e.kind \notin {"Phase", "Override"} /\ e.about = id) =>
              History(id)' = History(id)
<1> DEFINE n == Len(log)
<1>1. /\ n \in Nat /\ Len(log') = n + 1 /\ log'[n + 1] = e
      /\ \A k \in 1 .. n : log'[k] = log[k]
  BY Grown
<1> HIDE DEF n
<1>2. \A id : \A k \in 1 .. n + 1 : About(id, k)' = About(id, k)
  <2> SUFFICES ASSUME NEW id, NEW k \in 1 .. n + 1 PROVE About(id, k)' = About(id, k)
    OBVIOUS
  <2>1. \A j \in 1 .. k - 1 : j \in 1 .. n
    BY <1>1
  <2>2. \A j \in 1 .. k - 1 : log'[j] = log[j]
    BY <1>1, <2>1
  <2>3. QED
    BY <2>2 DEF About
<1>3. \A id : \A k \in 1 .. n + 1 : \A j \in About(id, k) : log'[j] = log[j]
  <2> SUFFICES ASSUME NEW id, NEW k \in 1 .. n + 1, NEW j \in About(id, k) PROVE log'[j] = log[j]
    OBVIOUS
  <2>1. j \in 1 .. n
    BY <1>1 DEF About
  <2>2. QED
    BY <1>1, <2>1
<1>4. \A id : \A k \in 1 .. n + 1 : Opening(id, k)' = Opening(id, k)
  <2> SUFFICES ASSUME NEW id, NEW k \in 1 .. n + 1 PROVE Opening(id, k)' = Opening(id, k)
    OBVIOUS
  <2> DEFINE A == About(id, k)
  <2>1. Opening(id, k)' = {j \in A : log'[j].kind \in {"Queued", "Created"}}
    BY <1>2 DEF Opening
  <2>2. Opening(id, k) = {j \in A : log[j].kind \in {"Queued", "Created"}}
    BY DEF Opening
  <2>3. \A j \in A : log'[j] = log[j]
    BY <1>3
  <2> HIDE DEF A
  <2>4. QED
    BY <2>1, <2>2, <2>3
<1>5. \A id : History(id) \subseteq 1 .. n
  BY <1>1 DEF History, About, n
<1>6. \A id : History(id)' = {j \in 1 .. n + 1 : log'[j].kind \notin {"Phase", "Override"} /\ log'[j].about = id}
  BY <1>1 DEF History, About
<1>7. \A id : History(id) = {j \in 1 .. n : log[j].kind \notin {"Phase", "Override"} /\ log[j].about = id}
  BY <1>1 DEF History, About, n
<1>8. \A j \in 1 .. n + 1 : j \in 1 .. n \/ j = n + 1
  BY <1>1
<1>8a. n + 1 \in 1 .. n + 1 /\ 1 .. n \subseteq 1 .. n + 1
  BY <1>1
<1>9. \A id : e.kind \notin {"Phase", "Override"} /\ e.about = id => History(id)' = History(id) \cup {n + 1}
  BY <1>1, <1>6, <1>7, <1>8, <1>8a
<1>10. \A id : ~ (e.kind \notin {"Phase", "Override"} /\ e.about = id) => History(id)' = History(id)
  BY <1>1, <1>6, <1>7, <1>8, <1>8a
<1>11. QED
  BY <1>2, <1>4, <1>5, <1>9, <1>10 DEF n

\* The trails stay right if the new entry is right.
LEMMA TrailsGrow ==
  ASSUME log \in Seq(LogEntry), NEW e \in LogEntry, log' = Append(log, e),
         FeesJustified, SizesJustified,
         NEW n, n = Len(log),
         e.kind = "Executed" => FeeJustified(n + 1)',
         e.kind = "CouncilExecuted" => SizeJustified(n + 1)'
  PROVE  FeesJustified' /\ SizesJustified'
<1>1. /\ n \in Nat /\ log'[n + 1] = e /\ DOMAIN log = 1 .. n /\ DOMAIN log' = 1 .. n + 1
      /\ \A k \in 1 .. n : log'[k] = log[k]
  BY Grown
<1>2. \A id : \A k \in 1 .. n + 1 : About(id, k)' = About(id, k) /\ Opening(id, k)' = Opening(id, k)
  BY HistoryGrows
<1>3. \A id : \A k \in 1 .. n + 1 : About(id, k) \subseteq 1 .. n /\ Opening(id, k) \subseteq 1 .. n
  <2> SUFFICES ASSUME NEW id, NEW k \in 1 .. n + 1
               PROVE  About(id, k) \subseteq 1 .. n /\ Opening(id, k) \subseteq About(id, k)
    OBVIOUS
  <2>1. 1 .. k - 1 \subseteq 1 .. n
    BY <1>1
  <2>2. QED
    BY <2>1 DEF About, Opening
<1>4. \A k \in 1 .. n + 1 : k \in 1 .. n \/ k = n + 1
  BY <1>1
<1>5. ASSUME NEW k \in 1 .. n, FeeJustified(k) PROVE FeeJustified(k)'
  <2> DEFINE id == log[k].about
  <2>1. k \in 1 .. n + 1 /\ log'[k] = log[k]
    BY <1>1
  <2>2. PICK j \in About(id, k) :
          /\ IsLast(j, About(id, k)) /\ log[j].kind = "Queued"
          /\ log[k].at >= log[j].at + TimelockDelay
    BY <1>5 DEF FeeJustified
  <2>3. log'[j] = log[j] /\ About(id, k)' = About(id, k)
    BY <1>1, <1>2, <1>3, <2>1
  <2>4. /\ IsLast(j, About(id, k))' /\ log'[j].kind = "Queued"
        /\ log'[k].at >= log'[j].at + TimelockDelay
    BY <2>1, <2>2, <2>3 DEF IsLast
  <2>5. j \in About(id, k)' /\ About(id, k)' = About(log[k].about, k)'
    BY <2>1, <2>2, <2>3
  <2>6. QED
    BY <2>4, <2>5 DEF FeeJustified
<1>6. ASSUME NEW k \in 1 .. n, SizeJustified(k) PROVE SizeJustified(k)'
  <2> DEFINE id == log[k].about
             Since(j) == {h \in About(id, k) : h >= j}
             By(j) == {log[i].by : i \in Since(j)}
  <2>1. k \in 1 .. n + 1 /\ log'[k] = log[k]
    BY <1>1
  <2>2. PICK j \in Opening(id, k) :
          /\ IsLast(j, Opening(id, k))
          /\ Cardinality(By(j)) >= MultisigThreshold
          /\ \A i \in About(id, k) : i >= j => log[i].kind # "CouncilExecuted"
          /\ PhaseAt(log[j].at) \in {"MultiSig", "DaoOnly"}
    BY <1>6 DEF SizeJustified
  <2>3. /\ \A i \in About(id, k) : log'[i] = log[i]
        /\ log'[j] = log[j]
        /\ About(id, k)' = About(id, k) /\ Opening(id, k)' = Opening(id, k)
    BY <1>1, <1>2, <1>3, <2>1
  <2>4. {log'[i].by : i \in Since(j)} = By(j)
    BY <2>3
  <2> HIDE DEF By
  <2>5. SizeJustified(k)' <=>
          \E a \in Opening(id, k) :
            /\ IsLast(a, Opening(id, k))
            /\ Cardinality({log'[i].by : i \in Since(a)}) >= MultisigThreshold
            /\ \A i \in About(id, k) : i >= a => log'[i].kind # "CouncilExecuted"
            /\ PhaseAt(log'[a].at) \in {"MultiSig", "DaoOnly"}
    BY <2>1, <2>3 DEF SizeJustified, IsLast, PhaseAt
  <2> HIDE DEF Since
  <2>6. QED
    BY <2>2, <2>3, <2>4, <2>5
<1>7. FeesJustified'
  <2>1. FeesJustified' <=> \A k \in 1 .. n + 1 : log'[k].kind = "Executed" => FeeJustified(k)'
    BY <1>1 DEF FeesJustified
  <2>2. \A k \in 1 .. n : log'[k].kind = "Executed" => FeeJustified(k)'
    BY <1>1, <1>5 DEF FeesJustified
  <2>3. QED
    BY <1>1, <1>4, <2>1, <2>2
<1>8. SizesJustified'
  <2>1. SizesJustified' <=> \A k \in 1 .. n + 1 : log'[k].kind = "CouncilExecuted" => SizeJustified(k)'
    BY <1>1 DEF SizesJustified
  <2>2. \A k \in 1 .. n : log'[k].kind = "CouncilExecuted" => SizeJustified(k)'
    BY <1>1, <1>6 DEF SizesJustified
  <2>3. QED
    BY <1>1, <1>4, <2>1, <2>2
<1>9. QED
  BY <1>7, <1>8

\* What the log says of an open operation or proposal stays while it says
\* nothing new of it.
LEMMA OpenStays ==
  ASSUME log \in Seq(LogEntry), NEW e \in LogEntry, log' = Append(log, e), NEW id,
         ~ (e.kind \notin {"Phase", "Override"} /\ e.about = id)
  PROVE  /\ OpOpen(id) /\ ops'[id] = ops[id] => OpOpen(id)'
         /\ ProposalOpen(id) /\ council'[id] = council[id] => ProposalOpen(id)'
<1> DEFINE n == Len(log)
           H == History(id)
           O == Opening(id, n + 1)
<1>1. /\ n \in Nat /\ Len(log') = n + 1 /\ \A k \in 1 .. n : log'[k] = log[k]
      /\ H \subseteq 1 .. n /\ H' = H
  BY Grown, HistoryGrows
<1>2. \A j \in H : log'[j] = log[j]
  BY <1>1
<1>3. O = {j \in H : log[j].kind \in {"Queued", "Created"}}
  BY DEF Opening, History
<1>4. Opening(id, Len(log) + 1)' = {j \in H : log'[j].kind \in {"Queued", "Created"}}
  BY <1>1 DEF Opening, History
<1>5. Opening(id, Len(log) + 1)' = O
  BY <1>2, <1>3, <1>4
<1>6. ASSUME OpOpen(id), ops'[id] = ops[id] PROVE OpOpen(id)'
  <2>1. OpOpen(id)' <=>
          \/ ops[id].executed \/ ops[id].cancelled
          \/ \E j \in H : /\ IsLast(j, H) /\ log'[j].kind = "Queued"
                          /\ ops[id].eta >= log'[j].at + TimelockDelay
    BY <1>1, <1>6 DEF OpOpen, IsLast
  <2>2. QED
    BY <1>2, <1>6, <2>1 DEF OpOpen
<1>7. ASSUME ProposalOpen(id), council'[id] = council[id] PROVE ProposalOpen(id)'
  <2> DEFINE Since(j) == {h \in H : h >= j}
  <2>1. \A j : {log'[i].by : i \in Since(j)} = {log[i].by : i \in Since(j)}
    BY <1>2
  <2>2. \A j \in H : ApprovedSince(id, j) => ApprovedSince(id, j)'
    <3> SUFFICES ASSUME NEW j \in H, ApprovedSince(id, j) PROVE ApprovedSince(id, j)'
      OBVIOUS
    <3>1. /\ IsLast(j, O)
          /\ council[id].approvals = {log[i].by : i \in Since(j)}
          /\ \A i \in H : i >= j => log[i].kind # "CouncilExecuted"
          /\ PhaseAt(log[j].at) \in {"MultiSig", "DaoOnly"}
      BY DEF ApprovedSince
    <3>2. /\ IsLast(j, O)'
          /\ council'[id].approvals = {log'[i].by : i \in Since(j)}
          /\ \A i \in H : i >= j => log'[i].kind # "CouncilExecuted"
          /\ PhaseAt(log'[j].at) \in {"MultiSig", "DaoOnly"}
      BY <1>2, <1>5, <1>7, <2>1, <3>1 DEF IsLast
    <3>3. QED
      BY <1>1, <1>5, <3>2 DEF ApprovedSince, IsLast, PhaseAt
  <2>3. QED
    BY <1>1, <1>7, <2>2 DEF ProposalOpen
<1>8. QED
  BY <1>6, <1>7

LEMMA SizeGrows ==
  ASSUME log \in Seq(LogEntry), NEW e \in LogEntry, log' = Append(log, e), SizeKnown,
         IF e.kind = "CouncilExecuted" THEN maxTradeSize' = e.about.size ELSE maxTradeSize' = maxTradeSize
  PROVE  SizeKnown'
<1> DEFINE n == Len(log)
           D == SizesDone
<1>1. /\ n \in Nat /\ log'[n + 1] = e /\ DOMAIN log = 1 .. n /\ DOMAIN log' = 1 .. n + 1
      /\ \A k \in 1 .. n : log'[k] = log[k]
  BY Grown
<1> HIDE DEF n
<1>2. D = {k \in 1 .. n : log[k].kind = "CouncilExecuted"}
  BY <1>1 DEF SizesDone
<1>3. SizesDone' = {k \in 1 .. n + 1 : log'[k].kind = "CouncilExecuted"}
  BY <1>1 DEF SizesDone
<1>4. \A k \in 1 .. n + 1 : k \in 1 .. n \/ k = n + 1
  BY <1>1
<1>5. 1 .. n \subseteq 1 .. n + 1 /\ n + 1 \in 1 .. n + 1 /\ \A k \in 1 .. n + 1 : k <= n + 1
  BY <1>1
<1>6. CASE e.kind = "CouncilExecuted"
  <2>1. n + 1 \in SizesDone' /\ \A i \in SizesDone' : i <= n + 1
    BY <1>1, <1>3, <1>5, <1>6
  <2>2. maxTradeSize' = log'[n + 1].about.size
    BY <1>1, <1>6
  <2>3. SizeKnown' <=>
          \/ SizesDone' = {} /\ maxTradeSize' = InitialSize
          \/ \E j \in SizesDone' : (\A i \in SizesDone' : i <= j) /\ maxTradeSize' = log'[j].about.size
    BY DEF SizeKnown, IsLast
  <2>4. QED
    BY <2>1, <2>2, <2>3
<1>7. CASE e.kind # "CouncilExecuted"
  <2>1. SizesDone' = D
    BY <1>1, <1>2, <1>3, <1>4, <1>5, <1>7
  <2>2. \A j \in D : log'[j] = log[j]
    BY <1>1, <1>2
  <2>3. SizeKnown <=>
          \/ D = {} /\ maxTradeSize = InitialSize
          \/ \E j \in D : (\A i \in D : i <= j) /\ maxTradeSize = log[j].about.size
    BY DEF SizeKnown, IsLast
  <2>4. SizeKnown' <=>
          \/ D = {} /\ maxTradeSize' = InitialSize
          \/ \E j \in D : (\A i \in D : i <= j) /\ maxTradeSize' = log'[j].about.size
    BY <2>1 DEF SizeKnown, IsLast
  <2> HIDE DEF D
  <2>5. QED
    BY <1>7, <2>2, <2>3, <2>4
<1>8. QED
  BY <1>6, <1>7

-----------------------------------------------------------------------------
(* Phases *)

LEMMA Ranks ==
  /\ Rank("FullAdmin") = 1 /\ Rank("PauseOnly") = 2 /\ Rank("MultiSig") = 3 /\ Rank("DaoOnly") = 4
<1>1. \A i \in 1 .. 4 : i = 1 \/ i = 2 \/ i = 3 \/ i = 4
  OBVIOUS
<1>2. Phases[1] = "FullAdmin" /\ Phases[2] = "PauseOnly" /\ Phases[3] = "MultiSig" /\ Phases[4] = "DaoOnly"
  BY DEF Phases
<1>3. ASSUME NEW p, NEW k \in 1 .. 4, Phases[k] = p PROVE Rank(p) = k
  <2>1. \A i \in 1 .. 4 : Phases[i] = p => i = k
    BY <1>1, <1>2, <1>3
  <2>2. QED
    BY <1>3, <2>1 DEF Rank
<1>4. QED
  BY <1>2, <1>3

\* The phases come in their order.
LEMMA PhaseOrder ==
  ASSUME NEW s \in Nat, NEW t \in Nat, s <= t
  PROVE  PhaseAt(s) \in PhaseNames /\ Rank(PhaseAt(s)) <= Rank(PhaseAt(t))
<1> DEFINE d == SecsPerMonth
           q == s \div d
           r == t \div d
<1>1. d \in Nat /\ d > 0
  BY CouncilAssumption
<1> HIDE DEF d
<1>2. q \in Nat /\ r \in Nat /\ q * d <= s /\ t < r * d + d
  BY <1>1
<1>3. PhaseAt(s) = IF q <= 2 THEN "FullAdmin" ELSE IF q <= 5 THEN "PauseOnly"
                   ELSE IF q <= 11 THEN "MultiSig" ELSE "DaoOnly"
  BY DEF PhaseAt, d
<1>4. PhaseAt(t) = IF r <= 2 THEN "FullAdmin" ELSE IF r <= 5 THEN "PauseOnly"
                   ELSE IF r <= 11 THEN "MultiSig" ELSE "DaoOnly"
  BY DEF PhaseAt, d
<1> HIDE DEF q, r
<1>5. q <= r
  <2>1. SUFFICES ASSUME r + 1 <= q PROVE FALSE
    BY <1>2
  <2>2. (r + 1) * d <= q * d
    BY <1>1, <1>2, <2>1
  <2>3. (r + 1) * d = r * d + d
    BY <1>1, <1>2
  <2>4. q * d \in Nat /\ r * d \in Nat
    BY <1>1, <1>2
  <2>5. QED
    BY <1>1, <1>2, <2>2, <2>3, <2>4
<1>6. PhaseAt(s) \in PhaseNames
  BY <1>3 DEF PhaseNames
<1>7. QED
  BY <1>2, <1>3, <1>4, <1>5, <1>6, Ranks

LEMMA PhaseGrows ==
  ASSUME log \in Seq(LogEntry), NEW e \in LogEntry, log' = Append(log, e), PhaseKnown,
         time \in Nat, UNCHANGED time, lastReported \in PhaseNames,
         IF e.kind = "Phase"
         THEN e.about = << lastReported, Phase >> /\ lastReported' = Phase /\ Phase # lastReported
         ELSE lastReported' = lastReported
  PROVE  PhaseKnown'
<1> DEFINE n == Len(log)
           P == PhaseEvents
<1>1. /\ n \in Nat /\ log'[n + 1] = e /\ DOMAIN log = 1 .. n /\ DOMAIN log' = 1 .. n + 1
      /\ \A k \in 1 .. n : log'[k] = log[k]
  BY Grown
<1> HIDE DEF n
<1>2. P = {k \in 1 .. n : log[k].kind = "Phase"}
  BY <1>1 DEF PhaseEvents
<1>3. PhaseEvents' = {k \in 1 .. n + 1 : log'[k].kind = "Phase"}
  BY <1>1 DEF PhaseEvents
<1>4. \A k \in 1 .. n + 1 : k \in 1 .. n \/ k = n + 1
  BY <1>1
<1>5. 1 .. n \subseteq 1 .. n + 1 /\ n + 1 \in 1 .. n + 1 /\ \A k \in 1 .. n : k < n + 1
  BY <1>1
<1>6. PhaseEvents' = IF e.kind = "Phase" THEN P \cup {n + 1} ELSE P
  BY <1>1, <1>2, <1>3, <1>4, <1>5
<1>7. \A k \in P : k \in 1 .. n /\ log'[k] = log[k]
  BY <1>1, <1>2
<1>8. \A k \in 1 .. n : EarlierPhases(k)' = {j \in P : j < k} /\ EarlierPhases(k) = {j \in P : j < k}
  <2>1. \A k \in 1 .. n : EarlierPhases(k)' = {j \in PhaseEvents' : j < k}
    BY DEF EarlierPhases
  <2>2. \A k \in 1 .. n : ~ (n + 1 < k)
    BY <1>1
  <2>3. QED
    BY <1>6, <2>1, <2>2 DEF EarlierPhases
<1>9. Phase' = Phase /\ Phase \in PhaseNames
  BY PhaseOrder DEF Phase, PhaseAt
<1>10. PICK j \in P : IsLast(j, P) /\ log[j].about[2] = lastReported
  BY DEF PhaseKnown
<1>11. \A k \in P \ {1} : Follows(k)'
  <2> SUFFICES ASSUME NEW k \in P \ {1} PROVE Follows(k)'
    OBVIOUS
  <2> DEFINE E == {i \in P : i < k}
  <2>1. PICK i \in E :
          IsLast(i, E) /\ log[k].about[1] = log[i].about[2] /\ Rank(log[i].about[2]) < Rank(log[k].about[2])
    BY <1>7, <1>8 DEF PhaseKnown, Follows
  <2>2. i \in EarlierPhases(k)' /\ IsLast(i, EarlierPhases(k))'
    BY <1>7, <1>8, <2>1 DEF IsLast
  <2>3. log'[k].about[1] = log'[i].about[2] /\ Rank(log'[i].about[2]) < Rank(log'[k].about[2])
    BY <1>7, <2>1
  <2>4. QED
    BY <2>2, <2>3 DEF Follows, Rank
<1>12. CASE e.kind # "Phase"
  <2>1. PhaseEvents' = P /\ log'[j] = log[j] /\ lastReported' = lastReported
    BY <1>6, <1>7, <1>10, <1>12
  <2>2. \E i \in PhaseEvents' : IsLast(i, PhaseEvents)' /\ log'[i].about[2] = lastReported'
    BY <1>10, <2>1 DEF IsLast
  <2>3. Rank(lastReported)' <= Rank(Phase)'
    BY <1>9, <2>1 DEF PhaseKnown, Rank
  <2>4. QED
    BY <1>11, <2>1, <2>2, <2>3 DEF PhaseKnown
<1>13. CASE e.kind = "Phase"
  <2>1. /\ PhaseEvents' = P \cup {n + 1} /\ log'[n + 1].about[1] = lastReported
        /\ log'[n + 1].about[2] = Phase /\ lastReported' = Phase
    BY <1>1, <1>6, <1>13
  <2>2. n + 1 \in PhaseEvents' /\ IsLast(n + 1, PhaseEvents')
    BY <1>1, <1>7, <2>1 DEF IsLast
  <2>3. \E i \in PhaseEvents' : IsLast(i, PhaseEvents)' /\ log'[i].about[2] = lastReported'
    BY <2>1, <2>2 DEF IsLast
  <2>4. Rank(lastReported)' <= Rank(Phase)'
    <3>1. Rank(Phase) \in Int
      BY <1>9, Ranks DEF PhaseNames
    <3>2. Rank(lastReported)' = Rank(Phase) /\ Rank(Phase)' = Rank(Phase)
      BY <1>9, <2>1 DEF Rank
    <3>3. QED
      BY <3>1, <3>2
  <2>5. {i \in PhaseEvents' : i < n + 1} = P
    BY <1>1, <1>7, <2>1
  <2>6. Rank(lastReported) < Rank(Phase)
    BY <1>9, <1>13, Ranks DEF PhaseKnown, PhaseNames
  <2>7. \A k \in PhaseEvents' : k \notin P => Follows(k)'
    <3> SUFFICES ASSUME NEW k \in PhaseEvents', k \notin P PROVE Follows(k)'
      OBVIOUS
    <3>1. k = n + 1
      BY <2>1
    <3>2. EarlierPhases(k)' = P
      BY <2>5, <3>1 DEF EarlierPhases
    <3>3. j \in EarlierPhases(k)' /\ IsLast(j, EarlierPhases(k))'
      BY <1>10, <3>2 DEF IsLast
    <3>4. log'[k].about[1] = log'[j].about[2] /\ Rank(log'[j].about[2]) < Rank(log'[k].about[2])
      BY <1>7, <1>10, <2>1, <2>6, <3>1
    <3>5. QED
      BY <3>3, <3>4 DEF Follows, Rank
  <2>8. QED
    BY <1>11, <2>3, <2>4, <2>7 DEF PhaseKnown
<1>14. QED
  BY <1>12, <1>13

-----------------------------------------------------------------------------
(* Steps that write to the log *)

Speaks(e, id) == e.kind \notin {"Phase", "Override"} /\ e.about = id

LEMMA LoggedStep ==
  ASSUME CouncilInv, NEW e \in LogEntry, log' = Append(log, e), CouncilTypeOK', UNCHANGED time,
         e.kind = "Executed" =>
           \E j \in History(e.about) :
             /\ IsLast(j, History(e.about)) /\ log[j].kind = "Queued"
             /\ e.at >= log[j].at + TimelockDelay,
         e.kind = "CouncilExecuted" =>
           /\ \E j \in History(e.about) : ApprovedSince(e.about, j)
           /\ Cardinality(council[e.about].approvals) >= MultisigThreshold,
         IF e.kind = "CouncilExecuted" THEN maxTradeSize' = e.about.size ELSE maxTradeSize' = maxTradeSize,
         IF e.kind = "Phase"
         THEN e.about = << lastReported, Phase >> /\ lastReported' = Phase /\ Phase # lastReported
         ELSE lastReported' = lastReported,
         \A id \in DOMAIN ops' :
           OpOpen(id)' \/ (id \in DOMAIN ops /\ ops'[id] = ops[id] /\ ~ Speaks(e, id)),
         \A id \in DOMAIN council' :
           ProposalOpen(id)' \/ (id \in DOMAIN council /\ council'[id] = council[id] /\ ~ Speaks(e, id))
  PROVE  CouncilInv'
<1>1. PICK n \in Nat : n = Len(log)
  BY Grown DEF CouncilInv, LogTypeOK
<1>2. /\ log \in Seq(LogEntry) /\ log' \in Seq(LogEntry) /\ log'[n + 1] = e
      /\ \A k \in 1 .. n : log'[k] = log[k]
      /\ time \in Nat /\ lastReported \in PhaseNames
  <2>1. log \in Seq(LogEntry) /\ CouncilTypeOK
    BY DEF CouncilInv, LogTypeOK
  <2>2. time \in Nat
    BY <2>1, CouncilAssumption DEF CouncilTypeOK
  <2>3. lastReported \in PhaseNames
    BY <2>1 DEF CouncilTypeOK, Phases, PhaseNames, ToSet
  <2>4. QED
    BY <1>1, <2>1, <2>2, <2>3, Grown
<1>3. /\ \A id : About(id, n + 1)' = About(id, n + 1) /\ Opening(id, n + 1)' = Opening(id, n + 1)
      /\ \A id : About(id, n + 1) = History(id) /\ History(id) \subseteq 1 .. n
  <2>1. n + 1 \in 1 .. Len(log) + 1
    BY <1>1
  <2>2. QED
    BY <1>1, <1>2, <2>1, HistoryGrows DEF History
<1>4. e.kind = "Executed" => FeeJustified(n + 1)'
  <2> SUFFICES ASSUME e.kind = "Executed" PROVE FeeJustified(n + 1)'
    OBVIOUS
  <2> DEFINE H == History(e.about)
  <2>1. PICK j \in H :
          IsLast(j, H) /\ log[j].kind = "Queued" /\ e.at >= log[j].at + TimelockDelay
    OBVIOUS
  <2>2. About(e.about, n + 1)' = H /\ H \subseteq 1 .. n
    BY <1>3
  <2>3. About(log[n + 1].about, n + 1)' = H
    BY <1>2, <2>2 DEF About
  <2> HIDE DEF H
  <2>4. log'[j] = log[j]
    BY <1>2, <2>2
  <2>5. IsLast(j, About(log[n + 1].about, n + 1))'
    BY <2>1, <2>3 DEF IsLast
  <2>6. QED
    BY <1>2, <2>1, <2>3, <2>4, <2>5 DEF FeeJustified
<1>5. e.kind = "CouncilExecuted" => SizeJustified(n + 1)'
  <2> SUFFICES ASSUME e.kind = "CouncilExecuted" PROVE SizeJustified(n + 1)'
    OBVIOUS
  <2> DEFINE H == History(e.about)
             O == Opening(e.about, n + 1)
  <2>1. PICK j \in H : ApprovedSince(e.about, j)
    OBVIOUS
  <2>2. /\ About(log[n + 1].about, n + 1)' = H /\ H \subseteq 1 .. n
        /\ Opening(log[n + 1].about, n + 1)' = O
    <3>1. About(log[n + 1].about, n + 1)' = About(e.about, n + 1)'
      BY <1>2 DEF About
    <3>2. /\ Opening(log[n + 1].about, n + 1)' =
                {h \in About(log[n + 1].about, n + 1)' : log'[h].kind \in {"Queued", "Created"}}
          /\ Opening(e.about, n + 1)' =
                {h \in About(e.about, n + 1)' : log'[h].kind \in {"Queued", "Created"}}
      BY DEF Opening
    <3>3. QED
      BY <1>3, <3>1, <3>2
  <2>3. /\ IsLast(j, O)
        /\ Cardinality({log[i].by : i \in {h \in H : h >= j}}) >= MultisigThreshold
        /\ \A i \in H : i >= j => log[i].kind # "CouncilExecuted"
        /\ PhaseAt(log[j].at) \in {"MultiSig", "DaoOnly"}
    BY <1>1, <2>1 DEF ApprovedSince
  <2> HIDE DEF H, O
  <2>4. \A i \in H : log'[i] = log[i]
    BY <1>2, <2>2
  <2>5. {log'[i].by : i \in {h \in H : h >= j}} = {log[i].by : i \in {h \in H : h >= j}}
    <3> DEFINE S == {h \in H : h >= j}
    <3>1. \A i \in S : log'[i] = log[i]
      BY <2>4
    <3> HIDE DEF S
    <3>2. {log'[i].by : i \in S} = {log[i].by : i \in S}
      BY <3>1
    <3>3. QED
      BY <3>2 DEF S
  <2>6. /\ j \in Opening(log[n + 1].about, n + 1)'
        /\ IsLast(j, Opening(log[n + 1].about, n + 1))'
    BY <2>2, <2>3 DEF IsLast
  <2>7. /\ Cardinality({log'[i].by : i \in {h \in H : h >= j}}) >= MultisigThreshold
        /\ \A i \in H : i >= j => log'[i].kind # "CouncilExecuted"
        /\ PhaseAt(log'[j].at) \in {"MultiSig", "DaoOnly"}
    BY <2>1, <2>3, <2>4, <2>5
  <2>8. QED
    BY <2>2, <2>6, <2>7 DEF SizeJustified, PhaseAt
<1>6. FeesJustified' /\ SizesJustified'
  BY <1>1, <1>2, <1>4, <1>5, TrailsGrow DEF CouncilInv
<1>7. SizeKnown'
  BY <1>2, SizeGrows DEF CouncilInv
<1>8. PhaseKnown'
  BY <1>2, PhaseGrows DEF CouncilInv
<1>9. \A id \in DOMAIN ops' : OpOpen(id)'
  <2> SUFFICES ASSUME NEW id \in DOMAIN ops', id \in DOMAIN ops, ops'[id] = ops[id], ~ Speaks(e, id)
               PROVE  OpOpen(id)'
    OBVIOUS
  <2>1. OpOpen(id)
    BY DEF CouncilInv
  <2>2. QED
    BY <1>2, <2>1, OpenStays DEF Speaks
<1>10. \A id \in DOMAIN council' : ProposalOpen(id)'
  <2> SUFFICES ASSUME NEW id \in DOMAIN council', id \in DOMAIN council, council'[id] = council[id],
                      ~ Speaks(e, id)
               PROVE  ProposalOpen(id)'
    OBVIOUS
  <2>1. ProposalOpen(id)
    BY DEF CouncilInv
  <2>2. QED
    BY <1>2, <2>1, OpenStays DEF Speaks
<1>11. QED
  BY <1>2, <1>6, <1>7, <1>8, <1>9, <1>10 DEF CouncilInv, LogTypeOK

LEMMA EntryLogged ==
  ASSUME NEW kind, NEW id, NEW by, Logged(Event(kind, id, by))
  PROVE  log' = Append(log, [kind |-> kind, at |-> time, about |-> id, by |-> by])
<1>1. [Event(kind, id, by) EXCEPT !.at = time] = [kind |-> kind, at |-> time, about |-> id, by |-> by]
  BY DEF Event
<1>2. QED
  BY <1>1 DEF Logged

\* A step that neither logs nor concerns what is logged.
LEMMA QuietStep ==
  ASSUME CouncilInv, CouncilTypeOK', UNCHANGED << log, ops, council, lastReported, maxTradeSize >>,
         time' >= time
  PROVE  CouncilInv'
<1>1. /\ \A id, k : About(id, k)' = About(id, k) /\ Opening(id, k)' = Opening(id, k)
      /\ \A id : History(id)' = History(id)
      /\ PhaseEvents' = PhaseEvents /\ SizesDone' = SizesDone
      /\ \A k : EarlierPhases(k)' = EarlierPhases(k)
  BY DEF About, Opening, History, PhaseEvents, EarlierPhases, SizesDone
<1>2. \A id : (OpOpen(id)' <=> OpOpen(id)) /\ (ProposalOpen(id)' <=> ProposalOpen(id))
  <2>1. \A id : OpOpen(id)' <=> OpOpen(id)
    BY <1>1 DEF OpOpen, IsLast
  <2>2. \A id : Opening(id, Len(log) + 1)' = Opening(id, Len(log) + 1)
    BY DEF Opening, About
  <2>3. \A id, j : ApprovedSince(id, j)' <=> ApprovedSince(id, j)
    BY <1>1, <2>2 DEF ApprovedSince, IsLast, PhaseAt
  <2>4. \A id : ProposalOpen(id)' <=> ProposalOpen(id)
    BY <1>1, <2>3 DEF ProposalOpen
  <2>5. QED
    BY <2>1, <2>4
<1>3. (FeesJustified' <=> FeesJustified) /\ (SizesJustified' <=> SizesJustified)
  <2>1. \A k : About(log[k].about, k)' = About(log[k].about, k)
    BY DEF About
  <2>2. \A k : FeeJustified(k)' <=> FeeJustified(k)
    BY <2>1 DEF FeeJustified, IsLast
  <2>3. \A k : SizeJustified(k)' <=> SizeJustified(k)
    <3>1. \A k : Opening(log[k].about, k)' = Opening(log[k].about, k)
      <4> SUFFICES ASSUME NEW k PROVE Opening(log[k].about, k)' = Opening(log[k].about, k)
        OBVIOUS
      <4> DEFINE A == About(log[k].about, k)
      <4>1. Opening(log[k].about, k)' = {j \in A' : log'[j].kind \in {"Queued", "Created"}}
        BY DEF Opening
      <4>2. Opening(log[k].about, k) = {j \in A : log[j].kind \in {"Queued", "Created"}}
        BY DEF Opening
      <4>3. A' = A /\ log' = log
        BY <2>1
      <4> HIDE DEF A
      <4>4. QED
        BY <4>1, <4>2, <4>3
    <3>2. SUFFICES ASSUME NEW k PROVE SizeJustified(k)' <=> SizeJustified(k)
      OBVIOUS
    <3> DEFINE A == About(log[k].about, k)
               O == Opening(log[k].about, k)
    <3>3. A' = A /\ O' = O /\ log' = log
      BY <2>1, <3>1
    <3>4. SizeJustified(k) <=>
            \E j \in O :
              /\ \A i \in O : i <= j
              /\ Cardinality({log[i].by : i \in {h \in A : h >= j}}) >= MultisigThreshold
              /\ \A i \in A : i >= j => log[i].kind # "CouncilExecuted"
              /\ PhaseAt(log[j].at) \in {"MultiSig", "DaoOnly"}
      BY DEF SizeJustified, IsLast
    <3>5. SizeJustified(k)' <=>
            \E j \in O' :
              /\ \A i \in O' : i <= j
              /\ Cardinality({log'[i].by : i \in {h \in A' : h >= j}}) >= MultisigThreshold
              /\ \A i \in A' : i >= j => log'[i].kind # "CouncilExecuted"
              /\ PhaseAt(log'[j].at) \in {"MultiSig", "DaoOnly"}
      BY DEF SizeJustified, IsLast, PhaseAt
    <3> HIDE DEF A, O
    <3>6. QED
      BY <3>3, <3>4, <3>5
  <2>4. FeesJustified' <=> FeesJustified
    BY <2>2 DEF FeesJustified
  <2>5. SizesJustified' <=> SizesJustified
    BY <2>3 DEF SizesJustified
  <2>6. QED
    BY <2>4, <2>5
<1>4. SizeKnown' <=> SizeKnown
  BY <1>1 DEF SizeKnown, IsLast
<1>5. PhaseKnown'
  <2>1. time \in Nat /\ time' \in Nat /\ lastReported \in PhaseNames
    BY CouncilAssumption DEF CouncilInv, LogTypeOK, CouncilTypeOK, Phases, PhaseNames, ToSet
  <2>2. /\ Phase \in PhaseNames /\ Phase' \in PhaseNames
        /\ Rank(PhaseAt(time)) <= Rank(PhaseAt(time'))
    BY <2>1, PhaseOrder DEF Phase, PhaseAt
  <2>3. Rank(Phase)' = Rank(PhaseAt(time')) /\ Rank(Phase) = Rank(PhaseAt(time))
    BY DEF Rank, Phase, PhaseAt
  <2>4. Rank(Phase) \in Int /\ Rank(PhaseAt(time')) \in Int /\ Rank(lastReported) \in Int
    BY <2>1, PhaseOrder, Ranks DEF PhaseNames, Phase
  <2>5. Rank(lastReported)' = Rank(lastReported) /\ Rank(lastReported) <= Rank(Phase)
    BY DEF CouncilInv, PhaseKnown, Rank
  <2>6. Rank(lastReported)' <= Rank(Phase)'
    BY <2>2, <2>3, <2>4, <2>5
  <2>7. \A k : Follows(k)' <=> Follows(k)
    BY <1>1 DEF Follows, IsLast, Rank
  <2>8. QED
    BY <1>1, <2>6, <2>7 DEF CouncilInv, PhaseKnown, IsLast
<1>6. QED
  BY <1>2, <1>3, <1>4, <1>5 DEF CouncilInv, LogTypeOK

LEMMA QuietSteps ==
  ASSUME CouncilInv, (\E paused \in BOOLEAN : SetPaused(paused)) \/ (\E fee \in Fees : SetFeeDirect(fee))
                     \/ (\E dt \in CouncilTimeSteps : TimePasses(dt))
  PROVE  CouncilInv'
<1>1. time \in Nat /\ time' >= time /\ time' \in 0 .. MaxCouncilTime
  BY CouncilAssumption DEF CouncilInv, LogTypeOK, CouncilTypeOK, SetPaused, SetFeeDirect, TimePasses
<1>2. UNCHANGED << log, ops, council, lastReported, maxTradeSize >>
  BY DEF SetPaused, SetFeeDirect, TimePasses, stateVars
<1>3. tradingPaused' \in BOOLEAN /\ feeBps' \in Fees \cup {InitialFee}
  BY DEF CouncilInv, LogTypeOK, CouncilTypeOK, SetPaused, SetFeeDirect, TimePasses, stateVars
<1>4. CouncilTypeOK'
  BY <1>1, <1>2, <1>3 DEF CouncilInv, LogTypeOK, CouncilTypeOK, OpIds, CouncilIds
<1>5. QED
  BY <1>1, <1>2, <1>4, QuietStep

LEMMA TickStep == ASSUME CouncilInv, Tick PROVE CouncilInv'
<1> DEFINE e == [kind |-> "Phase", at |-> time, about |-> << lastReported, Phase >>, by |-> "none"]
<1>1. /\ time \in Nat /\ lastReported \in PhaseNames /\ Phase \in PhaseNames
      /\ ToSet(Phases) = PhaseNames
  <2>1. ToSet(Phases) = PhaseNames
    BY DEF ToSet, Phases, PhaseNames
  <2>2. time \in Nat /\ lastReported \in PhaseNames
    BY <2>1, CouncilAssumption DEF CouncilInv, LogTypeOK, CouncilTypeOK
  <2>3. QED
    BY <2>1, <2>2, PhaseOrder DEF Phase
<1>2. /\ Phase # lastReported /\ lastReported' = Phase
      /\ UNCHANGED << time, ops, council, tradingPaused, feeBps, maxTradeSize >>
  BY DEF Tick, stateVars
<1>3. log' = Append(log, e)
  <2>1. [PhaseEvent(lastReported, Phase) EXCEPT !.at = time] = e
    BY DEF PhaseEvent
  <2>2. QED
    BY <2>1 DEF Tick, Logged
<1>4. e \in LogEntry
  BY <1>1 DEF LogEntry, CouncilActors
<1>5. e.kind = "Phase" /\ e.about = << lastReported, Phase >>
  OBVIOUS
<1> HIDE DEF e
<1>6. CouncilTypeOK'
  BY <1>1, <1>2 DEF CouncilInv, LogTypeOK, CouncilTypeOK
<1>7. QED
  BY <1>2, <1>3, <1>4, <1>5, <1>6, LoggedStep DEF Speaks

LEMMA OverrideStep == ASSUME CouncilInv, NEW g \in Guardians, GuardianOverride(g) PROVE CouncilInv'
<1> DEFINE e == [kind |-> "Override", at |-> time, about |-> << >>, by |-> g]
<1>1. time \in Nat
  BY CouncilAssumption DEF CouncilInv, LogTypeOK, CouncilTypeOK
<1>2. UNCHANGED << time, ops, council, lastReported, tradingPaused, feeBps, maxTradeSize >>
  BY DEF GuardianOverride, stateVars
<1>3. log' = Append(log, e)
  BY EntryLogged DEF GuardianOverride
<1>4. e \in LogEntry /\ e.kind = "Override"
  BY <1>1 DEF LogEntry, CouncilActors
<1> HIDE DEF e
<1>5. CouncilTypeOK'
  BY <1>2 DEF CouncilInv, LogTypeOK, CouncilTypeOK
<1>6. QED
  BY <1>2, <1>3, <1>4, <1>5, LoggedStep DEF Speaks

-----------------------------------------------------------------------------
(* Operations *)

OpRecord == [eta : Nat, executed : BOOLEAN, cancelled : BOOLEAN]

LEMMA QueueStep == ASSUME CouncilInv, NEW fee \in Fees, QueueSetFee(fee) PROVE CouncilInv'
<1>0. PICK id, e, entry :
        /\ id = [fee |-> fee, at |-> time]
        /\ e = [kind |-> "Queued", at |-> time, about |-> id, by |-> "admin"]
        /\ entry = [eta |-> time + TimelockDelay, executed |-> FALSE, cancelled |-> FALSE]
  OBVIOUS
<1>1. /\ log \in Seq(LogEntry) /\ time \in 0 .. MaxCouncilTime /\ time \in Nat /\ TimelockDelay \in Nat
      /\ CouncilTypeOK
  BY CouncilAssumption DEF CouncilInv, LogTypeOK, CouncilTypeOK
<1>2. UNCHANGED << time, council, lastReported, tradingPaused, feeBps, maxTradeSize >>
  BY DEF QueueSetFee, stateVars
<1>3. log' = Append(log, e) /\ ops' = With(ops, id, entry)
  BY <1>0, EntryLogged DEF QueueSetFee
<1>4. id \in OpIds
  BY <1>0, <1>1 DEF OpIds
<1>5. e \in LogEntry /\ e.kind = "Queued" /\ e.about = id /\ e.at = time
  BY <1>0, <1>1, <1>4 DEF LogEntry, CouncilActors, FeeEvents
<1>6. entry \in OpRecord /\ ~ entry.executed /\ entry.eta = time + TimelockDelay
  BY <1>0, <1>1 DEF OpRecord
<1>7. /\ DOMAIN ops' = DOMAIN ops \cup {id} /\ ops'[id] = entry
      /\ \A i \in DOMAIN ops : i # id => ops'[i] = ops[i]
  BY <1>3 DEF With
<1>8. CouncilTypeOK'
  <2>1. DOMAIN ops' \subseteq OpIds
    BY <1>1, <1>4, <1>7 DEF CouncilTypeOK
  <2>2. \A i \in DOMAIN ops' : ops'[i] \in OpRecord /\ ~ (ops'[i].executed /\ ops'[i].cancelled)
    BY <1>1, <1>6, <1>7 DEF CouncilTypeOK, OpRecord
  <2>3. QED
    BY <1>1, <1>2, <2>1, <2>2 DEF CouncilTypeOK, OpRecord, OpIds
<1>9. PICK n \in Nat : n = Len(log)
  BY <1>1, <1>3, <1>5, Grown
<1>10. OpOpen(id)'
  <2>1. Speaks(e, id)
    BY <1>5 DEF Speaks
  <2>2. /\ History(id)' = History(id) \cup {n + 1} /\ History(id) \subseteq 1 .. n /\ log'[n + 1] = e
    BY <1>1, <1>3, <1>5, <1>9, <2>1, Grown, HistoryGrows DEF Speaks
  <2>3. n + 1 \in History(id)' /\ IsLast(n + 1, History(id))'
    BY <1>9, <2>2 DEF IsLast
  <2>4. ops'[id].eta >= log'[n + 1].at + TimelockDelay
    BY <1>1, <1>5, <1>6, <1>7, <2>2
  <2>5. QED
    BY <1>5, <2>2, <2>3, <2>4 DEF OpOpen
<1>11. \A i \in DOMAIN ops' : i = id \/ (i \in DOMAIN ops /\ ops'[i] = ops[i] /\ ~ Speaks(e, i))
  BY <1>5, <1>7 DEF Speaks
<1>12. \A i \in DOMAIN council' : i \in DOMAIN council /\ council'[i] = council[i] /\ ~ Speaks(e, i)
  BY <1>1, <1>2, <1>4, <1>5, IdsDiffer DEF Speaks, CouncilTypeOK
<1>13. \A i \in DOMAIN ops' :
         OpOpen(i)' \/ (i \in DOMAIN ops /\ ops'[i] = ops[i] /\ ~ Speaks(e, i))
  BY <1>10, <1>11
<1>14. QED
  BY <1>2, <1>3, <1>5, <1>8, <1>12, <1>13, LoggedStep

\* One flag of an operation set.
LEMMA FlagSet ==
  ASSUME NEW f, NEW id \in DOMAIN f, f[id] \in OpRecord,
         NEW g, g = [f EXCEPT ![id].executed = TRUE] \/ g = [f EXCEPT ![id].cancelled = TRUE]
  PROVE  /\ DOMAIN g = DOMAIN f /\ g[id] \in OpRecord
         /\ \A i \in DOMAIN f : i # id => g[i] = f[i]
         /\ g[id].executed \/ g[id].cancelled
         /\ ~ f[id].executed /\ g = [f EXCEPT ![id].cancelled = TRUE] => ~ g[id].executed
         /\ ~ f[id].cancelled /\ g = [f EXCEPT ![id].executed = TRUE] => ~ g[id].cancelled
BY DEF OpRecord

LEMMA ExecuteFeeStep ==
  ASSUME CouncilInv, NEW id \in DOMAIN ops, NEW fee \in Fees, ExecuteSetFee(id, fee)
  PROVE  CouncilInv'
<1>0. PICK e : e = [kind |-> "Executed", at |-> time, about |-> id, by |-> "anyone"]
  OBVIOUS
<1>1. /\ log \in Seq(LogEntry) /\ time \in Nat /\ TimelockDelay \in Nat
      /\ CouncilTypeOK /\ id \in OpIds /\ ops[id] \in OpRecord
  BY CouncilAssumption DEF CouncilInv, LogTypeOK, CouncilTypeOK, OpRecord
<1>2. /\ UNCHANGED << time, council, lastReported, tradingPaused, maxTradeSize >> /\ feeBps' = fee
      /\ ops' = [ops EXCEPT ![id].executed = TRUE]
      /\ ~ ops[id].executed /\ ~ ops[id].cancelled /\ time >= ops[id].eta
  BY DEF ExecuteSetFee, Ready
<1>3. log' = Append(log, e)
  BY <1>0, EntryLogged DEF ExecuteSetFee
<1>4. e \in LogEntry /\ e.kind = "Executed" /\ e.about = id /\ e.at = time
  BY <1>0, <1>1 DEF LogEntry, CouncilActors, FeeEvents
<1>5. /\ DOMAIN ops' = DOMAIN ops /\ ops'[id] \in OpRecord
      /\ \A i \in DOMAIN ops : i # id => ops'[i] = ops[i]
      /\ (ops'[id].executed \/ ops'[id].cancelled) /\ ~ ops'[id].cancelled
  BY <1>1, <1>2, FlagSet
<1>6. CouncilTypeOK'
  <2>1. \A i \in DOMAIN ops' : ops'[i] \in OpRecord /\ ~ (ops'[i].executed /\ ops'[i].cancelled)
    BY <1>1, <1>5 DEF CouncilTypeOK, OpRecord
  <2>2. QED
    BY <1>1, <1>2, <1>5, <2>1 DEF CouncilTypeOK, OpRecord, OpIds
<1>7. \E j \in History(id) :
        IsLast(j, History(id)) /\ log[j].kind = "Queued" /\ time >= log[j].at + TimelockDelay
  <2>1. PICK j \in History(id) :
          IsLast(j, History(id)) /\ log[j].kind = "Queued" /\ ops[id].eta >= log[j].at + TimelockDelay
    BY <1>2 DEF CouncilInv, OpOpen
  <2>2. j \in 1 .. Len(log)
    BY <1>1, <1>3, <1>4, HistoryGrows
  <2>3. log[j].at \in Nat
    BY <1>1, <2>2 DEF LogEntry
  <2>4. ops[id].eta \in Nat
    BY <1>1 DEF OpRecord
  <2>5. QED
    BY <1>1, <1>2, <2>1, <2>3, <2>4
<1>8. \A i \in DOMAIN ops' :
        OpOpen(i)' \/ (i \in DOMAIN ops /\ ops'[i] = ops[i] /\ ~ Speaks(e, i))
  <2>1. OpOpen(id)'
    BY <1>5 DEF OpOpen
  <2>2. QED
    BY <1>4, <1>5, <2>1 DEF Speaks
<1>9. \A i \in DOMAIN council' : i \in DOMAIN council /\ council'[i] = council[i] /\ ~ Speaks(e, i)
  BY <1>1, <1>2, <1>4, IdsDiffer DEF Speaks, CouncilTypeOK
<1>10. QED
  BY <1>2, <1>3, <1>4, <1>6, <1>7, <1>8, <1>9, LoggedStep

LEMMA CancelOpStep ==
  ASSUME CouncilInv, NEW id \in DOMAIN ops, CancelOperation(id)
  PROVE  CouncilInv'
<1>0. PICK e : e = [kind |-> "Cancelled", at |-> time, about |-> id, by |-> "anyone"]
  OBVIOUS
<1>1. /\ log \in Seq(LogEntry) /\ time \in Nat
      /\ CouncilTypeOK /\ id \in OpIds /\ ops[id] \in OpRecord
  BY CouncilAssumption DEF CouncilInv, LogTypeOK, CouncilTypeOK, OpRecord
<1>2. /\ UNCHANGED << time, council, lastReported, tradingPaused, feeBps, maxTradeSize >>
      /\ ops' = [ops EXCEPT ![id].cancelled = TRUE] /\ ~ ops[id].executed
  BY DEF CancelOperation, stateVars
<1>3. log' = Append(log, e)
  BY <1>0, EntryLogged DEF CancelOperation
<1>4. e \in LogEntry /\ e.kind = "Cancelled" /\ e.about = id
  BY <1>0, <1>1 DEF LogEntry, CouncilActors, FeeEvents
<1>5. /\ DOMAIN ops' = DOMAIN ops /\ ops'[id] \in OpRecord
      /\ \A i \in DOMAIN ops : i # id => ops'[i] = ops[i]
      /\ (ops'[id].executed \/ ops'[id].cancelled) /\ ~ ops'[id].executed
  BY <1>1, <1>2 DEF OpRecord
<1>6. CouncilTypeOK'
  <2>1. \A i \in DOMAIN ops' : ops'[i] \in OpRecord /\ ~ (ops'[i].executed /\ ops'[i].cancelled)
    BY <1>1, <1>5 DEF CouncilTypeOK, OpRecord
  <2>2. QED
    BY <1>1, <1>2, <1>5, <2>1 DEF CouncilTypeOK, OpRecord, OpIds
<1>7. \A i \in DOMAIN ops' :
        OpOpen(i)' \/ (i \in DOMAIN ops /\ ops'[i] = ops[i] /\ ~ Speaks(e, i))
  <2>1. OpOpen(id)'
    BY <1>5 DEF OpOpen
  <2>2. QED
    BY <1>4, <1>5, <2>1 DEF Speaks
<1>8. \A i \in DOMAIN council' : i \in DOMAIN council /\ council'[i] = council[i] /\ ~ Speaks(e, i)
  BY <1>1, <1>2, <1>4, IdsDiffer DEF Speaks, CouncilTypeOK
<1>9. QED
  BY <1>2, <1>3, <1>4, <1>6, <1>7, <1>8, LoggedStep

CouncilRecord == [approvals : SUBSET Guardians, executed : BOOLEAN]

\* What every call of the council starts from.
LEMMA CouncilFacts ==
  ASSUME CouncilInv
  PROVE  /\ log \in Seq(LogEntry) /\ time \in 0 .. MaxCouncilTime /\ time \in Nat /\ CouncilTypeOK
         /\ \A id \in DOMAIN council : id \in CouncilIds /\ council[id] \in CouncilRecord
BY CouncilAssumption DEF CouncilInv, LogTypeOK, CouncilTypeOK, CouncilRecord

\* A step that concerns one council proposal and no operation.
LEMMA CouncilTypes ==
  ASSUME CouncilTypeOK, NEW id \in CouncilIds, DOMAIN council' = DOMAIN council \cup {id},
         council'[id] \in CouncilRecord, \A i \in DOMAIN council : i # id => council'[i] = council[i],
         UNCHANGED << time, ops, lastReported, tradingPaused, feeBps >>,
         maxTradeSize' \in Sizes \cup {InitialSize}
  PROVE  CouncilTypeOK'
<1>1. DOMAIN council' \subseteq CouncilIds /\ \A i \in DOMAIN council' : council'[i] \in CouncilRecord
  BY DEF CouncilTypeOK, CouncilRecord
<1>2. QED
  BY <1>1 DEF CouncilTypeOK, CouncilRecord, CouncilIds

LEMMA CreateSizeStep ==
  ASSUME CouncilInv, NEW g \in Guardians, NEW size \in Sizes, ProposeMaxTradeSize(g, size)
  PROVE  CouncilInv'
<1>0. PICK id, e, entry :
        /\ id = [proposer |-> g, size |-> size, at |-> time]
        /\ e = [kind |-> "Created", at |-> time, about |-> id, by |-> g]
        /\ entry = [approvals |-> {g}, executed |-> FALSE]
  OBVIOUS
<1>1. /\ log \in Seq(LogEntry) /\ time \in 0 .. MaxCouncilTime /\ time \in Nat /\ CouncilTypeOK
  BY CouncilFacts
<1>2. /\ UNCHANGED << time, ops, lastReported, tradingPaused, feeBps, maxTradeSize >>
      /\ PhaseAt(time) \in {"MultiSig", "DaoOnly"}
  BY DEF ProposeMaxTradeSize, stateVars, Phase
<1>3. log' = Append(log, e) /\ council' = With(council, id, entry)
  BY <1>0, EntryLogged DEF ProposeMaxTradeSize
<1>4. id \in CouncilIds
  BY <1>0, <1>1 DEF CouncilIds
<1>5. e \in LogEntry /\ e.kind = "Created" /\ e.about = id /\ e.at = time /\ e.by = g
  BY <1>0, <1>1, <1>4 DEF LogEntry, CouncilActors, SizeEvents
<1>6. entry \in CouncilRecord /\ entry.approvals = {g}
  BY <1>0 DEF CouncilRecord
<1>7. /\ DOMAIN council' = DOMAIN council \cup {id} /\ council'[id] = entry
      /\ \A i \in DOMAIN council : i # id => council'[i] = council[i]
  BY <1>3 DEF With
<1>8. CouncilTypeOK'
  BY <1>1, <1>2, <1>4, <1>6, <1>7, CouncilTypes DEF CouncilTypeOK
<1>9. PICK n \in Nat : n = Len(log)
  BY <1>1, <1>3, <1>5, Grown
<1>10. ProposalOpen(id)'
  <2> DEFINE H == History(id)'
  <2>1. Speaks(e, id)
    BY <1>5 DEF Speaks
  <2>2. /\ H = History(id) \cup {n + 1} /\ History(id) \subseteq 1 .. n /\ log'[n + 1] = e
        /\ Len(log') = n + 1
    BY <1>1, <1>3, <1>5, <1>9, <2>1, Grown, HistoryGrows DEF Speaks
  <2>3. Opening(id, Len(log) + 1)' = {j \in H : log'[j].kind \in {"Queued", "Created"}}
    BY DEF Opening, History
  <2> HIDE DEF H
  <2>4. n + 1 \in H /\ {h \in H : h >= n + 1} = {n + 1} /\ \A i \in H : i <= n + 1
    BY <1>9, <2>2
  <2>5. IsLast(n + 1, Opening(id, Len(log) + 1))'
    BY <1>5, <2>2, <2>3, <2>4 DEF IsLast
  <2>6. {log'[i].by : i \in {h \in H : h >= n + 1}} = {g}
    BY <1>5, <2>2, <2>4
  <2>7. \A i \in H : i >= n + 1 => log'[i].kind # "CouncilExecuted"
    BY <1>5, <1>9, <2>2
  <2>8. ApprovedSince(id, n + 1)'
    BY <1>2, <1>5, <1>6, <1>7, <2>2, <2>5, <2>6, <2>7 DEF ApprovedSince, PhaseAt, H
  <2>9. QED
    BY <2>4, <2>8 DEF ProposalOpen, H
<1>11. \A i \in DOMAIN council' :
         ProposalOpen(i)' \/ (i \in DOMAIN council /\ council'[i] = council[i] /\ ~ Speaks(e, i))
  BY <1>5, <1>7, <1>10 DEF Speaks
<1>12. \A i \in DOMAIN ops' : i \in DOMAIN ops /\ ops'[i] = ops[i] /\ ~ Speaks(e, i)
  BY <1>1, <1>2, <1>4, <1>5, IdsDiffer DEF Speaks, CouncilTypeOK
<1>13. QED
  BY <1>2, <1>3, <1>5, <1>8, <1>11, <1>12, LoggedStep

LEMMA ApproveStep ==
  ASSUME CouncilInv, NEW id \in DOMAIN council, NEW g \in Guardians, ApproveMaxTradeSize(id, g)
  PROVE  CouncilInv'
<1>0. PICK e : e = [kind |-> "Approved", at |-> time, about |-> id, by |-> g]
  OBVIOUS
<1>1. /\ log \in Seq(LogEntry) /\ time \in Nat /\ CouncilTypeOK
      /\ id \in CouncilIds /\ council[id] \in CouncilRecord
  BY CouncilFacts
<1>2. /\ UNCHANGED << time, ops, lastReported, tradingPaused, feeBps, maxTradeSize >>
      /\ ~ council[id].executed
      /\ council' = [council EXCEPT ![id].approvals = @ \union {g}]
  BY DEF ApproveMaxTradeSize, stateVars
<1>3. log' = Append(log, e)
  BY <1>0, EntryLogged DEF ApproveMaxTradeSize
<1>4. e \in LogEntry /\ e.kind = "Approved" /\ e.about = id /\ e.by = g
  BY <1>0, <1>1 DEF LogEntry, CouncilActors, SizeEvents
<1>5. /\ DOMAIN council' = DOMAIN council /\ council'[id] \in CouncilRecord
      /\ council'[id].approvals = council[id].approvals \cup {g}
      /\ \A i \in DOMAIN council : i # id => council'[i] = council[i]
  BY <1>1, <1>2 DEF CouncilRecord
<1>6. CouncilTypeOK'
  <2>1. DOMAIN council' = DOMAIN council \cup {id} /\ maxTradeSize' \in Sizes \cup {InitialSize}
    BY <1>1, <1>2, <1>5 DEF CouncilTypeOK
  <2>2. QED
    BY <1>1, <1>2, <1>5, <2>1, CouncilTypes
<1>7. PICK n \in Nat : n = Len(log)
  BY <1>1, <1>3, <1>4, Grown
<1>8. ProposalOpen(id)'
  <2> DEFINE K == History(id)
             H == History(id)'
  <2>1. Speaks(e, id)
    BY <1>4 DEF Speaks
  <2>2. /\ H = K \cup {n + 1} /\ K \subseteq 1 .. n /\ log'[n + 1] = e
        /\ \A i \in 1 .. n : log'[i] = log[i]
    BY <1>1, <1>3, <1>4, <1>7, <2>1, Grown, HistoryGrows DEF Speaks
  <2>3. PICK j \in K : ApprovedSince(id, j)
    BY <1>2 DEF CouncilInv, ProposalOpen
  <2> DEFINE O == Opening(id, Len(log) + 1)
             S == {h \in K : h >= j}
  <2>4. /\ IsLast(j, O) /\ council[id].approvals = {log[i].by : i \in S}
        /\ \A i \in K : i >= j => log[i].kind # "CouncilExecuted"
        /\ PhaseAt(log[j].at) \in {"MultiSig", "DaoOnly"}
    BY <2>3 DEF ApprovedSince
  <2>5. O' = {i \in H : log'[i].kind \in {"Queued", "Created"}}
    BY DEF Opening, History
  <2>6. O = {i \in K : log[i].kind \in {"Queued", "Created"}}
    BY DEF Opening, History
  <2> HIDE DEF H, K
  <2>7. \A i \in K : log'[i] = log[i] /\ i # n + 1
    BY <1>7, <2>2
  <2>8. O' = O
    BY <1>4, <2>2, <2>5, <2>6, <2>7
  <2>9. IsLast(j, O')
    BY <2>4, <2>8
  <2>10. {h \in H : h >= j} = S \cup {n + 1}
    BY <1>7, <2>2, <2>3
  <2>11. {log'[i].by : i \in {h \in H : h >= j}} = {log[i].by : i \in S} \cup {g}
    <3>1. S \subseteq K
      OBVIOUS
    <3>2. \A i \in S : log'[i] = log[i]
      BY <2>7, <3>1
    <3> HIDE DEF S
    <3>3. {log'[i].by : i \in S \cup {n + 1}} = {log[i].by : i \in S} \cup {g}
      BY <1>4, <2>2, <3>2
    <3>4. QED
      BY <2>10, <3>3
  <2>12. \A i \in H : i >= j => log'[i].kind # "CouncilExecuted"
    BY <1>4, <2>2, <2>4, <2>7
  <2>13. PhaseAt(log'[j].at) \in {"MultiSig", "DaoOnly"}
    BY <2>4, <2>7
  <2>14. council'[id].approvals = {log'[i].by : i \in {h \in H : h >= j}}
    BY <1>5, <2>4, <2>11
  <2>15. ApprovedSince(id, j)'
    <3> HIDE DEF O
    <3>1. IsLast(j, Opening(id, Len(log) + 1))'
      BY <2>9 DEF O, IsLast
    <3>2. QED
      BY <2>12, <2>13, <2>14, <3>1 DEF ApprovedSince, PhaseAt, H
  <2>16. QED
    BY <2>2, <2>3, <2>15 DEF ProposalOpen, H
<1>9. \A i \in DOMAIN council' :
        ProposalOpen(i)' \/ (i \in DOMAIN council /\ council'[i] = council[i] /\ ~ Speaks(e, i))
  BY <1>4, <1>5, <1>8 DEF Speaks
<1>10. \A i \in DOMAIN ops' : i \in DOMAIN ops /\ ops'[i] = ops[i] /\ ~ Speaks(e, i)
  BY <1>1, <1>2, <1>4, IdsDiffer DEF Speaks, CouncilTypeOK
<1>11. QED
  BY <1>2, <1>3, <1>4, <1>6, <1>9, <1>10, LoggedStep

LEMMA ExecuteSizeStep ==
  ASSUME CouncilInv, NEW id \in DOMAIN council, NEW size \in Sizes, ExecuteMaxTradeSize(id, size)
  PROVE  CouncilInv'
<1>0. PICK e : e = [kind |-> "CouncilExecuted", at |-> time, about |-> id, by |-> "anyone"]
  OBVIOUS
<1>1. /\ log \in Seq(LogEntry) /\ time \in Nat /\ CouncilTypeOK
      /\ id \in CouncilIds /\ council[id] \in CouncilRecord
  BY CouncilFacts
<1>2. /\ UNCHANGED << time, ops, lastReported, tradingPaused, feeBps >> /\ maxTradeSize' = size
      /\ ~ council[id].executed /\ size = id.size
      /\ Cardinality(council[id].approvals) >= MultisigThreshold
      /\ council' = [council EXCEPT ![id].executed = TRUE]
  BY DEF ExecuteMaxTradeSize, Approved, Payload
<1>3. log' = Append(log, e)
  BY <1>0, EntryLogged DEF ExecuteMaxTradeSize
<1>4. e \in LogEntry /\ e.kind = "CouncilExecuted" /\ e.about = id
  BY <1>0, <1>1 DEF LogEntry, CouncilActors, SizeEvents
<1>5. /\ DOMAIN council' = DOMAIN council /\ council'[id] \in CouncilRecord /\ council'[id].executed
      /\ \A i \in DOMAIN council : i # id => council'[i] = council[i]
  BY <1>1, <1>2 DEF CouncilRecord
<1>6. CouncilTypeOK'
  <2>1. DOMAIN council' = DOMAIN council \cup {id} /\ maxTradeSize' \in Sizes \cup {InitialSize}
    BY <1>2, <1>5
  <2>2. QED
    BY <1>1, <1>2, <1>5, <2>1, CouncilTypes
<1>7. \E j \in History(id) : ApprovedSince(id, j)
  BY <1>2 DEF CouncilInv, ProposalOpen
<1>8. \A i \in DOMAIN council' :
        ProposalOpen(i)' \/ (i \in DOMAIN council /\ council'[i] = council[i] /\ ~ Speaks(e, i))
  <2>1. ProposalOpen(id)'
    BY <1>5 DEF ProposalOpen
  <2>2. QED
    BY <1>4, <1>5, <2>1 DEF Speaks
<1>9. \A i \in DOMAIN ops' : i \in DOMAIN ops /\ ops'[i] = ops[i] /\ ~ Speaks(e, i)
  BY <1>1, <1>2, <1>4, IdsDiffer DEF Speaks, CouncilTypeOK
<1>10. QED
  BY <1>2, <1>3, <1>4, <1>6, <1>7, <1>8, <1>9, LoggedStep

LEMMA CouncilStep == ASSUME CouncilInv, [CouncilNext]_councilVars PROVE CouncilInv'
<1>1. CASE UNCHANGED councilVars
  <2>1. time' >= time
    BY <1>1, CouncilFacts DEF councilVars
  <2>2. CouncilTypeOK' /\ UNCHANGED << log, ops, council, lastReported, maxTradeSize >>
    BY <1>1, CouncilFacts DEF councilVars, stateVars, CouncilTypeOK, OpIds, CouncilIds
  <2>3. QED
    BY <2>1, <2>2, QuietStep
<1>2. CASE Tick
  BY <1>2, TickStep
<1>3. CASE \E dt \in CouncilTimeSteps : TimePasses(dt)
  BY <1>3, QuietSteps
<1>4. CASE \E paused \in BOOLEAN : SetPaused(paused)
  BY <1>4, QuietSteps
<1>5. CASE \E fee \in Fees : SetFeeDirect(fee) \/ QueueSetFee(fee) \/ \E id \in DOMAIN ops : ExecuteSetFee(id, fee)
  BY <1>5, QuietSteps, QueueStep, ExecuteFeeStep
<1>6. CASE \E id \in DOMAIN ops : CancelOperation(id)
  BY <1>6, CancelOpStep
<1>7. ASSUME NEW g \in Guardians,
             \/ \E s \in Sizes : ProposeMaxTradeSize(g, s)
             \/ \E id \in DOMAIN council : ApproveMaxTradeSize(id, g)
             \/ GuardianOverride(g)
      PROVE  CouncilInv'
  BY <1>7, CreateSizeStep, ApproveStep, OverrideStep
<1>8. CASE \E id \in DOMAIN council, s \in Sizes : ExecuteMaxTradeSize(id, s)
  BY <1>8, ExecuteSizeStep
<1>9. QED
  BY <1>1, <1>2, <1>3, <1>4, <1>5, <1>6, <1>7, <1>8 DEF CouncilNext

LEMMA CouncilInitInv == CouncilInit => CouncilInv
<1> SUFFICES ASSUME CouncilInit PROVE CouncilInv
  OBVIOUS
<1>1. PICK e : e = [kind |-> "Phase", at |-> 0, about |-> << "FullAdmin", "FullAdmin" >>, by |-> "none"]
  OBVIOUS
<1>2. e \in LogEntry /\ e.kind = "Phase" /\ e.about[2] = "FullAdmin"
  BY <1>1 DEF LogEntry, CouncilActors, PhaseNames
<1>3. log = << e >> /\ Len(log) = 1 /\ DOMAIN log = 1 .. 1 /\ log[1] = e /\ log \in Seq(LogEntry)
  BY <1>1, <1>2 DEF CouncilInit, PhaseEvent
<1>4. CouncilTypeOK
  <2>1. DOMAIN ops = {} /\ DOMAIN council = {}
    BY DEF CouncilInit
  <2>2. lastReported \in ToSet(Phases)
    <3>1. DOMAIN Phases = 1 .. 4 /\ Phases[1] = "FullAdmin"
      BY DEF Phases
    <3>2. Phases[1] \in {Phases[i] : i \in DOMAIN Phases}
      BY <3>1
    <3>3. QED
      BY <3>1, <3>2 DEF CouncilInit, ToSet
  <2>3. time \in 0 .. MaxCouncilTime
    BY CouncilAssumption DEF CouncilInit
  <2>4. QED
    BY <2>1, <2>2, <2>3 DEF CouncilInit, CouncilTypeOK
<1>5. FeesJustified /\ SizesJustified /\ SizeKnown
  BY <1>2, <1>3 DEF FeesJustified, SizesJustified, SizeKnown, SizesDone, CouncilInit
<1>6. PhaseEvents = {1}
  BY <1>2, <1>3 DEF PhaseEvents
<1>7. Rank(lastReported) <= Rank(Phase)
  <2>1. 0 \in Nat /\ time = 0 /\ lastReported = "FullAdmin"
    BY DEF CouncilInit
  <2>2. Phase \in PhaseNames
    BY <2>1, PhaseOrder DEF Phase
  <2>3. QED
    BY <2>1, <2>2, Ranks DEF PhaseNames
<1>8. PhaseKnown
  BY <1>2, <1>3, <1>6, <1>7 DEF PhaseKnown, IsLast, CouncilInit
<1>9. QED
  BY <1>3, <1>4, <1>5, <1>8 DEF CouncilInv, LogTypeOK, CouncilInit

LEMMA CouncilTrails == ASSUME CouncilInv PROVE LogJustifies
<1>1. log \in Seq(LogEntry) /\ DOMAIN log = 1 .. Len(log) /\ Len(log) \in Nat
  BY LenProperties DEF CouncilInv, LogTypeOK
<1>2. \A id, k : k \in DOMAIN log => About(id, k) \subseteq Int /\ Opening(id, k) \subseteq Int
  BY <1>1 DEF About, Opening
<1>3. FeeTrail
  <2> SUFFICES ASSUME NEW k \in DOMAIN log, log[k].kind = "Executed"
               PROVE  LET A == About(log[k].about, k) IN
                      /\ A # {} /\ log[LastOf(A)].kind = "Queued"
                      /\ log[k].at >= log[LastOf(A)].at + TimelockDelay
    BY DEF FeeTrail
  <2> DEFINE A == About(log[k].about, k)
  <2>1. PICK j \in A : /\ IsLast(j, A) /\ log[j].kind = "Queued"
                       /\ log[k].at >= log[j].at + TimelockDelay
    BY DEF CouncilInv, FeesJustified, FeeJustified
  <2>2. A \subseteq Int
    BY <1>2
  <2> HIDE DEF A
  <2>3. LastOf(A) = j
    BY <2>1, <2>2, LastIs
  <2>4. QED
    BY <2>1, <2>3 DEF A
<1>4. CouncilTrail
  <2> SUFFICES ASSUME NEW k \in DOMAIN log, log[k].kind = "CouncilExecuted"
               PROVE  LET A == About(log[k].about, k)
                          O == Opening(log[k].about, k)
                          since == {j \in A : j >= LastOf(O)}
                      IN  /\ O # {}
                          /\ Cardinality({log[j].by : j \in since}) >= MultisigThreshold
                          /\ \A j \in since : log[j].kind # "CouncilExecuted"
                          /\ PhaseAt(log[LastOf(O)].at) \in {"MultiSig", "DaoOnly"}
    BY DEF CouncilTrail
  <2> DEFINE A == About(log[k].about, k)
             O == Opening(log[k].about, k)
  <2>1. PICK j \in O : /\ IsLast(j, O)
                       /\ Cardinality({log[i].by : i \in {h \in A : h >= j}}) >= MultisigThreshold
                       /\ \A i \in A : i >= j => log[i].kind # "CouncilExecuted"
                       /\ PhaseAt(log[j].at) \in {"MultiSig", "DaoOnly"}
    BY DEF CouncilInv, SizesJustified, SizeJustified
  <2>2. O \subseteq Int
    BY <1>2
  <2> HIDE DEF A, O
  <2>3. LastOf(O) = j
    BY <2>1, <2>2, LastIs
  <2>4. QED
    BY <2>1, <2>3 DEF A, O
<1>5. SizeFromTrail
  <2>1. CASE SizesDone = {} /\ maxTradeSize = InitialSize
    BY <2>1 DEF SizeFromTrail, SizesDone
  <2>2. CASE \E j \in SizesDone : IsLast(j, SizesDone) /\ maxTradeSize = log[j].about.size
    <3>1. PICK j \in SizesDone : IsLast(j, SizesDone) /\ maxTradeSize = log[j].about.size
      BY <2>2
    <3>2. SizesDone \subseteq Int
      BY <1>1 DEF SizesDone
    <3>3. LastOf(SizesDone) = j
      BY <3>1, <3>2, LastIs
    <3>4. SizeFromTrail <=> maxTradeSize = IF SizesDone = {} THEN InitialSize ELSE log[LastOf(SizesDone)].about.size
      BY DEF SizeFromTrail, SizesDone
    <3>5. QED
      BY <3>1, <3>3, <3>4
  <2>3. QED
    BY <2>1, <2>2 DEF CouncilInv, SizeKnown
<1>6. PhaseChain
  <2>1. PhaseEvents \subseteq Int /\ \A k : EarlierPhases(k) \subseteq Int
    BY <1>1 DEF PhaseEvents, EarlierPhases
  <2>2. log[LastOf(PhaseEvents)].about[2] = lastReported
    <3>1. PICK j \in PhaseEvents : IsLast(j, PhaseEvents) /\ log[j].about[2] = lastReported
      BY DEF CouncilInv, PhaseKnown
    <3>2. LastOf(PhaseEvents) = j
      BY <2>1, <3>1, LastIs
    <3>3. QED
      BY <3>1, <3>2
  <2>3. ASSUME NEW k \in PhaseEvents \ {1}
        PROVE  /\ log[k].about[1] = log[LastOf(EarlierPhases(k))].about[2]
               /\ Rank(log[LastOf(EarlierPhases(k))].about[2]) < Rank(log[k].about[2])
    <3>1. PICK j \in EarlierPhases(k) :
            /\ IsLast(j, EarlierPhases(k)) /\ log[k].about[1] = log[j].about[2]
            /\ Rank(log[j].about[2]) < Rank(log[k].about[2])
      BY DEF CouncilInv, PhaseKnown, Follows
    <3>2. LastOf(EarlierPhases(k)) = j
      BY <2>1, <3>1, LastIs
    <3>3. QED
      BY <3>1, <3>2
  <2>4. QED
    BY <2>2, <2>3 DEF PhaseChain
<1>7. QED
  BY <1>3, <1>4, <1>5, <1>6 DEF LogJustifies, CouncilInv, LogTypeOK

-----------------------------------------------------------------------------
(* Governance as a whole *)

\* A step of governance is a step or a stutter of each of its parts.
LEMMA Parts ==
  ASSUME [GovernanceNext]_governanceVars
  PROVE  [GovNext]_govVars /\ [VotingNext]_votingVars /\ [CouncilNext]_councilVars
BY DEF GovernanceNext, OfProposals, OfCouncil, OfVoting, governanceVars

LEMMA GovernanceInvariant == GovernanceSpec => [](GovInv /\ VotingInv)
<1>1. GovernanceInit => GovInv /\ VotingInv
  BY GovInitInv, VotingInit_Inv DEF GovernanceInit
<1>2. GovInv /\ VotingInv /\ [GovernanceNext]_governanceVars => (GovInv /\ VotingInv)'
  BY Parts, GovStep, VotingStep
<1>3. QED
  BY <1>1, <1>2, PTL DEF GovernanceSpec

\* A parameter has the value of an update that was valid, announced and waited
\* for, or none at all (propose_update, execute_update).
THEOREM CommittedAlwaysAnnounced == GovernanceSpec => []CommittedWasAnnounced
<1>1. GovInv => CommittedWasAnnounced
  BY CommittedFollows DEF GovInv
<1>2. QED
  BY <1>1, GovernanceInvariant, PTL

\* The parameter updates implement the abstract timelock, although the delay may
\* be set and the administrator replaced, by itself or by a proposal, while they
\* wait (propose_update, execute_update, set_timelock_delay, set_admin,
\* execute_proposal).
THEOREM ParamsAlwaysTimelocked == GovernanceSpec => ParamsTimelocked
<1>1. GovernanceInit => ParamTimelock!QueueInit
  BY ParamRefinementInit DEF GovernanceInit, GovInit
<1>2. GovInv /\ [GovernanceNext]_governanceVars =>
        [ParamTimelock!QueueNext]_(ParamTimelock!queueVars)
  <2>1. ASSUME GovInv, [GovernanceNext]_governanceVars
        PROVE  ParamInv /\ ParamStep
    BY <2>1, Parts, GovIsParamStep DEF GovInv
  <2>2. QED
    BY <2>1, ParamRefinementStep
<1>3. QED
  BY <1>1, <1>2, GovernanceInvariant, PTL DEF GovernanceSpec, ParamsTimelocked, ParamTimelock!QueueSpec

\* Tallies are the votes on record and results follow from them, for proposals
\* weighed by stake and ballots counted by head, whatever number of proposals,
\* voters and moves of stake there are (cast_vote, finalize_proposal,
\* execute_proposal; vote, finalize).
THEOREM VotesAlwaysDecide == GovernanceSpec => []VotesDecide
<1>1. VotingInv => BallotsDecide
  <2> SUFFICES ASSUME VotingInv PROVE BallotsDecide
    OBVIOUS
  <2>1. DOMAIN ballots = 1 .. Len(ballots)
    BY LenProperties DEF VotingInv
  <2>2. QED
    BY <2>1 DEF VotingInv, BallotOK, BallotsDecide, VotingTypeOK
<1>2. GovInv /\ VotingInv => VotesDecide
  BY <1>1, GovDecided DEF VotesDecide
<1>3. QED
  BY <1>2, GovernanceInvariant, PTL

\* The administrator is replaced by a call it authorized or by a proposal that
\* carried, the configuration changes only with the administrator's own
\* authorization, voted on or not, and a decided ballot stands, whoever signs
\* and whatever number is voted on (set_admin, set_config,
\* execute_proposal_action; vote, finalize, execute).
THEOREM PowerAlwaysMovesProperly == GovernanceSpec => PowerMovesProperly
<1> DEFINE A == /\ admin' # admin =>
                     \/ signers' = {admin} /\ proposals' = proposals
                     \/ \E p \in JustExecuted : IsSuccession(proposals[p].action)
                /\ config' # config =>
                     /\ admin \in signers'
                     /\ \/ proposals' = proposals
                        \/ \E p \in JustExecuted : IsReform(proposals[p].action)
           B == \A id \in DOMAIN ballots :
                  LET b == ballots[id] IN
                  b.status # "Active" =>
                    ballots'[id] \in {b} \cup
                      (IF b.status = "Passed" THEN {[b EXCEPT !.status = "Executed"]} ELSE {})
<1>1. GovInv /\ [GovernanceNext]_governanceVars => [A]_govVars
  BY Parts, GovStep, Zenon DEF AdminMoves
<1>2. VotingInv /\ [GovernanceNext]_governanceVars => [B]_votingVars
  <2> SUFFICES ASSUME VotingInv, [GovernanceNext]_governanceVars PROVE B
    OBVIOUS
  <2>1. DOMAIN ballots = 1 .. Len(ballots) /\ AllStand
    BY Parts, VotingStep, LenProperties DEF VotingInv
  <2>2. QED
    BY <2>1 DEF AllStand, Stands
<1> HIDE DEF A, B
<1>3. GovernanceSpec => [][A]_govVars /\ [][B]_votingVars
  BY <1>1, <1>2, GovernanceInvariant, PTL DEF GovernanceSpec
<1>4. QED
  BY <1>3 DEF PowerMovesProperly, AdminMovesProperly, OutcomesStand, A, B

\* The log accounts for what the council's schedule did, whatever number of
\* operations, proposals and phases there are: a fee change carried out was
\* queued a full delay before and not cancelled since, a size change had the
\* approvals it needs in a phase of the council's, the size in force is the last
\* one carried out, and the phases reported form a chain (queue_operation,
\* execute_operation, cancel_operation, approve_proposal, execute_proposal,
\* tick).
THEOREM LogAlwaysJustifies == GovernanceSpec => []LogJustifies
<1>1. GovernanceInit => CouncilInv
  BY CouncilInitInv DEF GovernanceInit
<1>2. CouncilInv /\ [GovernanceNext]_governanceVars => CouncilInv'
  BY Parts, CouncilStep
<1>3. CouncilInv => LogJustifies
  BY CouncilTrails
<1>4. QED
  BY <1>1, <1>2, <1>3, PTL DEF GovernanceSpec

-----------------------------------------------------------------------------
(* KYC *)

\* How a change of the record of one user shows in the whole table.
LEMMA TableUpdate ==
  ASSUME NEW f \in [Addresses -> KYCRecord], NEW u \in Addresses, NEW r \in KYCRecord
  PROVE  /\ [f EXCEPT ![u] = r] \in [Addresses -> KYCRecord]
         /\ \A a \in Addresses : [f EXCEPT ![u] = r][a] = IF a = u THEN r ELSE f[a]
OBVIOUS

\* The three ways a handler rewrites a record keep its type and keep
\* finalized_at in step with the status.
RecordOK(r) == r \in KYCRecord /\ (IsFinalized(r) <=> r.status \in Terminal)

LEMMA SubmittedOK ==
  ASSUME KYCTypeOK, NEW r, RecordOK(r), r.status = "Unverified"
  PROVE  RecordOK(Submitted(r)) /\ Submitted(r).status = "Pending"
BY KYCAssumption
DEF RecordOK, Submitted, KYCRecord, Status, Terminal, IsFinalized, NoTime, KYCTypeOK, AdminTypeOK

LEMMA ResubmittedOK ==
  ASSUME NEW r, RecordOK(r), r.status = "AdditionalInfoRequired"
  PROVE  RecordOK([r EXCEPT !.status = "InReview"])
BY DEF RecordOK, KYCRecord, Status, Terminal, IsFinalized, NoTime

LEMMA ReviewedOK ==
  ASSUME KYCTypeOK, NEW r, RecordOK(r), ~ IsFinalized(r),
         NEW op \in Addresses, NEW new \in Status
  PROVE  RecordOK(Reviewed(r, op, new)) /\ Reviewed(r, op, new).status = new
BY DEF RecordOK, Reviewed, FinalTime, KYCRecord, Terminal, IsFinalized, NoTime,
       KYCTypeOK, AdminTypeOK

LEMMA OverriddenOK ==
  ASSUME KYCTypeOK, NEW r, RecordOK(r), NEW op \in Addresses, NEW new \in Status
  PROVE  RecordOK(Overridden(r, op, new)) /\ Overridden(r, op, new).status = new
BY DEF RecordOK, Overridden, KYCRecord, Terminal, IsFinalized, NoTime, KYCTypeOK, AdminTypeOK

-----------------------------------------------------------------------------
(* The inductive invariant of KYC *)

\* Nothing proposed is executable before the minimum timelock has run out: the
\* delay never falls below the minimum, and a proposal keeps its own due time.
ProposalsAged ==
  \A id \in 1 .. Len(overrides) :
    overrides[id].proposed_at + MinTimelockDuration <= overrides[id].executable_at

KYCInv == KYCTypeOK /\ FinalizedIffTerminal /\ ProposalsAged

LEMMA KYCInvInit == KYCInit => KYCInv
<1> SUFFICES ASSUME KYCInit PROVE KYCInv
  OBVIOUS
<1>1. AdminTypeOK
  BY AdminAssumption DEF KYCInit, AdminInit, AdminTypeOK
<1>2. NewRecord \in KYCRecord /\ NewRecord.finalized_at = NoTime
      /\ NewRecord.status \notin Terminal
  BY DEF NewRecord, KYCRecord, Status, Terminal, NoTime
<1>3. QED
  BY <1>1, <1>2, KYCAssumption, EmptySeq
  DEF KYCInit, KYCInv, KYCTypeOK, FinalizedIffTerminal, ProposalsAged, IsFinalized

\* A step that replaces one record by a well-formed one keeps the record part.
LEMMA RecordsStep ==
  ASSUME KYCTypeOK, FinalizedIffTerminal,
         NEW u \in Addresses, NEW r, RecordOK(r),
         records' = [records EXCEPT ![u] = r]
  PROVE  records' \in [Addresses -> KYCRecord] /\ FinalizedIffTerminal'
<1>1. r \in KYCRecord /\ records \in [Addresses -> KYCRecord]
  BY DEF RecordOK, KYCTypeOK
<1>2. /\ records' \in [Addresses -> KYCRecord]
      /\ \A a \in Addresses : records'[a] = IF a = u THEN r ELSE records[a]
  BY <1>1, TableUpdate
<1>3. QED
  BY <1>2 DEF RecordOK, FinalizedIffTerminal, IsFinalized

\* The administrative steps keep AdminTypeOK.
LEMMA KYCAdminStep ==
  ASSUME AdminTypeOK,
         \/ UNCHANGED adminVars
         \/ \E a \in Addresses : RecordSensitive(a) /\ UNCHANGED << now, admin >>
         \/ \E caller, newAdmin \in Addresses : SetAdmin(caller, newAdmin)
         \/ \E dt \in TimeSteps : AdvanceTime(dt)
  PROVE  AdminTypeOK'
<1>1. CASE UNCHANGED adminVars
  BY <1>1 DEF AdminTypeOK, adminVars
<1>2. ASSUME NEW a \in Addresses, RecordSensitive(a),
             UNCHANGED << now, admin >> \/ (admin' \in Addresses /\ UNCHANGED now)
      PROVE  AdminTypeOK'
  BY <1>2, AdminAssumption DEF AdminTypeOK, RecordSensitive
<1>3. ASSUME NEW dt \in TimeSteps, AdvanceTime(dt)
      PROVE  AdminTypeOK'
  BY <1>3, AdminAssumption DEF AdminTypeOK, AdvanceTime
<1> QED BY <1>1, <1>2, <1>3 DEF SetAdmin

LEMMA KYCInvStep ==
  ASSUME KYCInv, [KYCNext]_kycVars
  PROVE  KYCInv'
<1> USE DEF KYCInv
<1>0. \A a \in Addresses : RecordOK(records[a])
  BY DEF KYCTypeOK, FinalizedIffTerminal, RecordOK
<1>1. ASSUME UNCHANGED << records, overrides, overrideDelay, pendingExpiry >>,
             operators' \subseteq Addresses, AdminTypeOK'
      PROVE  KYCInv'
  BY <1>1 DEF KYCTypeOK, FinalizedIffTerminal, ProposalsAged, IsFinalized
<1>2. ASSUME NEW caller \in Addresses, NEW op \in Addresses,
             AddOperator(caller, op) \/ RemoveOperator(caller, op)
      PROVE  KYCInv'
  <2>1. AdminTypeOK'
    BY <1>2, KYCAdminStep DEF AddOperator, RemoveOperator, KYCTypeOK
  <2>2. QED
    BY <1>1, <1>2, <2>1 DEF AddOperator, RemoveOperator, KYCTypeOK
<1>3. ASSUME NEW caller \in Addresses, NEW d \in DurationChoices,
             SetOverrideTimelock(caller, d) \/ SetPendingExpiry(caller, d)
      PROVE  KYCInv'
  <2>1. AdminTypeOK'
    BY <1>3, KYCAdminStep DEF SetOverrideTimelock, SetPendingExpiry, KYCTypeOK
  <2>2. d \in Nat
    BY KYCAssumption
  <2>3. QED
    BY <1>3, <2>1, <2>2
    DEF SetOverrideTimelock, SetPendingExpiry, AdmissibleTimelock, KYCTypeOK,
        FinalizedIffTerminal, ProposalsAged, IsFinalized
<1>4. ASSUME NEW user \in Addresses, SubmitKYC(user) \/ ResubmitKYC(user)
      PROVE  KYCInv'
  <2>1. AdminTypeOK'
    BY <1>4, KYCAdminStep DEF SubmitKYC, ResubmitKYC, KYCTypeOK
  <2>2. PICK r : RecordOK(r) /\ records' = [records EXCEPT ![user] = r]
    <3>1. CASE SubmitKYC(user)
      BY <1>0, <3>1, SubmittedOK DEF SubmitKYC
    <3>2. CASE ResubmitKYC(user)
      BY <1>0, <3>2, ResubmittedOK DEF ResubmitKYC
    <3>3. QED
      BY <1>4, <3>1, <3>2
  <2>3. records' \in [Addresses -> KYCRecord] /\ FinalizedIffTerminal'
    BY <2>2, RecordsStep
  <2>4. QED
    BY <1>4, <2>1, <2>3 DEF SubmitKYC, ResubmitKYC, KYCTypeOK, ProposalsAged
<1>5. ASSUME NEW op \in Addresses, NEW user \in Addresses, NEW new \in Status,
             UpdateStatus(op, user, new)
      PROVE  KYCInv'
  <2>1. AdminTypeOK'
    BY <1>5, KYCAdminStep DEF UpdateStatus, KYCTypeOK
  <2>2. RecordOK(Reviewed(records[user], op, new))
    BY <1>0, <1>5, ReviewedOK DEF UpdateStatus, MayUpdate
  <2>3. records' \in [Addresses -> KYCRecord] /\ FinalizedIffTerminal'
    BY <1>5, <2>2, RecordsStep DEF UpdateStatus
  <2>4. QED
    BY <1>5, <2>1, <2>3 DEF UpdateStatus, KYCTypeOK, ProposalsAged
<1>6. ASSUME NEW caller \in Addresses, NEW user \in Addresses, NEW new \in Status,
             ProposeOverride(caller, user, new)
      PROVE  KYCInv'
  <2>1. AdminTypeOK'
    BY <1>6, KYCAdminStep DEF ProposeOverride, KYCTypeOK
  <2> DEFINE o == [user |-> user, new_status |-> new, proposed_at |-> now,
                   executable_at |-> now + overrideDelay, executed |-> FALSE]
  <2>2. o \in Override /\ o.proposed_at + MinTimelockDuration <= o.executable_at
    BY <1>6, KYCAssumption DEF KYCTypeOK, AdminTypeOK, Override
  <2>3. overrides' = Append(overrides, o) /\ overrides \in Seq(Override)
    BY <1>6 DEF ProposeOverride, KYCTypeOK
  <2> HIDE DEF o
  <2>4. overrides' \in Seq(Override) /\ ProposalsAged'
    BY <2>2, <2>3, AppendProperties DEF ProposalsAged
  <2>5. QED
    BY <1>6, <2>1, <2>4
    DEF ProposeOverride, KYCTypeOK, FinalizedIffTerminal, IsFinalized
<1>7. ASSUME NEW caller \in Addresses, NEW id \in 1 .. Len(overrides),
             ExecuteOverride(caller, id)
      PROVE  KYCInv'
  <2>1. AdminTypeOK'
    BY <1>7, KYCAdminStep DEF ExecuteOverride, KYCTypeOK
  <2> DEFINE o == overrides[id]
             e == [o EXCEPT !.executed = TRUE]
  <2>2. o \in Override
    BY DEF KYCTypeOK
  <2>3. RecordOK(Overridden(records[o.user], caller, o.new_status))
    BY <1>0, <2>2, OverriddenOK DEF Override
  <2>4. records' \in [Addresses -> KYCRecord] /\ FinalizedIffTerminal'
    BY <1>7, <2>2, <2>3, RecordsStep DEF ExecuteOverride, Override
  <2>5. /\ e \in Override
        /\ e.proposed_at = o.proposed_at /\ e.executable_at = o.executable_at
    BY <2>2 DEF Override
  <2>6. overrides' = [overrides EXCEPT ![id] = e]
    BY <1>7 DEF ExecuteOverride
  <2> HIDE DEF e
  <2>7. /\ overrides' \in Seq(Override)
        /\ Len(overrides') = Len(overrides)
        /\ \A j \in 1 .. Len(overrides) : overrides'[j] = IF j = id THEN e ELSE overrides[j]
    BY <2>5, <2>6, ExceptSeq DEF KYCTypeOK
  <2>8. ProposalsAged'
    BY <2>5, <2>7 DEF ProposalsAged
  <2>9. QED
    BY <1>7, <2>1, <2>4, <2>7, <2>8 DEF ExecuteOverride, KYCTypeOK
<1>8. ASSUME UNCHANGED kycOwnVars,
             \/ \E caller, newAdmin \in Addresses : SetAdmin(caller, newAdmin)
             \/ \E dt \in TimeSteps : AdvanceTime(dt)
             \/ UNCHANGED adminVars
      PROVE  KYCInv'
  <2>1. AdminTypeOK'
    BY <1>8, KYCAdminStep DEF KYCTypeOK
  <2>2. QED
    BY <1>1, <1>8, <2>1 DEF kycOwnVars, KYCTypeOK
<1>9. QED
  BY <1>2, <1>3, <1>4, <1>5, <1>6, <1>7, <1>8 DEF KYCNext, kycVars

LEMMA KYCInvariant == KYCSpec => []KYCInv
BY KYCInvInit, KYCInvStep, PTL DEF KYCSpec

\* Every stored value keeps its type, and the override timelock never falls
\* below MIN_TIMELOCK_DURATION (set_timelock_duration).
THEOREM KYCTypes == KYCSpec => []KYCTypeOK
<1>1. KYCInv => KYCTypeOK
  BY DEF KYCInv
<1> QED BY <1>1, KYCInvariant, PTL

\* finalized_at is set exactly in the final states, whatever mix of reviews,
\* overrides and new submissions led there (update_status, execute_override).
THEOREM KYCFinalized == KYCSpec => []FinalizedIffTerminal
<1>1. KYCInv => FinalizedIffTerminal
  BY DEF KYCInv
<1> QED BY <1>1, KYCInvariant, PTL

-----------------------------------------------------------------------------
(* Final outcomes *)

FinalStep ==
  \A a \in Addresses :
    records[a].status \in Terminal /\ records'[a].status # records[a].status =>
      \E id \in 1 .. Len(overrides) :
        /\ overrides[id].user = a
        /\ overrides[id].new_status = records'[a].status
        /\ ~ overrides[id].executed /\ overrides'[id].executed
        /\ overrides[id].proposed_at + MinTimelockDuration <= now

LEMMA FinalStepHolds ==
  ASSUME KYCInv, [KYCNext]_kycVars
  PROVE  FinalStep
<1> USE DEF KYCInv
<1>0. \A a \in Addresses : RecordOK(records[a])
  BY DEF KYCTypeOK, FinalizedIffTerminal, RecordOK
<1>1. CASE UNCHANGED records
  BY <1>1 DEF FinalStep
<1>2. ASSUME NEW user \in Addresses, records[user].status \notin Terminal,
             \E r \in KYCRecord : records' = [records EXCEPT ![user] = r]
      PROVE  FinalStep
  <2>1. PICK r \in KYCRecord : records' = [records EXCEPT ![user] = r]
    BY <1>2
  <2>2. \A a \in Addresses : a # user => records'[a] = records[a]
    BY <2>1, TableUpdate DEF KYCTypeOK
  <2>3. QED
    BY <1>2, <2>2 DEF FinalStep
<1>3. ASSUME NEW user \in Addresses, SubmitKYC(user) \/ ResubmitKYC(user)
      PROVE  FinalStep
  <2>1. records[user].status \notin Terminal
    BY <1>3 DEF SubmitKYC, ResubmitKYC, Terminal
  <2>2. \E r \in KYCRecord : records' = [records EXCEPT ![user] = r]
    <3>1. CASE SubmitKYC(user)
      BY <1>0, <3>1, SubmittedOK DEF SubmitKYC, RecordOK
    <3>2. CASE ResubmitKYC(user)
      BY <1>0, <3>2, ResubmittedOK DEF ResubmitKYC, RecordOK
    <3>3. QED
      BY <1>3, <3>1, <3>2
  <2>3. QED
    BY <1>2, <2>1, <2>2
<1>4. ASSUME NEW op \in Addresses, NEW user \in Addresses, NEW new \in Status,
             UpdateStatus(op, user, new)
      PROVE  FinalStep
  <2>1. ~ IsFinalized(records[user])
    BY <1>4 DEF UpdateStatus, MayUpdate
  <2>2. Reviewed(records[user], op, new) \in KYCRecord
    BY <1>0, <2>1, ReviewedOK DEF RecordOK
  <2>3. records' = [records EXCEPT ![user] = Reviewed(records[user], op, new)]
    BY <1>4 DEF UpdateStatus
  <2>4. QED
    BY <1>0, <1>2, <2>1, <2>2, <2>3 DEF RecordOK
<1>5. ASSUME NEW caller \in Addresses, NEW id \in 1 .. Len(overrides),
             ExecuteOverride(caller, id)
      PROVE  FinalStep
  <2> DEFINE o == overrides[id]
             r == Overridden(records[o.user], caller, o.new_status)
  <2>0. o \in Override
    BY DEF KYCTypeOK
  <2>1. /\ o.user \in Addresses /\ o.new_status \in Status
        /\ o.proposed_at \in Nat /\ o.executable_at \in Nat
    BY <2>0 DEF Override
  <2>2. r \in KYCRecord /\ r.status = o.new_status
    BY <1>0, <2>1, OverriddenOK DEF RecordOK
  <2>3. records' = [records EXCEPT ![o.user] = r]
    BY <1>5 DEF ExecuteOverride
  <2> HIDE DEF r
  <2>4. \A a \in Addresses : records'[a] = IF a = o.user THEN r ELSE records[a]
    BY <2>1, <2>2, <2>3, TableUpdate DEF KYCTypeOK
  <2>5. ~ o.executed /\ now >= o.executable_at
    BY <1>5 DEF ExecuteOverride, Executable
  <2>6. [o EXCEPT !.executed = TRUE].executed
    BY <2>0 DEF Override
  <2>7. overrides'[id].executed
    BY <1>5, <2>0, <2>6 DEF ExecuteOverride, KYCTypeOK
  <2>8. o.proposed_at + MinTimelockDuration <= now
    <3>1. o.proposed_at + MinTimelockDuration <= o.executable_at
      BY DEF ProposalsAged
    <3>2. now \in Nat /\ MinTimelockDuration \in Nat
      BY KYCAssumption DEF KYCTypeOK, AdminTypeOK
    <3> HIDE DEF o
    <3>3. QED
      BY <2>1, <2>5, <3>1, <3>2
  <2>9. QED
    BY <2>2, <2>4, <2>5, <2>7, <2>8 DEF FinalStep
<1>6. QED
  BY <1>1, <1>3, <1>4, <1>5
  DEF KYCNext, kycVars, kycOwnVars, AddOperator, RemoveOperator, SetOverrideTimelock,
      SetPendingExpiry, ProposeOverride

\* "Governance overrides are the only supported path for changing a terminal
\* KYC outcome": a final status moves only in the step that executes an
\* override of that user, announced at least MIN_TIMELOCK_DURATION before.
THEOREM TerminalMovesByOverride == KYCSpec => TerminalOnlyByOverride
<1>1. KYCInv /\ [KYCNext]_kycVars => [FinalStep]_kycVars
  BY FinalStepHolds
<1>2. QED
  BY <1>1, KYCInvariant, PTL DEF KYCSpec, TerminalOnlyByOverride, FinalStep

-----------------------------------------------------------------------------
(* Reviews *)

ReviewStep == \A a \in Addresses : VerifiedByReview(a) /\ ExpiredNeverReviewed(a)

\* The record of one user changed: nothing is claimed of the others.
LEMMA OneReviewed ==
  ASSUME KYCTypeOK, NEW user \in Addresses, NEW r \in KYCRecord,
         records' = [records EXCEPT ![user] = r],
         VerifiedByReview(user), ExpiredNeverReviewed(user)
  PROVE  ReviewStep
<1>1. \A a \in Addresses : records'[a] = IF a = user THEN r ELSE records[a]
  BY TableUpdate DEF KYCTypeOK
<1>2. ASSUME NEW a \in Addresses, a # user
      PROVE  VerifiedByReview(a) /\ ExpiredNeverReviewed(a)
  BY <1>1, <1>2 DEF VerifiedByReview, ExpiredNeverReviewed, IsVerified
<1>3. QED
  BY <1>2 DEF ReviewStep

LEMMA ReviewStepHolds ==
  ASSUME KYCInv, [KYCNext]_kycVars
  PROVE  ReviewStep
<1> USE DEF KYCInv
<1>0. \A a \in Addresses : RecordOK(records[a])
  BY DEF KYCTypeOK, FinalizedIffTerminal, RecordOK
<1>1. CASE UNCHANGED records
  BY <1>1 DEF ReviewStep, VerifiedByReview, ExpiredNeverReviewed, IsVerified
<1>2. ASSUME NEW user \in Addresses, SubmitKYC(user)
      PROVE  ReviewStep
  <2> DEFINE r == Submitted(records[user])
  <2>1. r \in KYCRecord /\ r.status = "Pending" /\ records[user].status = "Unverified"
    BY <1>0, <1>2, SubmittedOK DEF SubmitKYC, RecordOK
  <2>2. records' = [records EXCEPT ![user] = r]
    BY <1>2 DEF SubmitKYC
  <2> HIDE DEF r
  <2>3. records'[user] = r
    BY <2>1, <2>2, TableUpdate DEF KYCTypeOK
  <2>4. VerifiedByReview(user) /\ ExpiredNeverReviewed(user)
    BY <2>1, <2>3 DEF VerifiedByReview, ExpiredNeverReviewed, IsVerified
  <2>5. QED
    BY <2>1, <2>2, <2>4, OneReviewed
<1>3. ASSUME NEW user \in Addresses, ResubmitKYC(user)
      PROVE  ReviewStep
  <2> DEFINE r == [records[user] EXCEPT !.status = "InReview"]
  <2>1. r \in KYCRecord /\ records[user].status = "AdditionalInfoRequired"
    BY <1>0, <1>3, ResubmittedOK DEF ResubmitKYC, RecordOK
  <2>2. r.status = "InReview"
    BY <1>0 DEF RecordOK, KYCRecord
  <2>3. records' = [records EXCEPT ![user] = r]
    BY <1>3 DEF ResubmitKYC
  <2> HIDE DEF r
  <2>4. records'[user] = r
    BY <2>1, <2>3, TableUpdate DEF KYCTypeOK
  <2>5. VerifiedByReview(user) /\ ExpiredNeverReviewed(user)
    BY <2>1, <2>2, <2>4 DEF VerifiedByReview, ExpiredNeverReviewed, IsVerified
  <2>6. QED
    BY <2>1, <2>3, <2>5, OneReviewed
<1>4. ASSUME NEW op \in Addresses, NEW user \in Addresses, NEW new \in Status,
             UpdateStatus(op, user, new)
      PROVE  ReviewStep
  <2> DEFINE old == records[user]
             r == Reviewed(old, op, new)
  <2>1. /\ IsOperator(op) /\ op # user /\ ~ IsFinalized(old)
        /\ ~ (old.status = "Pending" /\ IsExpired(old))
        /\ << old.status, new >> \in Transitions
    BY <1>4 DEF UpdateStatus, MayUpdate
  <2>2. r \in KYCRecord /\ r.status = new
    BY <1>0, <2>1, ReviewedOK DEF RecordOK
  <2>3. r.updated_by = op
    BY DEF Reviewed
  <2>4. records' = [records EXCEPT ![user] = r]
    BY <1>4 DEF UpdateStatus
  <2> HIDE DEF r
  <2>5. records'[user] = r
    BY <2>2, <2>4, TableUpdate DEF KYCTypeOK
  <2>6. new = "Verified" => old.status = "InReview"
    BY <2>1 DEF Transitions
  <2>7. VerifiedByReview(user)
    BY <2>1, <2>2, <2>3, <2>5, <2>6 DEF VerifiedByReview, IsVerified
  <2>8. ExpiredNeverReviewed(user)
    BY <2>1 DEF ExpiredNeverReviewed, IsExpired
  <2>9. QED
    BY <2>2, <2>4, <2>7, <2>8, OneReviewed
<1>5. ASSUME NEW caller \in Addresses, NEW id \in 1 .. Len(overrides),
             ExecuteOverride(caller, id)
      PROVE  ReviewStep
  <2> DEFINE o == overrides[id]
             done == [o EXCEPT !.executed = TRUE]
  <2>1. o \in Override /\ ~ o.executed
    BY <1>5 DEF KYCTypeOK, ExecuteOverride, Executable
  <2>2. done.executed
    BY <2>1 DEF Override
  <2>3. overrides'[id].executed
    BY <1>5, <2>1, <2>2 DEF ExecuteOverride, KYCTypeOK
  <2>4. overrides' # overrides
    BY <2>1, <2>2, <2>3
  <2>5. QED
    BY <2>4 DEF ReviewStep, VerifiedByReview, ExpiredNeverReviewed
<1>6. QED
  BY <1>1, <1>2, <1>3, <1>4, <1>5
  DEF KYCNext, kycVars, kycOwnVars, AddOperator, RemoveOperator, SetOverrideTimelock,
      SetPendingExpiry, ProposeOverride

\* Apart from overrides nobody is verified but by a review of somebody else who
\* is an operator, and an expired application is never reviewed, whoever is
\* operator or administrator meanwhile (update_status).
THEOREM ReviewsAlwaysSound == KYCSpec => ReviewsSound
<1>1. KYCInv /\ [KYCNext]_kycVars => [ReviewStep]_kycVars
  BY ReviewStepHolds
<1>2. QED
  BY <1>1, KYCInvariant, PTL DEF KYCSpec, ReviewsSound, ReviewStep

-----------------------------------------------------------------------------
(* Refinement *)

\* The queue the refinement mapping shows to the abstract specification.
ShownOverrides(os) ==
  [i \in 1 .. Len(os) |-> [due |-> os[i].executable_at, done |-> os[i].executed]]

LEMMA ShownAppend ==
  ASSUME NEW os \in Seq(Override), NEW o \in Override
  PROVE  ShownOverrides(Append(os, o)) =
           Append(ShownOverrides(os), [due |-> o.executable_at, done |-> o.executed])
<1> DEFINE image == [due |-> o.executable_at, done |-> o.executed]
           T == [due : Nat, done : BOOLEAN]
<1>1. \A i \in 1 .. Len(os) : os[i] \in Override
  OBVIOUS
<1>2. /\ image \in T
      /\ \A i \in 1 .. Len(os) : [due |-> os[i].executable_at, done |-> os[i].executed] \in T
  BY <1>1 DEF Override
<1>3. ShownOverrides(os) \in Seq(T) /\ Len(ShownOverrides(os)) = Len(os)
  BY <1>2, IsASeq, LenProperties DEF ShownOverrides
<1>4. QED
  BY <1>2, <1>3, AppendProperties DEF ShownOverrides

LEMMA ShownExcept ==
  ASSUME NEW os \in Seq(Override), NEW id \in 1 .. Len(os)
  PROVE  ShownOverrides([os EXCEPT ![id].executed = TRUE]) =
           [ShownOverrides(os) EXCEPT ![id].done = TRUE]
<1> DEFINE e == [os[id] EXCEPT !.executed = TRUE]
           after == [os EXCEPT ![id] = e]
           T == [due : Nat, done : BOOLEAN]
           q == ShownOverrides(os)[id]
           p == [q EXCEPT !.done = TRUE]
<1>1. os[id] \in Override
  OBVIOUS
<1>2. /\ e \in Override
      /\ e.executed = TRUE
      /\ e.executable_at = os[id].executable_at
  BY <1>1 DEF Override
<1>3. /\ after \in Seq(Override) /\ Len(after) = Len(os)
      /\ \A i \in 1 .. Len(os) : after[i] = IF i = id THEN e ELSE os[i]
  BY <1>2, ExceptSeq
<1>4. ShownOverrides(after) = [i \in 1 .. Len(os) |->
                     [due |-> after[i].executable_at, done |-> after[i].executed]]
  BY <1>3 DEF ShownOverrides
<1>5. [ShownOverrides(os) EXCEPT ![id].done = TRUE] =
        [i \in 1 .. Len(os) |-> IF i = id THEN p ELSE ShownOverrides(os)[i]]
  BY DEF ShownOverrides
<1>6. q = [due |-> os[id].executable_at, done |-> os[id].executed]
  BY DEF ShownOverrides
<1>7. q \in T /\ q.due = os[id].executable_at
  BY <1>1, <1>6 DEF Override
<1>8. [os EXCEPT ![id].executed = TRUE] = after
  OBVIOUS
<1> HIDE DEF e, q, after
<1>9. p \in T /\ p.done = TRUE /\ p.due = q.due
  BY <1>7
<1> HIDE DEF p
<1>10. p = [due |-> e.executable_at, done |-> e.executed]
  BY <1>2, <1>7, <1>9
<1>11. \A i \in 1 .. Len(os) :
         [due |-> after[i].executable_at, done |-> after[i].executed] =
           IF i = id THEN p ELSE ShownOverrides(os)[i]
  BY <1>3, <1>10 DEF ShownOverrides
<1>12. QED
  BY <1>4, <1>5, <1>11, <1>8

LEMMA RefinementInit == KYCInit => OverridePromise!QueueInit
BY KYCAssumption, EmptySeq DEF KYCInit, AdminInit, OverridePromise!QueueInit

LEMMA RefinementStep ==
  ASSUME KYCTypeOK, [KYCNext]_kycVars
  PROVE  [OverridePromise!QueueNext]_(OverridePromise!queueVars)
<1> DEFINE queue == ShownOverrides(overrides)
<1>1. overrides \in Seq(Override) /\ overrideDelay \in Nat /\ now \in Nat
  BY DEF KYCTypeOK, AdminTypeOK
<1>2. ASSUME NEW caller \in Addresses, NEW user \in Addresses, NEW new \in Status,
             ProposeOverride(caller, user, new)
      PROVE  OverridePromise!Announce
  <2> DEFINE o == [user |-> user, new_status |-> new, proposed_at |-> now,
                   executable_at |-> now + overrideDelay, executed |-> FALSE]
  <2>1. o \in Override
    BY <1>1 DEF Override
  <2>2. overrides' = Append(overrides, o) /\ UNCHANGED << now, overrideDelay >>
    BY <1>2 DEF ProposeOverride
  <2>3. ShownOverrides(Append(overrides, o)) =
          Append(queue, [due |-> o.executable_at, done |-> o.executed])
    BY <1>1, <2>1, ShownAppend
  <2>4. QED
    BY <2>2, <2>3 DEF OverridePromise!Announce, ShownOverrides
<1>3. ASSUME NEW caller \in Addresses, NEW id \in 1 .. Len(overrides),
             ExecuteOverride(caller, id)
      PROVE  \E i \in 1 .. Len(queue) : OverridePromise!CarryOut(i)
  <2>1. /\ overrides' = [overrides EXCEPT ![id].executed = TRUE]
        /\ UNCHANGED << now, overrideDelay >>
    BY <1>3 DEF ExecuteOverride, adminVars
  <2>2. queue' = [queue EXCEPT ![id].done = TRUE]
    BY <1>1, <2>1, ShownExcept
  <2>3. ~ queue[id].done /\ now >= queue[id].due
    BY <1>3 DEF ExecuteOverride, Executable, ShownOverrides
  <2>4. Len(queue) = Len(overrides)
    BY <1>1, LenProperties DEF ShownOverrides
  <2>5. QED
    BY <2>1, <2>2, <2>3, <2>4 DEF OverridePromise!CarryOut, ShownOverrides
<1>4. ASSUME NEW caller \in Addresses, NEW d \in DurationChoices,
             SetOverrideTimelock(caller, d)
      PROVE  OverridePromise!SetDelay
  BY <1>4, KYCAssumption
  DEF SetOverrideTimelock, AdmissibleTimelock, adminVars, OverridePromise!SetDelay
<1>5. ASSUME NEW dt \in TimeSteps, AdvanceTime(dt), UNCHANGED kycOwnVars
      PROVE  OverridePromise!TimePasses
  BY <1>1, <1>5, AdminAssumption DEF AdvanceTime, kycOwnVars, OverridePromise!TimePasses
<1>6. ASSUME UNCHANGED << now, overrides, overrideDelay >>
      PROVE  UNCHANGED OverridePromise!queueVars
  BY <1>6 DEF OverridePromise!queueVars
<1>7. QED
  BY <1>1, <1>2, <1>3, <1>4, <1>5, <1>6, LenProperties
  DEF KYCNext, kycVars, kycOwnVars, adminVars, AddOperator, RemoveOperator,
      SetPendingExpiry, SubmitKYC, ResubmitKYC, UpdateStatus, SetAdmin,
      OverridePromise!QueueNext, ShownOverrides

\* Overrides implement the timelocked queue: announced first, due no earlier
\* than the delay then in force, carried out at most once (propose_override,
\* execute_override, set_timelock_duration).
THEOREM OverridesImplementTimelock == KYCSpec => OverridesTimelocked
<1>1. KYCInv => KYCTypeOK
  BY DEF KYCInv
<1> QED
  BY <1>1, RefinementInit, RefinementStep, KYCInvariant, PTL
  DEF KYCSpec, OverridesTimelocked, OverridePromise!QueueSpec
=============================================================================
