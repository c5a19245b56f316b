----------------------------- MODULE VaultProofs -----------------------------
(***************************************************************************)
(* Theorems about the treasury, and about staking and the treasury running *)
(* together, for every set of stakers, addresses, amounts and every bound: *)
(* the treasury ledger is exact and its withdrawals implement the abstract *)
(* TimelockQueue; with staking beside it, what the staking                 *)
(* manager keeps twice agrees, principal and treasury never mix, stake     *)
(* records only age, and the treasury keeps its own promises under the     *)
(* penalties it is credited with.                                          *)
(***************************************************************************)
EXTENDS Vault, SequenceTheorems, Sums

-----------------------------------------------------------------------------
(* The treasury by itself *)

\* Credit keeps both counters within i128 and the balance below the deposits.
LEMMA CreditFacts ==
  ASSUME TreasuryTypeOK, LedgerExact, NEW amount \in Int, Credit(amount)
  PROVE  /\ balance' \in 0 .. MaxI128
         /\ totalDeposited' \in 0 .. MaxI128
         /\ balance' <= totalDeposited'
         /\ totalDeposited' < MaxI128 => balance' = totalDeposited' - totalWithdrawn
BY TreasuryAssumption DEF TreasuryTypeOK, LedgerExact, Credit, SaturatingAdd

\* Type correctness and the ledger equation carry each other: the upper bound
\* of the balance needs the equation, the equation needs the types.
TreasuryInv == TreasuryTypeOK /\ LedgerExact

LEMMA TreasuryInvInit == TreasuryInit => TreasuryInv
BY AdminAssumption, TreasuryAssumption, EmptySeq
DEF TreasuryInit, AdminInit, TreasuryInv, TreasuryTypeOK, AdminTypeOK, LedgerExact

\* The administrative steps keep AdminTypeOK.
LEMMA AdminStep ==
  ASSUME AdminTypeOK,
         \/ UNCHANGED adminVars
         \/ \E caller, newAdmin \in Addresses : SetAdmin(caller, newAdmin)
         \/ \E dt \in TimeSteps : AdvanceTime(dt)
  PROVE  AdminTypeOK'
<1>1. CASE UNCHANGED adminVars
  BY <1>1 DEF AdminTypeOK, adminVars
<1>2. ASSUME NEW caller \in Addresses, NEW newAdmin \in Addresses,
             SetAdmin(caller, newAdmin)
      PROVE  AdminTypeOK'
  BY <1>2, AdminAssumption DEF AdminTypeOK, SetAdmin, RecordSensitive
<1>3. ASSUME NEW dt \in TimeSteps, AdvanceTime(dt)
      PROVE  AdminTypeOK'
  BY <1>3, AdminAssumption DEF AdminTypeOK, AdvanceTime
<1> QED BY <1>1, <1>2, <1>3

\* What may happen to a treasury that others deposit into and that is part of a
\* larger system: its operations with any amount and any duration.
LedgerStep ==
  \/ \E amount \in Int : Deposit(amount)
  \/ \E duration \in Nat : SetTimelockDuration(duration)
  \/ \E caller \in Addresses, amount \in Int : RequestWithdraw(caller, amount)
  \/ \E caller \in Addresses, id \in 1 .. Len(requests) : ExecuteWithdraw(caller, id)
  \/ \E caller, newAdmin \in Addresses :
        SetAdmin(caller, newAdmin) /\ UNCHANGED treasuryOwnVars
  \/ \E dt \in TimeSteps : AdvanceTime(dt) /\ UNCHANGED treasuryOwnVars

LEMMA TreasuryStepsAreLedgerSteps == TreasuryNext => LedgerStep
BY TreasuryAssumption DEF TreasuryNext, LedgerStep

LEMMA TreasuryInvStep ==
  ASSUME TreasuryInv, [LedgerStep]_treasuryVars
  PROVE  TreasuryInv'
<1> USE DEF TreasuryInv
<1>1. ASSUME NEW amount \in Int, Deposit(amount)
      PROVE  TreasuryInv'
  <2>1. AdminTypeOK'
    BY <1>1, AdminStep DEF Deposit, TreasuryTypeOK
  <2>2. QED
    BY <1>1, <2>1, CreditFacts DEF Deposit, TreasuryTypeOK, LedgerExact
<1>2. ASSUME NEW duration \in Nat, SetTimelockDuration(duration)
      PROVE  TreasuryInv'
  <2>1. AdminTypeOK'
    BY <1>2, AdminStep DEF SetTimelockDuration, TreasuryTypeOK
  <2>2. QED
    BY <1>2, <2>1, TreasuryAssumption
    DEF SetTimelockDuration, TreasuryTypeOK, LedgerExact
<1>3. ASSUME NEW caller \in Addresses, NEW amount \in Int,
             RequestWithdraw(caller, amount)
      PROVE  TreasuryInv'
  <2>1. AdminTypeOK'
    BY <1>3, AdminStep DEF RequestWithdraw, TreasuryTypeOK
  <2> DEFINE r == [amount |-> amount, executable_after |-> now + timelock,
                   executed |-> FALSE]
  <2>2. r \in WithdrawRequest
    BY <1>3, TreasuryAssumption
    DEF RequestWithdraw, WithdrawRequest, TreasuryTypeOK, AdminTypeOK
  <2>3. requests' \in Seq(WithdrawRequest)
    BY <1>3, <2>2 DEF RequestWithdraw, TreasuryTypeOK
  <2>4. QED
    BY <1>3, <2>1, <2>3 DEF RequestWithdraw, TreasuryTypeOK, LedgerExact
<1>4. ASSUME NEW caller \in Addresses, NEW id \in 1 .. Len(requests),
             ExecuteWithdraw(caller, id)
      PROVE  TreasuryInv'
  <2>1. AdminTypeOK'
    BY <1>4, AdminStep DEF ExecuteWithdraw, TreasuryTypeOK
  <2>2. requests[id] \in WithdrawRequest
    BY DEF TreasuryTypeOK
  <2>3. requests' \in Seq(WithdrawRequest)
    <3>1. [requests[id] EXCEPT !.executed = TRUE] \in WithdrawRequest
      BY <2>2 DEF WithdrawRequest
    <3>2. requests' = [requests EXCEPT ![id] = [requests[id] EXCEPT !.executed = TRUE]]
      BY <1>4 DEF ExecuteWithdraw
    <3>3. QED
      BY <3>1, <3>2, ExceptSeq DEF TreasuryTypeOK
  <2> DEFINE amount == requests[id].amount
  <2>4. /\ amount \in Nat
        /\ amount <= balance
    BY <1>4, <2>2 DEF ExecuteWithdraw, Payable, WithdrawRequest
  <2>5. /\ balance' = balance - amount
        /\ totalWithdrawn' = SaturatingAdd(totalWithdrawn, amount)
        /\ UNCHANGED totalDeposited
    BY <1>4 DEF ExecuteWithdraw
  <2> HIDE DEF amount
  <2>6. /\ balance' \in 0 .. MaxI128
        /\ totalWithdrawn' \in 0 .. MaxI128
        /\ LedgerExact'
    BY <2>4, <2>5, TreasuryAssumption
    DEF SaturatingAdd, TreasuryTypeOK, LedgerExact
  <2>7. QED
    BY <1>4, <2>1, <2>3, <2>6 DEF ExecuteWithdraw, TreasuryTypeOK
<1>5. ASSUME UNCHANGED treasuryOwnVars,
             \/ \E caller, newAdmin \in Addresses : SetAdmin(caller, newAdmin)
             \/ \E dt \in TimeSteps : AdvanceTime(dt)
             \/ UNCHANGED adminVars
      PROVE  TreasuryInv'
  <2>1. AdminTypeOK'
    BY <1>5, AdminStep DEF TreasuryTypeOK
  <2>2. QED
    BY <1>5, <2>1 DEF treasuryOwnVars, TreasuryTypeOK, LedgerExact
<1>6. QED
  BY <1>1, <1>2, <1>3, <1>4, <1>5 DEF LedgerStep, treasuryVars

LEMMA TreasuryInvariant == TreasurySpec => []TreasuryInv
BY TreasuryInvInit, TreasuryInvStep, TreasuryStepsAreLedgerSteps, PTL DEF TreasurySpec

\* Stored values keep their types: in particular the balance never goes below
\* zero, although open requests may together exceed it (request_withdraw,
\* execute_withdraw).
THEOREM TreasuryTypes == TreasurySpec => []TreasuryTypeOK
<1>1. TreasuryInv => TreasuryTypeOK
  BY DEF TreasuryInv
<1> QED BY <1>1, TreasuryInvariant, PTL

\* The audit equation of get_stats: until the lifetime deposit counter reaches
\* the top of i128 the balance is deposits less withdrawals.
THEOREM TreasuryLedger == TreasurySpec => []LedgerExact
<1>1. TreasuryInv => LedgerExact
  BY DEF TreasuryInv
<1> QED BY <1>1, TreasuryInvariant, PTL

-----------------------------------------------------------------------------
(* What was withdrawn *)

PaidOut(reqs) == [id \in 1 .. Len(reqs) |-> Paid(reqs[id])]

LEMMA PaidIsNat == ASSUME NEW r \in WithdrawRequest PROVE Paid(r) \in Nat
BY DEF Paid, WithdrawRequest

\* A request that is not executed adds nothing.
LEMMA PaidOutAppend ==
  ASSUME NEW reqs \in Seq(WithdrawRequest), NEW r \in WithdrawRequest, ~ r.executed
  PROVE  SumFunction(PaidOut(Append(reqs, r))) = SumFunction(PaidOut(reqs))
<1> DEFINE n == Len(reqs)
           after == Append(reqs, r)
<1>1. n \in Nat /\ \A i \in 1 .. n : reqs[i] \in WithdrawRequest
  BY LenProperties
<1>2. Len(after) = n + 1 /\ after[n + 1] = r /\ \A i \in 1 .. n : after[i] = reqs[i]
  BY AppendProperties
<1> HIDE DEF after
<1>3. \A i \in 1 .. n : PaidOut(reqs)[i] \in Int /\ PaidOut(after)[i] = PaidOut(reqs)[i]
  BY <1>1, <1>2, PaidIsNat DEF PaidOut
<1>4. PaidOut(after)[n + 1] = 0
  BY <1>1, <1>2 DEF PaidOut, Paid
<1>5. DOMAIN PaidOut(reqs) = 1 .. n /\ DOMAIN PaidOut(after) = 1 .. n + 1
  BY <1>2 DEF PaidOut
<1> HIDE DEF n
<1>6. SumFunctionOnSet(PaidOut(after), 1 .. n + 1) =
        SumFunctionOnSet(PaidOut(reqs), 1 .. n) + PaidOut(after)[n + 1]
  BY <1>1, <1>3, <1>4, SumAppend
<1>7. SumFunctionOnSet(PaidOut(reqs), 1 .. n) \in Int
  <2>1. IsFiniteSet(1 .. n) /\ \A i \in 1 .. n : PaidOut(reqs)[i] \in Int
    BY <1>1, <1>3, FS_Interval
  <2>2. QED
    BY <2>1, SumType
<1>8. QED
  BY <1>4, <1>5, <1>6, <1>7 DEF SumFunction, after

\* Executing a request adds its amount.
LEMMA PaidOutExecute ==
  ASSUME NEW reqs \in Seq(WithdrawRequest), NEW id \in 1 .. Len(reqs), ~ reqs[id].executed
  PROVE  SumFunction(PaidOut([reqs EXCEPT ![id].executed = TRUE])) =
           SumFunction(PaidOut(reqs)) + reqs[id].amount
<1> DEFINE e == [reqs[id] EXCEPT !.executed = TRUE]
           after == [reqs EXCEPT ![id] = e]
           n == Len(reqs)
<1>1. n \in Nat /\ \A i \in 1 .. n : reqs[i] \in WithdrawRequest
  BY LenProperties
<1>2. e \in WithdrawRequest /\ e.executed = TRUE /\ e.amount = reqs[id].amount
  BY <1>1 DEF WithdrawRequest
<1> HIDE DEF e
<1>3. Len(after) = n /\ \A i \in 1 .. n : after[i] = IF i = id THEN e ELSE reqs[i]
  BY <1>2, ExceptSeq
<1>4. after = [reqs EXCEPT ![id].executed = TRUE]
  BY DEF e
<1> HIDE DEF after
<1>5. \A i \in 1 .. n : PaidOut(reqs)[i] \in Int /\ (i # id => PaidOut(after)[i] = PaidOut(reqs)[i])
  BY <1>1, <1>3, PaidIsNat DEF PaidOut
<1>6. PaidOut(reqs)[id] = 0 /\ PaidOut(after)[id] = reqs[id].amount /\ reqs[id].amount \in Int
  BY <1>1, <1>2, <1>3 DEF PaidOut, Paid, WithdrawRequest
<1>7. DOMAIN PaidOut(reqs) = 1 .. n /\ DOMAIN PaidOut(after) = 1 .. n
  BY <1>3 DEF PaidOut
<1> HIDE DEF n
<1>8. id \in 1 .. n /\ IsFiniteSet(1 .. n)
  BY <1>1, FS_Interval DEF n
<1>9. SumFunctionOnSet(PaidOut(after), 1 .. n) =
        SumFunctionOnSet(PaidOut(reqs), 1 .. n) - PaidOut(reqs)[id] + PaidOut(after)[id]
  BY <1>1, <1>5, <1>6, <1>8, SumChangeAt
<1>10. SumFunctionOnSet(PaidOut(reqs), 1 .. n) \in Int
  BY <1>5, <1>8, SumType
<1>11. QED
  BY <1>4, <1>6, <1>7, <1>9, <1>10 DEF SumFunction

LEMMA WithdrawnStep ==
  ASSUME TreasuryInv, WithdrawnIsExecuted, [LedgerStep]_treasuryVars
  PROVE  WithdrawnIsExecuted'
<1>1. requests \in Seq(WithdrawRequest) /\ totalWithdrawn \in 0 .. MaxI128 /\ MaxI128 \in Nat
  BY TreasuryAssumption DEF TreasuryInv, TreasuryTypeOK
<1>2. WithdrawnIsExecuted <=> (totalWithdrawn < MaxI128 =>
                                totalWithdrawn = SumFunction(PaidOut(requests)))
  BY DEF WithdrawnIsExecuted, PaidOut
<1>3. WithdrawnIsExecuted' <=> (totalWithdrawn' < MaxI128 =>
                                 totalWithdrawn' = SumFunction(PaidOut(requests')))
  BY DEF WithdrawnIsExecuted, PaidOut
<1>4. ASSUME UNCHANGED << requests, totalWithdrawn >>
      PROVE  WithdrawnIsExecuted'
  BY <1>2, <1>3, <1>4
<1>5. ASSUME NEW caller \in Addresses, NEW amount \in Int, RequestWithdraw(caller, amount)
      PROVE  WithdrawnIsExecuted'
  <2> DEFINE r == [amount |-> amount, executable_after |-> now + timelock, executed |-> FALSE]
  <2>1. r \in WithdrawRequest /\ ~ r.executed
    BY <1>5 DEF RequestWithdraw, WithdrawRequest, TreasuryInv, TreasuryTypeOK, AdminTypeOK
  <2>2. requests' = Append(requests, r) /\ totalWithdrawn' = totalWithdrawn
    BY <1>5 DEF RequestWithdraw
  <2> HIDE DEF r
  <2>3. SumFunction(PaidOut(requests')) = SumFunction(PaidOut(requests))
    BY <1>1, <2>1, <2>2, PaidOutAppend
  <2>4. QED
    BY <1>2, <1>3, <2>2, <2>3
<1>6. ASSUME NEW caller \in Addresses, NEW id \in 1 .. Len(requests), ExecuteWithdraw(caller, id)
      PROVE  WithdrawnIsExecuted'
  <2> DEFINE amount == requests[id].amount
  <2>1. amount \in Nat
    <3>1. requests[id] \in WithdrawRequest
      BY <1>1
    <3>2. QED
      BY <3>1 DEF WithdrawRequest
  <2>2. /\ ~ requests[id].executed
        /\ requests' = [requests EXCEPT ![id].executed = TRUE]
        /\ totalWithdrawn' = SaturatingAdd(totalWithdrawn, amount)
    BY <1>6 DEF ExecuteWithdraw, Payable
  <2>3. SumFunction(PaidOut(requests')) = SumFunction(PaidOut(requests)) + amount
    BY <1>1, <2>2, PaidOutExecute
  <2> HIDE DEF amount
  <2>4. totalWithdrawn' < MaxI128 =>
          totalWithdrawn' = totalWithdrawn + amount /\ totalWithdrawn < MaxI128
    BY <1>1, <2>1, <2>2 DEF SaturatingAdd
  <2>5. QED
    BY <1>1, <1>2, <1>3, <2>3, <2>4
<1>7. QED
  BY <1>4, <1>5, <1>6
  DEF LedgerStep, Deposit, SetTimelockDuration, treasuryVars, treasuryOwnVars

LEMMA WithdrawnInit == TreasuryInit => WithdrawnIsExecuted
<1>1. SUFFICES ASSUME TreasuryInit PROVE WithdrawnIsExecuted
  OBVIOUS
<1>2. totalWithdrawn = 0 /\ Len(requests) = 0
  BY <1>1, EmptySeq DEF TreasuryInit
<1>3. DOMAIN PaidOut(requests) = {}
  BY <1>2 DEF PaidOut
<1>4. SumFunction(PaidOut(requests)) = 0
  BY <1>3, SumEmpty DEF SumFunction
<1>5. QED
  BY <1>2, <1>4 DEF WithdrawnIsExecuted, PaidOut

\* Until the lifetime counter of withdrawals reaches the top of i128 it is the
\* sum of the executed requests: nothing is paid without a request, and none
\* is paid twice (execute_withdraw).
THEOREM TreasuryWithdrawn == TreasurySpec => []WithdrawnIsExecuted
<1>1. QED
  BY TreasuryInvariant, WithdrawnInit, WithdrawnStep, TreasuryStepsAreLedgerSteps, PTL
  DEF TreasurySpec

-----------------------------------------------------------------------------
(* Refinement *)

\* The queue the refinement mapping shows to the abstract specification.
Shown(reqs) == [i \in 1 .. Len(reqs) |->
                  [due |-> reqs[i].executable_after, done |-> reqs[i].executed]]

\* Appending a request appends its image.
LEMMA ShownAppend ==
  ASSUME NEW reqs \in Seq(WithdrawRequest), NEW r \in WithdrawRequest
  PROVE  Shown(Append(reqs, r)) =
           Append(Shown(reqs), [due |-> r.executable_after, done |-> r.executed])
<1> DEFINE image == [due |-> r.executable_after, done |-> r.executed]
           T == [due : Nat, done : BOOLEAN]
<1>1. \A i \in 1 .. Len(reqs) : reqs[i] \in WithdrawRequest
  OBVIOUS
<1>2. /\ image \in T
      /\ \A i \in 1 .. Len(reqs) :
           [due |-> reqs[i].executable_after, done |-> reqs[i].executed] \in T
  BY <1>1 DEF WithdrawRequest
<1>3. Shown(reqs) \in Seq(T) /\ Len(Shown(reqs)) = Len(reqs)
  BY <1>2, IsASeq, LenProperties DEF Shown
<1>4. QED
  BY <1>2, <1>3, AppendProperties DEF Shown

\* Marking a request executed marks its image done.
LEMMA ShownExcept ==
  ASSUME NEW reqs \in Seq(WithdrawRequest), NEW id \in 1 .. Len(reqs)
  PROVE  Shown([reqs EXCEPT ![id].executed = TRUE]) = [Shown(reqs) EXCEPT ![id].done = TRUE]
<1> DEFINE e == [reqs[id] EXCEPT !.executed = TRUE]
           after == [reqs EXCEPT ![id] = e]
<1>1. reqs[id] \in WithdrawRequest
  OBVIOUS
<1>2. /\ e \in WithdrawRequest
      /\ e.executed = TRUE
      /\ e.executable_after = reqs[id].executable_after
  BY <1>1 DEF WithdrawRequest
<1>3. after \in Seq(WithdrawRequest) /\ Len(after) = Len(reqs)
  BY <1>2, ExceptSeq
<1>4. \A i \in 1 .. Len(reqs) : after[i] = IF i = id THEN e ELSE reqs[i]
  BY <1>2, ExceptSeq
<1>5. Shown(after) = [i \in 1 .. Len(reqs) |->
                        [due |-> after[i].executable_after, done |-> after[i].executed]]
  BY <1>3 DEF Shown
<1>6. [Shown(reqs) EXCEPT ![id].done = TRUE] =
        [i \in 1 .. Len(reqs) |-> IF i = id THEN [Shown(reqs)[id] EXCEPT !.done = TRUE]
                                            ELSE Shown(reqs)[i]]
  BY DEF Shown
<1> HIDE DEF e
<1>7. [Shown(reqs)[id] EXCEPT !.done = TRUE] = [due |-> e.executable_after, done |-> e.executed]
  <2> DEFINE T == [due : Nat, done : BOOLEAN]
             q == Shown(reqs)[id]
             p == [q EXCEPT !.done = TRUE]
  <2>1. q = [due |-> reqs[id].executable_after, done |-> reqs[id].executed]
    BY DEF Shown
  <2>2. q \in T /\ q.due = reqs[id].executable_after
    BY <1>1, <2>1 DEF WithdrawRequest
  <2> HIDE DEF q
  <2>3. p \in T /\ p.done = TRUE /\ p.due = q.due
    BY <2>2
  <2> HIDE DEF p
  <2>4. p = [due |-> p.due, done |-> p.done]
    BY <2>3
  <2>5. QED
    BY <1>2, <2>2, <2>3, <2>4 DEF p, q
<1>8. QED
  BY <1>4, <1>5, <1>6, <1>7 DEF Shown, e

LEMMA RefinementInit == TreasuryInit => Promise!QueueInit
BY TreasuryAssumption, EmptySeq DEF TreasuryInit, AdminInit, Promise!QueueInit

LEMMA RefinementStep ==
  ASSUME TreasuryTypeOK, [LedgerStep]_treasuryVars
  PROVE  [Promise!QueueNext]_(Promise!queueVars)
<1> DEFINE queue == Shown(requests)
<1>1. requests \in Seq(WithdrawRequest) /\ timelock \in Nat /\ now \in Nat
  BY DEF TreasuryTypeOK, AdminTypeOK
<1>2. ASSUME NEW caller \in Addresses, NEW amount \in Int,
             RequestWithdraw(caller, amount)
      PROVE  Promise!Announce
  <2> DEFINE r == [amount |-> amount, executable_after |-> now + timelock,
                   executed |-> FALSE]
  <2>1. r \in WithdrawRequest
    BY <1>1, <1>2, TreasuryAssumption DEF RequestWithdraw, WithdrawRequest
  <2>2. requests' = Append(requests, r) /\ UNCHANGED << now, timelock >>
    BY <1>2 DEF RequestWithdraw, adminVars
  <2>3. Shown(Append(requests, r)) =
          Append(queue, [due |-> r.executable_after, done |-> r.executed])
    BY <1>1, <2>1, ShownAppend
  <2>4. QED
    BY <2>2, <2>3 DEF Promise!Announce, Shown
<1>3. ASSUME NEW caller \in Addresses, NEW id \in 1 .. Len(requests),
             ExecuteWithdraw(caller, id)
      PROVE  \E i \in 1 .. Len(queue) : Promise!CarryOut(i)
  <2>1. requests' = [requests EXCEPT ![id].executed = TRUE] /\ UNCHANGED << now, timelock >>
    BY <1>3 DEF ExecuteWithdraw, adminVars
  <2>2. queue' = [queue EXCEPT ![id].done = TRUE]
    BY <1>1, <2>1, ShownExcept
  <2>3. ~ queue[id].done /\ now >= queue[id].due
    BY <1>3 DEF ExecuteWithdraw, Payable, Shown
  <2>4. Len(queue) = Len(requests)
    BY <1>1, LenProperties DEF Shown
  <2>5. QED
    BY <2>1, <2>2, <2>3, <2>4 DEF Promise!CarryOut, Shown
<1>4. ASSUME NEW duration \in Nat, SetTimelockDuration(duration)
      PROVE  Promise!SetDelay
  BY <1>4, TreasuryAssumption DEF SetTimelockDuration, adminVars, Promise!SetDelay
<1>5. ASSUME NEW dt \in TimeSteps, AdvanceTime(dt), UNCHANGED treasuryOwnVars
      PROVE  Promise!TimePasses
  BY <1>1, <1>5, AdminAssumption
  DEF AdvanceTime, treasuryOwnVars, Promise!TimePasses
<1>6. ASSUME \/ \E amount \in Int : Deposit(amount)
             \/ \E caller, newAdmin \in Addresses :
                   SetAdmin(caller, newAdmin) /\ UNCHANGED treasuryOwnVars
             \/ UNCHANGED treasuryVars
      PROVE  UNCHANGED Promise!queueVars
  BY <1>6 DEF Deposit, SetAdmin, adminVars, treasuryVars, treasuryOwnVars, Promise!queueVars
<1>7. QED
  BY <1>2, <1>3, <1>4, <1>5, <1>6, <1>1, LenProperties
  DEF LedgerStep, Promise!QueueNext, Shown

\* Withdrawals implement the timelocked queue: a request falls due when the
\* timelock in force at the request has passed, is paid at most once and never
\* before (request_withdraw, execute_withdraw, set_timelock_duration).
THEOREM TreasuryImplementsTimelock == TreasurySpec => ImplementsTimelock
<1>1. TreasuryInv => TreasuryTypeOK
  BY DEF TreasuryInv
<1> QED
  BY <1>1, RefinementInit, RefinementStep, TreasuryStepsAreLedgerSteps, TreasuryInvariant, PTL
  DEF TreasurySpec, ImplementsTimelock, Promise!QueueSpec

-----------------------------------------------------------------------------
(* Records *)

LEMMA BonusType ==
  ASSUME NEW s \in StakeRecord PROVE BonusAmount(s) \in Nat
<1>1. BonusBps[s.duration] \in Nat
  BY DEF BonusBps, StakeRecord
<1>2. s.amount \in Nat
  BY DEF StakeRecord
<1> DEFINE k == s.amount * BonusBps[s.duration]
<1>3. k \in Nat
  BY <1>1, <1>2
<1> HIDE DEF k
<1>4. k \div 10000 \in Nat
  BY <1>3
<1>5. QED
  BY <1>4 DEF BonusAmount, k

LEMMA PenaltyType ==
  ASSUME NEW s \in StakeRecord PROVE Penalty(s) \in Nat /\ Penalty(s) <= s.amount
<1>1. s.amount \in Nat
  BY DEF StakeRecord
<1>2. QED
  BY <1>1 DEF Penalty

\* What a record counts for in the three sums the manager keeps: all that was
\* staked, what is still staked, and the bonus if it was claimed.
Kinds == {"principal", "staked", "claimed"}

Worth(kind, s) ==
  IF kind = "principal" THEN s.amount
  ELSE IF kind = "staked" THEN (IF s.is_active THEN s.amount ELSE 0)
  ELSE (IF s.bonus_claimed THEN BonusAmount(s) ELSE 0)

Values(kind, recs) == [i \in DOMAIN recs |-> Worth(kind, recs[i])]
KindSum(kind, recs) == SumFunction(Values(kind, recs))

LEMMA WorthType ==
  ASSUME NEW kind, NEW s \in StakeRecord PROVE Worth(kind, s) \in Nat
BY BonusType DEF Worth, StakeRecord

LEMMA KindSumsAreStakeSums ==
  ASSUME NEW recs
  PROVE  /\ KindSum("principal", recs) = StakeSum(recs, AmountField, AnyStake)
         /\ KindSum("staked", recs) = StakeSum(recs, AmountField, ActiveStake)
         /\ KindSum("claimed", recs) = StakeSum(recs, BonusAmount, ClaimedStake)
<1>1. Values("principal", recs) =
        [i \in DOMAIN recs |-> IF AnyStake(recs[i]) THEN AmountField(recs[i]) ELSE 0]
  BY DEF Values, Worth, AnyStake, AmountField
<1>2. Values("staked", recs) =
        [i \in DOMAIN recs |-> IF ActiveStake(recs[i]) THEN AmountField(recs[i]) ELSE 0]
  BY DEF Values, Worth, ActiveStake, AmountField
<1>3. Values("claimed", recs) =
        [i \in DOMAIN recs |-> IF ClaimedStake(recs[i]) THEN BonusAmount(recs[i]) ELSE 0]
  BY DEF Values, Worth, ClaimedStake
<1>4. QED
  BY <1>1, <1>2, <1>3 DEF KindSum, StakeSum

LEMMA ValuesFacts ==
  ASSUME NEW kind, NEW recs \in Seq(StakeRecord)
  PROVE  /\ Len(recs) \in Nat
         /\ DOMAIN Values(kind, recs) = 1 .. Len(recs)
         /\ \A i \in 1 .. Len(recs) : Values(kind, recs)[i] = Worth(kind, recs[i])
         /\ \A i \in 1 .. Len(recs) : Values(kind, recs)[i] \in Nat
         /\ KindSum(kind, recs) = SumFunctionOnSet(Values(kind, recs), 1 .. Len(recs))
<1>1. DOMAIN recs = 1 .. Len(recs) /\ Len(recs) \in Nat
      /\ \A i \in 1 .. Len(recs) : recs[i] \in StakeRecord
  BY LenProperties
<1>2. QED
  BY <1>1, WorthType DEF Values, KindSum, SumFunction

LEMMA KindSumType ==
  ASSUME NEW kind, NEW recs \in Seq(StakeRecord) PROVE KindSum(kind, recs) \in Nat
<1> DEFINE D == 1 .. Len(recs)
           f == Values(kind, recs)
<1>1. IsFiniteSet(D)
  BY ValuesFacts, FS_Interval
<1>2. (\A i \in D : f[i] \in Nat) /\ KindSum(kind, recs) = SumFunctionOnSet(f, D)
  BY ValuesFacts
<1> HIDE DEF D, f
<1>3. QED
  BY <1>1, <1>2, SumType

LEMMA KindSumAppend ==
  ASSUME NEW kind, NEW recs \in Seq(StakeRecord), NEW s \in StakeRecord
  PROVE  /\ Append(recs, s) \in Seq(StakeRecord)
         /\ KindSum(kind, Append(recs, s)) = KindSum(kind, recs) + Worth(kind, s)
<1> DEFINE n == Len(recs)
           after == Append(recs, s)
           f == Values(kind, recs)
           g == Values(kind, after)
<1>1. /\ after \in Seq(StakeRecord) /\ Len(after) = n + 1 /\ after[n + 1] = s
      /\ \A i \in 1 .. n : after[i] = recs[i]
  BY AppendProperties
<1> HIDE DEF after
<1>2. /\ n \in Nat /\ KindSum(kind, recs) = SumFunctionOnSet(f, 1 .. n)
      /\ \A i \in 1 .. n : f[i] \in Nat /\ f[i] = Worth(kind, recs[i])
  BY ValuesFacts
<1>3. /\ KindSum(kind, after) = SumFunctionOnSet(g, 1 .. n + 1)
      /\ \A i \in 1 .. n + 1 : g[i] \in Nat /\ g[i] = Worth(kind, after[i])
  BY <1>1, ValuesFacts
<1> HIDE DEF n, f, g
<1>4. /\ \A i \in 1 .. n : f[i] \in Int
      /\ \A i \in 1 .. n : g[i] = f[i]
      /\ g[n + 1] \in Int /\ g[n + 1] = Worth(kind, s)
  BY <1>1, <1>2, <1>3
<1>5. SumFunctionOnSet(g, 1 .. n + 1) = SumFunctionOnSet(f, 1 .. n) + g[n + 1]
  BY <1>2, <1>4, SumAppend
<1>6. QED
  BY <1>1, <1>2, <1>3, <1>4, <1>5 DEF after

LEMMA KindSumExcept ==
  ASSUME NEW kind, NEW recs \in Seq(StakeRecord), NEW k \in 1 .. Len(recs), NEW t \in StakeRecord
  PROVE  /\ [recs EXCEPT ![k] = t] \in Seq(StakeRecord)
         /\ KindSum(kind, [recs EXCEPT ![k] = t])
              = KindSum(kind, recs) - Worth(kind, recs[k]) + Worth(kind, t)
<1> DEFINE n == Len(recs)
           after == [recs EXCEPT ![k] = t]
           f == Values(kind, recs)
           g == Values(kind, after)
<1>1. /\ after \in Seq(StakeRecord) /\ Len(after) = n
      /\ \A i \in 1 .. n : after[i] = IF i = k THEN t ELSE recs[i]
  BY ExceptSeq
<1> HIDE DEF after
<1>2. /\ n \in Nat /\ KindSum(kind, recs) = SumFunctionOnSet(f, 1 .. n)
      /\ \A i \in 1 .. n : f[i] \in Nat /\ f[i] = Worth(kind, recs[i])
  BY ValuesFacts
<1>3. /\ KindSum(kind, after) = SumFunctionOnSet(g, 1 .. n)
      /\ \A i \in 1 .. n : g[i] \in Nat /\ g[i] = Worth(kind, after[i])
  BY <1>1, ValuesFacts
<1>4. k \in 1 .. n
  OBVIOUS
<1> HIDE DEF n, f, g
<1>5. /\ \A i \in 1 .. n : f[i] \in Int
      /\ \A i \in 1 .. n : i # k => g[i] = f[i]
      /\ g[k] \in Int /\ g[k] = Worth(kind, t) /\ f[k] = Worth(kind, recs[k])
  BY <1>1, <1>2, <1>3, <1>4
<1>6. SumFunctionOnSet(g, 1 .. n) = SumFunctionOnSet(f, 1 .. n) - f[k] + g[k]
  BY <1>2, <1>4, <1>5, SumChangeAt
<1>7. QED
  BY <1>1, <1>2, <1>3, <1>5, <1>6 DEF after

-----------------------------------------------------------------------------
(* Claiming bonuses *)

Mark(s) == IF Claimable(s) THEN [s EXCEPT !.bonus_claimed = TRUE] ELSE s
Due(s) == IF Claimable(s) THEN BonusAmount(s) ELSE 0

\* The only fields a step may change, and how (RecordsOnlyAge without the
\* treasury's side of an early exit).
SameStake(s, t) ==
  /\ t = [s EXCEPT !.bonus_claimed = t.bonus_claimed, !.is_active = t.is_active]
  /\ s.bonus_claimed => t.bonus_claimed
  /\ t.is_active => s.is_active
  /\ t.bonus_claimed /\ ~ s.bonus_claimed => s.is_active

\* Setting the flags of a record, written out.
LEMMA FlagsSet ==
  ASSUME NEW s \in StakeRecord, NEW x \in BOOLEAN, NEW y \in BOOLEAN
  PROVE  [s EXCEPT !.bonus_claimed = x, !.is_active = y] =
           [amount |-> s.amount, duration |-> s.duration, staked_at |-> s.staked_at,
            bonus_claimed |-> x, is_active |-> y]
<1> DEFINE q == [s EXCEPT !.bonus_claimed = x]
           p == [q EXCEPT !.is_active = y]
<1>1. /\ q \in StakeRecord /\ q.amount = s.amount /\ q.duration = s.duration
      /\ q.staked_at = s.staked_at /\ q.bonus_claimed = x
  BY DEF StakeRecord
<1> HIDE DEF q
<1>2. /\ p \in StakeRecord /\ p.amount = q.amount /\ p.duration = q.duration
      /\ p.staked_at = q.staked_at /\ p.bonus_claimed = q.bonus_claimed /\ p.is_active = y
  BY <1>1 DEF StakeRecord
<1> HIDE DEF p
<1>3. p = [amount |-> p.amount, duration |-> p.duration, staked_at |-> p.staked_at,
           bonus_claimed |-> p.bonus_claimed, is_active |-> p.is_active]
  BY <1>2 DEF StakeRecord
<1>4. QED
  BY <1>1, <1>2, <1>3 DEF p, q

\* Two records of which the second agrees with the first outside the flags.
LEMMA SameFields ==
  ASSUME NEW s \in StakeRecord, NEW t \in StakeRecord,
         t.amount = s.amount, t.duration = s.duration, t.staked_at = s.staked_at
  PROVE  t = [s EXCEPT !.bonus_claimed = t.bonus_claimed, !.is_active = t.is_active]
<1> DEFINE x == t.bonus_claimed
           y == t.is_active
<1>1. x \in BOOLEAN /\ y \in BOOLEAN
  BY DEF StakeRecord
<1>2. [s EXCEPT !.bonus_claimed = x, !.is_active = y] =
        [amount |-> s.amount, duration |-> s.duration, staked_at |-> s.staked_at,
         bonus_claimed |-> x, is_active |-> y]
  <2> HIDE DEF x, y
  <2>1. QED
    BY <1>1, FlagsSet
<1>3. t = [amount |-> t.amount, duration |-> t.duration, staked_at |-> t.staked_at,
           bonus_claimed |-> t.bonus_claimed, is_active |-> t.is_active]
  BY DEF StakeRecord
<1>4. QED
  BY <1>2, <1>3

LEMMA SameStakeReflexive ==
  ASSUME NEW s \in StakeRecord PROVE SameStake(s, s)
BY SameFields DEF SameStake

LEMMA MarkFacts ==
  ASSUME NEW s \in StakeRecord
  PROVE  /\ Mark(s) \in StakeRecord
         /\ SameStake(s, Mark(s))
         /\ Mark(s).is_active = s.is_active
         /\ Mark(s).staked_at = s.staked_at
         /\ Mark(s).bonus_claimed => s.bonus_claimed \/ now >= ClaimableAt(s)
         /\ Worth("principal", Mark(s)) = Worth("principal", s)
         /\ Worth("staked", Mark(s)) = Worth("staked", s)
         /\ Worth("claimed", Mark(s)) = Worth("claimed", s) + Due(s)
         /\ Due(s) \in Nat
<1>1. CASE ~ Claimable(s)
  <2>1. Mark(s) = s /\ Due(s) = 0
    BY <1>1 DEF Mark, Due
  <2>2. QED
    BY <2>1, SameStakeReflexive, WorthType
<1>2. CASE Claimable(s)
  <2> DEFINE t == Mark(s)
  <2>1. t = [s EXCEPT !.bonus_claimed = TRUE]
    BY <1>2 DEF Mark
  <2>2. PICK a \in Nat \ {0}, d \in DOMAIN BonusBps, w \in Nat, b \in BOOLEAN, c \in BOOLEAN :
          s = [amount |-> a, duration |-> d, staked_at |-> w, bonus_claimed |-> b, is_active |-> c]
    BY DEF StakeRecord
  <2>3. t = [amount |-> a, duration |-> d, staked_at |-> w, bonus_claimed |-> TRUE, is_active |-> c]
    BY <2>1, <2>2
  <2>4. t \in StakeRecord
    BY <2>3 DEF StakeRecord
  <2>5. s.bonus_claimed = FALSE /\ s.is_active = TRUE /\ now >= ClaimableAt(s)
    BY <1>2 DEF Claimable, StakeRecord
  <2>6. /\ t.amount = s.amount /\ t.duration = s.duration /\ t.staked_at = s.staked_at
        /\ t.is_active = s.is_active /\ t.bonus_claimed = TRUE
    BY <2>2, <2>3
  <2>7. BonusAmount(t) = BonusAmount(s) /\ BonusAmount(s) \in Nat
    BY <2>6, BonusType DEF BonusAmount
  <2>8. SameStake(s, t)
    <3> HIDE DEF t
    <3>1. t = [s EXCEPT !.bonus_claimed = t.bonus_claimed, !.is_active = t.is_active]
      BY <2>4, <2>6, SameFields
    <3>2. QED
      BY <3>1, <2>5, <2>6 DEF SameStake
  <2> HIDE DEF t
  <2>9. /\ Worth("principal", t) = Worth("principal", s)
        /\ Worth("staked", t) = Worth("staked", s)
        /\ Worth("claimed", t) = BonusAmount(s) /\ Worth("claimed", s) = 0
        /\ Due(s) = BonusAmount(s)
    BY <1>2, <2>5, <2>6, <2>7 DEF Worth, Due
  <2>10. QED
    BY <2>4, <2>5, <2>6, <2>7, <2>8, <2>9 DEF t
<1>3. QED
  BY <1>1, <1>2

MarkAll(recs) == [i \in DOMAIN recs |-> Mark(recs[i])]
DueSum(recs) == SumFunction([i \in DOMAIN recs |-> Due(recs[i])])

LEMMA DueIsStakeSum ==
  ASSUME NEW recs PROVE DueSum(recs) = StakeSum(recs, BonusAmount, Claimable)
BY DEF DueSum, Due, StakeSum

LEMMA MarkAllFacts ==
  ASSUME NEW recs \in Seq(StakeRecord)
  PROVE  /\ MarkAll(recs) \in Seq(StakeRecord)
         /\ Len(MarkAll(recs)) = Len(recs)
         /\ \A i \in 1 .. Len(recs) : MarkAll(recs)[i] = Mark(recs[i])
         /\ DueSum(recs) \in Nat
         /\ KindSum("principal", MarkAll(recs)) = KindSum("principal", recs)
         /\ KindSum("staked", MarkAll(recs)) = KindSum("staked", recs)
         /\ KindSum("claimed", MarkAll(recs)) = KindSum("claimed", recs) + DueSum(recs)
<1> DEFINE n == Len(recs)
           D == 1 .. n
           after == MarkAll(recs)
           due == [i \in DOMAIN recs |-> Due(recs[i])]
<1>1. DOMAIN recs = D /\ n \in Nat /\ \A i \in D : recs[i] \in StakeRecord
  BY LenProperties
<1>2. after = [i \in D |-> Mark(recs[i])] /\ \A i \in D : Mark(recs[i]) \in StakeRecord
  BY <1>1, MarkFacts DEF MarkAll
<1>3. after \in Seq(StakeRecord) /\ Len(after) = n
  BY <1>1, <1>2, IsASeq, LenProperties
<1>4. \A i \in D : after[i] = Mark(recs[i])
  BY <1>2
<1> HIDE DEF after
<1>5. IsFiniteSet(D)
  BY <1>1, FS_Interval
<1>6. /\ DueSum(recs) = SumFunctionOnSet(due, D)
      /\ \A i \in D : due[i] = Due(recs[i]) /\ due[i] \in Nat
  BY <1>1, MarkFacts DEF DueSum, SumFunction
<1>7. ASSUME NEW kind
      PROVE  /\ KindSum(kind, recs) = SumFunctionOnSet(Values(kind, recs), D)
             /\ KindSum(kind, after) = SumFunctionOnSet(Values(kind, after), D)
             /\ \A i \in D : /\ Values(kind, recs)[i] = Worth(kind, recs[i])
                             /\ Values(kind, after)[i] = Worth(kind, after[i])
                             /\ Values(kind, recs)[i] \in Nat
                             /\ Values(kind, after)[i] \in Nat
  BY <1>3, ValuesFacts
<1> HIDE DEF n, D, due
<1>8. ASSUME NEW kind \in {"principal", "staked"}
      PROVE  KindSum(kind, after) = KindSum(kind, recs)
  <2> DEFINE f == Values(kind, recs)
             g == Values(kind, after)
  <2>1. \A i \in D : g[i] = f[i] /\ f[i] \in Int
    BY <1>1, <1>4, <1>7, MarkFacts
  <2> HIDE DEF f, g
  <2>2. SumFunctionOnSet(g, D) = SumFunctionOnSet(f, D)
    BY <1>5, <2>1, SumAgree
  <2>3. QED
    BY <1>7, <2>2 DEF f, g
<1>9. KindSum("claimed", after) = KindSum("claimed", recs) + DueSum(recs)
  <2> DEFINE f == Values("claimed", recs)
             g == Values("claimed", after)
  <2>1. \A i \in D : g[i] = f[i] + due[i] /\ f[i] \in Int /\ due[i] \in Int
    BY <1>1, <1>4, <1>6, <1>7, MarkFacts
  <2>2. KindSum("claimed", recs) = SumFunctionOnSet(f, D) /\ KindSum("claimed", after) = SumFunctionOnSet(g, D)
    BY <1>7
  <2> HIDE DEF f, g
  <2>3. SumFunctionOnSet(g, D) = SumFunctionOnSet(f, D) + SumFunctionOnSet(due, D)
    BY <1>5, <2>1, SumPlus
  <2>4. QED
    BY <1>6, <2>2, <2>3
<1>10. DueSum(recs) \in Nat
  BY <1>5, <1>6, SumType
<1>11. QED
  BY <1>3, <1>4, <1>8, <1>9, <1>10 DEF after, n, D

-----------------------------------------------------------------------------
(* The invariant *)

\* The part of the type invariant that the staking manager writes.
StakerTypes ==
  /\ stakes \in [Users -> Seq(StakeRecord)]
  /\ userTotalStaked \in [Users -> Nat]
  /\ totalStaked \in Nat
  /\ userClaimed \in [Users -> Nat]
  /\ totalDistributed \in Nat
  /\ registry \in Seq(Users)
  /\ returned \in Nat
  /\ toppedUp \in Nat

DistributionTypes ==
  /\ userEarned \in [Users -> Nat]
  /\ distributions \in Seq([at : Nat, total : Nat, recipients : Nat])
  /\ lastDistribution \in Nat

\* A total kept beside a counter per user, each counter summing up records.
Totalled(kind, counter, total) ==
  /\ \A u \in Users : counter[u] = KindSum(kind, stakes[u])
  /\ total = SumFunctionOnSet(counter, Users)

Totals ==
  /\ Totalled("staked", userTotalStaked, totalStaked)
  /\ Totalled("claimed", userClaimed, totalDistributed)

PrincipalOf(st) == [u \in Users |-> KindSum("principal", st[u])]

\* VaultConserved before the ledger equation is put in: everything staked or
\* topped up is still staked, was returned, or was deposited.
Balanced ==
  totalDeposited < MaxI128 =>
    SumFunctionOnSet(PrincipalOf(stakes), Users) + toppedUp = totalStaked + returned + totalDeposited

LedgerInv == TreasuryInv /\ WithdrawnIsExecuted

VaultInv ==
  /\ LedgerInv
  /\ StakerTypes
  /\ Totals
  /\ BonusHeld
  /\ RegistryExact
  /\ Balanced

\* One counter of the users changes.
LEMMA CounterChange ==
  ASSUME NEW counter \in [Users -> Int], NEW u \in Users, NEW v \in Int
  PROVE  SumFunctionOnSet([counter EXCEPT ![u] = v], Users) =
           SumFunctionOnSet(counter, Users) - counter[u] + v
<1> DEFINE after == [counter EXCEPT ![u] = v]
<1>1. IsFiniteSet(Users)
  BY StakingAssumption
<1>2. /\ \A x \in Users : counter[x] \in Int
      /\ \A x \in Users : x # u => after[x] = counter[x]
      /\ after[u] = v
  OBVIOUS
<1> HIDE DEF after
<1>3. SumFunctionOnSet(after, Users) = SumFunctionOnSet(counter, Users) - counter[u] + after[u]
  BY <1>1, <1>2, SumChange
<1>4. QED
  BY <1>2, <1>3 DEF after

LEMMA CounterSum ==
  ASSUME NEW counter \in [Users -> Nat]
  PROVE  /\ SumFunctionOnSet(counter, Users) \in Nat
         /\ \A u \in Users : counter[u] <= SumFunctionOnSet(counter, Users)
<1>1. IsFiniteSet(Users) /\ \A x \in Users : counter[x] \in Nat
  BY StakingAssumption
<1>2. QED
  BY <1>1, SumType, SumBounds

\* A step that replaces the records of one user.
Replaces(u, recs) ==
  /\ recs \in Seq(StakeRecord)
  /\ stakes' = [stakes EXCEPT ![u] = recs]

LEMMA StakerTypesStep ==
  ASSUME StakerTypes, NEW u \in Users, NEW recs, Replaces(u, recs)
  PROVE  /\ stakes' \in [Users -> Seq(StakeRecord)]
         /\ stakes'[u] = recs
         /\ \A v \in Users : v # u => stakes'[v] = stakes[v]
BY DEF StakerTypes, Replaces

\* Such a step keeps a counter true if it moves by what the records moved by.
LEMMA TotalledStep ==
  ASSUME StakerTypes, NEW u \in Users, NEW recs, Replaces(u, recs),
         NEW kind, NEW counter, \A v \in Users : counter[v] \in Nat, NEW total,
         Totalled(kind, counter, total),
         NEW change \in Int, KindSum(kind, recs) = KindSum(kind, stakes[u]) + change,
         NEW after, after[u] = counter[u] + change,
         \A v \in Users : v # u => after[v] = counter[v]
  PROVE  /\ \A v \in Users : after[v] \in Nat /\ after[v] = KindSum(kind, stakes'[v])
         /\ total + change \in Nat
         /\ total + change = SumFunctionOnSet(after, Users)
<1>1. after[u] = KindSum(kind, recs) /\ after[u] \in Nat /\ counter[u] \in Nat
  BY KindSumType DEF Totalled, Replaces
<1>2. stakes'[u] = recs /\ \A w \in Users : w # u => stakes'[w] = stakes[w]
  BY StakerTypesStep
<1>3. \A w \in Users : after[w] \in Nat /\ after[w] = KindSum(kind, stakes'[w])
  BY <1>1, <1>2 DEF Totalled
<1>4. IsFiniteSet(Users)
  BY StakingAssumption
<1>5. (\A w \in Users : counter[w] \in Int) /\ after[u] \in Int
  BY <1>1
<1>6. SumFunctionOnSet(after, Users) = SumFunctionOnSet(counter, Users) - counter[u] + after[u]
  BY <1>4, <1>5, SumChange
<1>7. SumFunctionOnSet(after, Users) \in Nat /\ SumFunctionOnSet(counter, Users) \in Nat
  BY <1>3, <1>4, SumType
<1>8. total = SumFunctionOnSet(counter, Users)
  BY DEF Totalled
<1>9. total + change = SumFunctionOnSet(after, Users)
  BY <1>1, <1>6, <1>7, <1>8
<1>10. QED
  BY <1>3, <1>7, <1>9

LEMMA PrincipalStep ==
  ASSUME StakerTypes, NEW u \in Users, NEW recs, Replaces(u, recs)
  PROVE  /\ SumFunctionOnSet(PrincipalOf(stakes), Users) \in Nat
         /\ SumFunctionOnSet(PrincipalOf(stakes'), Users) =
              SumFunctionOnSet(PrincipalOf(stakes), Users)
                - KindSum("principal", stakes[u]) + KindSum("principal", recs)
<1> DEFINE before == PrincipalOf(stakes)
           v == KindSum("principal", recs)
<1>1. v \in Nat
  BY KindSumType DEF Replaces
<1>2. before \in [Users -> Nat] /\ before[u] = KindSum("principal", stakes[u])
  BY KindSumType DEF PrincipalOf, StakerTypes
<1>3. PrincipalOf(stakes') = [before EXCEPT ![u] = v]
  <2>1. DOMAIN stakes = Users /\ stakes' = [stakes EXCEPT ![u] = recs]
    BY DEF StakerTypes, Replaces
  <2>2. stakes'[u] = recs /\ \A w \in Users : w # u => stakes'[w] = stakes[w]
    BY <2>1
  <2> DEFINE after == PrincipalOf(stakes')
  <2>3. \A w \in Users : after[w] = [before EXCEPT ![u] = v][w]
    BY <2>2 DEF PrincipalOf
  <2>4. after = [w \in Users |-> after[w]]
    BY DEF PrincipalOf
  <2>5. [before EXCEPT ![u] = v] = [w \in Users |-> [before EXCEPT ![u] = v][w]]
    BY DEF PrincipalOf
  <2> HIDE DEF before, v, after
  <2>6. QED
    BY <2>3, <2>4, <2>5 DEF after
<1> HIDE DEF before, v
<1>4. SumFunctionOnSet([before EXCEPT ![u] = v], Users) = SumFunctionOnSet(before, Users) - before[u] + v
  <2>1. before \in [Users -> Int] /\ v \in Int
    BY <1>1, <1>2
  <2>2. QED
    BY <2>1, CounterChange
<1>5. SumFunctionOnSet(before, Users) \in Nat
  BY <1>2, CounterSum
<1>6. QED
  BY <1>2, <1>3, <1>4, <1>5 DEF before, v

\* Setting a counter to itself plus nothing.
LEMMA NoChange ==
  ASSUME NEW counter \in [Users -> Nat], NEW u \in Users
  PROVE  [counter EXCEPT ![u] = @ + 0] = counter
<1>1. counter[u] + 0 = counter[u]
  OBVIOUS
<1>2. QED
  BY <1>1

\* What a step on one user's records has to show for types and totals.
LEMMA ReplaceStep ==
  ASSUME StakerTypes, Totals, NEW u \in Users, NEW recs, Replaces(u, recs),
         NEW dStaked \in Int, KindSum("staked", recs) = KindSum("staked", stakes[u]) + dStaked,
         userTotalStaked' = [userTotalStaked EXCEPT ![u] = @ + dStaked],
         totalStaked' = totalStaked + dStaked,
         NEW dClaimed \in Int, KindSum("claimed", recs) = KindSum("claimed", stakes[u]) + dClaimed,
         userClaimed' = [userClaimed EXCEPT ![u] = @ + dClaimed],
         totalDistributed' = totalDistributed + dClaimed,
         registry' \in Seq(Users), returned' \in Nat, UNCHANGED toppedUp
  PROVE  StakerTypes' /\ Totals'
<1>1. /\ userTotalStaked \in [Users -> Nat] /\ totalStaked \in Nat
      /\ Totalled("staked", userTotalStaked, totalStaked)
      /\ userClaimed \in [Users -> Nat] /\ totalDistributed \in Nat
      /\ Totalled("claimed", userClaimed, totalDistributed)
  BY DEF StakerTypes, Totals
<1>2. /\ userTotalStaked' \in [Users -> Nat] /\ totalStaked' \in Nat
      /\ \A v \in Users : userTotalStaked'[v] = KindSum("staked", stakes'[v])
      /\ totalStaked' = SumFunctionOnSet(userTotalStaked', Users)
  <2> DEFINE after == userTotalStaked'
             counter == userTotalStaked
             total == totalStaked
             change == dStaked
             kind == "staked"
  <2>1. /\ after[u] = counter[u] + change
        /\ \A v \in Users : v # u => after[v] = counter[v]
        /\ \A v \in Users : counter[v] \in Nat
        /\ Totalled(kind, counter, total)
        /\ change \in Int /\ KindSum(kind, recs) = KindSum(kind, stakes[u]) + change
    BY <1>1
  <2>2. after = [v \in Users |-> after[v]]
    BY <1>1
  <2> HIDE DEF after, counter, total, change, kind
  <2>3. /\ \A v \in Users : after[v] \in Nat /\ after[v] = KindSum(kind, stakes'[v])
        /\ total + change \in Nat
        /\ total + change = SumFunctionOnSet(after, Users)
    BY <2>1, TotalledStep
  <2>4. after \in [Users -> Nat]
    BY <2>2, <2>3
  <2>5. QED
    BY <2>3, <2>4 DEF after, counter, total, change, kind
<1>3. /\ userClaimed' \in [Users -> Nat] /\ totalDistributed' \in Nat
      /\ \A v \in Users : userClaimed'[v] = KindSum("claimed", stakes'[v])
      /\ totalDistributed' = SumFunctionOnSet(userClaimed', Users)
  <2> DEFINE after == userClaimed'
             counter == userClaimed
             total == totalDistributed
             change == dClaimed
             kind == "claimed"
  <2>1. /\ after[u] = counter[u] + change
        /\ \A v \in Users : v # u => after[v] = counter[v]
        /\ \A v \in Users : counter[v] \in Nat
        /\ Totalled(kind, counter, total)
        /\ change \in Int /\ KindSum(kind, recs) = KindSum(kind, stakes[u]) + change
    BY <1>1
  <2>2. after = [v \in Users |-> after[v]]
    BY <1>1
  <2> HIDE DEF after, counter, total, change, kind
  <2>3. /\ \A v \in Users : after[v] \in Nat /\ after[v] = KindSum(kind, stakes'[v])
        /\ total + change \in Nat
        /\ total + change = SumFunctionOnSet(after, Users)
    BY <2>1, TotalledStep
  <2>4. after \in [Users -> Nat]
    BY <2>2, <2>3
  <2>5. QED
    BY <2>3, <2>4 DEF after, counter, total, change, kind
<1>4. stakes' \in [Users -> Seq(StakeRecord)] /\ toppedUp' \in Nat
  BY StakerTypesStep DEF StakerTypes
<1>5. QED
  BY <1>2, <1>3, <1>4 DEF StakerTypes, Totals, Totalled

LEMMA HeldStep ==
  ASSUME StakerTypes, BonusHeld, NEW u \in Users, NEW recs, Replaces(u, recs), UNCHANGED now,
         \A i \in 1 .. Len(recs) : recs[i].bonus_claimed => now >= ClaimableAt(recs[i])
  PROVE  BonusHeld'
<1>1. stakes'[u] = recs /\ \A v \in Users : v # u => stakes'[v] = stakes[v]
  BY StakerTypesStep
<1>2. DOMAIN recs = 1 .. Len(recs)
  BY LenProperties DEF Replaces
<1>3. QED
  BY <1>1, <1>2 DEF BonusHeld, ClaimableAt

\* RecordsOnlyAge, for one record and for all.
Aged(s, t) ==
  /\ SameStake(s, t)
  /\ s.is_active /\ ~ t.is_active /\ now < UnlockAt(s) =>
       totalDeposited' = SaturatingAdd(totalDeposited, Penalty(s))

AllAged ==
  \A u \in Users : \A i \in DOMAIN stakes[u] :
    i \in DOMAIN stakes'[u] /\ Aged(stakes[u][i], stakes'[u][i])

LEMMA AgedReflexive ==
  ASSUME NEW s \in StakeRecord PROVE Aged(s, s)
BY SameStakeReflexive DEF Aged

LEMMA AgedStep ==
  ASSUME StakerTypes, NEW u \in Users, NEW recs, Replaces(u, recs), Len(recs) >= Len(stakes[u]),
         \A i \in 1 .. Len(stakes[u]) : Aged(stakes[u][i], recs[i])
  PROVE  AllAged
<1>1. stakes'[u] = recs /\ \A v \in Users : v # u => stakes'[v] = stakes[v]
  BY StakerTypesStep
<1>2. \A v \in Users : /\ DOMAIN stakes[v] = 1 .. Len(stakes[v]) /\ Len(stakes[v]) \in Nat
                       /\ \A i \in 1 .. Len(stakes[v]) : stakes[v][i] \in StakeRecord
  BY LenProperties DEF StakerTypes
<1>3. DOMAIN recs = 1 .. Len(recs) /\ Len(recs) \in Nat
  BY LenProperties DEF Replaces
<1>4. 1 .. Len(stakes[u]) \subseteq 1 .. Len(recs)
  BY <1>2, <1>3
<1>5. QED
  BY <1>1, <1>2, <1>3, <1>4, AgedReflexive DEF AllAged

LEMMA RegistryKept ==
  ASSUME StakerTypes, RegistryExact, NEW u \in Users, NEW recs, Replaces(u, recs),
         UNCHANGED registry, recs = << >> <=> stakes[u] = << >>
  PROVE  RegistryExact'
<1>1. stakes'[u] = recs /\ \A v \in Users : v # u => stakes'[v] = stakes[v]
  BY StakerTypesStep
<1>2. \A v \in Users : stakes'[v] # << >> <=> stakes[v] # << >>
  BY <1>1
<1>3. QED
  BY <1>2 DEF RegistryExact

\* A first stake enrols its owner, a later one does not.
LEMMA RegistryStake ==
  ASSUME StakerTypes, RegistryExact, NEW u \in Users, NEW recs, Replaces(u, recs),
         recs # << >>, registry' = Enrol(u)
  PROVE  registry' \in Seq(Users) /\ RegistryExact'
<1>1. stakes'[u] = recs /\ \A v \in Users : v # u => stakes'[v] = stakes[v]
  BY StakerTypesStep
<1>2. CASE stakes[u] # << >>
  <2>1. registry' = registry /\ registry \in Seq(Users)
    BY <1>2 DEF Enrol, StakerTypes
  <2>2. QED
    BY <1>1, <1>2, <2>1 DEF RegistryExact
<1>3. CASE stakes[u] = << >>
  <2> DEFINE n == Len(registry)
             after == Append(registry, u)
  <2>1. registry \in Seq(Users) /\ n \in Nat /\ DOMAIN registry = 1 .. n
    BY LenProperties DEF StakerTypes
  <2>2. /\ after \in Seq(Users) /\ Len(after) = n + 1 /\ after[n + 1] = u
        /\ \A i \in 1 .. n : after[i] = registry[i]
    BY <2>1, AppendProperties
  <2>3. DOMAIN after = 1 .. n + 1
    BY <2>2, LenProperties
  <2>4. registry' = after
    BY <1>3 DEF Enrol
  <2> HIDE DEF after, n
  <2>5. \A i \in 1 .. n : registry[i] # u
    BY <1>3, <2>1 DEF RegistryExact
  <2>6. \A i \in 1 .. n + 1 : i \in 1 .. n \/ i = n + 1
    BY <2>1
  <2>7. ASSUME NEW i \in 1 .. n + 1, NEW j \in 1 .. n + 1, after[i] = after[j]
        PROVE  i = j
    <3>1. CASE i \in 1 .. n /\ j \in 1 .. n
      BY <2>1, <2>2, <2>7, <3>1 DEF RegistryExact
    <3>2. CASE i = n + 1 \/ j = n + 1
      BY <2>2, <2>5, <2>6, <2>7, <3>2
    <3>3. QED
      BY <2>6, <3>1, <3>2
  <2>8. ASSUME NEW v \in Users
        PROVE  stakes'[v] # << >> <=> \E i \in 1 .. n + 1 : after[i] = v
    <3>1. CASE v = u
      <4>1. n + 1 \in 1 .. n + 1
        BY <2>1
      <4>2. QED
        BY <1>1, <2>2, <3>1, <4>1
    <3>2. CASE v # u
      <4>1. (\E i \in 1 .. n + 1 : after[i] = v) <=> \E i \in 1 .. n : registry[i] = v
        BY <2>1, <2>2, <2>6, <3>2
      <4>2. stakes[v] # << >> <=> \E i \in 1 .. n : registry[i] = v
        BY <2>1 DEF RegistryExact
      <4>3. QED
        BY <1>1, <3>2, <4>1, <4>2
    <3>3. QED
      BY <3>1, <3>2
  <2>9. QED
    BY <2>2, <2>3, <2>4, <2>7, <2>8 DEF RegistryExact
<1>4. QED
  BY <1>2, <1>3

-----------------------------------------------------------------------------
(* The operations *)

LEMMA Numbers ==
  ASSUME VaultInv
  PROVE  /\ now \in Nat /\ MaxI128 \in Nat
         /\ totalDeposited \in Nat /\ totalDeposited <= MaxI128
         /\ totalStaked \in Nat /\ returned \in Nat /\ toppedUp \in Nat
BY TreasuryAssumption
DEF VaultInv, LedgerInv, TreasuryInv, TreasuryTypeOK, AdminTypeOK, StakerTypes

LEMMA StakeKeeps ==
  ASSUME VaultInv, NEW u \in Users, NEW amount \in Int, NEW d, Stake(u, amount, d),
         UNCHANGED toppedUp
  PROVE  /\ StakerTypes' /\ Totals' /\ BonusHeld' /\ RegistryExact' /\ Balanced'
         /\ AllAged
<1> DEFINE s == [amount |-> amount, duration |-> d, staked_at |-> now,
                 bonus_claimed |-> FALSE, is_active |-> TRUE]
           old == stakes[u]
           recs == Append(old, s)
<1>1. StakerTypes /\ Totals /\ BonusHeld /\ RegistryExact /\ Balanced
  BY DEF VaultInv
<1>2. amount \in Nat \ {0} /\ d \in DOMAIN BonusBps /\ now \in Nat
  BY Numbers DEF Stake
<1>3. s \in StakeRecord /\ s.amount = amount /\ s.bonus_claimed = FALSE /\ s.is_active = TRUE
  BY <1>2 DEF StakeRecord
<1>4. /\ stakes' = [stakes EXCEPT ![u] = recs] /\ registry' = Enrol(u)
      /\ userTotalStaked' = [userTotalStaked EXCEPT ![u] = @ + amount]
      /\ totalStaked' = totalStaked + amount
      /\ UNCHANGED << returned, userClaimed, totalDistributed, totalDeposited, now >>
  BY DEF Stake, bonusVars, treasuryVars, treasuryOwnVars, adminVars
<1>5. old \in Seq(StakeRecord) /\ Len(old) \in Nat
  BY <1>1, LenProperties DEF StakerTypes
<1> HIDE DEF s, old
<1>6. /\ recs \in Seq(StakeRecord) /\ Len(recs) = Len(old) + 1 /\ recs[Len(old) + 1] = s
      /\ \A i \in 1 .. Len(old) : recs[i] = old[i]
  BY <1>3, <1>5, AppendProperties
<1>7. /\ KindSum("principal", recs) = KindSum("principal", old) + Worth("principal", s)
      /\ KindSum("staked", recs) = KindSum("staked", old) + Worth("staked", s)
      /\ KindSum("claimed", recs) = KindSum("claimed", old) + Worth("claimed", s)
  BY <1>3, <1>5, KindSumAppend
<1>8. Worth("principal", s) = amount /\ Worth("staked", s) = amount /\ Worth("claimed", s) = 0
  BY <1>3 DEF Worth
<1> HIDE DEF recs
<1>9. Replaces(u, recs)
  BY <1>4, <1>6 DEF Replaces
<1>10. registry' \in Seq(Users) /\ RegistryExact'
  <2>1. recs # << >>
    BY <1>5, <1>6, EmptySeq
  <2>2. QED
    BY <1>1, <1>4, <1>9, <2>1, RegistryStake
<1>11. StakerTypes' /\ Totals'
  <2> DEFINE none == 0
  <2>1. userClaimed' = [userClaimed EXCEPT ![u] = @ + none] /\ totalDistributed' = totalDistributed + none
    BY <1>1, <1>4, NoChange DEF StakerTypes
  <2>2. returned' \in Nat /\ amount \in Int /\ none \in Int
    BY <1>2, <1>4, Numbers
  <2>3. /\ KindSum("staked", recs) = KindSum("staked", stakes[u]) + amount
        /\ KindSum("claimed", recs) = KindSum("claimed", stakes[u]) + none
    BY <1>7, <1>8 DEF old
  <2> HIDE DEF none
  <2>4. QED
    BY <1>1, <1>4, <1>9, <1>10, <2>1, <2>2, <2>3, ReplaceStep
<1>12. BonusHeld'
  <2>1. ASSUME NEW i \in 1 .. Len(recs), recs[i].bonus_claimed
        PROVE  now >= ClaimableAt(recs[i])
    <3>1. i \in 1 .. Len(old)
      <4>1. i # Len(old) + 1
        BY <1>3, <1>6, <2>1
      <4>2. QED
        BY <1>5, <1>6, <4>1
    <3>2. recs[i] = stakes[u][i] /\ i \in DOMAIN stakes[u]
      BY <1>5, <1>6, <3>1, LenProperties DEF old
    <3>3. QED
      BY <1>1, <2>1, <3>2 DEF BonusHeld
  <2>2. QED
    BY <1>1, <1>4, <1>9, <2>1, HeldStep
<1>13. AllAged
  <2>1. \A i \in 1 .. Len(stakes[u]) : Aged(stakes[u][i], recs[i])
    BY <1>5, <1>6, AgedReflexive DEF old
  <2>2. Len(recs) >= Len(stakes[u])
    BY <1>5, <1>6 DEF old
  <2>3. QED
    BY <1>1, <1>9, <2>1, <2>2, AgedStep
<1>14. Balanced'
  <2> DEFINE before == SumFunctionOnSet(PrincipalOf(stakes), Users)
             after == SumFunctionOnSet(PrincipalOf(stakes'), Users)
  <2>1. before \in Nat /\ after = before - KindSum("principal", old) + KindSum("principal", recs)
    BY <1>1, <1>9, PrincipalStep DEF old
  <2>2. KindSum("principal", old) \in Nat
    BY <1>5, KindSumType
  <2>3. after = before + amount
    BY <1>2, <1>7, <1>8, <2>1, <2>2
  <2>4. totalDeposited < MaxI128 => before + toppedUp = totalStaked + returned + totalDeposited
    BY <1>1 DEF Balanced
  <2>5. totalDeposited' < MaxI128 => after + toppedUp' = totalStaked' + returned' + totalDeposited'
    BY <1>2, <1>4, <2>1, <2>3, <2>4, Numbers
  <2>6. QED
    BY <2>5 DEF Balanced
<1>15. QED
  BY <1>10, <1>11, <1>12, <1>13, <1>14

\* A record that stops being active.
LEMMA OffFacts ==
  ASSUME NEW s \in StakeRecord, s.is_active
  PROVE  LET t == [s EXCEPT !.is_active = FALSE] IN
         /\ t \in StakeRecord /\ SameStake(s, t) /\ t.staked_at = s.staked_at
         /\ t.bonus_claimed = s.bonus_claimed
         /\ Worth("principal", t) = Worth("principal", s)
         /\ Worth("staked", t) = 0 /\ Worth("staked", s) = s.amount
         /\ Worth("claimed", t) = Worth("claimed", s)
<1> DEFINE t == [s EXCEPT !.is_active = FALSE]
<1>1. /\ t \in StakeRecord /\ t.amount = s.amount /\ t.duration = s.duration
      /\ t.staked_at = s.staked_at /\ t.bonus_claimed = s.bonus_claimed /\ t.is_active = FALSE
  BY DEF StakeRecord
<1> HIDE DEF t
<1>2. t = [s EXCEPT !.bonus_claimed = t.bonus_claimed, !.is_active = t.is_active]
  BY <1>1, SameFields
<1>3. SameStake(s, t)
  BY <1>1, <1>2 DEF SameStake
<1>4. BonusAmount(t) = BonusAmount(s)
  BY <1>1 DEF BonusAmount
<1>5. QED
  BY <1>1, <1>3, <1>4 DEF Worth, t

\* What an early exit and a claim have in common.
LEMMA LeaveKeeps ==
  ASSUME VaultInv, NEW u \in Users, NEW id \in DOMAIN stakes[u], Deactivate(u, id),
         UNCHANGED << registry, userClaimed, totalDistributed, toppedUp, now >>,
         returned' \in Nat,
         now < UnlockAt(stakes[u][id]) =>
           totalDeposited' = SaturatingAdd(totalDeposited, Penalty(stakes[u][id]))
  PROVE  /\ StakerTypes' /\ Totals' /\ BonusHeld' /\ RegistryExact'
         /\ AllAged
         /\ stakes[u][id] \in StakeRecord
         /\ SumFunctionOnSet(PrincipalOf(stakes), Users) \in Nat
         /\ SumFunctionOnSet(PrincipalOf(stakes'), Users) = SumFunctionOnSet(PrincipalOf(stakes), Users)
         /\ totalStaked' = totalStaked - stakes[u][id].amount
<1> DEFINE old == stakes[u]
           s == old[id]
           t == [s EXCEPT !.is_active = FALSE]
           recs == [old EXCEPT ![id] = t]
           n == Len(old)
<1>1. StakerTypes /\ Totals /\ BonusHeld /\ RegistryExact
  BY DEF VaultInv
<1>2. old \in Seq(StakeRecord) /\ n \in Nat /\ id \in 1 .. n /\ s \in StakeRecord
  BY <1>1, LenProperties DEF StakerTypes
<1>3. /\ stakes' = [stakes EXCEPT ![u] = recs] /\ s.is_active
      /\ userTotalStaked' = [userTotalStaked EXCEPT ![u] = @ - s.amount]
      /\ totalStaked' = totalStaked - s.amount
  BY DEF Deactivate
<1>4. /\ t \in StakeRecord /\ SameStake(s, t) /\ t.staked_at = s.staked_at
      /\ t.bonus_claimed = s.bonus_claimed
      /\ Worth("principal", t) = Worth("principal", s)
      /\ Worth("staked", t) = 0 /\ Worth("staked", s) = s.amount
      /\ Worth("claimed", t) = Worth("claimed", s)
      /\ s.amount \in Nat
  <2>1. s.amount \in Nat
    BY <1>2 DEF StakeRecord
  <2> HIDE DEF s
  <2>2. QED
    BY <1>2, <1>3, <2>1, OffFacts
<1> HIDE DEF t
<1>5. recs \in Seq(StakeRecord) /\ Len(recs) = n /\ \A i \in 1 .. n : recs[i] = IF i = id THEN t ELSE old[i]
  BY <1>2, <1>4, ExceptSeq
<1>6. ASSUME NEW kind
      PROVE  KindSum(kind, recs) = KindSum(kind, old) - Worth(kind, s) + Worth(kind, t)
  BY <1>2, <1>4, KindSumExcept
<1>7. ASSUME NEW kind
      PROVE  KindSum(kind, old) \in Nat /\ Worth(kind, s) \in Nat /\ Worth(kind, t) \in Nat
  BY <1>2, <1>4, KindSumType, WorthType
<1>8. /\ KindSum("principal", recs) = KindSum("principal", old)
      /\ KindSum("staked", recs) = KindSum("staked", old) + (0 - s.amount)
      /\ KindSum("claimed", recs) = KindSum("claimed", old) + 0
  BY <1>4, <1>6, <1>7
<1>9. Replaces(u, recs)
  BY <1>3, <1>5 DEF Replaces
<1> HIDE DEF recs
<1>10. StakerTypes' /\ Totals'
  <2> DEFINE none == 0
             less == 0 - s.amount
  <2>1. userClaimed' = [userClaimed EXCEPT ![u] = @ + none] /\ totalDistributed' = totalDistributed + none
    BY <1>1, NoChange DEF StakerTypes
  <2>2. /\ userTotalStaked' = [userTotalStaked EXCEPT ![u] = @ + less]
        /\ totalStaked' = totalStaked + less /\ less \in Int /\ none \in Int
    <3>1. userTotalStaked[u] \in Nat /\ totalStaked \in Nat
      BY <1>1 DEF StakerTypes
    <3>2. userTotalStaked[u] - s.amount = userTotalStaked[u] + less
      BY <3>1, <1>4
    <3>3. totalStaked' = totalStaked + less /\ less \in Int /\ none \in Int
      BY <1>3, <1>4, <3>1
    <3> HIDE DEF less
    <3>4. [userTotalStaked EXCEPT ![u] = @ - s.amount] = [userTotalStaked EXCEPT ![u] = @ + less]
      BY <3>2, Zenon
    <3>5. QED
      BY <1>3, <3>3, <3>4
  <2>3. registry' \in Seq(Users)
    BY <1>1 DEF StakerTypes
  <2>4. /\ KindSum("staked", recs) = KindSum("staked", stakes[u]) + less
        /\ KindSum("claimed", recs) = KindSum("claimed", stakes[u]) + none
    BY <1>8
  <2> HIDE DEF none, less
  <2>5. QED
    BY <1>1, <1>9, <2>1, <2>2, <2>3, <2>4, ReplaceStep
<1>11. BonusHeld'
  <2>1. \A i \in 1 .. n : old[i].bonus_claimed => now >= ClaimableAt(old[i])
    BY <1>1, <1>2, LenProperties DEF BonusHeld
  <2>2. \A i \in 1 .. Len(recs) : recs[i].bonus_claimed => now >= ClaimableAt(recs[i])
    BY <1>2, <1>4, <1>5, <2>1 DEF ClaimableAt
  <2>3. QED
    BY <1>1, <1>9, <2>2, HeldStep
<1>12. RegistryExact'
  <2>1. recs = << >> <=> stakes[u] = << >>
    BY <1>2, <1>5, EmptySeq
  <2>2. QED
    BY <1>1, <1>9, <2>1, RegistryKept
<1>13. AllAged
  <2>1. Aged(s, t)
    BY <1>4 DEF Aged
  <2>2. \A i \in 1 .. n : old[i] \in StakeRecord
    BY <1>2
  <2>3. \A i \in 1 .. Len(stakes[u]) : Aged(stakes[u][i], recs[i])
    BY <1>5, <2>1, <2>2, AgedReflexive
  <2>4. Len(recs) >= Len(stakes[u])
    BY <1>2, <1>5
  <2>5. QED
    BY <1>1, <1>9, <2>3, <2>4, AgedStep
<1>14. /\ SumFunctionOnSet(PrincipalOf(stakes), Users) \in Nat
       /\ SumFunctionOnSet(PrincipalOf(stakes'), Users) = SumFunctionOnSet(PrincipalOf(stakes), Users)
  BY <1>1, <1>7, <1>8, <1>9, PrincipalStep
<1>15. QED
  BY <1>2, <1>3, <1>10, <1>11, <1>12, <1>13, <1>14

LEMMA UnstakeEarlyKeeps ==
  ASSUME VaultInv, NEW u \in Users, NEW id \in DOMAIN stakes[u], UnstakeEarly(u, id),
         UNCHANGED toppedUp
  PROVE  /\ StakerTypes' /\ Totals' /\ BonusHeld' /\ RegistryExact' /\ Balanced'
         /\ AllAged
         /\ stakes[u][id] \in StakeRecord
<1> DEFINE s == stakes[u][id]
           amount == s.amount
           penalty == Penalty(s)
<1>1. s \in StakeRecord
  BY LenProperties DEF VaultInv, StakerTypes
<1>2. amount \in Nat /\ penalty \in Nat /\ penalty <= amount
  BY <1>1, PenaltyType DEF StakeRecord
<1>3. /\ Deactivate(u, id) /\ returned' = returned + (amount - penalty)
      /\ penalty > 0 => totalDeposited' = SaturatingAdd(totalDeposited, penalty)
      /\ ~ (penalty > 0) => totalDeposited' = totalDeposited
      /\ UNCHANGED << registry, userClaimed, totalDistributed, toppedUp, now >>
  BY DEF UnstakeEarly, Credit, bonusVars, adminVars
<1> HIDE DEF penalty
<1>4. totalDeposited' = SaturatingAdd(totalDeposited, penalty)
  BY <1>2, <1>3, Numbers DEF SaturatingAdd
<1>5. returned' \in Nat
  BY <1>2, <1>3, Numbers
<1> DEFINE before == SumFunctionOnSet(PrincipalOf(stakes), Users)
           after == SumFunctionOnSet(PrincipalOf(stakes'), Users)
<1>6. /\ StakerTypes' /\ Totals' /\ BonusHeld' /\ RegistryExact' /\ AllAged
      /\ before \in Nat /\ after = before /\ totalStaked' = totalStaked - amount
  BY <1>3, <1>4, <1>5, LeaveKeeps DEF penalty
<1> HIDE DEF amount
<1>7. totalDeposited < MaxI128 => before + toppedUp = totalStaked + returned + totalDeposited
  BY DEF VaultInv, Balanced
<1>8. totalDeposited' < MaxI128 =>
        totalDeposited < MaxI128 /\ totalDeposited' = totalDeposited + penalty
  BY <1>2, <1>4, Numbers DEF SaturatingAdd
<1> HIDE DEF before, after
<1>9. totalDeposited' < MaxI128 => after + toppedUp' = totalStaked' + returned' + totalDeposited'
  BY <1>2, <1>3, <1>6, <1>7, <1>8, Numbers
<1>10. QED
  BY <1>1, <1>6, <1>9 DEF Balanced, after

LEMMA ClaimStakeKeeps ==
  ASSUME VaultInv, NEW u \in Users, NEW id \in DOMAIN stakes[u], ClaimStake(u, id),
         UNCHANGED toppedUp
  PROVE  /\ StakerTypes' /\ Totals' /\ BonusHeld' /\ RegistryExact' /\ Balanced'
         /\ AllAged
<1> DEFINE s == stakes[u][id]
           amount == s.amount
<1>1. s \in StakeRecord
  BY LenProperties DEF VaultInv, StakerTypes
<1>2. amount \in Nat
  BY <1>1 DEF StakeRecord
<1>3. /\ Deactivate(u, id) /\ now >= UnlockAt(s) /\ returned' = returned + amount
      /\ UNCHANGED << registry, userClaimed, totalDistributed, toppedUp, now, totalDeposited >>
  BY DEF ClaimStake, Unlocked, bonusVars, treasuryVars, treasuryOwnVars, adminVars
<1>4. returned' \in Nat
  BY <1>2, <1>3, Numbers
<1>5. ~ (now < UnlockAt(s))
  <2>1. UnlockAt(s) \in Nat
    <3>1. s.staked_at \in Nat /\ s.duration \in DOMAIN BonusBps
      BY <1>1 DEF StakeRecord
    <3>2. s.duration \in Nat
      BY <3>1 DEF BonusBps
    <3>3. QED
      BY <3>1, <3>2 DEF UnlockAt
  <2> DEFINE w == UnlockAt(s)
  <2> HIDE DEF w
  <2>2. w \in Nat /\ now >= w
    BY <2>1, <1>3 DEF w
  <2>3. ~ (now < w)
    BY <2>2, Numbers
  <2>4. QED
    BY <2>3 DEF w
<1> DEFINE before == SumFunctionOnSet(PrincipalOf(stakes), Users)
           after == SumFunctionOnSet(PrincipalOf(stakes'), Users)
<1>6. /\ StakerTypes' /\ Totals' /\ BonusHeld' /\ RegistryExact' /\ AllAged
      /\ before \in Nat /\ after = before /\ totalStaked' = totalStaked - amount
  BY <1>3, <1>4, <1>5, LeaveKeeps
<1> HIDE DEF amount
<1>7. totalDeposited < MaxI128 => before + toppedUp = totalStaked + returned + totalDeposited
  BY DEF VaultInv, Balanced
<1> HIDE DEF before, after
<1>8. totalDeposited' < MaxI128 => after + toppedUp' = totalStaked' + returned' + totalDeposited'
  BY <1>2, <1>3, <1>6, <1>7, Numbers
<1>9. QED
  BY <1>6, <1>8 DEF Balanced, after

LEMMA ClaimBonusesKeeps ==
  ASSUME VaultInv, NEW u \in Users, ClaimBonuses(u), UNCHANGED toppedUp
  PROVE  /\ StakerTypes' /\ Totals' /\ BonusHeld' /\ RegistryExact' /\ Balanced'
         /\ AllAged
<1> DEFINE old == stakes[u]
           recs == MarkAll(old)
           due == DueSum(old)
           n == Len(old)
<1>1. StakerTypes /\ Totals /\ BonusHeld /\ RegistryExact /\ Balanced
  BY DEF VaultInv
<1>2. old \in Seq(StakeRecord) /\ n \in Nat /\ DOMAIN old = 1 .. n /\ \A i \in 1 .. n : old[i] \in StakeRecord
  BY <1>1, LenProperties DEF StakerTypes
<1>3. stakes' = [stakes EXCEPT ![u] = recs]
  BY DEF ClaimBonuses, MarkAll, Mark
<1>4. /\ userClaimed' = [userClaimed EXCEPT ![u] = @ + due] /\ totalDistributed' = totalDistributed + due
      /\ UNCHANGED << userTotalStaked, totalStaked, registry, returned, totalDeposited, now >>
  BY DueIsStakeSum DEF ClaimBonuses, treasuryVars, treasuryOwnVars, adminVars
<1>5. /\ recs \in Seq(StakeRecord) /\ Len(recs) = n /\ \A i \in 1 .. n : recs[i] = Mark(old[i])
      /\ due \in Nat
      /\ KindSum("principal", recs) = KindSum("principal", old)
      /\ KindSum("staked", recs) = KindSum("staked", old)
      /\ KindSum("claimed", recs) = KindSum("claimed", old) + due
  BY <1>2, MarkAllFacts
<1> HIDE DEF recs, due
<1>6. Replaces(u, recs)
  BY <1>3, <1>5 DEF Replaces
<1>7. StakerTypes' /\ Totals'
  <2> DEFINE none == 0
  <2>1. userTotalStaked' = [userTotalStaked EXCEPT ![u] = @ + none] /\ totalStaked' = totalStaked + none
    BY <1>1, <1>4, NoChange DEF StakerTypes
  <2>2. registry' \in Seq(Users) /\ returned' \in Nat /\ due \in Int /\ none \in Int
    BY <1>1, <1>4, <1>5 DEF StakerTypes
  <2>3. /\ KindSum("staked", recs) = KindSum("staked", stakes[u]) + none
        /\ KindSum("claimed", recs) = KindSum("claimed", stakes[u]) + due
    BY <1>2, <1>5, KindSumType
  <2> HIDE DEF none
  <2>4. QED
    BY <1>1, <1>4, <1>6, <2>1, <2>2, <2>3, ReplaceStep
<1>8. BonusHeld'
  <2>1. \A i \in 1 .. n : old[i].bonus_claimed => now >= ClaimableAt(old[i])
    BY <1>1, <1>2 DEF BonusHeld
  <2>2. ASSUME NEW i \in 1 .. n, recs[i].bonus_claimed PROVE now >= ClaimableAt(recs[i])
    <3> DEFINE s == old[i]
    <3>1. s \in StakeRecord /\ recs[i] = Mark(s)
      BY <1>2, <1>5
    <3>2. s.bonus_claimed => now >= ClaimableAt(s)
      BY <2>1
    <3> HIDE DEF s
    <3>3. Mark(s).staked_at = s.staked_at /\ (Mark(s).bonus_claimed => s.bonus_claimed \/ now >= ClaimableAt(s))
      BY <3>1, MarkFacts
    <3>4. QED
      BY <2>2, <3>1, <3>2, <3>3 DEF ClaimableAt
  <2>3. QED
    BY <1>1, <1>4, <1>5, <1>6, <2>2, HeldStep
<1>9. RegistryExact'
  <2>1. recs = << >> <=> stakes[u] = << >>
    BY <1>2, <1>5, EmptySeq
  <2>2. QED
    BY <1>1, <1>4, <1>6, <2>1, RegistryKept
<1>10. AllAged
  <2>1. ASSUME NEW i \in 1 .. n PROVE Aged(old[i], recs[i])
    <3> DEFINE s == old[i]
    <3>1. s \in StakeRecord /\ recs[i] = Mark(s)
      BY <1>2, <1>5
    <3> HIDE DEF s
    <3>2. SameStake(s, Mark(s)) /\ Mark(s).is_active = s.is_active
      BY <3>1, MarkFacts
    <3>3. QED
      BY <3>1, <3>2 DEF Aged, s
  <2>2. Len(recs) >= Len(stakes[u])
    BY <1>2, <1>5
  <2>3. QED
    BY <1>1, <1>6, <2>1, <2>2, AgedStep
<1>11. Balanced'
  <2>1. KindSum("principal", old) \in Nat
    BY <1>2, KindSumType
  <2>2. SumFunctionOnSet(PrincipalOf(stakes'), Users) = SumFunctionOnSet(PrincipalOf(stakes), Users)
    BY <1>1, <1>5, <1>6, <2>1, PrincipalStep
  <2>3. QED
    BY <1>1, <1>4, <2>2 DEF Balanced
<1>12. QED
  BY <1>7, <1>8, <1>9, <1>10, <1>11

\* Steps that leave the records and their totals alone.
LEMMA UntouchedKeeps ==
  ASSUME VaultInv, UNCHANGED << stakeVars, bonusVars >>, now' \in Nat, now' >= now,
         toppedUp' \in Nat
  PROVE  /\ StakerTypes' /\ Totals' /\ BonusHeld' /\ RegistryExact' /\ AllAged
<1>1. StakerTypes /\ Totals /\ BonusHeld /\ RegistryExact
  BY DEF VaultInv
<1>2. UNCHANGED << stakes, userTotalStaked, totalStaked, registry, returned, userClaimed, totalDistributed >>
  BY DEF stakeVars, bonusVars
<1>3. StakerTypes' /\ Totals' /\ RegistryExact'
  BY <1>1, <1>2 DEF StakerTypes, Totals, Totalled, RegistryExact
<1>4. \A v \in Users : DOMAIN stakes[v] = 1 .. Len(stakes[v])
                       /\ \A i \in 1 .. Len(stakes[v]) : stakes[v][i] \in StakeRecord
  BY <1>1, LenProperties DEF StakerTypes
<1>5. AllAged
  BY <1>2, <1>4, AgedReflexive DEF AllAged
<1>6. BonusHeld'
  <2>1. ASSUME NEW v \in Users, NEW i \in DOMAIN stakes[v], stakes[v][i].bonus_claimed
        PROVE  now' >= ClaimableAt(stakes[v][i])
    <3> DEFINE w == ClaimableAt(stakes[v][i])
    <3>1. now >= w
      BY <1>1, <2>1 DEF BonusHeld
    <3>2. w \in Nat
      BY <1>4 DEF ClaimableAt, HoldingPeriod, StakeRecord
    <3> HIDE DEF w
    <3>3. now' >= w
      BY <3>1, <3>2, Numbers
    <3>4. QED
      BY <3>3 DEF w
  <2>2. QED
    BY <1>2, <2>1 DEF BonusHeld, ClaimableAt
<1>7. QED
  BY <1>3, <1>5, <1>6

-----------------------------------------------------------------------------
(* Distributions *)

DistributionInv == DistributionTypes /\ DistributionsSpaced

LEMMA AccruedType ==
  ASSUME StakerTypes, NEW u \in Users PROVE Accrued(u) \in Nat
<1> DEFINE recs == stakes[u]
           D == DOMAIN recs
           f == [i \in D |-> IF recs[i].is_active /\ ~ recs[i].bonus_claimed THEN BonusAmount(recs[i]) ELSE 0]
<1>1. recs \in Seq(StakeRecord)
  BY DEF StakerTypes
<1>2. D = 1 .. Len(recs) /\ Len(recs) \in Nat /\ \A i \in 1 .. Len(recs) : recs[i] \in StakeRecord
  BY <1>1, LenProperties
<1>3. IsFiniteSet(D)
  <2>1. IsFiniteSet(1 .. Len(recs))
    BY <1>2, FS_Interval
  <2>2. QED
    BY <1>2, <2>1
<1>4. \A i \in D : f[i] \in Nat
  BY <1>2, BonusType
<1>5. Accrued(u) = SumFunctionOnSet(f, D)
  BY DEF Accrued, StakeSum, SumFunction
<1> HIDE DEF D, f
<1>6. QED
  BY <1>3, <1>4, <1>5, SumType

LEMMA DistributionKeeps ==
  ASSUME VaultInv, DistributionInv, ExecuteDistribution
  PROVE  DistributionInv'
<1> DEFINE n == Len(distributions)
           Entries(u) == {i \in DOMAIN registry : registry[i] = u}
           Share(i) == Accrued(registry[i])
           paid == {i \in DOMAIN registry : Share(i) > 0}
           shares == [i \in paid |-> Share(i)]
           d == [at |-> now, total |-> SumFunction(shares), recipients |-> Cardinality(paid)]
           T == [at : Nat, total : Nat, recipients : Nat]
<1>1. StakerTypes /\ now \in Nat /\ DistributionTypes /\ DistributionsSpaced
  BY Numbers DEF VaultInv, DistributionInv
<1>2. /\ DOMAIN registry = 1 .. Len(registry) /\ Len(registry) \in Nat
      /\ \A i \in DOMAIN registry : registry[i] \in Users
  BY <1>1, LenProperties DEF StakerTypes
<1>3. IsFiniteSet(DOMAIN registry)
  <2>1. IsFiniteSet(1 .. Len(registry))
    BY <1>2, FS_Interval
  <2>2. QED
    BY <1>2, <2>1
<1>4. IsFiniteSet(paid) /\ Cardinality(paid) \in Nat
  BY <1>3, FS_Subset, FS_CardinalityType
<1>5. SumFunction(shares) \in Nat
  <2>1. \A i \in paid : shares[i] \in Nat
    BY <1>1, <1>2, AccruedType
  <2>2. SumFunction(shares) = SumFunctionOnSet(shares, paid)
    BY DEF SumFunction
  <2> HIDE DEF shares, paid
  <2>3. QED
    BY <1>4, <2>1, <2>2, SumType
<1>6. d \in T
  <2> DEFINE t == SumFunction(shares)
             c == Cardinality(paid)
  <2>1. t \in Nat /\ c \in Nat /\ d = [at |-> now, total |-> t, recipients |-> c]
    BY <1>4, <1>5
  <2> HIDE DEF t, c, d
  <2>2. QED
    BY <1>1, <2>1
<1>7. userEarned' \in [Users -> Nat]
  <2>1. ASSUME NEW u \in Users
        PROVE  userEarned[u] + Cardinality(Entries(u)) * Accrued(u) \in Nat
    <3> DEFINE c == Cardinality(Entries(u))
               a == Accrued(u)
    <3>1. IsFiniteSet(Entries(u))
      BY <1>3, FS_Subset
    <3>2. c \in Nat /\ a \in Nat /\ userEarned[u] \in Nat
      BY <1>1, <3>1, FS_CardinalityType, AccruedType DEF DistributionTypes
    <3> HIDE DEF c, a
    <3>3. c * a \in Nat
      BY <3>2
    <3>4. userEarned[u] + c * a \in Nat
      BY <3>2, <3>3
    <3>5. QED
      BY <3>4 DEF c, a
  <2>2. userEarned' = [u \in Users |-> userEarned[u] + Cardinality(Entries(u)) * Accrued(u)]
    BY DEF ExecuteDistribution
  <2>3. QED
    BY <2>1, <2>2
<1>8. distributions' = Append(distributions, d) /\ lastDistribution' = now
      /\ now >= lastDistribution + 7
  BY DEF ExecuteDistribution, DistributionDue, DistributionPeriod
<1>9. d.at = now
  OBVIOUS
<1> HIDE DEF d
<1>10. distributions \in Seq(T) /\ n \in Nat /\ DOMAIN distributions = 1 .. n /\ lastDistribution \in Nat
       /\ \A i \in 1 .. n : distributions[i] \in T
  BY <1>1, LenProperties DEF DistributionTypes
<1> DEFINE after == Append(distributions, d)
<1>11. /\ after \in Seq(T) /\ Len(after) = n + 1 /\ after[n + 1] = d
       /\ \A i \in 1 .. n : after[i] = distributions[i]
  BY <1>6, <1>10, AppendProperties
<1>12. DOMAIN after = 1 .. n + 1
  BY <1>11, LenProperties
<1>13. \A i \in 1 .. n : /\ distributions[i].at \in Nat
                         /\ distributions[i].at <= lastDistribution
                         /\ i + 1 \in 1 .. n => distributions[i + 1].at >= distributions[i].at + 7
  BY <1>1, <1>10 DEF DistributionsSpaced, DistributionPeriod
<1> HIDE DEF after, T, n
<1>14. ASSUME NEW i \in 1 .. n + 1
       PROVE  /\ after[i].at <= now
              /\ i + 1 \in 1 .. n + 1 => after[i + 1].at >= after[i].at + 7
  <2>1. CASE i = n + 1
    BY <1>1, <1>9, <1>10, <1>11, <2>1
  <2>2. CASE i \in 1 .. n
    <3>1. after[i].at = distributions[i].at /\ after[i].at \in Nat /\ after[i].at <= lastDistribution
      BY <1>11, <1>13, <2>2
    <3>2. after[i].at <= now
      BY <1>1, <1>8, <1>10, <3>1
    <3>3. CASE i = n
      <4>1. after[i + 1].at = now
        BY <1>9, <1>11, <3>3
      <4>2. QED
        BY <1>1, <1>8, <1>10, <3>1, <3>2, <4>1
    <3>4. CASE i # n
      <4>1. i + 1 \in 1 .. n
        BY <1>10, <2>2, <3>4
      <4>2. after[i + 1].at = distributions[i + 1].at
        BY <1>11, <4>1
      <4>3. QED
        BY <1>13, <2>2, <3>1, <3>2, <4>1, <4>2
    <3>5. QED
      BY <3>3, <3>4
  <2>3. QED
    BY <1>10, <2>1, <2>2
<1>15. DistributionsSpaced'
  BY <1>8, <1>12, <1>14 DEF DistributionsSpaced, DistributionPeriod, after
<1>16. DistributionTypes'
  BY <1>1, <1>7, <1>8, <1>11 DEF DistributionTypes, after, T
<1>17. QED
  BY <1>15, <1>16 DEF DistributionInv

-----------------------------------------------------------------------------
(* Every step *)

\* To the treasury every step of the whole is one of its own: an early exit is
\* a deposit of the penalty or nothing.
LEMMA VaultIsLedger ==
  ASSUME VaultInv, [VaultNext]_vaultVars
  PROVE  [LedgerStep]_treasuryVars
<1>1. ASSUME NEW u \in Users, NEW id \in DOMAIN stakes[u], UnstakeEarly(u, id)
      PROVE  [LedgerStep]_treasuryVars
  <2> DEFINE penalty == Penalty(stakes[u][id])
  <2>1. penalty \in Int
    <3>1. stakes[u][id] \in StakeRecord
      BY LenProperties DEF VaultInv, StakerTypes
    <3>2. QED
      BY <3>1, PenaltyType
  <2>2. CASE penalty > 0
    <3>1. Credit(penalty) /\ UNCHANGED << adminVars, totalWithdrawn, timelock, requests >>
      BY <1>1, <2>2 DEF UnstakeEarly
    <3> HIDE DEF penalty
    <3>2. Deposit(penalty)
      BY <3>1 DEF Deposit
    <3>3. QED
      BY <2>1, <3>2 DEF LedgerStep
  <2>3. CASE ~ (penalty > 0)
    BY <1>1, <2>3 DEF UnstakeEarly, treasuryVars, treasuryOwnVars
  <2>4. QED
    BY <2>2, <2>3
<1>2. ASSUME NEW dt \in TimeSteps, AdvanceTime(dt), UNCHANGED treasuryOwnVars
      PROVE  LedgerStep
  BY <1>2 DEF LedgerStep
<1>3. ASSUME StakingNext PROVE [LedgerStep]_treasuryVars
  <2>1. CASE \E u \in Users, amount \in StakeAmounts, d \in DurationChoices : Stake(u, amount, d)
    BY <2>1 DEF Stake
  <2>2. CASE \E u \in Users : \E id \in DOMAIN stakes[u] : ClaimStake(u, id)
    BY <2>2 DEF ClaimStake
  <2>3. CASE \E u \in Users : ClaimBonuses(u)
    BY <2>3 DEF ClaimBonuses
  <2>4. CASE ExecuteDistribution
    BY <2>4 DEF ExecuteDistribution
  <2>5. QED
    BY <1>1, <1>2, <1>3, <2>1, <2>2, <2>3, <2>4 DEF StakingNext
<1>4. ASSUME NEW amount \in DepositAmounts, TopUp(amount) PROVE LedgerStep
  BY <1>4, TreasuryAssumption DEF TopUp, LedgerStep
<1>5. ASSUME NEW caller \in Addresses, TreasuryWithdraw(caller) PROVE LedgerStep
  BY <1>5, TreasuryAssumption DEF TreasuryWithdraw, LedgerStep
<1>6. ASSUME NEW duration \in TimelockChoices, SetTimelockDuration(duration) PROVE LedgerStep
  BY <1>6, TreasuryAssumption DEF LedgerStep
<1>7. ASSUME NEW caller \in Addresses, NEW newAdmin \in Addresses,
             SetAdmin(caller, newAdmin), UNCHANGED treasuryOwnVars
      PROVE  LedgerStep
  BY <1>7 DEF LedgerStep
<1>8. CASE UNCHANGED vaultVars
  BY <1>8 DEF vaultVars, stakingVars
<1>9. QED
  BY <1>3, <1>4, <1>5, <1>6, <1>7, <1>8 DEF VaultNext

LEMMA TimeOnlyGrows ==
  ASSUME TreasuryInv, [LedgerStep]_treasuryVars
  PROVE  now' \in Nat /\ now' >= now
<1>1. now \in Nat
  BY DEF TreasuryInv, TreasuryTypeOK, AdminTypeOK
<1>2. ASSUME NEW dt \in TimeSteps, AdvanceTime(dt) PROVE now' \in Nat /\ now' >= now
  BY <1>1, <1>2, AdminAssumption DEF AdvanceTime
<1>3. CASE UNCHANGED now
  BY <1>1, <1>3
<1>4. QED
  BY <1>2, <1>3
  DEF LedgerStep, Deposit, SetTimelockDuration, RequestWithdraw, ExecuteWithdraw, SetAdmin,
      adminVars, treasuryVars

LEMMA VaultInit_Inv == VaultInit => VaultInv /\ DistributionInv
<1> SUFFICES ASSUME VaultInit PROVE VaultInv /\ DistributionInv
  OBVIOUS
<1>1. TreasuryInit /\ StakingInit /\ toppedUp = 0
  BY DEF VaultInit, StakingInit
<1>2. LedgerInv
  BY <1>1, TreasuryInvInit, WithdrawnInit DEF LedgerInv
<1>3. StakerTypes /\ DistributionTypes
  BY <1>1, EmptySeq DEF StakingInit, StakerTypes, DistributionTypes
<1>4. \A u \in Users : stakes[u] = << >> /\ userTotalStaked[u] = 0 /\ userClaimed[u] = 0
  BY <1>1 DEF StakingInit
<1>5. ASSUME NEW kind PROVE KindSum(kind, << >>) = 0
  <2>1. DOMAIN Values(kind, << >>) = {}
    BY EmptySeq DEF Values
  <2>2. QED
    BY <2>1, SumEmpty DEF KindSum, SumFunction
<1>6. ASSUME NEW counter, \A u \in Users : counter[u] = 0
      PROVE  SumFunctionOnSet(counter, Users) = 0
  BY <1>6, SumZero, StakingAssumption
<1>7. Totals
  BY <1>1, <1>4, <1>5, <1>6 DEF Totals, Totalled, StakingInit
<1>8. SumFunctionOnSet(PrincipalOf(stakes), Users) = 0
  <2>1. \A u \in Users : PrincipalOf(stakes)[u] = 0
    BY <1>4, <1>5 DEF PrincipalOf
  <2>2. QED
    BY <2>1, <1>6
<1>9. Balanced
  BY <1>1, <1>8 DEF Balanced, StakingInit, TreasuryInit
<1>10. BonusHeld
  <2>1. \A u \in Users : DOMAIN stakes[u] = {}
    BY <1>4, EmptySeq
  <2>2. QED
    BY <2>1 DEF BonusHeld
<1>11. RegistryExact
  <2>1. DOMAIN registry = {}
    BY <1>1, EmptySeq DEF StakingInit
  <2>2. QED
    BY <1>4, <2>1 DEF RegistryExact
<1>12. DistributionsSpaced
  <2>1. DOMAIN distributions = {}
    BY <1>1, EmptySeq DEF StakingInit
  <2>2. QED
    BY <2>1 DEF DistributionsSpaced
<1>13. QED
  BY <1>2, <1>3, <1>7, <1>9, <1>10, <1>11, <1>12 DEF VaultInv, DistributionInv

LEMMA VaultStep ==
  ASSUME VaultInv, DistributionInv, [VaultNext]_vaultVars
  PROVE  VaultInv' /\ DistributionInv' /\ AllAged
<1>1. [LedgerStep]_treasuryVars
  BY VaultIsLedger
<1>2. LedgerInv'
  BY <1>1, TreasuryInvStep, WithdrawnStep DEF VaultInv, LedgerInv
<1>3. now' \in Nat /\ now' >= now
  BY <1>1, TimeOnlyGrows DEF VaultInv, LedgerInv
<1> DEFINE Kept == /\ StakerTypes' /\ Totals' /\ BonusHeld' /\ RegistryExact' /\ Balanced'
                   /\ AllAged
<1>4. ASSUME UNCHANGED distributionVars PROVE DistributionInv'
  BY <1>4 DEF DistributionInv, DistributionTypes, DistributionsSpaced, distributionVars
<1>5. SUFFICES Kept /\ DistributionInv'
  BY <1>2 DEF VaultInv
<1> HIDE DEF Kept
<1>6. ASSUME UNCHANGED << stakeVars, bonusVars, toppedUp, totalDeposited >> PROVE Kept
  <2>1. UNCHANGED << stakes, totalStaked, returned >> /\ toppedUp' \in Nat
    BY <1>6, Numbers DEF stakeVars
  <2>2. Balanced'
    BY <1>6, <2>1 DEF VaultInv, Balanced, PrincipalOf
  <2>3. QED
    BY <1>3, <1>6, <2>1, <2>2, UntouchedKeeps DEF Kept
<1>7. ASSUME StakingNext, UNCHANGED toppedUp PROVE Kept /\ DistributionInv'
  <2>1. ASSUME NEW u \in Users, NEW amount \in StakeAmounts, NEW d \in DurationChoices,
               Stake(u, amount, d)
        PROVE  Kept /\ DistributionInv'
    <3>1. amount \in Int /\ UNCHANGED distributionVars
      BY <2>1, StakingAssumption DEF Stake
    <3>2. QED
      BY <1>4, <1>7, <2>1, <3>1, StakeKeeps DEF Kept
  <2>2. ASSUME NEW u \in Users, NEW id \in DOMAIN stakes[u], UnstakeEarly(u, id)
        PROVE  Kept /\ DistributionInv'
    <3>1. UNCHANGED distributionVars
      BY <2>2 DEF UnstakeEarly
    <3>2. QED
      BY <1>4, <1>7, <2>2, <3>1, UnstakeEarlyKeeps DEF Kept
  <2>3. ASSUME NEW u \in Users, NEW id \in DOMAIN stakes[u], ClaimStake(u, id)
        PROVE  Kept /\ DistributionInv'
    <3>1. UNCHANGED distributionVars
      BY <2>3 DEF ClaimStake
    <3>2. QED
      BY <1>4, <1>7, <2>3, <3>1, ClaimStakeKeeps DEF Kept
  <2>4. ASSUME NEW u \in Users, ClaimBonuses(u)
        PROVE  Kept /\ DistributionInv'
    <3>1. UNCHANGED distributionVars
      BY <2>4 DEF ClaimBonuses
    <3>2. QED
      BY <1>4, <1>7, <2>4, <3>1, ClaimBonusesKeeps DEF Kept
  <2>5. ASSUME ExecuteDistribution PROVE Kept /\ DistributionInv'
    <3>1. UNCHANGED << stakeVars, bonusVars, totalDeposited >>
      BY <2>5 DEF ExecuteDistribution, treasuryVars, treasuryOwnVars
    <3>2. QED
      BY <1>6, <1>7, <2>5, <3>1, DistributionKeeps
  <2>6. ASSUME UNCHANGED << stakingOwnVars, treasuryOwnVars >> PROVE Kept /\ DistributionInv'
    <3>1. UNCHANGED << stakeVars, bonusVars, distributionVars, totalDeposited >>
      BY <2>6 DEF stakingOwnVars, treasuryOwnVars
    <3>2. QED
      BY <1>4, <1>6, <1>7, <3>1
  <2>7. QED
    BY <1>7, <2>1, <2>2, <2>3, <2>4, <2>5, <2>6 DEF StakingNext
<1>8. ASSUME NEW amount \in DepositAmounts, TopUp(amount) PROVE Kept /\ DistributionInv'
  <2>1. /\ amount \in Nat /\ toppedUp' = toppedUp + amount
        /\ totalDeposited' = SaturatingAdd(totalDeposited, amount)
        /\ UNCHANGED << stakeVars, bonusVars, distributionVars >>
    BY <1>8, TreasuryAssumption DEF TopUp, Deposit, Credit, stakingOwnVars
  <2>2. UNCHANGED << stakes, totalStaked, returned >> /\ toppedUp' \in Nat
    BY <2>1, Numbers DEF stakeVars
  <2>3. Balanced'
    <3> DEFINE sum == SumFunctionOnSet(PrincipalOf(stakes), Users)
    <3>1. sum \in Nat
      <4>1. PrincipalOf(stakes) \in [Users -> Nat]
        BY KindSumType DEF PrincipalOf, VaultInv, StakerTypes
      <4>2. QED
        BY <4>1, CounterSum
    <3>2. totalDeposited < MaxI128 => sum + toppedUp = totalStaked + returned + totalDeposited
      BY DEF VaultInv, Balanced
    <3>3. SumFunctionOnSet(PrincipalOf(stakes'), Users) = sum
      BY <2>2 DEF PrincipalOf
    <3> HIDE DEF sum
    <3>4. totalDeposited' < MaxI128 => sum + toppedUp' = totalStaked' + returned' + totalDeposited'
      BY <2>1, <2>2, <3>1, <3>2, Numbers DEF SaturatingAdd
    <3>5. QED
      BY <3>3, <3>4 DEF Balanced
  <2>4. QED
    BY <1>3, <1>4, <2>1, <2>2, <2>3, UntouchedKeeps DEF Kept
<1>9. ASSUME UNCHANGED << stakingOwnVars, toppedUp, totalDeposited >> PROVE Kept /\ DistributionInv'
  <2>1. UNCHANGED << stakeVars, bonusVars, distributionVars >>
    BY <1>9 DEF stakingOwnVars
  <2>2. QED
    BY <1>4, <1>6, <1>9, <2>1
<1>10. QED
  BY <1>7, <1>8, <1>9
  DEF VaultNext, SetTimelockDuration, TreasuryWithdraw, RequestWithdraw, ExecuteWithdraw,
      treasuryOwnVars, vaultVars, stakingVars, treasuryVars

LEMMA VaultInvariant == VaultSpec => [](VaultInv /\ DistributionInv)
BY VaultInit_Inv, VaultStep, PTL DEF VaultSpec

-----------------------------------------------------------------------------
(* Theorems *)

\* The treasury's audit equation holds under everything the staking manager
\* does to it (deposit from unstake_early, get_stats).
THEOREM VaultLedger == VaultSpec => []LedgerExact
<1>1. VaultInv => LedgerExact
  BY DEF VaultInv, LedgerInv, TreasuryInv
<1>2. QED
  BY <1>1, VaultInvariant, PTL

\* Principal and treasury never mix: every unit staked or topped up is still
\* staked, was returned, sits in the treasury or left it by an executed request.
THEOREM VaultAlwaysConserved == VaultSpec => []VaultConserved
<1>1. VaultInv => VaultConserved
  <2> SUFFICES ASSUME VaultInv, totalDeposited < MaxI128
               PROVE  /\ WithdrawnIsExecuted
                      /\ SumFunction([u \in Users |-> StakeSum(stakes[u], AmountField, AnyStake)]) + toppedUp
                           = totalStaked + returned + balance + totalWithdrawn
    BY DEF VaultConserved
  <2> DEFINE f == [u \in Users |-> StakeSum(stakes[u], AmountField, AnyStake)]
  <2>1. f = PrincipalOf(stakes)
    BY KindSumsAreStakeSums DEF PrincipalOf
  <2>2. DOMAIN f = Users
    OBVIOUS
  <2> HIDE DEF f
  <2>3. SumFunction(f) = SumFunctionOnSet(PrincipalOf(stakes), Users)
    BY <2>1, <2>2 DEF SumFunction
  <2>4. SumFunctionOnSet(PrincipalOf(stakes), Users) + toppedUp = totalStaked + returned + totalDeposited
    BY DEF VaultInv, Balanced
  <2>5. balance = totalDeposited - totalWithdrawn /\ balance \in Nat /\ totalWithdrawn \in Nat
    BY TreasuryAssumption DEF VaultInv, LedgerInv, TreasuryInv, TreasuryTypeOK, LedgerExact
  <2>6. totalStaked + returned + totalDeposited = totalStaked + returned + balance + totalWithdrawn
    BY <2>5, Numbers
  <2>7. QED
    BY <2>3, <2>4, <2>6 DEF VaultInv, LedgerInv, f
<1>2. QED
  BY <1>1, VaultInvariant, PTL

\* Totals and records, claimed counters and claimed records, registry and
\* stakers agree; bonuses wait for their holding period, distributions for
\* their turn (stake, unstake_early, claim_stake, claim_bonuses,
\* execute_distribution).
THEOREM StakingAlwaysSound == VaultSpec => []StakingSound
<1>1. VaultInv /\ DistributionInv => StakingSound
  <2> SUFFICES ASSUME VaultInv, DistributionInv PROVE StakingSound
    OBVIOUS
  <2>1. TreasuryTypeOK /\ StakerTypes /\ DistributionTypes /\ Totals
    BY DEF VaultInv, LedgerInv, TreasuryInv, DistributionInv
  <2>2. StakingTypeOK
    BY <2>1 DEF StakingTypeOK, StakerTypes, DistributionTypes
  <2>3. DOMAIN userTotalStaked = Users /\ DOMAIN userClaimed = Users
    BY <2>1 DEF StakerTypes
  <2>4. StakeTotalsAgree /\ BonusTotalsAgree
    BY <2>1, <2>3, KindSumsAreStakeSums
    DEF Totals, Totalled, StakeTotalsAgree, BonusTotalsAgree, SumFunction
  <2>5. QED
    BY <2>2, <2>4 DEF StakingSound, VaultInv, DistributionInv
<1>2. QED
  BY <1>1, VaultInvariant, PTL

\* A stake's record is written once and only its two flags move on; it stops
\* being active before its time only if the penalty reaches the treasury in the
\* same step (unstake_early, claim_stake, claim_bonuses).
THEOREM RecordsAlwaysOnlyAge == VaultSpec => RecordsOnlyAge
<1> DEFINE A == \A u \in Users : \A i \in DOMAIN stakes[u] :
       LET s == stakes[u][i]
           t == stakes'[u][i]
       IN
       /\ i \in DOMAIN stakes'[u]
       /\ t = [s EXCEPT !.bonus_claimed = t.bonus_claimed, !.is_active = t.is_active]
       /\ s.bonus_claimed => t.bonus_claimed
       /\ t.is_active => s.is_active
       /\ s.is_active /\ ~ t.is_active /\ now < UnlockAt(s) =>
            totalDeposited' = SaturatingAdd(totalDeposited, Penalty(s))
       /\ t.bonus_claimed /\ ~ s.bonus_claimed => s.is_active
<1>1. ASSUME AllAged PROVE A
  <2> SUFFICES ASSUME NEW u \in Users, NEW i \in DOMAIN stakes[u] PROVE A!(u)!(i)
    OBVIOUS
  <2> DEFINE s == stakes[u][i]
             t == stakes'[u][i]
  <2>1. i \in DOMAIN stakes'[u] /\ Aged(s, t)
    BY <1>1, SMT DEF AllAged
  <2> HIDE DEF s, t
  <2>2. SameStake(s, t)
    BY <2>1 DEF Aged
  <2>3. /\ t = [s EXCEPT !.bonus_claimed = t.bonus_claimed, !.is_active = t.is_active]
        /\ s.bonus_claimed => t.bonus_claimed
        /\ t.is_active => s.is_active
        /\ t.bonus_claimed /\ ~ s.bonus_claimed => s.is_active
    BY <2>2, Zenon DEF SameStake
  <2>4. s.is_active /\ ~ t.is_active /\ now < UnlockAt(s) =>
          totalDeposited' = SaturatingAdd(totalDeposited, Penalty(s))
    BY <2>1, ZenonT(60) DEF Aged
  <2>5. QED
    BY <2>1, <2>3, <2>4, ZenonT(60) DEF s, t
<1>2. VaultInv /\ DistributionInv /\ [VaultNext]_vaultVars => [A]_stakingVars
  BY <1>1, VaultStep
<1>3. VaultSpec => [][A]_stakingVars
  BY <1>2, VaultInvariant, PTL DEF VaultSpec
<1>4. QED
  BY <1>3 DEF RecordsOnlyAge

\* The penalties the staking manager deposits in between do not disturb the
\* two-phase promise of the withdrawals (request_withdraw, execute_withdraw).
THEOREM VaultImplementsTimelock == VaultSpec => ImplementsTimelock
<1>1. VaultInit => Promise!QueueInit
  BY RefinementInit DEF VaultInit, StakingInit
<1>2. VaultInv /\ [VaultNext]_vaultVars => [Promise!QueueNext]_(Promise!queueVars)
  <2>1. ASSUME VaultInv, [VaultNext]_vaultVars
        PROVE  TreasuryTypeOK /\ [LedgerStep]_treasuryVars
    BY <2>1, VaultIsLedger DEF VaultInv, LedgerInv, TreasuryInv
  <2>2. QED
    BY <2>1, RefinementStep
<1>3. QED
  BY <1>1, <1>2, VaultInvariant, PTL DEF VaultSpec, ImplementsTimelock, Promise!QueueSpec
=============================================================================
