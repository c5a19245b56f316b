------------------------------ MODULE Treasury ------------------------------
(***************************************************************************)
(* The contract's treasury (src/treasury.rs and the treasury_* entry       *)
(* points of src/lib.rs): anyone may deposit, early-unstake penalties are  *)
(* deposited by the staking manager, and the administrator withdraws in    *)
(* two phases, a request and, once the timelock has run out, its           *)
(* execution.  A request reserves nothing: several may be open for the     *)
(* same money, and the balance may have moved when one of them matures.    *)
(***************************************************************************)
EXTENDS AdminControl, Sequences, FiniteSetsExt

CONSTANTS
  DepositAmounts,    \* amounts offered to treasury_deposit
  WithdrawAmounts,   \* amounts asked for in the request phase
  TimelockChoices,   \* durations set_timelock_duration is called with
  DefaultTimelock,   \* DEFAULT_TREASURY_TIMELOCK_SECS, in the clock's unit
  MaxRequests,       \* bound on withdrawal requests
  MaxI128            \* where saturating_add stops

ASSUME TreasuryAssumption ==
  /\ DepositAmounts \subseteq Int
  /\ WithdrawAmounts \subseteq Int
  /\ TimelockChoices \subseteq Nat
  /\ DefaultTimelock \in Nat
  /\ MaxRequests \in Nat
  /\ MaxI128 \in Nat

VARIABLES
  balance,          \* TreasuryKey::Balance
  totalDeposited,   \* TreasuryKey::TotalDeposited
  totalWithdrawn,   \* TreasuryKey::TotalWithdrawn
  timelock,         \* TreasuryKey::TimelockDuration
  requests          \* the WithdrawRequest with id n is at position n + 1

treasuryOwnVars == << balance, totalDeposited, totalWithdrawn, timelock, requests >>
treasuryVars == << adminVars, treasuryOwnVars >>

WithdrawRequest ==
  [amount : Nat, executable_after : Nat, executed : BOOLEAN]

TreasuryInit ==
  /\ AdminInit
  /\ balance = 0
  /\ totalDeposited = 0
  /\ totalWithdrawn = 0
  /\ timelock = DefaultTimelock
  /\ requests = << >>

-----------------------------------------------------------------------------
(* Operations *)

SaturatingAdd(x, y) == IF x + y > MaxI128 THEN MaxI128 ELSE x + y

\* Mutant: the lifetime counter is forgotten on the way.
CreditUncounted(amount) ==
  /\ amount > 0
  /\ balance' = SaturatingAdd(balance, amount)
  /\ UNCHANGED totalDeposited

\* TreasuryManager::deposit, also the tail of an early unstake.
Credit(amount) ==
  /\ amount > 0
  /\ balance' = SaturatingAdd(balance, amount)
  /\ totalDeposited' = SaturatingAdd(totalDeposited, amount)

Deposit(amount) ==
  /\ Credit(amount)
  /\ UNCHANGED << adminVars, totalWithdrawn, timelock, requests >>

SetTimelockDuration(duration) ==
  /\ timelock' = duration
  /\ UNCHANGED << adminVars, balance, totalDeposited, totalWithdrawn, requests >>

RequestWithdraw(caller, amount) ==
  /\ IsAdmin(caller)
  /\ Len(requests) < MaxRequests
  /\ amount > 0
  /\ amount <= balance
  /\ requests' = Append(requests, [amount           |-> amount,
                                   executable_after |-> now + timelock,
                                   executed         |-> FALSE])
  /\ UNCHANGED << adminVars, balance, totalDeposited, totalWithdrawn, timelock >>

\* Slips in the checks of the execute phase: a request that was already paid,
\* one that has not matured.
PayableAgain(r) == now >= r.executable_after /\ r.amount <= balance
PayableEarly(r) == ~ r.executed /\ r.amount <= balance
Payable(r) ==
  /\ ~ r.executed
  /\ now >= r.executable_after
  /\ r.amount <= balance

ExecuteWithdraw(caller, id) ==
  /\ IsAdmin(caller)
  /\ Payable(requests[id])
  /\ balance' = balance - requests[id].amount
  /\ totalWithdrawn' = SaturatingAdd(totalWithdrawn, requests[id].amount)
  /\ requests' = [requests EXCEPT ![id].executed = TRUE]
  /\ UNCHANGED << adminVars, totalDeposited, timelock >>

TreasuryNext ==
  \/ \E amount \in DepositAmounts : Deposit(amount)
  \/ \E duration \in TimelockChoices : SetTimelockDuration(duration)
  \/ \E caller \in Addresses, amount \in WithdrawAmounts : RequestWithdraw(caller, amount)
  \/ \E caller \in Addresses, id \in 1 .. Len(requests) : ExecuteWithdraw(caller, id)
  \/ \E caller, newAdmin \in Addresses :
        SetAdmin(caller, newAdmin) /\ UNCHANGED treasuryOwnVars
  \/ \E dt \in TimeSteps : AdvanceTime(dt) /\ UNCHANGED treasuryOwnVars

TreasurySpec == TreasuryInit /\ [][TreasuryNext]_treasuryVars

-----------------------------------------------------------------------------
(* Properties *)

\* Every stored value has the type the code declares for it, and the unsigned
\* readings of the i128 amounts never go below zero.
TreasuryTypeOK ==
  /\ AdminTypeOK
  /\ balance \in 0 .. MaxI128
  /\ totalDeposited \in 0 .. MaxI128
  /\ totalWithdrawn \in 0 .. MaxI128
  /\ timelock \in Nat
  /\ requests \in Seq(WithdrawRequest)

\* get_stats is consistent: as long as the lifetime deposit counter has not hit
\* the top of i128, the balance is exactly what came in less what went out,
\* whatever the order of deposits, requests, executions and administrators.
LedgerExact ==
  /\ balance <= totalDeposited
  /\ totalDeposited < MaxI128 => balance = totalDeposited - totalWithdrawn

Paid(r) == IF r.executed THEN r.amount ELSE 0

\* The lifetime withdrawal counter is the sum of the executed requests: no
\* payment without a request, none counted twice, although nothing is reserved
\* when a request is made and the open ones may together exceed the balance.
WithdrawnIsExecuted ==
  totalWithdrawn < MaxI128 => totalWithdrawn =
    SumFunction([id \in 1 .. Len(requests) |-> Paid(requests[id])])

\* The treasury keeps the promise of a timelocked operation: each request
\* falls due once the timelock in force at the request has passed, is paid at
\* most once and not before, whatever set_timelock_duration does meanwhile.
Promise == INSTANCE TimelockQueue WITH
  MinDelay <- 0,
  clock <- now,
  delay <- timelock,
  queue <- [i \in 1 .. Len(requests) |->
              [due |-> requests[i].executable_after, done |-> requests[i].executed]]

ImplementsTimelock == Promise!QueueSpec
=============================================================================
