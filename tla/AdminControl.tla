---------------------------- MODULE AdminControl ----------------------------
(***************************************************************************)
(* What every administrative entry point of the counter contract shares:   *)
(* the ledger clock, the single administrator kept under ADMIN_KEY         *)
(* (src/admin.rs, set_admin of src/lib.rs) and the SensitiveRateLimiter of *)
(* src/rate_limit.rs, which set_admin, kyc_update_status, propose_override *)
(* and withdraw_commission draw on together.                               *)
(*                                                                         *)
(* The host executes one invocation at a time and discards the storage     *)
(* writes of an invocation that returns Err, so a step of this             *)
(* specification is a whole successful invocation and a refused one leaves *)
(* the state as it is.                                                     *)
(***************************************************************************)
EXTENDS Integers

CONSTANTS
  Addresses,        \* accounts that may call the contract
  InitialAdmin,     \* the address stored under ADMIN_KEY when the story begins
  TimeSteps,        \* how far the ledger clock may jump between invocations
  MaxTime,          \* bound: the clock stops here
  SensitiveLimit,   \* SENSITIVE_ACTION_LIMIT
  SensitiveWindow   \* SENSITIVE_ACTION_WINDOW, in the clock's unit

ASSUME AdminAssumption ==
  /\ InitialAdmin \in Addresses
  /\ TimeSteps \subseteq Nat \ {0}
  /\ MaxTime \in Nat
  /\ SensitiveLimit \in Nat
  /\ SensitiveWindow \in Nat \ {0}

VARIABLES
  now,              \* ledger timestamp
  admin,            \* ADMIN_KEY
  sensitiveUsage    \* the counter each address has under the current window's key

adminVars == << now, admin, sensitiveUsage >>

AdminInit ==
  /\ now = 0
  /\ admin = InitialAdmin
  /\ sensitiveUsage = [a \in Addresses |-> 0]

IsAdmin(a) == a = admin

SensitiveWindowOf(t) == t \div SensitiveWindow

\* check_and_record(_tagged): refuse at the limit, otherwise count the call.
\* The check and the write are one step of the caller's own action.
RecordSensitive(a) ==
  /\ sensitiveUsage[a] < SensitiveLimit
  /\ sensitiveUsage' = [sensitiveUsage EXCEPT ![a] = @ + 1]

SetAdmin(caller, newAdmin) ==
  /\ IsAdmin(caller)
  /\ RecordSensitive(caller)
  /\ admin' = newAdmin
  /\ UNCHANGED now

\* The clock moves on.  Entering another window selects fresh keys, whose
\* counters read as zero; keys of past windows are never read again.
AdvanceTime(dt) ==
  /\ now + dt <= MaxTime
  /\ now' = now + dt
  /\ sensitiveUsage' = IF SensitiveWindowOf(now + dt) = SensitiveWindowOf(now)
                       THEN sensitiveUsage
                       ELSE [a \in Addresses |-> 0]
  /\ UNCHANGED admin

AdminTypeOK ==
  /\ now \in Nat
  /\ admin \in Addresses
  /\ sensitiveUsage \in [Addresses -> 0 .. SensitiveLimit]
=============================================================================
