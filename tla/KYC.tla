--------------------------------- MODULE KYC ---------------------------------
(***************************************************************************)
(* The KYC system of the counter contract (src/kyc.rs and the kyc_* entry  *)
(* points of src/lib.rs): users submit, operators move a record through    *)
(* the review states, Verified and Rejected are final, and the             *)
(* administrator may override a final outcome through a timelock.          *)
(***************************************************************************)
EXTENDS AdminControl, Sequences, FiniteSets

CONSTANTS
  NoOne,                     \* the None of updated_by
  MaxOperators,              \* MAX_OPERATORS
  MinTimelockDuration,       \* MIN_TIMELOCK_DURATION
  DefaultTimelockDuration,   \* DEFAULT_TIMELOCK_DURATION
  MinPendingExpiry,          \* MIN_PENDING_EXPIRY_DURATION
  DefaultPendingExpiry,      \* DEFAULT_PENDING_EXPIRY_DURATION
  DurationChoices,           \* arguments of the two duration setters
  MaxOverrides               \* bound on proposed overrides

ASSUME KYCAssumption ==
  /\ NoOne \notin Addresses
  /\ MaxOperators \in Nat
  /\ MinTimelockDuration \in Nat
  /\ DefaultTimelockDuration \in Nat
  /\ DefaultTimelockDuration >= MinTimelockDuration
  /\ MinPendingExpiry \in Nat
  /\ DefaultPendingExpiry \in Nat
  /\ DurationChoices \subseteq Nat
  /\ MaxOverrides \in Nat

VARIABLES
  operators,        \* KYCStorageKey::Operators
  records,          \* KYCStorageKey::Record of every address
  overrides,        \* the override with id n is at position n + 1
  overrideDelay,    \* KYCStorageKey::TimelockDuration
  pendingExpiry     \* KYCStorageKey::PendingExpiryDuration

kycOwnVars == << operators, records, overrides, overrideDelay, pendingExpiry >>
kycVars == << adminVars, kycOwnVars >>

-----------------------------------------------------------------------------
(* Statuses and records *)

Terminal == {"Verified", "Rejected"}
Status == {"Unverified", "Pending", "InReview", "AdditionalInfoRequired"} \cup Terminal

\* can_transition_to
Transitions ==
  { << "Unverified", "Pending" >>, << "Pending", "InReview" >>,
    << "InReview", "AdditionalInfoRequired" >>, << "InReview", "Verified" >>,
    << "InReview", "Rejected" >>, << "AdditionalInfoRequired", "InReview" >> }

NoTime == -1   \* the None of finalized_at and expires_at

KYCRecord ==
  [status : Status, finalized_at : Nat \cup {NoTime},
   updated_by : Addresses \cup {NoOne}, expires_at : Nat \cup {NoTime}]

NewRecord ==
  [status |-> "Unverified", finalized_at |-> NoTime, updated_by |-> NoOne,
   expires_at |-> NoTime]

Override ==
  [user : Addresses, new_status : Status, proposed_at : Nat, executable_at : Nat,
   executed : BOOLEAN]

KYCInit ==
  /\ AdminInit
  /\ operators = {}
  /\ records = [a \in Addresses |-> NewRecord]
  /\ overrides = << >>
  /\ overrideDelay = DefaultTimelockDuration
  /\ pendingExpiry = DefaultPendingExpiry

IsFinalized(r) == r.finalized_at # NoTime
IsVerified(a) == records[a].status = "Verified"

\* Mutant: an application is still good for some time after its expiry.
IsExpiredLate(r) == r.expires_at # NoTime /\ now > r.expires_at
IsExpired(r) == r.expires_at # NoTime /\ now >= r.expires_at

\* The administrator is an operator whether or not the list holds it.
IsOperator(a) == IsAdmin(a) \/ a \in operators

-----------------------------------------------------------------------------
(* Operators and settings *)

\* The limit is tested before membership: a full list refuses even a listed one.
AddOperator(caller, op) ==
  /\ IsAdmin(caller)
  /\ Cardinality(operators) < MaxOperators
  /\ operators' = operators \cup {op}
  /\ UNCHANGED << adminVars, records, overrides, overrideDelay, pendingExpiry >>

RemoveOperator(caller, op) ==
  /\ IsAdmin(caller)
  /\ operators' = operators \ {op}
  /\ UNCHANGED << adminVars, records, overrides, overrideDelay, pendingExpiry >>

AdmissibleTimelock(duration) == duration >= MinTimelockDuration

SetOverrideTimelock(caller, duration) ==
  /\ IsAdmin(caller)
  /\ AdmissibleTimelock(duration)
  /\ overrideDelay' = duration
  /\ UNCHANGED << adminVars, operators, records, overrides, pendingExpiry >>

SetPendingExpiry(caller, duration) ==
  /\ IsAdmin(caller)
  /\ duration >= MinPendingExpiry
  /\ pendingExpiry' = duration
  /\ UNCHANGED << adminVars, operators, records, overrides, overrideDelay >>

-----------------------------------------------------------------------------
(* Status changes *)

\* A fresh application: nobody has looked at it and it expires.
Submitted(r) ==
  [status |-> "Pending", updated_by |-> NoOne, expires_at |-> now + pendingExpiry,
   finalized_at |-> r.finalized_at]

SubmitKYC(user) ==
  /\ records[user].status = "Unverified"
  /\ records' = [records EXCEPT ![user] = Submitted(@)]
  /\ UNCHANGED << adminVars, operators, overrides, overrideDelay, pendingExpiry >>

ResubmitKYC(user) ==
  /\ records[user].status = "AdditionalInfoRequired"
  /\ records' = [records EXCEPT ![user] = [@ EXCEPT !.status = "InReview"]]
  /\ UNCHANGED << adminVars, operators, overrides, overrideDelay, pendingExpiry >>

\* Mutant: a final outcome may be replaced by another.
MayUpdateFinal(op, user, new) ==
  /\ op # user
  /\ ~ (records[user].status = "Pending" /\ IsExpired(records[user]))
  /\ << records[user].status, new >> \in Transitions \cup (Terminal \X Terminal)

\* The conditions of update_status on the record, in the order of the code.
MayUpdate(op, user, new) ==
  /\ op # user
  /\ ~ IsFinalized(records[user])
  /\ ~ (records[user].status = "Pending" /\ IsExpired(records[user]))
  /\ << records[user].status, new >> \in Transitions

\* Mutant: the moment of the final outcome is not recorded.
FinalTimeLost(new, old) == old
FinalTime(new, old) == IF new \in Terminal THEN now ELSE old

Reviewed(r, op, new) ==
  [status |-> new, updated_by |-> op,
   expires_at |-> IF new = "Pending" THEN r.expires_at ELSE NoTime,
   finalized_at |-> FinalTime(new, r.finalized_at)]

UpdateStatus(op, user, new) ==
  /\ IsOperator(op)
  /\ RecordSensitive(op)
  /\ MayUpdate(op, user, new)
  /\ records' = [records EXCEPT ![user] = Reviewed(@, op, new)]
  /\ UNCHANGED << now, admin, operators, overrides, overrideDelay, pendingExpiry >>

-----------------------------------------------------------------------------
(* Governance overrides *)

\* The record must be final now; nothing ties the proposal to that outcome.
ProposeOverride(caller, user, new) ==
  /\ IsAdmin(caller)
  /\ RecordSensitive(caller)
  /\ Len(overrides) < MaxOverrides
  /\ IsFinalized(records[user])
  /\ overrides' = Append(overrides,
                    [user |-> user, new_status |-> new, proposed_at |-> now,
                     executable_at |-> now + overrideDelay, executed |-> FALSE])
  /\ UNCHANGED << now, admin, operators, records, overrideDelay, pendingExpiry >>

\* Mutant: the timelock is not checked.
ExecutableEarly(o) == ~ o.executed
Executable(o) == ~ o.executed /\ now >= o.executable_at

\* The expiry of the overridden record is left as it is.
Overridden(r, caller, new) ==
  [status |-> new, updated_by |-> caller, expires_at |-> r.expires_at,
   finalized_at |-> IF new \in Terminal THEN now ELSE NoTime]

\* The record is read again, whatever it has become since the proposal.
ExecuteOverride(caller, id) ==
  LET o == overrides[id] IN
  /\ IsAdmin(caller)
  /\ Executable(o)
  /\ records' = [records EXCEPT ![o.user] = Overridden(@, caller, o.new_status)]
  /\ overrides' = [overrides EXCEPT ![id].executed = TRUE]
  /\ UNCHANGED << adminVars, operators, overrideDelay, pendingExpiry >>

KYCNext ==
  \/ \E caller, op \in Addresses : AddOperator(caller, op)
  \/ \E caller, op \in Addresses : RemoveOperator(caller, op)
  \/ \E caller \in Addresses, d \in DurationChoices : SetOverrideTimelock(caller, d)
  \/ \E caller \in Addresses, d \in DurationChoices : SetPendingExpiry(caller, d)
  \/ \E user \in Addresses : SubmitKYC(user)
  \/ \E user \in Addresses : ResubmitKYC(user)
  \/ \E op, user \in Addresses, new \in Status : UpdateStatus(op, user, new)
  \/ \E caller, user \in Addresses, new \in Status : ProposeOverride(caller, user, new)
  \/ \E caller \in Addresses, id \in 1 .. Len(overrides) : ExecuteOverride(caller, id)
  \/ \E caller, newAdmin \in Addresses : SetAdmin(caller, newAdmin) /\ UNCHANGED kycOwnVars
  \/ \E dt \in TimeSteps : AdvanceTime(dt) /\ UNCHANGED kycOwnVars

KYCSpec == KYCInit /\ [][KYCNext]_kycVars

-----------------------------------------------------------------------------
(* Properties *)

\* The type invariant.  set_timelock_duration never lets the override delay
\* below its minimum, whatever it is asked for.
KYCTypeOK ==
  /\ AdminTypeOK
  /\ operators \subseteq Addresses
  /\ records \in [Addresses -> KYCRecord]
  /\ overrides \in Seq(Override)
  /\ overrideDelay \in Nat
  /\ overrideDelay >= MinTimelockDuration
  /\ pendingExpiry \in Nat

\* finalized_at, which alone makes a record immutable, is set exactly in the
\* final states, along every mix of reviews, overrides and new submissions.
FinalizedIffTerminal ==
  \A a \in Addresses : IsFinalized(records[a]) <=> records[a].status \in Terminal

\* "Governance overrides are the only supported path for changing a terminal
\* KYC outcome", and they are announced at least the minimum timelock before:
\* a final status only changes in the step that executes such an override.
TerminalOnlyByOverride ==
  [][\A a \in Addresses :
       records[a].status \in Terminal /\ records'[a].status # records[a].status =>
         \E id \in 1 .. Len(overrides) :
           /\ overrides[id].user = a
           /\ overrides[id].new_status = records'[a].status
           /\ ~ overrides[id].executed /\ overrides'[id].executed
           /\ overrides[id].proposed_at + MinTimelockDuration <= now]_kycVars

\* Apart from overrides, a user becomes Verified only out of a review, by
\* somebody else who is an operator at that moment.
VerifiedByReview(a) ==
  IsVerified(a)' /\ ~IsVerified(a) =>
    \/ overrides' # overrides
    \/ /\ records[a].status = "InReview"
       /\ records'[a].updated_by # a
       /\ IsOperator(records'[a].updated_by)

\* An application nobody took up before it expired is never reviewed: only an
\* override proposed for an earlier outcome of the same user can move it.
ExpiredNeverReviewed(a) ==
  records[a].status = "Pending" /\ records[a].expires_at # NoTime
    /\ now >= records[a].expires_at /\ records'[a].status # "Pending" => overrides' # overrides

\* Whatever operators come and go, whoever is the administrator and however the
\* expiry is set meanwhile: nobody is verified but by a review of somebody else,
\* and no review starts after its application has expired (update_status).
ReviewsSound ==
  [][\A a \in Addresses : VerifiedByReview(a) /\ ExpiredNeverReviewed(a)]_kycVars

\* Overrides keep the promise of a timelocked operation, with a delay that can
\* be reconfigured but never below the minimum.
OverridePromise == INSTANCE TimelockQueue WITH
  MinDelay <- MinTimelockDuration,
  clock <- now,
  delay <- overrideDelay,
  queue <- [i \in 1 .. Len(overrides) |->
              [due |-> overrides[i].executable_at, done |-> overrides[i].executed]]

OverridesTimelocked == OverridePromise!QueueSpec

\* Bound of the model checking: reviews go on for three days under appointed
\* operators; overrides, two of them, are made within two days and by the
\* administrator's own reviews, to a final outcome and to two that are not.
KYCBound ==
  overrides # << >> =>
    /\ operators = {} /\ now <= 2
    /\ \A i \in DOMAIN overrides : overrides[i].new_status \in {"Verified", "Pending", "InReview"}
=============================================================================
