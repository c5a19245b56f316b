-------------------------- MODULE GovernanceParams --------------------------
(***************************************************************************)
(* The timelocked parameter updates of src/governance_params.rs.  Update i *)
(* of the code is updates[i + 1].  A step is one successful call.          *)
(***************************************************************************)
EXTENDS AdminControl, Sequences

CONSTANTS
  Params,              \* ParamKey: the governed parameters
  ParamValues,         \* values proposed for them
  ValidParam(_, _),    \* validate_param_value
  Unset,               \* a parameter never committed: get_param returns None
  ParamDelays,         \* delays tried
  MinParamDelay,       \* PARAM_TIMELOCK_MIN
  DefaultParamDelay,   \* PARAM_TIMELOCK_DEFAULT
  MaxUpdates           \* bound on the updates proposed

ASSUME ParamAssumption ==
  /\ MinParamDelay \in Nat /\ DefaultParamDelay \in Nat /\ DefaultParamDelay >= MinParamDelay
  /\ ParamDelays \subseteq Nat
  /\ Unset \notin ParamValues
  /\ \A p \in Params, v \in ParamValues : ValidParam(p, v) \in BOOLEAN

VARIABLES
  paramDelay,          \* GovParamStorageKey::TimelockDelay
  updates,             \* GovParamStorageKey::PendingUpdate, by id
  params               \* GovParamStorageKey::ParamValue

paramVars == << paramDelay, updates, params >>

ParamInit ==
  /\ paramDelay = DefaultParamDelay
  /\ updates = << >>
  /\ params = [p \in Params |-> Unset]

AdmissibleDelay(d) == d >= MinParamDelay

SetTimelockDelay(caller, d) ==
  /\ IsAdmin(caller)
  /\ AdmissibleDelay(d)
  /\ paramDelay' = d
  /\ UNCHANGED << updates, params >>

PendingUpdate == [param : Params, value : ParamValues, at : Nat, due : Nat, done : BOOLEAN]

ProposeUpdate(caller, p, v) ==
  /\ IsAdmin(caller)
  /\ ValidParam(p, v)
  /\ Len(updates) < MaxUpdates
  /\ updates' = Append(updates,
       [param |-> p, value |-> v, at |-> now, due |-> now + paramDelay, done |-> FALSE])
  /\ UNCHANGED << paramDelay, params >>

\* Mutant: the delay in force now is counted from the proposal.
DueUnderCurrentDelay(i) == ~updates[i].done /\ now >= updates[i].at + paramDelay

\* Mutant: nothing is waited for.
DueAtOnce(i) == ~updates[i].done

Due(i) == ~updates[i].done /\ now >= updates[i].due

\* Updates of one parameter may be executed in any order.
ExecuteUpdate(caller, i) ==
  /\ IsAdmin(caller)
  /\ i \in DOMAIN updates
  /\ Due(i)
  /\ params' = [params EXCEPT ![updates[i].param] = updates[i].value]
  /\ updates' = [updates EXCEPT ![i].done = TRUE]
  /\ UNCHANGED paramDelay

ParamNext ==
  \E a \in Addresses :
    \/ \E d \in ParamDelays : SetTimelockDelay(a, d)
    \/ \E p \in Params, v \in ParamValues : ProposeUpdate(a, p, v)
    \/ \E i \in DOMAIN updates : ExecuteUpdate(a, i)

ParamTypeOK ==
  /\ paramDelay \in Nat /\ paramDelay >= MinParamDelay
  /\ updates \in Seq(PendingUpdate)
  /\ params \in [Params -> ParamValues \union {Unset}]

(* A committed value was validated, announced as an update of that very     *)
(* parameter and executed once its delay had run out: executed updates and  *)
(* committed values tell the same story (execute_update, "isolated write"). *)
CommittedWasAnnounced ==
  \A p \in Params :
    LET done == {i \in DOMAIN updates : updates[i].param = p /\ updates[i].done} IN
    IF done = {} THEN params[p] = Unset
    ELSE /\ params[p] \in {updates[i].value : i \in done}
         /\ ValidParam(p, params[p])
         /\ \A i \in done : now >= updates[i].at + MinParamDelay

\* The timelock queue this module refines.
ParamQueue == [i \in 1 .. Len(updates) |-> [due |-> updates[i].due, done |-> updates[i].done]]

ParamTimelock == INSTANCE TimelockQueue WITH
  MinDelay <- MinParamDelay, clock <- now, delay <- paramDelay, queue <- ParamQueue

(* Parameter updates keep the promise of the abstract timelock: announced   *)
(* first, carried out once, no earlier than the delay in force at the       *)
(* announcement, whatever the delay is set to meanwhile.                    *)
ParamsTimelocked == ParamTimelock!QueueSpec
=============================================================================
