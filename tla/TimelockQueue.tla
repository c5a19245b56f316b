---------------------------- MODULE TimelockQueue ----------------------------
(***************************************************************************)
(* What a timelocked two-phase operation promises to those it affects: an  *)
(* operation is announced first, becomes due no earlier than the delay in  *)
(* force when it was announced, and is carried out at most once.  Changing *)
(* the delay never moves the due time of what was announced before.        *)
(* Treasury withdrawals and KYC governance overrides both implement this   *)
(* specification.                                                          *)
(***************************************************************************)
EXTENDS Integers, Sequences

CONSTANT MinDelay   \* no delay below this one may be configured

VARIABLES
  clock,   \* the time
  delay,   \* the delay that applies to the next announcement
  queue    \* what was announced, in order: when it is due, whether it is done

queueVars == << clock, delay, queue >>

QueueInit ==
  /\ clock \in Nat
  /\ delay \in Nat /\ delay >= MinDelay
  /\ queue = << >>

Announce ==
  /\ queue' = Append(queue, [due |-> clock + delay, done |-> FALSE])
  /\ UNCHANGED << clock, delay >>

CarryOut(i) ==
  /\ ~ queue[i].done
  /\ clock >= queue[i].due
  /\ queue' = [queue EXCEPT ![i].done = TRUE]
  /\ UNCHANGED << clock, delay >>

SetDelay ==
  /\ delay' \in Nat
  /\ delay' >= MinDelay
  /\ UNCHANGED << clock, queue >>

TimePasses ==
  /\ clock' \in Nat
  /\ clock' > clock
  /\ UNCHANGED << delay, queue >>

QueueNext ==
  \/ Announce
  \/ \E i \in 1 .. Len(queue) : CarryOut(i)
  \/ SetDelay
  \/ TimePasses

QueueSpec == QueueInit /\ [][QueueNext]_queueVars
=============================================================================
