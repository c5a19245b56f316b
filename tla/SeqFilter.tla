------------------------------ MODULE SeqFilter ------------------------------
(***************************************************************************)
(* The loop by which the contract takes entries out of a list: what stays  *)
(* is pushed to a new Vec, in its order (cleanup_old_history of            *)
(* src/fee_history.rs, cleanup_alerts of src/alerts.rs, and others).       *)
(***************************************************************************)
EXTENDS Sequences, SequencesExt

\* The entries of list that are in S.
Only(list, S) ==
  FoldLeft(LAMBDA kept, x : IF x \in S THEN Append(kept, x) ELSE kept, << >>, list)
=============================================================================
