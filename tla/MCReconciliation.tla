-------------------------- MODULE MCReconciliation --------------------------
(* Reconciliation on small instances. *)
EXTENDS Reconciliation, TLC

Symmetry == Permutations(Runs) \cup Permutations(StripeIds) \cup Permutations(Emails)
=============================================================================
