----------------------------- MODULE MCWebhook -----------------------------
(* Webhook on small instances. *)
EXTENDS Webhook, TLC

Symmetry == Permutations(Handlers) \cup Permutations(StripeIds) \cup Permutations(Emails)
=============================================================================
