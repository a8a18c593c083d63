----------------------------- MODULE MCWebhook -----------------------------
(* Webhook on a small instance: one good and one malformed order. *)
EXTENDS Webhook, TLC

Symmetry == Permutations(Handlers) \cup Permutations(Keys)

=============================================================================
