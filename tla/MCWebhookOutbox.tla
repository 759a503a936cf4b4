--------------------------- MODULE MCWebhookOutbox ---------------------------
(* The instances of WebhookOutbox that TLC checks. *)
EXTENDS WebhookOutbox, TLC

\* Rows, subscriptions and ticks are interchangeable.
Symmetry ==
    Permutations(Deliveries) \cup Permutations(Subs) \cup Permutations(Workers)
=============================================================================
