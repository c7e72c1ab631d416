-------------------------- MODULE MCWebhookDelivery --------------------------
(* An instance of WebhookDelivery for TLC: one event that both endpoints     *)
(* wait for.                                                                 *)
EXTENDS WebhookDelivery, TLC

CONSTANTS e1, w1, w2

MatchesBoth == e1 :> {w1, w2}
=============================================================================
