------------------------ MODULE MCWebhookDeliveries ------------------------
(* Instances of WebhookDeliveries for TLC. *)
EXTENDS WebhookDeliveries, TLC

CONSTANTS e1, t1, h1, worker
=============================================================================
