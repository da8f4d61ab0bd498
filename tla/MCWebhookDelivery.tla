------------------------- MODULE MCWebhookDelivery -------------------------
(* Small instances of WebhookDelivery for TLC.                             *)
EXTENDS WebhookDelivery
CONSTANTS e1, h1, w1, w2
=============================================================================
