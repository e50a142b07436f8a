------------------------- MODULE MCWebhookDelivery -------------------------
(* Small instances of WebhookDelivery for TLC. *)
EXTENDS WebhookDelivery, TLC

CONSTANTS o1, o2, h1, h2, w1, w2

MCJobs == Ops \X Webhooks
=============================================================================
