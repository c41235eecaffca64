-------------------------- MODULE MCWebhookDelivery -------------------------
(* WebhookDelivery with a ladder of one rung.                               *)
EXTENDS WebhookDelivery

MCLadder == <<1>>
=============================================================================
