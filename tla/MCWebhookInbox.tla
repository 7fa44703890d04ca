--------------------------- MODULE MCWebhookInbox ---------------------------
(* Two backend instances and up to two eventIds.                           *)
EXTENDS WebhookInbox
CONSTANTS w1, w2, order, shipment
=============================================================================
