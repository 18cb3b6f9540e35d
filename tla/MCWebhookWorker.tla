--------------------------- MODULE MCWebhookWorker ---------------------------
(* WebhookWorker for TLC: two items, each for a webhook of its own, fetched  *)
(* one or two at a time.                                                     *)
EXTENDS WebhookWorker

MCHooks == Items
MCHookOf == [i \in Items |-> i]
==============================================================================
