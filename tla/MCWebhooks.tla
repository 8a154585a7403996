----------------------------- MODULE MCWebhooks -----------------------------
(* A small instance of Webhooks for TLC.                                    *)
EXTENDS Webhooks
=============================================================================
