----------------------------- MODULE MCWebhooks -----------------------------
(***************************************************************************)
(* Model-checking instance of Webhooks.                                    *)
(***************************************************************************)
EXTENDS Webhooks
=============================================================================
