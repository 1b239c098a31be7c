------------------------- MODULE MCAccountLifecycle -------------------------
(* One account, one request to delete it, and the visits of its tenant.      *)
EXTENDS AccountLifecycle

CONSTANTS a1, d1, v1

=============================================================================
