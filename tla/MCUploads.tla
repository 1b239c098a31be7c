----------------------------- MODULE MCUploads ------------------------------
(***************************************************************************)
(* Model-checking instance of Uploads alone: two uploads, one before and   *)
(* one after a restart, over two intervals more than ttl.                  *)
(***************************************************************************)
EXTENDS Uploads, TLC

UploadSymmetry == Permutations(Uploads)
=============================================================================
