----------------------------- MODULE MCTdBridge -----------------------------
(***************************************************************************)
(* Model-checking instance of TdBridge.  HTTP handlers differ only by      *)
(* name; the safety run takes their permutations as a symmetry.            *)
(***************************************************************************)
EXTENDS TdBridge, TLC

HandlerSymmetry == Permutations(Coros \ HookCoros)
=============================================================================
