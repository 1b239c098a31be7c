---------------------------- MODULE MCSendMessage ----------------------------
(***************************************************************************)
(* Model-checking instance of SendMessage: requests and keys differ only   *)
(* by name.                                                                *)
(***************************************************************************)
EXTENDS SendMessage

Symmetry == Permutations(Requests) \cup Permutations(Keys)
==============================================================================
