----------------------------- MODULE MCUpdates ------------------------------
(***************************************************************************)
(* Model-checking instance of Updates: a message and a status are          *)
(* forwarded, a message without its object is not.                         *)
(***************************************************************************)
EXTENDS Updates, TLC

ForwardedTypes == {"updateNewMessage", "updateUserStatus"}
AskedFilters == {{"updateNewMessage"}}
ConnSymmetry == Permutations(Conns)

U(kind, whole) == [kind |-> kind, chat |-> "a", whole |-> whole]
Delivered == {U("updateNewMessage", TRUE), U("updateNewMessage", FALSE),
              U("updateUserStatus", TRUE)}
=============================================================================
