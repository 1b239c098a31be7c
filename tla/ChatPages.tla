----------------------------- MODULE ChatPages ------------------------------
(***************************************************************************)
(* A client walks through GET /v1/chats by its next_offset                 *)
(* (src/src/http/message_routes.cpp): each page loads and lists the first  *)
(* offset + limit chats of the main list and fetches those after offset    *)
(* one by one.  Between any two of its calls the list goes on changing: a  *)
(* message moves its chat to the top, a chat is left.  TDLib knows the     *)
(* list up to some chat, and lists no more than that.                      *)
(***************************************************************************)
EXTENDS Integers, Sequences, SequencesExt, FiniteSets

CONSTANTS
    Chats,
    PageLimit,    \* limit of every page
    Window,       \* 900: the largest offset
    MaxChanges    \* bound: changes of the list during the walk

ASSUME ChatPagesAssumption ==
    IsFiniteSet(Chats) /\ PageLimit \in Nat \ {0} /\ Window \in Nat /\ MaxChanges \in Nat

VARIABLES
    list, known,     \* the main list, and how much of it TDLib has loaded
    walk,            \* "none", "ask", "load", "list", "fetch", or the end
    offset, ids, at, \* the page: its offset, what getChats listed, the next to fetch
    got, pages,      \* the client's: chats it was given, pages it asked for
    touched, gap, changes   \* what happened: chats moved, chats lost to the walk

listVars == <<list, known>>
pageVars == <<list, known, walk, offset, ids, at, got, pages, touched, gap, changes>>

PagesStart ==
    /\ offset = 0 /\ ids = <<>> /\ at = 0 /\ got = {} /\ pages = 0
    /\ touched = {} /\ gap = FALSE /\ changes = 0
PagesInit ==
    /\ PagesStart /\ walk = "ask"
    /\ list \in SetToSeqs(Chats) /\ known \in 0 .. Cardinality(Chats)
PagesIdle == PagesStart /\ walk = "none" /\ list = <<>> /\ known = 0

want == offset + PageLimit
Reach(n) == IF n < Len(list) THEN n ELSE Len(list)

-----------------------------------------------------------------------------
(* The handler *)

Ended == {"whole", "window", "refused", "failed"}

AskPage ==
    /\ walk = "ask" /\ pages' = pages + 1
    /\ walk' = IF offset > Window THEN "refused" ELSE "load"
    /\ UNCHANGED <<listVars, offset, ids, at, got, touched, gap, changes>>

\* loadChats may fail, and its answer is not looked at.
LoadChats ==
    /\ walk = "load" /\ walk' = "list"
    /\ \/ known' = (IF Reach(want) > known THEN Reach(want) ELSE known) /\ UNCHANGED gap
       \/ UNCHANGED known /\ gap' = (gap \/ known < Reach(want))
    /\ UNCHANGED <<list, offset, ids, at, got, pages, touched, changes>>

ListChats ==
    /\ walk = "list"
    /\ \/ /\ ids' = SubSeq(list, 1, IF want < known THEN want ELSE known)
          /\ at' = offset + 1 /\ walk' = "fetch"
       \/ walk' = "failed" /\ UNCHANGED <<ids, at>>
    /\ UNCHANGED <<listVars, offset, got, pages, touched, gap, changes>>

\* A chat that cannot be had is left out of the page.
FetchChat ==
    /\ walk = "fetch" /\ at <= Len(ids) /\ at' = at + 1
    /\ \/ got' = got \cup {ids[at]} /\ UNCHANGED gap
       \/ gap' = TRUE /\ UNCHANGED got
    /\ UNCHANGED <<listVars, walk, offset, ids, pages, touched, changes>>

MutNoWindow == Len(ids) = want
\* A full page has a successor, unless that would begin behind the window.
HasNext == Len(ids) = want /\ want <= Window

\* The reply, and the client that goes on by its next_offset.
PageDone ==
    /\ walk = "fetch" /\ at > Len(ids)
    /\ IF HasNext THEN walk' = "ask" /\ offset' = want
       ELSE /\ walk' = (IF Len(ids) = want THEN "window" ELSE "whole")
            /\ UNCHANGED offset
    /\ UNCHANGED <<listVars, ids, at, got, pages, touched, gap, changes>>

-----------------------------------------------------------------------------
(* The list goes on changing *)

MayChange ==
    /\ walk \notin Ended \cup {"none"} /\ changes < MaxChanges /\ changes' = changes + 1
    /\ UNCHANGED <<walk, offset, ids, at, got, pages>>

\* What happens to the chat at place i.
ToTop(i) ==
    /\ MayChange
    /\ list' = <<list[i]>> \o RemoveAt(list, i)
    /\ known' = IF i <= known THEN known ELSE known + 1
    /\ touched' = touched \cup {list[i]} /\ UNCHANGED gap

LeaveChat(i) ==
    /\ MayChange
    /\ list' = RemoveAt(list, i)
    /\ known' = IF i <= known THEN known - 1 ELSE known
    /\ gap' = TRUE /\ UNCHANGED touched

PageStep == AskPage \/ LoadChats \/ ListChats \/ FetchChat \/ PageDone
PagesNext == PageStep \/ \E i \in DOMAIN list : ToTop(i) \/ LeaveChat(i)

-----------------------------------------------------------------------------
(* Properties *)

PagesTypeOK ==
    /\ known \in 0 .. Len(list) /\ ToSet(list) \subseteq Chats
    /\ walk \in Ended \cup {"none", "ask", "load", "list", "fetch"}
    /\ changes \in 0 .. MaxChanges /\ got \subseteq Chats

\* A walk comes to an end within the pages of the window, is never sent to an
\* offset that is refused, and has shown every chat that stayed where it was,
\* unless a chat was left, could not be had, or lies behind the window; a chat
\* that moves up only makes others appear twice (message_routes.cpp:130-133,
\* 173-178).
WalkShowsTheList ==
    /\ pages <= Window \div PageLimit + 1 /\ walk # "refused"
    /\ walk \in {"whole", "window"} /\ ~gap =>
           \A i \in DOMAIN list :
               \/ list[i] \in got \cup touched
               \/ walk = "window" /\ i > Len(ids)
=============================================================================
