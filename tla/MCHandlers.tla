----------------------------- MODULE MCHandlers -----------------------------
(***************************************************************************)
(* Model-checking instance of Handlers.  Every route is called by every    *)
(* kind of caller with well-formed fields, in the registered letters and   *)
(* in others; then, by a caller who may do all, with ids, lists, fields    *)
(* and limits that are and are not what they should be; and a file with    *)
(* every shape of Range header.                                            *)
(***************************************************************************)
EXTENDS Handlers, TLC

UploadSymmetry == Permutations(Uploads)

Bearer(token) == [scheme |-> "Bearer ", token |-> token]
Lines(token, items) == [token |-> token, items |-> items]
Files ==
    {<<Lines("rw", <<"read", "write">>), Lines("r", <<"read", "other">>), Lines("all", <<>>),
       Lines("twice", <<"write">>), Lines("", <<"admin">>), Lines("twice", <<"admin">>)>>,
     <<Lines("all", <<"admin", "read", "write">>), Lines("rw", <<"">>)>>}
Headers == {Bearer(t) : t \in {"rw", "r", "all", "twice", "lost", ""}}
           \cup {[scheme |-> "bearer ", token |-> "all"]}

\* A request with all it could need, for a route that needs it or not.
Plain(route) ==
    [route |-> route, path |-> Pattern[route], header |-> Bearer("all"),
     chat |-> Number(3), message |-> Number(7), user |-> Number(3), file |-> Number(3),
     fromChat |-> Number(7), ids |-> <<Number(3)>>, listed |-> TRUE, text |-> "t", mode |-> "",
     markup |-> "good", limit |-> Absent, from |-> Absent, revoke |-> "", allowed |-> TRUE,
     binlog |-> TRUE, authState |-> "ready", range |-> {}]

Shouted == [v1 |-> "V1", auth |-> "Auth"]
InCapitals(path) ==
    [i \in DOMAIN path |-> IF path[i] \in DOMAIN Shouted THEN Shouted[path[i]] ELSE path[i]]

ByCaller ==
    UNION {{[Plain(route) EXCEPT !.header = h],
            [Plain(route) EXCEPT !.header = h, !.path = InCapitals(@)]} :
               route \in DOMAIN Method, h \in Headers}

Ids == {Number(3), Number(7), Number(9), Number(0), Number(-2), Prefix(3), Junk}
IdLists == {<<>>, <<Number(3)>>, <<Number(3), Number(9)>>, <<Prefix(3), Number(7)>>, <<Junk>>}
ByIds ==
    {[Plain(route) EXCEPT !.chat = a, !.user = a, !.file = a, !.message = b, !.fromChat = b,
                          !.ids = list_] :
        route \in {"history", "read", "file", "edit", "delete", "forward", "react", "unreact",
                   "chat", "user", "search", "members"},
        a \in Ids, b \in Ids, list_ \in IdLists}

Limits == {Absent, Junk, Number(0), Number(-1), Number(30), Number(500), Prefix(10)}
ByFields ==
    {[Plain(route) EXCEPT !.text = text, !.authState = text, !.mode = mode, !.markup = markup,
                          !.listed = set, !.allowed = set, !.binlog = set, !.limit = limit,
                          !.from = Prefix(3), !.revoke = "false"] :
        route \in DOMAIN Method, text \in {"", "@", "t"}, mode \in {"", "html", "x"},
        markup \in {"good", "bad"}, set \in BOOLEAN, limit \in Limits}

ByRange == {[Plain("file") EXCEPT !.range = {h}] : h \in RangeHeaders({0, 1, 3, 5})}

AllRequests == ByCaller \cup ByIds \cup ByFields \cup ByRange
=============================================================================
