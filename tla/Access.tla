------------------------------- MODULE Access -------------------------------
(***************************************************************************)
(* Who may call what: the token store (src/src/auth/token_store.cpp), the  *)
(* bearer filter (src/src/http/bearer_auth.hpp, bearer_filter.cpp), the    *)
(* scope of a path (scope_policy.hpp) and the table of the protected       *)
(* routes (route_table.hpp).  All of it is decided from the request and    *)
(* from a table loaded at the start.                                       *)
(*                                                                         *)
(* A line of the token file is its token and the items after the blank; a  *)
(* path is the sequence of its segments.  Tokens are compared by their     *)
(* SHA-256, taken to tell them apart.                                      *)
(***************************************************************************)
EXTENDS Integers, Sequences, SequencesExt

Scopes == {"read", "write", "admin"}

\* An item that is no scope is left out: it narrows the token, never widens it.
ParseScopes(items) == ToSet(items) \cap Scopes

\* TokenStore::load(): a line without a token is skipped, one without scopes
\* grants them all.
Load(lines) ==
    LET Entry(line) == [token |-> line.token,
                        scopes |-> IF line.items = <<>> THEN Scopes
                                   ELSE ParseScopes(line.items)]
    IN  {Entry(line) : line \in {l \in ToSet(lines) : l.token # ""}}

Hits(store, token) == {entry \in store : entry.token = token}

\* TokenStore::verify(): the scopes of every line with this token together.
Granted(store, token) == UNION {entry.scopes : entry \in Hits(store, token)}

-----------------------------------------------------------------------------
(* The scope of a path *)

\* The router and the policy both compare without regard to case (ASCII).
LowerOf == [Auth |-> "auth", V1 |-> "v1", Webhooks |-> "webhooks"]
Lower(word) == IF word \in DOMAIN LowerOf THEN LowerOf[word] ELSE word
Begins(path, words) ==
    /\ Len(path) >= Len(words)
    /\ \A i \in DOMAIN words : Lower(path[i]) = words[i]

\* "/v1/auth/" asks for a third segment; "/v1/webhooks" ends there or goes on
\* with a slash, so its last word is a whole segment either way.
IsAuthPath(path) == Begins(path, <<"v1", "auth">>) /\ Len(path) > 2
IsWebhooksPath(path) == Begins(path, <<"v1", "webhooks">>)

MutAuthAsWritten(path, method) ==
    IF SubSeq(path, 1, 2) = <<"v1", "auth">> \/ IsWebhooksPath(path) THEN "admin"
    ELSE IF method \in {"GET", "HEAD"} THEN "read"
    ELSE "write"
\* requiredScopeFor(): login, session export and webhooks are for the admin, the
\* rest is told apart by its method.
RequiredScope(path, method) ==
    IF IsAuthPath(path) \/ IsWebhooksPath(path) THEN "admin"
    ELSE IF method \in {"GET", "HEAD"} THEN "read"
    ELSE "write"

-----------------------------------------------------------------------------
(* The filter *)

\* parseBearerToken(): the scheme is compared as written, and a token follows.
PresentsToken(header) == header.scheme = "Bearer " /\ header.token # ""

\* evaluateBearerAuth() and doFilter(): 0 lets the request through.
FilterStatus(store, header, path, method) ==
    IF ~PresentsToken(header) \/ Hits(store, header.token) = {} THEN 401
    ELSE IF RequiredScope(path, method) \notin Granted(store, header.token) THEN 403
    ELSE 0

\* kRoutesTable: system routes are open, the others carry the filter, as every
\* route of message_routes.cpp and directory_routes.cpp does by itself.
OpenRoutes == {"health", "ready"}
Filtered(route) == route \notin OpenRoutes
=============================================================================
