------------------------------ MODULE Requests ------------------------------
(***************************************************************************)
(* One request from the filter to its reply: BearerAuthFilter::doFilter(), *)
(* the handler up to its first call of TDLib, and the coroutine that waits *)
(* for the answer (launchInvoke() of src/src/http/http_helpers.hpp,        *)
(* launchAuthMutation() of routes.cpp, the handler of GET /v1/files).      *)
(* Requests share nothing but the token store, which does not change, so   *)
(* one request shows them all.                                             *)
(***************************************************************************)
EXTENDS Access, ByteRange, Routes

CONSTANTS
    TokenFiles,    \* sequences of lines [token, items]
    Requested,     \* the requests a client may make
    MaxFileSize

\* A path is routed by its segments, the letters' case aside; any segment will do
\* where the pattern has a parameter.
Matches(path, pattern) ==
    /\ Len(path) = Len(pattern)
    /\ \A i \in DOMAIN pattern :
          \/ pattern[i] \in {"{chatId}", "{messageId}", "{fileId}", "{userId}"}
          \/ Lower(path[i]) = pattern[i]

ASSUME RequestsAssumption ==
    /\ MaxFileSize \in Nat
    /\ \A r \in Requested :
          /\ r.route \in DOMAIN Method /\ Matches(r.path, Pattern[r.route])
          /\ {r.chat, r.message, r.user, r.file, r.fromChat, r.limit} \subseteq Numerals
          /\ r.ids \in Seq(Numerals)
          /\ \A h \in r.range : {h.first, h.last} \subseteq RangeTexts /\ r.range = {h}

VARIABLES
    entries,       \* TokenStore::entries_
    request,
    step,          \* "received", "asked" or "replied"
    calls,         \* what TDLib was asked, in order
    told,          \* the last answer of TDLib
    reply          \* [code, part]: the status, and the part of the file in it

requestVars == <<entries, request, step, calls, told, reply>>

Nothing == [error |-> FALSE]
NoReply == [code |-> 0, part |-> {}]
Code(n) == [code |-> n, part |-> {}]

RequestInit ==
    /\ \E file \in TokenFiles : entries = Load(file)
    /\ request \in Requested
    /\ step = "received" /\ calls = <<>> /\ told = Nothing /\ reply = NoReply

RequestIdle ==
    /\ entries = {} /\ request = NoReply
    /\ step = "none" /\ calls = <<>> /\ told = Nothing /\ reply = NoReply

ReplyWith(r) == step' = "replied" /\ reply' = r

\* The filter, and the handler until it waits or has replied.
Serve ==
    /\ step = "received" /\ UNCHANGED <<entries, request, told>>
    /\ LET refusal == IF Filtered(request.route)
                      THEN FilterStatus(entries, request.header, request.path,
                                        Method[request.route])
                      ELSE 0
           call == Handle(request)
       IN  IF refusal # 0 THEN ReplyWith(Code(refusal)) /\ UNCHANGED calls
           ELSE IF call.fn = "" THEN ReplyWith(Code(call.code)) /\ UNCHANGED calls
           ELSE calls' = <<call>> /\ step' = "asked" /\ UNCHANGED reply

Failures == {[error |-> TRUE, what |-> e] : e \in Errors}

\* TDLib answers a call that is the handler's only one.
Answer ==
    /\ step = "asked" /\ Last(calls).fn \notin {"getFile", "downloadFile"}
    /\ \E a \in Failures \cup {Nothing} :
          told' = a /\ ReplyWith(Code(Reply(request.route, a)))
    /\ UNCHANGED <<entries, request, calls>>

\* A file that is there is sent, or the range of it; a failed file_size() is a
\* range that cannot be satisfied.
SendFile(size) ==
    IF request.range = {} THEN [code |-> 200, part |-> {[offset |-> 0, length |-> size]}]
    ELSE LET part == UNION {ParseByteRange(h, size) : h \in request.range}
         IN  [code |-> IF part = {} THEN 416 ELSE 206, part |-> part]

FileAnswer ==
    /\ step = "asked" /\ Last(calls).fn = "getFile"
    /\ \/ \E a \in Failures :
             told' = a /\ ReplyWith(Code(Reply("file", a))) /\ UNCHANGED calls
       \/ \E size \in 0 .. MaxFileSize :
             /\ told' = [error |-> FALSE, size |-> size]
             /\ ReplyWith(SendFile(size)) /\ UNCHANGED calls
       \/ /\ request.range # {}
          /\ told' = [error |-> FALSE, size |-> 0]
          /\ ReplyWith(Code(416)) /\ UNCHANGED calls
       \/ /\ told' = Nothing
          /\ calls' = Append(calls, [fn |-> "downloadFile", file |-> calls[1].file])
          /\ UNCHANGED <<step, reply>>
    /\ UNCHANGED <<entries, request>>

\* The answer to downloadFile is not looked at.
DownloadAnswer ==
    /\ step = "asked" /\ Last(calls).fn = "downloadFile"
    /\ \E a \in Failures \cup {Nothing} : told' = a
    /\ ReplyWith(Code(202)) /\ UNCHANGED <<entries, request, calls>>

RequestNext == Serve \/ Answer \/ FileAnswer \/ DownloadAnswer

-----------------------------------------------------------------------------
(* Properties *)

RequestTypeOK ==
    /\ \A e \in entries : e.scopes \subseteq Scopes
    /\ step \in {"none", "received", "asked", "replied"}
    /\ step = "asked" => calls # <<>>
    /\ step = "replied" <=> reply.code # 0

Asks == {calls[i] : i \in DOMAIN calls}

\* TDLib is asked about nothing but what the request named, as it was written:
\* the chat, the message, the user and the file are the whole numbers of the
\* request and none is cut to its width; a request to delete or forward is for
\* all the messages of its list, one to mark them read for those that are
\* numbers.  The part of a file in a reply is the one its Range header names
\* (message_routes.cpp:417-520, 706-805; http_helpers.hpp:149-165;
\* byte_range.hpp:30-91).
ActsOnWhatWasNamed ==
    /\ \A call \in Asks :
          /\ \A field \in DOMAIN call \cap {"chat", "message", "user", "file", "fromChat"} :
                IsId(request[field]) /\ call[field] = request[field].n
          /\ "ids" \in DOMAIN call =>
                /\ ToSet(call.ids) = {t.n : t \in {x \in ToSet(request.ids) : IsId(x)}}
                /\ request.route # "read" => Len(call.ids) = Len(request.ids)
          /\ "limit" \in DOMAIN call => call.limit > 0
    /\ \A part \in reply.part :
          part.offset .. part.offset + part.length - 1 =
              IF request.range = {} THEN 0 .. told.size - 1
              ELSE UNION {Positions(h, told.size) : h \in request.range}
    /\ reply.code = 206 => \A h \in request.range : Single(h)
    /\ reply.code = 416 =>
          \A h \in request.range : Single(h) => Positions(h, told.size) = {}

Changing == {"read", "edit", "delete", "forward", "react", "unreact", "join"}
Account == {"phone", "qr", "resend", "code", "password", "export", "state", "session"}
Needed(route) ==
    IF route \in Account THEN "admin" ELSE IF route \in Changing THEN "write" ELSE "read"

\* A request goes past the filter exactly when a line of the token file with its
\* token grants what the route is for - to change something in Telegram write,
\* to log in or to take the session out admin, to look at anything else read -
\* in whatever letters the path is written (scope_policy.hpp:9-21,
\* token_store.hpp:29-35).
ServedIffScoped ==
    request # NoReply /\ request.route \notin {"health", "ready"} =>
        LET granted == /\ request.header.scheme = "Bearer "
                       /\ \E e \in entries : /\ e.token = request.header.token
                                           /\ Needed(request.route) \in e.scopes
        IN  /\ step = "asked" => granted
            /\ step = "replied" => (reply.code \in {401, 403} <=> ~granted)

\* A reply says what became of the request: 2xx only for what TDLib did (or has
\* begun to fetch), 4xx for what the client can mend, refused here or by
\* Telegram, 502 for what it cannot (http_helpers.hpp:93-125).
StatusTellsTheOutcome ==
    step = "replied" =>
        /\ told.error /\ reply.code \in 200 .. 299 => Last(calls).fn = "downloadFile"
        /\ reply.code = 502 => told.error /\ told.what.code \in {401, 504}
        /\ told.error /\ told.what.code = 400 => reply.code \in {202, 400, 404}
        /\ calls = <<>> => reply.code \in {200, 400, 401, 403, 404, 429, 503}
=============================================================================
