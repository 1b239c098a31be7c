------------------------------- MODULE Routes -------------------------------
(***************************************************************************)
(* The handlers of src/src/http/message_routes.cpp, directory_routes.cpp   *)
(* and routes.cpp that ask TDLib one thing, on the helpers of              *)
(* http_helpers.hpp: what a request makes them ask, and what an answer     *)
(* makes them reply.  The send, upload, chat list and logout handlers are  *)
(* in SendMessage, Uploads, ChatPages and Session.                         *)
(*                                                                         *)
(* A number in a path, a query or a body is a text: the integer it begins  *)
(* with and whether that is all of it.  A field is its value, or "" when   *)
(* it is missing, empty or of another type, which no handler tells apart.  *)
(***************************************************************************)
EXTENDS Integers, Sequences, SequencesExt

CONSTANT MaxFileId   \* INT32_MAX, the largest file id of TDLib

ASSUME RoutesAssumption == MaxFileId \in Nat \ {0}

Number(n) == [kind |-> "whole", n |-> n]
Prefix(n) == [kind |-> "tail", n |-> n]       \* "12x"
Junk == [kind |-> "junk", n |-> 0]          \* no digits, or out of range
Absent == [kind |-> "absent", n |-> 0]
Numerals == [kind : {"whole", "tail", "junk", "absent"}, n : Int]

\* parseId(): the whole text is an integer.  The number read so far is stored
\* even when it is not (the callers that ignore the verdict use it).
IsId(text) == text.kind = "whole"

\* queryInt()
QueryInt(text, default, max) ==
    IF text.kind \in {"absent", "junk"} \/ text.n < 1 THEN default
    ELSE IF text.n > max THEN max ELSE text.n

\* static_cast<int32_t>
Narrow(n) == ((n + MaxFileId + 1) % (2 * (MaxFileId + 1))) - (MaxFileId + 1)

\* makeFormattedText(): TDLib parses the markup, here and now.
Formats(request) ==
    \/ request.mode = ""
    \/ request.mode \in {"markdown", "html"} /\ request.markup = "good"

-----------------------------------------------------------------------------
(* What a handler makes of a request: a call, or a refusal *)

Refuse(code) == [fn |-> "", code |-> code]
Valid(ok, call) == IF ok THEN call ELSE Refuse(400)

IdsOf(texts) == [i \in DOMAIN texts |-> texts[i].n]
\* The ids that parse, in their order; the others are left out.
ParsedIds(texts) ==
    LET kept[i \in 0 .. Len(texts)] ==
            IF i = 0 THEN <<>>
            ELSE IF IsId(texts[i]) THEN Append(kept[i - 1], texts[i].n) ELSE kept[i - 1]
    IN  kept[Len(texts)]
AllIds(texts) == texts # <<>> /\ \A i \in DOMAIN texts : IsId(texts[i])

GetChatHistory(r) ==
    Valid(IsId(r.chat), [fn |-> "getChatHistory", chat |-> r.chat.n, from |-> r.from.n,
                         limit |-> QueryInt(r.limit, 30, 100)])
ViewMessages(r) ==
    Valid(IsId(r.chat) /\ r.listed,
          [fn |-> "viewMessages", chat |-> r.chat.n, ids |-> ParsedIds(r.ids)])

GetFile(r) ==
    Valid(IsId(r.file) /\ r.file.n >= 1 /\ r.file.n <= MaxFileId,
          [fn |-> "getFile", file |-> Narrow(r.file.n)])

EditMessageText(r) ==
    Valid(IsId(r.chat) /\ IsId(r.message) /\ r.text # "" /\ Formats(r),
          [fn |-> "editMessageText", chat |-> r.chat.n, message |-> r.message.n,
           text |-> r.text])

MutSkipBadIds(r) ==
    Valid(IsId(r.chat) /\ r.listed /\ r.ids # <<>>,
          [fn |-> "deleteMessages", chat |-> r.chat.n, revoke |-> r.revoke # "false",
           ids |-> ParsedIds(r.ids)])
\* One id that does not parse refuses the request; revoke is on unless put off.
DeleteMessages(r) ==
    Valid(IsId(r.chat) /\ r.listed /\ AllIds(r.ids),
          [fn |-> "deleteMessages", chat |-> r.chat.n, revoke |-> r.revoke # "false",
           ids |-> IdsOf(r.ids)])
ForwardMessages(r) ==
    Valid(IsId(r.chat) /\ IsId(r.fromChat) /\ r.listed /\ AllIds(r.ids),
          [fn |-> "forwardMessages", chat |-> r.chat.n, fromChat |-> r.fromChat.n,
           ids |-> IdsOf(r.ids)])

SearchChatMessages(r) ==
    Valid(IsId(r.chat) /\ r.text # "",
          [fn |-> "searchChatMessages", chat |-> r.chat.n, text |-> r.text,
           from |-> r.from.n, limit |-> QueryInt(r.limit, 20, 100)])
SearchMessages(r) ==
    Valid(r.text # "", [fn |-> "searchMessages", text |-> r.text,
                        limit |-> QueryInt(r.limit, 20, 100)])

Reaction(fn, r) ==
    Valid(IsId(r.chat) /\ IsId(r.message) /\ r.text # "",
          [fn |-> fn, chat |-> r.chat.n, message |-> r.message.n, text |-> r.text])

\* A leading @ is cut off; "@" alone names nobody.
SearchPublicChat(r) == Valid(r.text \notin {"", "@"}, [fn |-> "searchPublicChat", text |-> r.text])
GetChat(r) == Valid(IsId(r.chat), [fn |-> "getChat", chat |-> r.chat.n])
GetUser(r) == Valid(IsId(r.user), [fn |-> "getUser", user |-> r.user.n])
JoinChatByInviteLink(r) == Valid(r.text # "", [fn |-> "joinChatByInviteLink", text |-> r.text])
\* Unlike queryInt(), what is no number counts as 0 and zero is raised to 1.
SearchChatMembers(r) ==
    Valid(IsId(r.chat),
          [fn |-> "searchChatMembers", chat |-> r.chat.n,
           limit |-> CASE r.limit.kind = "absent" -> 50
                       [] r.limit.n < 1 -> 1
                       [] r.limit.n > 200 -> 200
                       [] OTHER -> r.limit.n])

\* routes.cpp: jsonString() wants the field, and code and password are counted
\* against the rate of ten in a minute before they are looked at.
WithField(fn, r) == Valid(r.text # "", [fn |-> fn, text |-> r.text])
Secret(fn, r) == IF ~r.allowed THEN Refuse(429) ELSE WithField(fn, r)

-----------------------------------------------------------------------------
(* The routes *)

Method ==
    [history |-> "GET", read |-> "POST", file |-> "GET", edit |-> "PATCH", delete |-> "DELETE",
     forward |-> "POST", search |-> "GET", searchAll |-> "GET", react |-> "POST",
     unreact |-> "DELETE", resolve |-> "GET", chat |-> "GET", user |-> "GET", join |-> "POST",
     members |-> "GET", contacts |-> "GET", phone |-> "POST", qr |-> "POST", resend |-> "POST",
     code |-> "POST", password |-> "POST", me |-> "GET", export |-> "GET", state |-> "GET",
     session |-> "POST", health |-> "GET", ready |-> "GET"]

\* The segments a path is routed by, in the letters they are registered in.
Pattern ==
    LET chats == <<"v1", "chats">>
        ofChat == Append(chats, "{chatId}")
        messages == Append(ofChat, "messages")
        ofMessage == Append(messages, "{messageId}")
        auth(word) == <<"v1", "auth", word>>
    IN  [history |-> messages, read |-> Append(messages, "read"), edit |-> ofMessage,
         file |-> <<"v1", "files", "{fileId}">>, delete |-> messages,
         forward |-> Append(messages, "forward"), search |-> Append(ofChat, "search"),
         searchAll |-> <<"v1", "search">>, react |-> Append(ofMessage, "reactions"),
         unreact |-> Append(ofMessage, "reactions"), resolve |-> <<"v1", "resolve">>,
         chat |-> ofChat, user |-> <<"v1", "users", "{userId}">>, join |-> Append(chats, "join"),
         members |-> Append(ofChat, "members"), contacts |-> <<"v1", "contacts">>,
         phone |-> auth("phone"), qr |-> auth("qr"), resend |-> Append(auth("code"), "resend"),
         code |-> auth("code"), password |-> auth("password"), me |-> <<"v1", "me">>,
         export |-> Append(auth("session"), "export"), state |-> auth("state"),
         session |-> auth("session"), health |-> <<"v1", "health">>, ready |-> <<"v1", "ready">>]

\* Routes that ask TDLib nothing: the session string when there is a binlog, and
\* the state they are asked for.
Local(r) ==
    CASE r.route = "export" -> Refuse(IF r.binlog THEN 200 ELSE 404)
      [] r.route = "ready" -> Refuse(IF r.authState = "ready" THEN 200 ELSE 503)
      [] OTHER -> Refuse(200)

Handle(r) ==
    CASE r.route = "history" -> GetChatHistory(r)
      [] r.route = "read" -> ViewMessages(r)
      [] r.route = "file" -> GetFile(r)
      [] r.route = "edit" -> EditMessageText(r)
      [] r.route = "delete" -> DeleteMessages(r)
      [] r.route = "forward" -> ForwardMessages(r)
      [] r.route = "search" -> SearchChatMessages(r)
      [] r.route = "searchAll" -> SearchMessages(r)
      [] r.route = "react" -> Reaction("addMessageReaction", r)
      [] r.route = "unreact" -> Reaction("removeMessageReaction", r)
      [] r.route = "resolve" -> SearchPublicChat(r)
      [] r.route = "chat" -> GetChat(r)
      [] r.route = "user" -> GetUser(r)
      [] r.route = "join" -> JoinChatByInviteLink(r)
      [] r.route = "members" -> SearchChatMembers(r)
      [] r.route = "contacts" -> [fn |-> "getContacts"]
      [] r.route = "phone" -> WithField("setAuthenticationPhoneNumber", r)
      [] r.route = "qr" -> [fn |-> "requestQrCodeAuthentication"]
      [] r.route = "resend" -> [fn |-> "resendAuthenticationCode"]
      [] r.route = "code" -> Secret("checkAuthenticationCode", r)
      [] r.route = "password" -> Secret("checkAuthenticationPassword", r)
      [] r.route = "me" -> [fn |-> "getMe"]
      [] OTHER -> Local(r)

-----------------------------------------------------------------------------
(* The reply to an answer of TDLib *)

Errors == [code : {400, 401, 429, 504}, about : {"not found", "flood", "other"}]

\* httpStatusForTdError()
StatusOf(error) ==
    CASE error.code = 400 /\ error.about = "not found" -> 404
      [] error.code = 400 /\ error.about # "not found" -> 400
      [] error.code # 400 /\ (error.code = 429 \/ error.about = "flood") -> 429
      [] OTHER -> 502

\* The builders: an accepted forward is still to be sent.
Done(route) == IF route = "forward" THEN 202 ELSE 200

MutErrorIsDone(route, answer) == Done(route)
Reply(route, answer) == IF answer.error THEN StatusOf(answer.what) ELSE Done(route)
=============================================================================
