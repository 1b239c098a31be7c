--------------------------- MODULE Requests_proofs ---------------------------
(***************************************************************************)
(* What holds of one request for every token file, every request a client  *)
(* may make and every size of a file.                                      *)
(***************************************************************************)
EXTENDS Handlers, WellFoundedInduction, TLAPS

\* A step of Handlers is a step of the request, or leaves it alone.
LEMMA RequestSteps == [Next]_vars => [RequestNext]_requestVars
  BY DEF Next, vars

-----------------------------------------------------------------------------
(* The Range header *)

\* Of any Range header and any size, the part that is sent has exactly the positions
\* the header names, and nothing is refused that names one (byte_range.hpp).
THEOREM RangesAreTheirPositions ==
    ASSUME NEW header, header.first \in RangeTexts, header.last \in RangeTexts, NEW size \in Nat
    PROVE  /\ \A sent \in ParseByteRange(header, size) :
                 /\ Single(header)
                 /\ sent.offset .. sent.offset + sent.length - 1 = Positions(header, size)
           /\ Single(header) /\ ParseByteRange(header, size) = {} => Positions(header, size) = {}
<1> DEFINE Sent == ParseByteRange(header, size)
<1>1. \A text \in RangeTexts : text.kind \in {"digits", "other", "empty"} /\ text.n \in Nat
  BY DEF RangeTexts
<1>2. CASE header.unit # "bytes" \/ size = 0 \/ ~header.dash \/ header.comma
  <2>1. Sent = {} /\ (Single(header) => size = 0)
    BY <1>2 DEF ParseByteRange, Single
  <2> QED BY <2>1 DEF Positions
<1>3. CASE Single(header) /\ size # 0 /\ header.first.kind = "empty"
  <2>1. Sent = Suffix(header, size)
    BY <1>3 DEF ParseByteRange, Single
  <2>2. CASE header.last.kind # "digits" \/ header.last.n = 0
    BY <1>1, <1>3, <2>1, <2>2 DEF Suffix, Positions
  <2>3. CASE header.last.kind = "digits" /\ header.last.n # 0
    <3> DEFINE length == Least(header.last.n, size)
    <3>1. Sent = {[offset |-> size - length, length |-> length]}
      BY <2>1, <2>3 DEF Suffix
    <3>2. length \in 1 .. size /\ length <= header.last.n
          /\ (length = header.last.n \/ length = size)
      BY <1>1, <1>3, <2>3 DEF Least
    <3>3. Positions(header, size) = {i \in 0 .. size - 1 : size - i <= header.last.n}
      BY <1>3, <2>3 DEF Positions
    <3> HIDE DEF length
    <3>4. (size - length) .. ((size - length) + length) - 1 = Positions(header, size)
      BY <1>1, <3>2, <3>3
    <3>5. \A sent \in Sent : sent.offset = size - length /\ sent.length = length
      BY <3>1
    <3>6. Sent # {}
      BY <3>1
    <3> HIDE DEF Sent
    <3>7. \A sent \in Sent : sent.offset .. sent.offset + sent.length - 1 = Positions(header, size)
      <4>1. size - length + length - 1 = size - 1
        BY <3>2
      <4>2. \A sent \in Sent : sent.offset + sent.length - 1 = size - 1
        BY <3>5, <4>1
      <4> QED BY <3>2, <3>4, <3>5, <4>1, <4>2
    <3> QED BY <1>3, <3>6, <3>7 DEF Sent
  <2> QED BY <2>2, <2>3
<1>4. CASE Single(header) /\ size # 0 /\ header.first.kind # "empty"
  <2> DEFINE last == IF header.last.kind = "empty" THEN size - 1
                     ELSE Least(header.last.n, size - 1)
             nothing == \/ header.first.kind # "digits" \/ header.first.n >= size
                        \/ header.last.kind = "other" \/ last < header.first.n
  <2>1. Sent = IF nothing THEN {}
               ELSE {[offset |-> header.first.n, length |-> last - header.first.n + 1]}
    BY <1>4 DEF ParseByteRange, Single, FirstToLast
  <2>2. last \in 0 .. size - 1
    BY <1>1, <1>4 DEF Least
  <2>3. header.first.kind = "digits" /\ header.last.kind # "other" =>
            Positions(header, size) = {i \in 0 .. size - 1 : i >= header.first.n /\ i <= last}
    BY <1>1, <1>4 DEF Positions, Least
  <2>4. header.first.kind # "digits" \/ header.last.kind = "other" => Positions(header, size) = {}
    BY <1>1, <1>4 DEF Positions
  <2> HIDE DEF last
  <2>5. CASE nothing
    BY <1>1, <2>1, <2>2, <2>3, <2>4, <2>5
  <2>6. CASE ~ nothing
    <3>1. header.first.n + (last - header.first.n + 1) - 1 = last /\ last \in Int
          /\ header.first.n \in Nat
      BY <1>1, <2>2
    <3>2. Positions(header, size) = {i \in 0 .. size - 1 : i >= header.first.n /\ i <= last}
      BY <2>3, <2>6
    <3>3. header.first.n .. last = Positions(header, size)
      BY <2>2, <3>1, <3>2
    <3>4. \A sent \in Sent : /\ sent.offset = header.first.n
                             /\ sent.length = last - header.first.n + 1
      BY <2>1, <2>6
    <3>5. Sent # {}
      BY <2>1, <2>6
    <3> HIDE DEF Sent
    <3>6. \A sent \in Sent : sent.offset .. sent.offset + sent.length - 1 = Positions(header, size)
      BY <3>1, <3>3, <3>4
    <3> QED BY <1>4, <3>5, <3>6 DEF Sent
  <2> QED BY <2>5, <2>6
<1> QED BY <1>2, <1>3, <1>4 DEF Single

-----------------------------------------------------------------------------
(* The filter *)

Heads == {"chats", "files", "search", "resolve", "users", "contacts", "me", "health", "ready"}

\* What follows keeps the head of a pattern.
LEMMA LongerPattern ==
    ASSUME NEW S, NEW p \in Seq(S), Len(p) >= 2, NEW word \in S
    PROVE  /\ Append(p, word) \in Seq(S) /\ Len(Append(p, word)) = Len(p) + 1
           /\ Append(p, word)[1] = p[1] /\ Append(p, word)[2] = p[2]
  OBVIOUS

Words ==
    {"v1", "auth", "{chatId}", "{messageId}", "{fileId}", "{userId}", "messages", "read",
     "forward", "reactions", "join", "members", "phone", "qr", "code", "resend", "password",
     "session", "export", "state"} \cup Heads
HasHead(p, head) == p \in Seq(Words) /\ Len(p) >= 2 /\ p[1] = "v1" /\ p[2] = head

\* The second segment of the pattern of a route tells whether it is for the account.
LEMMA PatternHeads ==
    ASSUME NEW route \in DOMAIN Method
    PROVE  IF route \in Account THEN HasHead(Pattern[route], "auth") /\ Len(Pattern[route]) > 2
           ELSE \E head \in Heads : HasHead(Pattern[route], head)
<1> DEFINE chats == <<"v1", "chats">>
           ofChat == Append(chats, "{chatId}")
           messages == Append(ofChat, "messages")
           ofMessage == Append(messages, "{messageId}")
           auth(word) == <<"v1", "auth", word>>
<1>1. ASSUME NEW p, NEW head, HasHead(p, head), NEW word \in Words
      PROVE  HasHead(Append(p, word), head) /\ Len(Append(p, word)) > 2
  BY <1>1, LongerPattern DEF HasHead
<1>2. HasHead(chats, "chats")
  BY DEF Words, Heads, HasHead
<1>3. "{chatId}" \in Words /\ "messages" \in Words /\ "{messageId}" \in Words
  BY DEF Words
<1>4. HasHead(ofChat, "chats") /\ HasHead(messages, "chats") /\ HasHead(ofMessage, "chats")
  <2> HIDE DEF chats
  <2>1. HasHead(ofChat, "chats")
    BY <1>1, <1>2, <1>3
  <2> HIDE DEF ofChat
  <2>2. HasHead(messages, "chats")
    BY <1>1, <1>3, <2>1
  <2> HIDE DEF messages
  <2>3. HasHead(ofMessage, "chats")
    BY <1>1, <1>3, <2>2
  <2> QED BY <2>1, <2>2, <2>3
<1>5. ASSUME NEW word \in Words PROVE HasHead(auth(word), "auth") /\ Len(auth(word)) > 2
  <2>1. "v1" \in Words /\ "auth" \in Words
    BY DEF Words
  <2>2. auth(word) \in Seq(Words)
    BY <2>1
  <2> QED BY <2>2 DEF HasHead
<1>6. /\ Pattern["phone"] = auth("phone") /\ Pattern["qr"] = auth("qr")
      /\ Pattern["resend"] = Append(auth("code"), "resend")
      /\ Pattern["code"] = auth("code") /\ Pattern["password"] = auth("password")
      /\ Pattern["export"] = Append(auth("session"), "export")
      /\ Pattern["state"] = auth("state") /\ Pattern["session"] = auth("session")
  BY DEF Pattern
<1>7. /\ Pattern["history"] = messages /\ Pattern["read"] = Append(messages, "read")
      /\ Pattern["edit"] = ofMessage /\ Pattern["delete"] = messages
      /\ Pattern["forward"] = Append(messages, "forward")
      /\ Pattern["search"] = Append(ofChat, "search")
      /\ Pattern["react"] = Append(ofMessage, "reactions")
      /\ Pattern["unreact"] = Append(ofMessage, "reactions")
      /\ Pattern["chat"] = ofChat /\ Pattern["join"] = Append(chats, "join")
      /\ Pattern["members"] = Append(ofChat, "members")
  BY DEF Pattern
<1>8. /\ Pattern["file"] = <<"v1", "files", "{fileId}">>
      /\ Pattern["searchAll"] = <<"v1", "search">> /\ Pattern["resolve"] = <<"v1", "resolve">>
      /\ Pattern["user"] = <<"v1", "users", "{userId}">>
      /\ Pattern["contacts"] = <<"v1", "contacts">> /\ Pattern["me"] = <<"v1", "me">>
      /\ Pattern["health"] = <<"v1", "health">> /\ Pattern["ready"] = <<"v1", "ready">>
  BY DEF Pattern
<1>9. CASE route \in Account
  <2>1. {"phone", "qr", "resend", "code", "password", "export", "state", "session"} \subseteq Words
    BY DEF Words
  <2>2. \A word \in Words : HasHead(auth(word), "auth") /\ Len(auth(word)) > 2
    <3> HIDE DEF auth
    <3> QED BY <1>5
  <2> HIDE DEF auth
  <2>3. /\ HasHead(Pattern["resend"], "auth") /\ Len(Pattern["resend"]) > 2
        /\ HasHead(Pattern["export"], "auth") /\ Len(Pattern["export"]) > 2
    BY <1>1, <1>6, <2>1, <2>2
  <2> QED BY <1>6, <1>9, <2>1, <2>2, <2>3 DEF Account
<1>10. CASE route \in {"history", "read", "edit", "delete", "forward", "search", "react", "unreact",
                       "chat", "join", "members"}
  <2>1. {"read", "forward", "search", "reactions", "join", "members"} \subseteq Words
    BY DEF Words, Heads
  <2>2. "chats" \in Heads /\ route \notin Account
    BY <1>10 DEF Heads, Account
  <2> HIDE DEF chats, ofChat, messages, ofMessage
  <2> QED BY <1>1, <1>2, <1>4, <1>7, <1>10, <2>1, <2>2
<1>11. CASE route \in {"file", "searchAll", "resolve", "user", "contacts", "me", "health", "ready"}
  <2>1. \A first \in Heads : HasHead(<<"v1", first>>, first)
    <3>1. "v1" \in Words /\ Heads \subseteq Words
      BY DEF Words
    <3> QED BY <3>1 DEF HasHead
  <2>2. \A first \in Heads, second \in Words : HasHead(<<"v1", first, second>>, first)
    <3>1. "v1" \in Words /\ Heads \subseteq Words
      BY DEF Words
    <3> QED BY <3>1 DEF HasHead
  <2>3. {"files", "search", "resolve", "users", "contacts", "me", "health", "ready"} \subseteq Heads
    BY DEF Heads
  <2>4. {"{fileId}", "{userId}"} \subseteq Words /\ route \notin Account
    BY <1>11 DEF Words, Account
  <2> QED BY <1>8, <1>11, <2>1, <2>2, <2>3, <2>4
<1> QED BY <1>9, <1>10, <1>11 DEF Method, Account

\* The scope a path asks for is what its route needs, in whatever letters it is
\* written: scope_policy.hpp and the table of routes agree.
LEMMA ScopeOfRoute ==
    ASSUME NEW r \in Requested, r.route \notin OpenRoutes
    PROVE  RequiredScope(r.path, Method[r.route]) = Needed(r.route)
<1> DEFINE pattern == Pattern[r.route]
           params == {"{chatId}", "{messageId}", "{fileId}", "{userId}"}
<1>1. r.route \in DOMAIN Method /\ Matches(r.path, pattern)
  BY RequestsAssumption
<1> HIDE DEF pattern
<1>2. Len(r.path) = Len(pattern)
  BY <1>1 DEF Matches
<1>3. ASSUME NEW head, HasHead(pattern, head), head \notin params
      PROVE  Len(r.path) >= 2 /\ Lower(r.path[1]) = "v1" /\ Lower(r.path[2]) = head
  <2>1. 1 \in DOMAIN pattern /\ 2 \in DOMAIN pattern
    <3>1. pattern \in Seq(Words) /\ Len(pattern) >= 2
      BY <1>3, Zenon DEF HasHead
    <3> QED BY <3>1
  <2>2. Lower(r.path[1]) = pattern[1] /\ Lower(r.path[2]) = pattern[2]
    BY <1>1, <1>3, <2>1 DEF Matches, HasHead
  <2> QED BY <1>2, <1>3, <2>2 DEF HasHead
<1>4. \A word : Begins(r.path, <<"v1", word>>) <=>
          Len(r.path) >= 2 /\ Lower(r.path[1]) = "v1" /\ Lower(r.path[2]) = word
  BY DEF Begins
<1>5. CASE r.route \in Account
  <2>1. HasHead(pattern, "auth") /\ Len(pattern) > 2
    BY <1>1, <1>5, PatternHeads DEF pattern
  <2>2. IsAuthPath(r.path)
    BY <1>2, <1>3, <1>4, <2>1 DEF IsAuthPath
  <2> QED BY <1>5, <2>2 DEF RequiredScope, Needed
<1>6. CASE r.route \notin Account
  <2>1. PICK head \in Heads : HasHead(pattern, head)
    BY <1>1, <1>6, PatternHeads DEF pattern
  <2>2. Lower(r.path[2]) = head /\ head \notin {"auth", "webhooks"}
    BY <1>3, <2>1 DEF Heads
  <2>3. ~ IsAuthPath(r.path) /\ ~ IsWebhooksPath(r.path)
    BY <1>4, <2>2 DEF IsAuthPath, IsWebhooksPath
  <2>4. Method[r.route] \in {"GET", "HEAD"} <=> r.route \notin Changing
    BY <1>1, <1>6 DEF Method, Changing, Account
  <2> QED BY <1>6, <2>3, <2>4 DEF RequiredScope, Needed
<1> QED BY <1>5, <1>6

\* The header is that of a line of the token file that grants the scope.
Granting(header, scope) ==
    /\ header.scheme = "Bearer "
    /\ \E e \in entries : e.token = header.token /\ scope \in e.scopes

EntriesHaveTokens == \A e \in entries : e.token # ""

\* The filter lets through what is granted, and nothing else: a token that is not in
\* the store has no scopes, and the store has no token without letters.
LEMMA FilterGrants ==
    ASSUME NEW header, NEW path, NEW method, EntriesHaveTokens
    PROVE  /\ FilterStatus(entries, header, path, method) \in {0, 401, 403}
           /\ FilterStatus(entries, header, path, method) = 0 <=>
                  Granting(header, RequiredScope(path, method))
<1> DEFINE scope == RequiredScope(path, method)
<1> HIDE DEF scope
<1>1. FilterStatus(entries, header, path, method) =
          IF ~PresentsToken(header) \/ Hits(entries, header.token) = {} THEN 401
          ELSE IF scope \notin Granted(entries, header.token) THEN 403 ELSE 0
  BY DEF FilterStatus, scope
<1>2. scope \in Granted(entries, header.token) <=>
          \E e \in entries : e.token = header.token /\ scope \in e.scopes
  BY DEF Granted, Hits
<1>3. scope \in Granted(entries, header.token) =>
          Hits(entries, header.token) # {} /\ header.token # ""
  BY <1>2, Zenon DEF Hits, EntriesHaveTokens
<1>0. Granting(header, scope) <=> header.scheme = "Bearer " /\ scope \in Granted(entries, header.token)
  BY <1>2, Zenon DEF Granting
<1>4. 401 # 0 /\ 403 # 0
  OBVIOUS
<1>5. CASE ~PresentsToken(header) \/ Hits(entries, header.token) = {}
  <2>1. ~ Granting(header, scope)
    BY <1>0, <1>3, <1>5, Zenon DEF PresentsToken
  <2>2. FilterStatus(entries, header, path, method) = 401
    BY <1>1, <1>5
  <2> QED BY <1>4, <2>1, <2>2 DEF scope
<1>6. CASE /\ PresentsToken(header) /\ Hits(entries, header.token) # {}
           /\ scope \notin Granted(entries, header.token)
  <2>1. ~ Granting(header, scope)
    BY <1>0, <1>6, Zenon
  <2>2. FilterStatus(entries, header, path, method) = 403
    BY <1>1, <1>6
  <2> QED BY <1>4, <2>1, <2>2, Zenon DEF scope
<1>7. CASE /\ PresentsToken(header) /\ Hits(entries, header.token) # {}
           /\ scope \in Granted(entries, header.token)
  <2>1. Granting(header, scope)
    BY <1>0, <1>7, Zenon DEF PresentsToken
  <2>2. FilterStatus(entries, header, path, method) = 0
    BY <1>1, <1>7
  <2> QED BY <2>1, <2>2, Zenon DEF scope
<1> QED BY <1>5, <1>6, <1>7, Zenon

\* A handler refuses what it is asked, or calls TDLib; its refusals are its own.
Refusals(call) == call.fn = "" => call.code \in {200, 400, 404, 429, 503}

\* Whatever the request, its handler refuses it with one of these.
LEMMA HandlerRefuses == ASSUME NEW r PROVE Refusals(Handle(r))
<1>0. \A call : call.fn # "" => Refusals(call)
  BY Zenon DEF Refusals
<1>1. ASSUME NEW ok, NEW call, call.fn # "" PROVE Refusals(Valid(ok, call))
  <2>1. CASE ok
    <3>1. Valid(ok, call) = call
      BY <2>1, Zenon DEF Valid
    <3>2. Refusals(call)
      BY <1>0, <1>1, Zenon
    <3> QED BY <3>1, <3>2, Zenon
  <2>2. CASE ~ ok
    <3>1. Valid(ok, call) = Refuse(400)
      BY <2>2, Zenon DEF Valid
    <3>2. Refusals(Refuse(400))
      BY DEF Refuse, Refusals
    <3> QED BY <3>1, <3>2, Zenon
  <2> QED BY <2>1, <2>2
<1>2. Refusals(GetChatHistory(r))
  BY <1>1 DEF GetChatHistory
<1>3. Refusals(ViewMessages(r))
  BY <1>1 DEF ViewMessages
<1>4. Refusals(GetFile(r))
  BY <1>1 DEF GetFile
<1>5. Refusals(EditMessageText(r))
  BY <1>1 DEF EditMessageText
<1>6. Refusals(DeleteMessages(r))
  BY <1>1 DEF DeleteMessages
<1>7. Refusals(ForwardMessages(r))
  BY <1>1 DEF ForwardMessages
<1>8. Refusals(SearchChatMessages(r))
  BY <1>1 DEF SearchChatMessages
<1>9. Refusals(SearchMessages(r))
  BY <1>1 DEF SearchMessages
<1>10. Refusals(SearchPublicChat(r))
  BY <1>1 DEF SearchPublicChat
<1>11. Refusals(GetChat(r))
  BY <1>1 DEF GetChat
<1>12. Refusals(GetUser(r))
  BY <1>1 DEF GetUser
<1>13. Refusals(JoinChatByInviteLink(r))
  BY <1>1 DEF JoinChatByInviteLink
<1>14. Refusals(SearchChatMembers(r))
  <2> DEFINE limit == CASE r.limit.kind = "absent" -> 50
                        [] r.limit.n < 1 -> 1
                        [] r.limit.n > 200 -> 200
                        [] OTHER -> r.limit.n
  <2>1. SearchChatMembers(r) = Valid(IsId(r.chat),
            [fn |-> "searchChatMembers", chat |-> r.chat.n, limit |-> limit])
    BY Zenon DEF SearchChatMembers
  <2> HIDE DEF limit
  <2> QED BY <1>1, <2>1
<1>15. \A fn : fn # "" => Refusals(Reaction(fn, r)) /\ Refusals(WithField(fn, r))
  BY <1>1, Zenon DEF Reaction, WithField
<1>16. \A fn : fn # "" => Refusals(Secret(fn, r))
  <2>1. Refusals(Refuse(429))
    BY DEF Refuse, Refusals
  <2> QED BY <1>15, <2>1, Zenon DEF Secret
<1>17. Refusals(Local(r)) /\ \A fn : fn # "" => Refusals([fn |-> fn])
  <2>1. Refusals(Refuse(200)) /\ Refusals(Refuse(404)) /\ Refusals(Refuse(503))
    BY DEF Refuse, Refusals
  <2>2. Refusals(Local(r))
    <3>1. Local(r) = Refuse(200) \/ Local(r) = Refuse(404) \/ Local(r) = Refuse(503)
      <4>1. CASE r.route = "export"
        <5>1. Local(r) = Refuse(IF r.binlog THEN 200 ELSE 404)
          BY <4>1 DEF Local
        <5> QED BY <5>1, Zenon
      <4>2. CASE r.route = "ready"
        <5>1. Local(r) = Refuse(IF r.authState = "ready" THEN 200 ELSE 503)
          BY <4>2 DEF Local
        <5> QED BY <5>1, Zenon
      <4>3. CASE r.route \notin {"export", "ready"}
        BY <4>3 DEF Local
      <4> QED BY <4>1, <4>2, <4>3
    <3> QED BY <2>1, <3>1
  <2>3. \A fn : fn # "" => Refusals([fn |-> fn])
    <3> SUFFICES ASSUME NEW fn, fn # "" PROVE Refusals([fn |-> fn])
      BY Zenon
    <3>1. [fn |-> fn].fn = fn
      OBVIOUS
    <3> QED BY <1>0, <3>1, Zenon
  <2> QED BY <2>2, <2>3
<1> HIDE DEF Refusals
<1> QED BY <1>2, <1>3, <1>4, <1>5, <1>6, <1>7, <1>8, <1>9, <1>10, <1>11, <1>12, <1>13, <1>14,
    <1>15, <1>16, <1>17 DEF Handle

-----------------------------------------------------------------------------
(* One request *)

\* The verdict of the filter stays with the request: who is asking TDLib, or was
\* replied to by a handler, was let through.
IsGranted == Granting(request.header, Needed(request.route))
FilterState ==
    /\ EntriesHaveTokens /\ \A e \in entries : e.scopes \subseteq Scopes
    /\ step = "none" => request = NoReply
    /\ step # "none" => request \in Requested
    /\ request # NoReply /\ request.route \notin OpenRoutes =>
          /\ step = "asked" => IsGranted
          /\ step = "replied" => (reply.code \in {401, 403} <=> ~ IsGranted)

\* A call is asked before there is an answer, and a second only after getFile.
CallState ==
    /\ step \in {"none", "received", "asked", "replied"}
    /\ step = "none" \/ step = "received" => reply = NoReply /\ calls = <<>> /\ told = Nothing
    /\ step = "asked" =>
          /\ reply = NoReply /\ calls # <<>>
          /\ \/ \E a : calls = <<a>>
             \/ \E a, b : /\ calls \in Seq({a, b}) /\ Len(calls) = 2
                          /\ calls[2].fn = "downloadFile"
    /\ step = "replied" => reply.code # 0

RequestInv == FilterState /\ CallState /\ StatusTellsTheOutcome

\* What the reply says of an answer: no refusal of the filter, and the class of the
\* status is that of the answer.
LEMMA ReplyCodes ==
    ASSUME NEW route, NEW a \in Failures \cup {Nothing}
    PROVE  /\ Reply(route, a) \in {200, 202, 400, 404, 429, 502}
           /\ a.error /\ Reply(route, a) # 502 => Reply(route, a) \in {400, 404, 429}
           /\ Reply(route, a) = 502 => a.error /\ a.what.code \in {401, 504}
           /\ a.error /\ a.what.code = 400 => Reply(route, a) \in {400, 404}
<1>1. CASE a = Nothing
  <2>1. Reply(route, a) = Done(route)
    BY <1>1 DEF Reply, Nothing
  <2> QED BY <1>1, <2>1 DEF Done, Nothing
<1>2. CASE a \in Failures
  <2>1. PICK e \in Errors : a = [error |-> TRUE, what |-> e]
    BY <1>2 DEF Failures
  <2>2. Reply(route, a) = StatusOf(e) /\ a.what = e
    BY <2>1 DEF Reply
  <2>3. /\ e.code \in {400, 401, 429, 504}
        /\ e.code = 400 => StatusOf(e) = 400 \/ StatusOf(e) = 404
        /\ e.code = 429 => StatusOf(e) = 429
        /\ e.code \in {401, 504} => StatusOf(e) = 429 \/ StatusOf(e) = 502
    <3>1. e.code \in {400, 401, 429, 504}
      BY DEF Errors
    <3>2. CASE e.code = 400 /\ e.about = "not found"
      <4>1. StatusOf(e) = 404
        BY <3>2 DEF StatusOf
      <4>2. e.code = 400
        BY <3>2
      <4> QED BY <4>1, <4>2
    <3>3. CASE e.code = 400 /\ e.about # "not found"
      <4>1. StatusOf(e) = 400
        BY <3>3 DEF StatusOf
      <4>2. e.code = 400
        BY <3>3
      <4> QED BY <4>1, <4>2
    <3>4. CASE e.code # 400 /\ (e.code = 429 \/ e.about = "flood")
      BY <3>1, <3>4 DEF StatusOf
    <3>5. CASE e.code # 400 /\ ~ (e.code = 429 \/ e.about = "flood")
      <4>1. StatusOf(e) = 502
        BY <3>5 DEF StatusOf
      <4> QED BY <3>1, <3>5, <4>1
    <3> QED BY <3>2, <3>3, <3>4, <3>5
  <2>4. a.error
    BY <2>1
  <2>5. CASE e.code = 400
    <3>1. Reply(route, a) \in {400, 404}
      BY <2>2, <2>3, <2>5
    <3>2. a.what.code = 400
      BY <2>2, <2>5
    <3> QED BY <3>1, <3>2
  <2>6. CASE e.code = 429
    BY <2>2, <2>3, <2>4, <2>6
  <2>7. CASE e.code \in {401, 504}
    <3>1. Reply(route, a) \in {429, 502}
      BY <2>2, <2>3, <2>7
    <3>2. a.what.code \in {401, 504} /\ a.error
      BY <2>2, <2>4, <2>7
    <3> QED BY <3>1, <3>2
  <2> QED BY <2>3, <2>5, <2>6, <2>7
<1> QED BY <1>1, <1>2

\* A request begins with its invariant, or idles in it.
LEMMA RequestStarts == RequestInit \/ RequestIdle => RequestInv
<1> SUFFICES ASSUME RequestInit \/ RequestIdle PROVE RequestInv
  OBVIOUS
<1>1. /\ reply = NoReply /\ calls = <<>> /\ told = Nothing /\ step \in {"none", "received"}
      /\ step = "none" => request = NoReply
      /\ step # "none" => request \in Requested
  BY DEF RequestInit, RequestIdle
<1>2. ASSUME RequestInit PROVE EntriesHaveTokens /\ \A e \in entries : e.scopes \subseteq Scopes
  <2>1. PICK file \in TokenFiles : entries = Load(file)
    BY <1>2 DEF RequestInit
  <2> DEFINE Entry(line) == [token |-> line.token,
                             scopes |-> IF line.items = <<>> THEN Scopes
                                        ELSE ParseScopes(line.items)]
  <2>2. ASSUME NEW e \in entries PROVE e.token # "" /\ e.scopes \subseteq Scopes
    <3>1. PICK line \in ToSet(file) : line.token # "" /\ e = Entry(line)
      BY <2>1, Zenon DEF Load
    <3>2. e = Entry(line)
      BY <3>1, Zenon
    <3>3. e.token = line.token /\ e.scopes \subseteq Scopes
      BY <3>2 DEF ParseScopes
    <3> QED BY <3>1, <3>3, Zenon
  <2> QED BY <2>2, Zenon DEF EntriesHaveTokens
<1>3. ASSUME RequestIdle PROVE EntriesHaveTokens /\ \A e \in entries : e.scopes \subseteq Scopes
  <2>1. entries = {}
    BY <1>3 DEF RequestIdle
  <2> QED BY <2>1, Zenon DEF EntriesHaveTokens
<1> QED BY <1>1, <1>2, <1>3 DEF RequestInv, FilterState, CallState, StatusTellsTheOutcome

Verdict == IF Filtered(request.route)
           THEN FilterStatus(entries, request.header, request.path, Method[request.route])
           ELSE 0

\* What the filter says of a request is whether it is granted what its route needs.
LEMMA VerdictIsGrant ==
    ASSUME RequestInv, request \in Requested
    PROVE  /\ Verdict \in {0, 401, 403}
           /\ request.route \notin OpenRoutes => (Verdict = 0 <=> IsGranted)
           /\ request.route \in OpenRoutes => Verdict = 0
<1>1. CASE request.route \in OpenRoutes
  BY <1>1 DEF Verdict, Filtered
<1>2. CASE request.route \notin OpenRoutes
  <2> DEFINE status == FilterStatus(entries, request.header, request.path, Method[request.route])
             scope == RequiredScope(request.path, Method[request.route])
  <2>1. Verdict = status
    BY <1>2 DEF Verdict, Filtered
  <2>2. scope = Needed(request.route)
    BY <1>2, ScopeOfRoute
  <2>3. status \in {0, 401, 403} /\ (status = 0 <=> Granting(request.header, scope))
    BY FilterGrants DEF RequestInv, FilterState
  <2> HIDE DEF status, scope
  <2> QED BY <1>2, <2>1, <2>2, <2>3 DEF IsGranted
<1> QED BY <1>1, <1>2

\* The filter and the handler: a refusal without a call, or the call.
LEMMA ServeStep ==
    ASSUME RequestInv, Serve
    PROVE  RequestInv'
<1> DEFINE call == Handle(request)
           refusal == call.code \in {200, 400, 404, 429, 503}
           plain == call.fn = ""
<1>1. step = "received" /\ UNCHANGED <<entries, request, told>>
  BY Zenon DEF Serve
<1>2. \/ Verdict # 0 /\ ReplyWith(Code(Verdict)) /\ UNCHANGED calls
      \/ Verdict = 0 /\ plain /\ ReplyWith(Code(call.code)) /\ UNCHANGED calls
      \/ Verdict = 0 /\ calls' = <<call>> /\ step' = "asked" /\ UNCHANGED reply
  BY Zenon DEF Serve, Verdict
<1>3. plain => refusal
  <2>1. Refusals(call)
    BY HandlerRefuses, Zenon
  <2> HIDE DEF call
  <2> QED BY <2>1, Zenon DEF Refusals
<1> HIDE DEF call, refusal, plain
<1>4. \/ Verdict # 0 /\ ReplyWith(Code(Verdict)) /\ UNCHANGED calls
      \/ Verdict = 0 /\ refusal /\ ReplyWith(Code(call.code)) /\ UNCHANGED calls
      \/ Verdict = 0 /\ calls' = <<call>> /\ step' = "asked" /\ UNCHANGED reply
  BY <1>2, <1>3, Zenon
<1>5. request \in Requested /\ calls = <<>> /\ told = Nothing /\ reply = NoReply
  BY <1>1 DEF RequestInv, FilterState, CallState
<1>6. /\ Verdict \in {0, 401, 403}
      /\ request.route \notin OpenRoutes => (Verdict = 0 <=> IsGranted)
      /\ request.route \in OpenRoutes => Verdict = 0
  BY <1>5, VerdictIsGrant
<1>7. IsGranted' = IsGranted /\ EntriesHaveTokens' = EntriesHaveTokens
  BY <1>1 DEF IsGranted, Granting, EntriesHaveTokens
<1>8. ASSUME step' = "replied" PROVE told' = Nothing /\ calls' = <<>>
  BY <1>1, <1>4, <1>5, <1>8
<1>9. CASE Verdict # 0 /\ ReplyWith(Code(Verdict)) /\ UNCHANGED calls
  <2>1. step' = "replied" /\ reply'.code = Verdict
    BY <1>9 DEF ReplyWith, Code
  <2>2. FilterState'
    BY <1>1, <1>5, <1>6, <1>7, <1>9, <2>1 DEF RequestInv, FilterState
  <2> QED BY <1>6, <1>8, <1>9, <2>1, <2>2 DEF RequestInv, CallState, StatusTellsTheOutcome, Nothing
<1>10. CASE Verdict = 0 /\ refusal /\ ReplyWith(Code(call.code)) /\ UNCHANGED calls
  <2>1. step' = "replied" /\ reply'.code = call.code
    BY <1>10 DEF ReplyWith, Code
  <2>2. FilterState'
    BY <1>1, <1>5, <1>6, <1>7, <1>10, <2>1 DEF RequestInv, FilterState, refusal
  <2> QED BY <1>8, <1>10, <2>1, <2>2
         DEF RequestInv, CallState, StatusTellsTheOutcome, Nothing, refusal
<1>11. CASE Verdict = 0 /\ calls' = <<call>> /\ step' = "asked" /\ UNCHANGED reply
  <2>1. FilterState'
    BY <1>1, <1>5, <1>6, <1>7, <1>11 DEF RequestInv, FilterState
  <2> QED BY <1>5, <1>11, <2>1 DEF RequestInv, CallState, StatusTellsTheOutcome
<1> QED BY <1>4, <1>9, <1>10, <1>11

\* No answer of TDLib becomes a refusal of the filter.
LEMMA AnswerPassesFilter ==
    ASSUME RequestInv, step = "asked", UNCHANGED <<entries, request>>, step' = "replied",
           reply'.code \in {200, 202, 206, 400, 404, 416, 429, 502}
    PROVE  FilterState' /\ (step' = "replied" => reply'.code # 0)
<1>1. IsGranted' = IsGranted /\ EntriesHaveTokens' = EntriesHaveTokens
  BY DEF IsGranted, Granting, EntriesHaveTokens
<1>2. reply'.code \notin {401, 403} /\ reply'.code # 0
  OBVIOUS
<1> QED BY <1>1, <1>2 DEF RequestInv, FilterState

\* The answer to the only call of a handler keeps the invariant.
LEMMA AnswerStep ==
    ASSUME RequestInv, Answer
    PROVE  RequestInv'
<1>1. /\ step = "asked" /\ UNCHANGED <<entries, request, calls>> /\ step' = "replied"
      /\ \E a \in Failures \cup {Nothing} : told' = a /\ reply' = Code(Reply(request.route, a))
  BY DEF Answer, ReplyWith
<1>2. PICK a \in Failures \cup {Nothing} : told' = a /\ reply' = Code(Reply(request.route, a))
  BY <1>1
<1> DEFINE code == Reply(request.route, a)
<1>3. /\ code \in {200, 202, 400, 404, 429, 502}
      /\ a.error /\ code # 502 => code \in {400, 404, 429}
      /\ code = 502 => a.error /\ a.what.code \in {401, 504}
      /\ a.error /\ a.what.code = 400 => code \in {400, 404}
  BY ReplyCodes
<1>4. reply'.code = code
  BY <1>2 DEF Code
<1> HIDE DEF code
<1>5. calls' # <<>>
  BY <1>1 DEF RequestInv, CallState
<1>6. StatusTellsTheOutcome'
  BY <1>2, <1>3, <1>4, <1>5 DEF StatusTellsTheOutcome
<1>7. FilterState' /\ reply'.code # 0
  BY <1>1, <1>3, <1>4, AnswerPassesFilter
<1> QED BY <1>1, <1>6, <1>7 DEF RequestInv, CallState

\* What getFile answers becomes a reply, or the call of downloadFile.
LEMMA FileAnswerStep ==
    ASSUME RequestInv, FileAnswer
    PROVE  RequestInv'
<1>1. /\ step = "asked" /\ Last(calls).fn = "getFile" /\ UNCHANGED <<entries, request>>
      /\ \/ /\ \E a \in Failures : told' = a /\ ReplyWith(Code(Reply("file", a)))
            /\ UNCHANGED calls
         \/ /\ \E size \in 0 .. MaxFileSize :
                  told' = [error |-> FALSE, size |-> size] /\ ReplyWith(SendFile(size))
            /\ UNCHANGED calls
         \/ told' = [error |-> FALSE, size |-> 0] /\ ReplyWith(Code(416)) /\ UNCHANGED calls
         \/ /\ calls' = Append(calls, [fn |-> "downloadFile", file |-> calls[1].file])
            /\ UNCHANGED <<step, reply>>
  BY DEF FileAnswer
<1>2. PICK call : calls = <<call>>
  <2>1. ASSUME NEW a, NEW b, calls \in Seq({a, b}), Len(calls) = 2 PROVE Last(calls) = calls[2]
    BY <2>1 DEF Last
  <2> QED BY <1>1, <2>1 DEF RequestInv, CallState
<1>3. CASE (\E a \in Failures : told' = a /\ ReplyWith(Code(Reply("file", a)))) /\ UNCHANGED calls
  <2>1. PICK a \in Failures : told' = a /\ ReplyWith(Code(Reply("file", a)))
    BY <1>3
  <2> DEFINE code == Reply("file", a)
  <2>2. /\ code \in {200, 202, 400, 404, 429, 502}
        /\ a.error /\ code # 502 => code \in {400, 404, 429}
        /\ code = 502 => a.error /\ a.what.code \in {401, 504}
        /\ a.error /\ a.what.code = 400 => code \in {400, 404}
    BY ReplyCodes
  <2>3. reply'.code = code /\ step' = "replied"
    BY <2>1 DEF Code, ReplyWith
  <2> HIDE DEF code
  <2>4. StatusTellsTheOutcome'
    BY <1>2, <1>3, <2>1, <2>2, <2>3 DEF StatusTellsTheOutcome
  <2>5. FilterState' /\ reply'.code # 0
    BY <1>1, <2>2, <2>3, AnswerPassesFilter
  <2> QED BY <2>3, <2>4, <2>5 DEF RequestInv, CallState
<1>4. ASSUME NEW size, told' = [error |-> FALSE, size |-> size], UNCHANGED calls,
             step' = "replied", reply'.code \in {200, 206, 416}
      PROVE  RequestInv'
  <2>1. FilterState' /\ reply'.code # 0
    BY <1>1, <1>4, AnswerPassesFilter
  <2>2. StatusTellsTheOutcome'
    BY <1>2, <1>4 DEF StatusTellsTheOutcome
  <2> QED BY <1>4, <2>1, <2>2 DEF RequestInv, CallState
<1>5. CASE (\E size \in 0 .. MaxFileSize : /\ told' = [error |-> FALSE, size |-> size]
                                           /\ ReplyWith(SendFile(size))) /\ UNCHANGED calls
  <2>1. PICK size \in 0 .. MaxFileSize : /\ told' = [error |-> FALSE, size |-> size]
                                         /\ ReplyWith(SendFile(size))
    BY <1>5
  <2>2. SendFile(size).code \in {200, 206, 416}
    BY DEF SendFile
  <2> QED BY <1>4, <1>5, <2>1, <2>2 DEF ReplyWith
<1>6. CASE told' = [error |-> FALSE, size |-> 0] /\ ReplyWith(Code(416)) /\ UNCHANGED calls
  <2>1. step' = "replied" /\ reply'.code = 416
    BY <1>6 DEF ReplyWith, Code
  <2> QED BY <1>4, <1>6, <2>1
<1>7. CASE /\ calls' = Append(calls, [fn |-> "downloadFile", file |-> calls[1].file])
           /\ UNCHANGED <<step, reply>>
  <2> DEFINE second == [fn |-> "downloadFile", file |-> calls[1].file]
  <2>1. second.fn = "downloadFile"
    OBVIOUS
  <2> HIDE DEF second
  <2>2. calls' \in Seq({call, second}) /\ Len(calls') = 2 /\ calls'[2] = second
    <3>1. calls' = Append(calls, second)
      BY <1>7 DEF second
    <3>2. calls \in Seq({call, second}) /\ Len(calls) = 1
      BY <1>2
    <3>3. \A S : \A s \in Seq(S), e \in S :
              /\ Append(s, e) \in Seq(S) /\ Len(Append(s, e)) = Len(s) + 1
              /\ Append(s, e)[Len(s) + 1] = e
      OBVIOUS
    <3>4. /\ calls' \in Seq({call, second}) /\ Len(calls') = Len(calls) + 1
          /\ calls'[Len(calls) + 1] = second
      <4>1. second \in {call, second}
        OBVIOUS
      <4> QED BY <3>1, <3>2, <3>3, <4>1, Zenon
    <3> QED BY <3>2, <3>4
  <2>3. calls' # <<>>
    BY <2>2
  <2>4. CallState'
    BY <1>1, <1>7, <2>1, <2>2, <2>3 DEF RequestInv, CallState
  <2>5. FilterState'
    <3>1. IsGranted' = IsGranted /\ EntriesHaveTokens' = EntriesHaveTokens
      BY <1>1 DEF IsGranted, Granting, EntriesHaveTokens
    <3> QED BY <1>1, <1>7, <3>1 DEF RequestInv, FilterState
  <2> QED BY <1>1, <1>7, <2>4, <2>5 DEF RequestInv, StatusTellsTheOutcome
<1> QED BY <1>1, <1>3, <1>5, <1>6, <1>7

\* Whatever becomes of the download, the client is told to come again.
LEMMA DownloadAnswerStep ==
    ASSUME RequestInv, DownloadAnswer
    PROVE  RequestInv'
<1>1. /\ step = "asked" /\ Last(calls).fn = "downloadFile" /\ step' = "replied"
      /\ UNCHANGED <<entries, request, calls>> /\ reply'.code = 202
  BY DEF DownloadAnswer, ReplyWith, Code
<1>2. FilterState' /\ reply'.code # 0
  BY <1>1, AnswerPassesFilter
<1>3. calls # <<>>
  BY <1>1 DEF RequestInv, CallState
<1>4. StatusTellsTheOutcome'
  BY <1>1, <1>3 DEF StatusTellsTheOutcome
<1> QED BY <1>1, <1>2, <1>4 DEF RequestInv, CallState

\* Every step of a request keeps the invariant.
LEMMA RequestStep == RequestInv /\ [RequestNext]_requestVars => RequestInv'
<1> SUFFICES ASSUME RequestInv, [RequestNext]_requestVars PROVE RequestInv'
  OBVIOUS
<1>1. CASE UNCHANGED requestVars
  <2>1. IsGranted' = IsGranted /\ EntriesHaveTokens' = EntriesHaveTokens
    BY <1>1 DEF requestVars, IsGranted, Granting, EntriesHaveTokens
  <2>2. FilterState'
    BY <1>1, <2>1 DEF requestVars, RequestInv, FilterState
  <2>3. CallState'
    <3>1. step' = step /\ reply' = reply /\ calls' = calls /\ told' = told
      BY <1>1 DEF requestVars
    <3> QED BY <3>1, Zenon DEF RequestInv, CallState, NoReply, Nothing
  <2>4. StatusTellsTheOutcome'
    BY <1>1 DEF requestVars, RequestInv, StatusTellsTheOutcome
  <2> QED BY <2>2, <2>3, <2>4 DEF RequestInv
<1> QED BY <1>1, ServeStep, AnswerStep, FileAnswerStep, DownloadAnswerStep DEF RequestNext

\* The invariant holds of every behaviour.
LEMMA RequestInvHolds == Spec => []RequestInv
<1>1. Init => RequestInv
  BY RequestStarts DEF Init
<1>2. RequestInv /\ [Next]_vars => RequestInv'
  BY RequestSteps, RequestStep
<1> QED BY <1>1, <1>2, PTL DEF Spec

\* Whatever lines the token file has, whatever header and letters of the path a
\* request comes with: it goes past the filter exactly when a line with its token
\* grants what its route is for (BearerAuthFilter, requiredScopeFor(), TokenStore).
THEOREM OnlyTheScopedAreServed == Spec => []ServedIffScoped
<1>1. RequestInv => ServedIffScoped
  <2> SUFFICES ASSUME RequestInv, request # NoReply, request.route \notin {"health", "ready"}
               PROVE  /\ step = "asked" => IsGranted
                      /\ step = "replied" => (reply.code \in {401, 403} <=> ~ IsGranted)
    BY DEF ServedIffScoped, IsGranted, Granting
  <2> QED BY DEF RequestInv, FilterState, OpenRoutes
<1> QED BY <1>1, RequestInvHolds, PTL

\* The status of a reply says what became of the request, whichever the route and
\* whatever TDLib answers (httpStatusForTdError(), launchInvoke()).
THEOREM StatusesTellTheOutcome == Spec => []StatusTellsTheOutcome
  BY RequestInvHolds, PTL DEF RequestInv

-----------------------------------------------------------------------------
(* What TDLib is asked about *)

\* Every set of numbers that is not empty has a least one: induction over a sequence
\* is an argument about the least position at which a statement fails.
LEMMA LeastNatural ==
    ASSUME NEW T, T \subseteq Nat, T # {}
    PROVE  \E n \in T : \A m \in T : n <= m
<1> DEFINE R == OpToRel(<, Nat)
<1>1. IsWellFoundedOn(R, Nat)
  BY NatLessThanWellFounded
<1>2. \A x, y \in Nat : x < y => <<x, y>> \in R
  BY DEF OpToRel
<1> HIDE DEF R
<1>3. \A A, B : IsWellFoundedOn(A, B) =>
         \A C : C \subseteq B /\ C # {} => \E x \in C : \A y \in C : <<y, x>> \notin A
  BY WFMin
<1>4. PICK x \in T : \A y \in T : <<y, x>> \notin R
  BY <1>1, <1>3, Zenon
<1>5. \A y \in T : x <= y
  <2> SUFFICES ASSUME NEW y \in T PROVE ~ (y < x)
    OBVIOUS
  <2>1. x \in Nat /\ y \in Nat
    OBVIOUS
  <2>2. <<y, x>> \notin R
    BY <1>4
  <2> QED BY <1>2, <2>1, <2>2
<1> QED BY <1>5

\* What the loop over the ids of a request has kept after i of them.
KeptBy(f, texts, n) ==
    f = [i \in 0 .. n |-> IF i = 0 THEN <<>>
                          ELSE IF IsId(texts[i]) THEN Append(f[i - 1], texts[i].n)
                          ELSE f[i - 1]]

\* The loop comes to its end, however long the list is.
LEMMA LoopRuns ==
    ASSUME NEW texts, NEW N \in Nat
    PROVE  \E f : KeptBy(f, texts, N)
<1> DEFINE Bad == {n \in Nat : ~ \E f : KeptBy(f, texts, n)}
<1> SUFFICES ASSUME Bad # {} PROVE FALSE
  OBVIOUS
<1>1. PICK n \in Bad : \A m \in Bad : n <= m
  BY LeastNatural
<1>2. n \in Nat /\ ~ \E f : KeptBy(f, texts, n)
  OBVIOUS
<1>3. CASE n = 0
  <2> DEFINE g == [i \in 0 .. 0 |-> <<>>]
  <2>1. KeptBy(g, texts, 0)
    BY DEF KeptBy
  <2> QED BY <1>2, <1>3, <2>1
<1>4. CASE n # 0
  <2>1. n - 1 \in Nat /\ n - 1 \notin Bad
    BY <1>1, <1>2, <1>4
  <2>2. PICK f : KeptBy(f, texts, n - 1)
    BY <2>1
  <2> DEFINE last == IF IsId(texts[n]) THEN Append(f[n - 1], texts[n].n) ELSE f[n - 1]
             g == [i \in 0 .. n |-> IF i = n THEN last ELSE f[i]]
  <2>3. \A i \in 0 .. n - 1 : f[i] = IF i = 0 THEN <<>>
                                     ELSE IF IsId(texts[i]) THEN Append(f[i - 1], texts[i].n)
                                     ELSE f[i - 1]
    BY <2>2 DEF KeptBy
  <2> HIDE DEF last
  <2>4. \A i \in 0 .. n - 1 : g[i] = f[i]
    BY <1>2
  <2>5. g[n] = last
    BY <1>2
  <2>6. DOMAIN g = 0 .. n /\ g = [i \in 0 .. n |-> g[i]]
    OBVIOUS
  <2> HIDE DEF g
  <2>7. \A i \in 0 .. n : g[i] = IF i = 0 THEN <<>>
                                 ELSE IF IsId(texts[i]) THEN Append(g[i - 1], texts[i].n)
                                 ELSE g[i - 1]
    <3> SUFFICES ASSUME NEW i \in 0 .. n
                 PROVE  g[i] = IF i = 0 THEN <<>>
                               ELSE IF IsId(texts[i]) THEN Append(g[i - 1], texts[i].n)
                               ELSE g[i - 1]
      OBVIOUS
    <3>1. CASE i = n
      <4>1. g[n - 1] = f[n - 1]
        BY <1>2, <1>4, <2>4
      <4> QED BY <1>2, <1>4, <2>5, <3>1, <4>1 DEF last
    <3>2. CASE i # n /\ i # 0
      <4>1. g[i] = f[i] /\ g[i - 1] = f[i - 1] /\ i \in 0 .. n - 1
        BY <1>2, <2>4, <3>2
      <4> QED BY <2>3, <3>2, <4>1
    <3>3. CASE i # n /\ i = 0
      <4>1. g[i] = f[i] /\ i \in 0 .. n - 1
        BY <1>2, <2>4, <3>3
      <4> QED BY <2>3, <3>3, <4>1
    <3> QED BY <3>1, <3>2, <3>3
  <2>8. KeptBy(g, texts, n)
    BY <2>6, <2>7 DEF KeptBy
  <2> QED BY <1>2, <2>8
<1> QED BY <1>3, <1>4

\* It has kept the ids of the list that parse, and nothing else.
LEMMA ParsedIdsAre ==
    ASSUME NEW texts \in Seq(Numerals)
    PROVE  ToSet(ParsedIds(texts)) = {t.n : t \in {x \in ToSet(texts) : IsId(x)}}
<1> DEFINE N == Len(texts)
           f == CHOOSE g : KeptBy(g, texts, N)
           Ids(i) == {texts[j].n : j \in {k \in 1 .. i : IsId(texts[k])}}
           Good(i) == f[i] \in Seq(Int) /\ ToSet(f[i]) = Ids(i)
           Bad == {i \in 0 .. N : ~ Good(i)}
<1>1. ParsedIds(texts) = f[N]
  BY DEF ParsedIds, KeptBy
<1>2. N \in Nat /\ \A i \in 1 .. N : texts[i].n \in Int
  <2>1. \A i \in 1 .. N : texts[i] \in Numerals
    OBVIOUS
  <2> QED BY <2>1 DEF Numerals
<1>3. KeptBy(f, texts, N)
  BY <1>2, LoopRuns
<1> HIDE DEF f
<1>4. \A i \in 0 .. N : f[i] = IF i = 0 THEN <<>>
                               ELSE IF IsId(texts[i]) THEN Append(f[i - 1], texts[i].n)
                               ELSE f[i - 1]
  BY <1>3 DEF KeptBy
<1>5. ToSet(f[N]) = {t.n : t \in {x \in ToSet(texts) : IsId(x)}} <=> ToSet(f[N]) = Ids(N)
  <2>1. DOMAIN texts = 1 .. N
    OBVIOUS
  <2> HIDE DEF N
  <2>2. \A t : t \in {x \in ToSet(texts) : IsId(x)} <=>
               \E j \in {k \in 1 .. N : IsId(texts[k])} : t = texts[j]
    BY <2>1 DEF ToSet
  <2>3. {t.n : t \in {x \in ToSet(texts) : IsId(x)}} = Ids(N)
    BY <2>2
  <2> QED BY <2>3
<1> HIDE DEF N
<1>6. Good(0)
  <2>1. f[0] = <<>>
    BY <1>2, <1>4
  <2>2. Ids(0) = {}
    OBVIOUS
  <2>3. <<>> \in Seq(Int) /\ ToSet(<<>>) = {}
    BY DEF ToSet
  <2> HIDE DEF Ids
  <2> QED BY <2>1, <2>2, <2>3
<1>7. ASSUME NEW i \in 1 .. N, Good(i - 1) PROVE Good(i)
  <2>1. CASE IsId(texts[i])
    <3>1. f[i] = Append(f[i - 1], texts[i].n)
      <4>1. i \in 0 .. N /\ i # 0
        BY <1>2
      <4>2. f[i] = IF IsId(texts[i]) THEN Append(f[i - 1], texts[i].n) ELSE f[i - 1]
        BY <1>4, <4>1
      <4> QED BY <2>1, <4>2
    <3>2. ASSUME NEW s \in Seq(Int), NEW e \in Int
          PROVE  Append(s, e) \in Seq(Int) /\ ToSet(Append(s, e)) = ToSet(s) \cup {e}
      <4>1. /\ Append(s, e) \in Seq(Int) /\ DOMAIN Append(s, e) = 1 .. Len(s) + 1
            /\ \A j \in 1 .. Len(s) : Append(s, e)[j] = s[j]
            /\ Append(s, e)[Len(s) + 1] = e
            /\ DOMAIN s = 1 .. Len(s) /\ Len(s) \in Nat
        OBVIOUS
      <4> DEFINE t == Append(s, e)
      <4> HIDE DEF t
      <4>2. {t[j] : j \in 1 .. Len(s) + 1} = {t[j] : j \in 1 .. Len(s)} \cup {t[Len(s) + 1]}
        BY <4>1
      <4>3. {t[j] : j \in 1 .. Len(s)} = {s[j] : j \in 1 .. Len(s)}
        BY <4>1 DEF t
      <4> QED BY <4>1, <4>2, <4>3 DEF ToSet, t
    <3>3. f[i] \in Seq(Int) /\ ToSet(f[i]) = Ids(i - 1) \cup {texts[i].n}
      <4> HIDE DEF Ids
      <4> QED BY <1>2, <1>7, <3>1, <3>2
    <3>4. Ids(i) = Ids(i - 1) \cup {texts[i].n}
      BY <1>2, <2>1
    <3> QED BY <3>3, <3>4
  <2>2. CASE ~ IsId(texts[i])
    <3>1. f[i] = f[i - 1]
      BY <1>2, <1>4, <2>2
    <3>2. Ids(i) = Ids(i - 1)
      BY <1>2, <2>2
    <3> QED BY <1>7, <3>1, <3>2
  <2> QED BY <2>1, <2>2
<1> HIDE DEF Good
<1>8. Bad = {}
  <2> SUFFICES ASSUME Bad # {} PROVE FALSE
    OBVIOUS
  <2>1. PICK i \in Bad : \A m \in Bad : i <= m
    <3>1. Bad \subseteq Nat
      BY <1>2
    <3> HIDE DEF Bad
    <3> QED BY <3>1, LeastNatural
  <2>2. i \in 1 .. N /\ i - 1 \in 0 .. N
    BY <1>2, <1>6
  <2>3. Good(i - 1)
    BY <1>2, <2>1, <2>2
  <2> QED BY <1>7, <2>2, <2>3
<1>9. Good(N)
  BY <1>2, <1>8
<1> QED BY <1>1, <1>5, <1>9 DEF Good

\* The call is about the chat, the message and the rest that the request names.
Named(r, call) ==
    /\ "chat" \in DOMAIN call => IsId(r.chat) /\ call.chat = r.chat.n
    /\ "message" \in DOMAIN call => IsId(r.message) /\ call.message = r.message.n
    /\ "user" \in DOMAIN call => IsId(r.user) /\ call.user = r.user.n
    /\ "file" \in DOMAIN call => IsId(r.file) /\ call.file = r.file.n
    /\ "fromChat" \in DOMAIN call => IsId(r.fromChat) /\ call.fromChat = r.fromChat.n
    /\ "ids" \in DOMAIN call =>
          /\ ToSet(call.ids) = {t.n : t \in {x \in ToSet(r.ids) : IsId(x)}}
          /\ r.route # "read" => Len(call.ids) = Len(r.ids)
    /\ "limit" \in DOMAIN call => call.limit > 0
    /\ call.fn = "getFile" => "file" \in DOMAIN call
NamesOwn(r, call) == call.fn # "" => Named(r, call)

\* A handler that refuses asks about nothing.
LEMMA RefusalNames == ASSUME NEW r, NEW code PROVE NamesOwn(r, Refuse(code))
<1>1. \A fn, c : [fn |-> fn, code |-> c].fn = fn
  OBVIOUS
<1> QED BY <1>1, Zenon DEF Refuse, NamesOwn

\* A handler that asks has found its request valid.
LEMMA ValidNames ==
    ASSUME NEW r, NEW ok, NEW call, ok => Named(r, call)
    PROVE  NamesOwn(r, Valid(ok, call))
<1>1. CASE ok
  BY <1>1, Zenon DEF Valid, NamesOwn
<1>2. CASE ~ ok
  BY <1>2, RefusalNames, Zenon DEF Valid
<1> QED BY <1>1, <1>2

\* A file id that fits is not changed by the cast.
LEMMA NarrowKeeps ==
    ASSUME NEW n \in Int, n >= 1, n <= MaxFileId PROVE Narrow(n) = n
<1> USE RoutesAssumption DEF RoutesAssumption
<1>1. \A a, b \in Nat : a < b => a % b = a
  OBVIOUS
<1>2. n + MaxFileId + 1 \in Nat /\ 2 * (MaxFileId + 1) \in Nat
  OBVIOUS
<1>3. n + MaxFileId + 1 < 2 * (MaxFileId + 1)
  OBVIOUS
<1>4. (n + MaxFileId + 1) % (2 * (MaxFileId + 1)) = n + MaxFileId + 1
  BY <1>1, <1>2, <1>3
<1> QED BY <1>4 DEF Narrow

\* A list that is all ids is the list of the numbers of its ids.
LEMMA AllIdsNamed ==
    ASSUME NEW texts \in Seq(Numerals), AllIds(texts)
    PROVE  /\ ToSet(IdsOf(texts)) = {t.n : t \in {x \in ToSet(texts) : IsId(x)}}
           /\ Len(IdsOf(texts)) = Len(texts)
  BY DEF AllIds, IdsOf, ToSet

\* queryInt() never gives a limit of zero, whatever the query says.
LEMMA QueryIntPositive ==
    ASSUME NEW text \in Numerals, NEW default \in Nat, NEW max \in Nat, default > 0, max > 0
    PROVE  QueryInt(text, default, max) > 0
  BY DEF QueryInt, Numerals

\* Every handler acts on what its request names, as it was written.
LEMMA HandlerNames ==
    ASSUME NEW r \in Requested PROVE NamesOwn(r, Handle(r))
<1>1. {r.chat, r.message, r.user, r.file, r.fromChat, r.limit} \subseteq Numerals
      /\ r.ids \in Seq(Numerals)
  BY RequestsAssumption
<1>2. QueryInt(r.limit, 30, 100) > 0 /\ QueryInt(r.limit, 20, 100) > 0
  BY <1>1, QueryIntPositive
<1>3. NamesOwn(r, GetChatHistory(r))
  <2> DEFINE call == [fn |-> "getChatHistory", chat |-> r.chat.n, from |-> r.from.n,
                       limit |-> QueryInt(r.limit, 30, 100)]
  <2>1. ASSUME IsId(r.chat) PROVE Named(r, call)
    BY <1>2, <2>1 DEF Named
  <2> HIDE DEF call
  <2> QED BY <2>1, ValidNames, Zenon DEF GetChatHistory, call
<1>4. NamesOwn(r, GetFile(r))
  <2> DEFINE call == [fn |-> "getFile", file |-> Narrow(r.file.n)]
  <2>1. ASSUME IsId(r.file), r.file.n >= 1, r.file.n <= MaxFileId PROVE Named(r, call)
    <3>1. r.file.n \in Int
      BY <1>1 DEF Numerals
    <3>2. Narrow(r.file.n) = r.file.n
      BY <2>1, <3>1, NarrowKeeps
    <3> QED BY <2>1, <3>2 DEF Named
  <2> HIDE DEF call
  <2> QED BY <2>1, ValidNames, Zenon DEF GetFile, call
<1>5. NamesOwn(r, EditMessageText(r))
  <2> DEFINE call == [fn |-> "editMessageText", chat |-> r.chat.n, message |-> r.message.n,
                       text |-> r.text]
  <2>1. ASSUME IsId(r.chat), IsId(r.message) PROVE Named(r, call)
    BY <2>1 DEF Named
  <2> HIDE DEF call
  <2> QED BY <2>1, ValidNames, Zenon DEF EditMessageText, call
<1>6. NamesOwn(r, DeleteMessages(r))
  <2> DEFINE call == [fn |-> "deleteMessages", chat |-> r.chat.n, revoke |-> r.revoke # "false",
                       ids |-> IdsOf(r.ids)]
  <2>1. ASSUME IsId(r.chat), AllIds(r.ids) PROVE Named(r, call)
    <3>1. /\ ToSet(IdsOf(r.ids)) = {t.n : t \in {x \in ToSet(r.ids) : IsId(x)}}
          /\ Len(IdsOf(r.ids)) = Len(r.ids)
      BY <1>1, <2>1, AllIdsNamed
    <3> QED BY <2>1, <3>1 DEF Named
  <2> HIDE DEF call
  <2> QED BY <2>1, ValidNames, Zenon DEF DeleteMessages, call
<1>7. NamesOwn(r, ForwardMessages(r))
  <2> DEFINE call == [fn |-> "forwardMessages", chat |-> r.chat.n, fromChat |-> r.fromChat.n,
                       ids |-> IdsOf(r.ids)]
  <2>1. ASSUME IsId(r.chat), IsId(r.fromChat), AllIds(r.ids) PROVE Named(r, call)
    <3>1. /\ ToSet(IdsOf(r.ids)) = {t.n : t \in {x \in ToSet(r.ids) : IsId(x)}}
          /\ Len(IdsOf(r.ids)) = Len(r.ids)
      BY <1>1, <2>1, AllIdsNamed
    <3> QED BY <2>1, <3>1 DEF Named
  <2> HIDE DEF call
  <2> QED BY <2>1, ValidNames, Zenon DEF ForwardMessages, call
<1>8. NamesOwn(r, SearchChatMessages(r))
  <2> DEFINE call == [fn |-> "searchChatMessages", chat |-> r.chat.n, text |-> r.text,
                       from |-> r.from.n, limit |-> QueryInt(r.limit, 20, 100)]
  <2>1. ASSUME IsId(r.chat) PROVE Named(r, call)
    BY <1>2, <2>1 DEF Named
  <2> HIDE DEF call
  <2> QED BY <2>1, ValidNames, Zenon DEF SearchChatMessages, call
<1>9. NamesOwn(r, SearchMessages(r))
  <2> DEFINE call == [fn |-> "searchMessages", text |-> r.text,
                       limit |-> QueryInt(r.limit, 20, 100)]
  <2>1. Named(r, call)
    BY <1>2 DEF Named
  <2> HIDE DEF call
  <2> QED BY <2>1, ValidNames, Zenon DEF SearchMessages, call
<1>10. NamesOwn(r, SearchPublicChat(r))
  <2> DEFINE call == [fn |-> "searchPublicChat", text |-> r.text]
  <2>1. Named(r, call)
    BY DEF Named
  <2> HIDE DEF call
  <2> QED BY <2>1, ValidNames, Zenon DEF SearchPublicChat, call
<1>11. NamesOwn(r, GetChat(r))
  <2> DEFINE call == [fn |-> "getChat", chat |-> r.chat.n]
  <2>1. ASSUME IsId(r.chat) PROVE Named(r, call)
    BY <2>1 DEF Named
  <2> HIDE DEF call
  <2> QED BY <2>1, ValidNames, Zenon DEF GetChat, call
<1>12. NamesOwn(r, GetUser(r))
  <2> DEFINE call == [fn |-> "getUser", user |-> r.user.n]
  <2>1. ASSUME IsId(r.user) PROVE Named(r, call)
    BY <2>1 DEF Named
  <2> HIDE DEF call
  <2> QED BY <2>1, ValidNames, Zenon DEF GetUser, call
<1>13. NamesOwn(r, JoinChatByInviteLink(r))
  <2> DEFINE call == [fn |-> "joinChatByInviteLink", text |-> r.text]
  <2>1. Named(r, call)
    BY DEF Named
  <2> HIDE DEF call
  <2> QED BY <2>1, ValidNames, Zenon DEF JoinChatByInviteLink, call
<1>14. NamesOwn(r, SearchChatMembers(r))
  <2> DEFINE limit == CASE r.limit.kind = "absent" -> 50
                        [] r.limit.n < 1 -> 1
                        [] r.limit.n > 200 -> 200
                        [] OTHER -> r.limit.n
             call == [fn |-> "searchChatMembers", chat |-> r.chat.n, limit |-> limit]
  <2>1. limit > 0
    <3>1. r.limit.n \in Int
      BY <1>1 DEF Numerals
    <3>2. CASE r.limit.kind = "absent"
      <4>1. limit \in {50, 1, 200, r.limit.n}
        BY <3>2
      <4> QED BY <3>1, <3>2, <4>1
    <3>3. CASE r.limit.kind # "absent"
      BY <3>1, <3>3
    <3> QED BY <3>2, <3>3
  <2> HIDE DEF limit
  <2>2. ASSUME IsId(r.chat) PROVE Named(r, call)
    BY <2>1, <2>2 DEF Named
  <2> HIDE DEF call
  <2> QED BY <2>2, ValidNames, Zenon DEF SearchChatMembers, call, limit
<1>15. \A fn : fn \in {"addMessageReaction", "removeMessageReaction"} => NamesOwn(r, Reaction(fn, r))
  <2> SUFFICES ASSUME NEW fn \in {"addMessageReaction", "removeMessageReaction"}
               PROVE  NamesOwn(r, Reaction(fn, r))
    OBVIOUS
  <2> DEFINE call == [fn |-> fn, chat |-> r.chat.n, message |-> r.message.n, text |-> r.text]
  <2>1. ASSUME IsId(r.chat), IsId(r.message) PROVE Named(r, call)
    BY <2>1 DEF Named
  <2> HIDE DEF call
  <2> QED BY <2>1, ValidNames, Zenon DEF Reaction, call
<1>16. \A fn : fn # "getFile" => NamesOwn(r, WithField(fn, r)) /\ NamesOwn(r, Secret(fn, r))
  <2> SUFFICES ASSUME NEW fn, fn # "getFile"
               PROVE  NamesOwn(r, WithField(fn, r)) /\ NamesOwn(r, Secret(fn, r))
    BY Zenon
  <2> DEFINE call == [fn |-> fn, text |-> r.text]
  <2>1. Named(r, call)
    BY DEF Named
  <2> HIDE DEF call
  <2>2. NamesOwn(r, WithField(fn, r))
    BY <2>1, ValidNames, Zenon DEF WithField, call
  <2>3. NamesOwn(r, Refuse(429))
    BY RefusalNames
  <2> QED BY <2>2, <2>3, Zenon DEF Secret
<1>17. NamesOwn(r, Local(r))
  <2>1. \E code : Local(r) = Refuse(code)
    <3>1. CASE r.route = "export"
      BY <3>1 DEF Local
    <3>2. CASE r.route = "ready"
      BY <3>2 DEF Local
    <3>3. CASE r.route \notin {"export", "ready"}
      BY <3>3 DEF Local
    <3> QED BY <3>1, <3>2, <3>3
  <2> QED BY <2>1, RefusalNames, Zenon
<1>18. \A fn : fn # "getFile" => NamesOwn(r, [fn |-> fn])
  <2>1. \A fn : fn # "getFile" => Named(r, [fn |-> fn])
    BY DEF Named
  <2> QED BY <2>1, Zenon DEF NamesOwn
<1>19. r.route = "read" => NamesOwn(r, ViewMessages(r))
  <2> DEFINE call == [fn |-> "viewMessages", chat |-> r.chat.n, ids |-> ParsedIds(r.ids)]
  <2>1. ASSUME r.route = "read", IsId(r.chat) PROVE Named(r, call)
    <3>1. ToSet(ParsedIds(r.ids)) = {t.n : t \in {x \in ToSet(r.ids) : IsId(x)}}
      BY <1>1, ParsedIdsAre
    <3> QED BY <2>1, <3>1 DEF Named
  <2> HIDE DEF call
  <2> QED BY <2>1, ValidNames, Zenon DEF ViewMessages, call
<1> HIDE DEF NamesOwn
<1> QED BY <1>3, <1>4, <1>5, <1>6, <1>7, <1>8, <1>9, <1>10, <1>11, <1>12, <1>13, <1>14, <1>15,
      <1>16, <1>17, <1>18, <1>19 DEF Handle

\* What the reply has of a file of a size is what the Range header names.
PartOf(range, answer, size) ==
    /\ \A sent \in answer.part :
          sent.offset .. sent.offset + sent.length - 1 =
              IF range = {} THEN 0 .. size - 1
              ELSE UNION {Positions(h, size) : h \in range}
    /\ answer.code = 206 => \A h \in range : Single(h)
    /\ answer.code = 416 => \A h \in range : Single(h) => Positions(h, size) = {}

\* For every size, what is sent of the file is what the Range header names.
LEMMA SendFileRight ==
    ASSUME request \in Requested, NEW size \in Nat
    PROVE  PartOf(request.range, SendFile(size), size)
<1> DEFINE file == SendFile(size)
<1>1. CASE request.range = {}
  <2>1. file = [code |-> 200, part |-> {[offset |-> 0, length |-> size]}]
    BY <1>1 DEF SendFile
  <2>2. file.code = 200 /\ \A sent \in file.part : sent.offset = 0 /\ sent.length = size
    BY <2>1
  <2> HIDE DEF file
  <2>3. 0 + size - 1 = size - 1
    OBVIOUS
  <2> QED BY <1>1, <2>2, <2>3 DEF PartOf, file
<1>2. CASE request.range # {}
  <2>1. PICK h \in request.range : {h.first, h.last} \subseteq RangeTexts /\ request.range = {h}
    BY <1>2, RequestsAssumption
  <2> DEFINE part_ == ParseByteRange(h, size)
  <2>2. /\ \A sent \in part_ : /\ Single(h)
                               /\ sent.offset .. sent.offset + sent.length - 1 = Positions(h, size)
        /\ Single(h) /\ part_ = {} => Positions(h, size) = {}
    BY <2>1, RangesAreTheirPositions
  <2>3. /\ UNION {ParseByteRange(g, size) : g \in request.range} = part_
        /\ UNION {Positions(g, size) : g \in request.range} = Positions(h, size)
    BY <2>1
  <2> HIDE DEF part_
  <2>4. file = [code |-> IF part_ = {} THEN 416 ELSE 206, part |-> part_]
    BY <1>2, <2>3 DEF SendFile
  <2>5. file.part = part_ /\ file.code = IF part_ = {} THEN 416 ELSE 206
    BY <2>4
  <2> HIDE DEF file
  <2>6. file.code = 206 => part_ # {}
    BY <2>5
  <2>7. file.code = 416 => part_ = {}
    BY <2>5
  <2>8. \A sent \in file.part :
           sent.offset .. sent.offset + sent.length - 1 =
               UNION {Positions(g, size) : g \in request.range}
    BY <2>2, <2>3, <2>5
  <2>9. file.code = 206 => \A g \in request.range : Single(g)
    <3> SUFFICES ASSUME file.code = 206 PROVE Single(h)
      BY <2>1
    <3>1. PICK sent : sent \in part_
      BY <2>6
    <3> QED BY <2>2, <3>1
  <2>10. file.code = 416 => \A g \in request.range : Single(g) => Positions(g, size) = {}
    BY <2>1, <2>2, <2>7
  <2> QED BY <1>2, <2>8, <2>9, <2>10, Zenon DEF PartOf, file
<1> QED BY <1>1, <1>2

\* The calls are the request's, and the reply has the part that is asked for.
NamedInv ==
    /\ \A call \in Asks : Named(request, call)
    /\ PartOf(request.range, reply, told.size)

\* No request begins with a call or a part.
LEMMA NamedStarts == RequestInit \/ RequestIdle => NamedInv
<1> SUFFICES ASSUME RequestInit \/ RequestIdle PROVE NamedInv
  OBVIOUS
<1>1. calls = <<>> /\ reply.part = {} /\ reply.code = 0
  BY DEF RequestInit, RequestIdle, NoReply
<1>2. Asks = {}
  BY <1>1 DEF Asks
<1> QED BY <1>1, <1>2 DEF NamedInv, PartOf

\* A reply without a file has no part.
LEMMA PlainReply ==
    ASSUME NEW c, reply' = Code(c), c \notin {206, 416}
    PROVE  PartOf(request.range, reply, told.size)'
<1>1. reply'.part = {} /\ reply'.code = c
  BY DEF Code
<1> QED BY <1>1 DEF PartOf

\* No reply yet has no part.
LEMMA SameReply ==
    ASSUME reply = NoReply, UNCHANGED reply
    PROVE  PartOf(request.range, reply, told.size)'
<1>1. reply' = Code(0)
  BY DEF NoReply, Code
<1> QED BY <1>1, PlainReply

\* A request that asks no more than it has asked stays within what it named.
LEMMA SameAsks ==
    ASSUME NamedInv, UNCHANGED <<request, calls>>, PartOf(request.range, reply, told.size)'
    PROVE  NamedInv'
<1>1. Asks' = Asks
  BY DEF Asks
<1>2. \A r, call : Named(r, call)' = Named(r, call)
  BY DEF Named
<1> QED BY <1>1 DEF NamedInv, Named

\* The handler asks about what the request names, and replies with no part.
LEMMA ServeNames ==
    ASSUME RequestInv, NamedInv, Serve
    PROVE  NamedInv'
<1> DEFINE call == Handle(request)
<1>1. step = "received" /\ UNCHANGED <<entries, request, told>>
  BY Zenon DEF Serve
<1>2. \/ Verdict # 0 /\ ReplyWith(Code(Verdict)) /\ UNCHANGED calls
      \/ call.fn = "" /\ ReplyWith(Code(call.code)) /\ UNCHANGED calls
      \/ call.fn # "" /\ calls' = <<call>> /\ UNCHANGED reply
  BY Zenon DEF Serve, Verdict
<1>3. call.fn = "" => call.code \in {200, 400, 404, 429, 503}
  <2>1. Refusals(call)
    BY HandlerRefuses, Zenon
  <2> HIDE DEF call
  <2> QED BY <2>1, Zenon DEF Refusals
<1>4. request \in Requested /\ calls = <<>> /\ told = Nothing /\ reply = NoReply
  BY <1>1 DEF RequestInv, FilterState, CallState
<1>5. call.fn # "" => Named(request, call)
  BY <1>4, HandlerNames, Zenon DEF NamesOwn
<1> HIDE DEF call
<1>6. \/ Verdict # 0 /\ ReplyWith(Code(Verdict)) /\ UNCHANGED calls
      \/ /\ call.code \in {200, 400, 404, 429, 503}
         /\ ReplyWith(Code(call.code)) /\ UNCHANGED calls
      \/ /\ Named(request, call)
         /\ calls' = <<call>> /\ UNCHANGED reply
  BY <1>2, <1>3, <1>5, ZenonT(40)
<1>7. CASE Verdict # 0 /\ ReplyWith(Code(Verdict)) /\ UNCHANGED calls
  <2>1. Verdict \in {0, 401, 403}
    BY <1>4, VerdictIsGrant
  <2>2. reply' = Code(Verdict) /\ Verdict \notin {206, 416}
    BY <1>7, <2>1 DEF ReplyWith
  <2> QED BY <1>1, <1>7, <2>2, PlainReply, SameAsks
<1>8. CASE call.code \in {200, 400, 404, 429, 503} /\ ReplyWith(Code(call.code)) /\ UNCHANGED calls
  <2>1. reply' = Code(call.code) /\ call.code \notin {206, 416}
    BY <1>8 DEF ReplyWith
  <2> QED BY <1>1, <1>8, <2>1, PlainReply, SameAsks
<1>9. CASE /\ Named(request, call)
           /\ calls' = <<call>> /\ UNCHANGED reply
  <2>1. Asks' = {call}
    BY <1>9 DEF Asks
  <2>2. PartOf(request.range, reply, told.size)'
    BY <1>4, <1>9, SameReply
  <2>3. request' = request
    BY <1>1
  <2> QED BY <1>9, <2>1, <2>2, <2>3 DEF NamedInv
<1> QED BY <1>6, <1>7, <1>8, <1>9

\* An answer adds no call, and its reply has no part.
LEMMA AnswerNames ==
    ASSUME RequestInv, NamedInv, Answer \/ DownloadAnswer
    PROVE  NamedInv'
<1>1. CASE Answer
  <2>1. PICK a \in Failures \cup {Nothing} : reply' = Code(Reply(request.route, a))
    BY <1>1 DEF Answer, ReplyWith
  <2>2. Reply(request.route, a) \in {200, 202, 400, 404, 429, 502}
    BY ReplyCodes
  <2>3. PartOf(request.range, reply, told.size)'
    BY <2>1, <2>2, PlainReply
  <2> QED BY <1>1, <2>3, SameAsks DEF Answer
<1>2. CASE DownloadAnswer
  <2>1. reply' = Code(202) /\ UNCHANGED <<request, calls>>
    BY <1>2 DEF DownloadAnswer, ReplyWith
  <2> QED BY <2>1, PlainReply, SameAsks
<1> QED BY <1>1, <1>2

\* downloadFile is for the file of getFile, and the reply has the part named.
LEMMA FileAnswerNames ==
    ASSUME RequestInv, NamedInv, FileAnswer
    PROVE  NamedInv'
<1>1. /\ step = "asked" /\ Last(calls).fn = "getFile" /\ UNCHANGED <<entries, request>>
      /\ \/ /\ \E a \in Failures : reply' = Code(Reply("file", a))
            /\ UNCHANGED calls
         \/ /\ \E size \in 0 .. MaxFileSize :
                  told' = [error |-> FALSE, size |-> size] /\ reply' = SendFile(size)
            /\ UNCHANGED calls
         \/ told' = [error |-> FALSE, size |-> 0] /\ reply' = Code(416) /\ UNCHANGED calls
         \/ /\ calls' = Append(calls, [fn |-> "downloadFile", file |-> calls[1].file])
            /\ UNCHANGED <<step, reply>>
  BY DEF FileAnswer, ReplyWith
<1>2. PICK call : calls = <<call>>
  <2>1. ASSUME NEW a, NEW b, calls \in Seq({a, b}), Len(calls) = 2 PROVE Last(calls) = calls[2]
    BY <2>1 DEF Last
  <2> QED BY <1>1, <2>1 DEF RequestInv, CallState
<1>3. request \in Requested
  BY <1>1 DEF RequestInv, FilterState
<1>4. CASE (\E a \in Failures : reply' = Code(Reply("file", a))) /\ UNCHANGED calls
  <2>1. PICK a \in Failures : reply' = Code(Reply("file", a))
    BY <1>4
  <2>2. Reply("file", a) \in {200, 202, 400, 404, 429, 502}
    BY ReplyCodes
  <2>3. PartOf(request.range, reply, told.size)'
    BY <2>1, <2>2, PlainReply
  <2> QED BY <1>1, <1>4, <2>3, SameAsks
<1>5. CASE (\E size \in 0 .. MaxFileSize : /\ told' = [error |-> FALSE, size |-> size]
                                           /\ reply' = SendFile(size)) /\ UNCHANGED calls
  <2>1. PICK size \in 0 .. MaxFileSize : /\ told' = [error |-> FALSE, size |-> size]
                                         /\ reply' = SendFile(size)
    BY <1>5
  <2>2. size \in Nat /\ told'.size = size
    BY <2>1, RequestsAssumption
  <2>3. PartOf(request.range, SendFile(size), size)
    BY <1>3, <2>2, SendFileRight
  <2>4. PartOf(request.range, reply, told.size)'
    <3> DEFINE file == SendFile(size)
    <3>1. PartOf(request.range, file, size) /\ reply' = file
      BY <2>1, <2>3
    <3> HIDE DEF file
    <3>2. request'.range = request.range /\ told'.size = size
      BY <1>1, <2>2
    <3> QED BY <3>1, <3>2
  <2> QED BY <1>1, <1>5, <2>4, SameAsks
<1>6. CASE told' = [error |-> FALSE, size |-> 0] /\ reply' = Code(416) /\ UNCHANGED calls
  <2>1. told'.size = 0 /\ reply'.part = {} /\ reply'.code = 416
    BY <1>6 DEF Code
  <2>2. \A h : Positions(h, 0) = {}
    BY DEF Positions
  <2>3. PartOf(request.range, reply, told.size)'
    BY <2>1, <2>2 DEF PartOf
  <2> QED BY <1>1, <1>6, <2>3, SameAsks
<1>7. CASE /\ calls' = Append(calls, [fn |-> "downloadFile", file |-> calls[1].file])
           /\ UNCHANGED <<step, reply>>
  <2> DEFINE second == [fn |-> "downloadFile", file |-> call.file]
  <2>1. second.file = call.file /\ DOMAIN second = {"fn", "file"} /\ second.fn = "downloadFile"
    OBVIOUS
  <2>2. calls' = Append(calls, second)
    BY <1>2, <1>7
  <2> HIDE DEF second
  <2>3. DOMAIN calls' = {1, 2} /\ calls'[1] = call /\ calls'[2] = second
    BY <1>2, <2>2
  <2>4. Asks' = {call, second} /\ Asks = {call}
    BY <1>2, <2>3 DEF Asks
  <2>5. call.fn = "getFile"
    BY <1>1, <1>2 DEF Last
  <2>6. Named(request, call) /\ Named(request, second)
    <3>1. Named(request, call)
      BY <2>4 DEF NamedInv
    <3>2. IsId(request.file) /\ call.file = request.file.n
      BY <2>5, <3>1 DEF Named
    <3> QED BY <2>1, <3>1, <3>2 DEF Named
  <2>7. reply = NoReply
    BY <1>1 DEF RequestInv, CallState
  <2>8. PartOf(request.range, reply, told.size)'
    BY <1>7, <2>7, SameReply
  <2>9. request' = request
    BY <1>1
  <2> QED BY <2>4, <2>6, <2>8, <2>9 DEF NamedInv
<1> QED BY <1>1, <1>4, <1>5, <1>6, <1>7

\* Every step of a request keeps to what the request names.
LEMMA NamedStep == RequestInv /\ NamedInv /\ [RequestNext]_requestVars => NamedInv'
<1> SUFFICES ASSUME RequestInv, NamedInv, [RequestNext]_requestVars PROVE NamedInv'
  OBVIOUS
<1>1. CASE UNCHANGED requestVars
  <2>1. PartOf(request.range, reply, told.size)'
    BY <1>1 DEF NamedInv, PartOf, requestVars
  <2> QED BY <1>1, <2>1, SameAsks DEF requestVars
<1> QED BY <1>1, ServeNames, AnswerNames, FileAnswerNames DEF RequestNext

\* Whatever the request, TDLib is asked about the chat, the message, the user and
\* the file it names and for all of its list - or, to mark messages read, for those
\* of it that are ids - and a reply has the part of the file its Range header names
\* (http_helpers.hpp:149-165; message_routes.cpp:417-520; byte_range.hpp:30-91).
THEOREM WhatWasNamedIsActedOn == Spec => []ActsOnWhatWasNamed
<1>1. Init => NamedInv
  BY NamedStarts DEF Init
<1>2. RequestInv /\ NamedInv /\ [Next]_vars => NamedInv'
  BY RequestSteps, NamedStep
<1>3. NamedInv => ActsOnWhatWasNamed
  <2> SUFFICES ASSUME NamedInv PROVE ActsOnWhatWasNamed
    OBVIOUS
  <2>1. \A call \in Asks : Named(request, call)
    BY DEF NamedInv
  <2>2. ASSUME NEW call \in Asks,
               NEW field \in DOMAIN call \cap {"chat", "message", "user", "file", "fromChat"}
        PROVE  IsId(request[field]) /\ call[field] = request[field].n
    BY <2>1, <2>2 DEF Named
  <2>3. ASSUME NEW call \in Asks
        PROVE  /\ "ids" \in DOMAIN call =>
                     /\ ToSet(call.ids) = {t.n : t \in {x \in ToSet(request.ids) : IsId(x)}}
                     /\ request.route # "read" => Len(call.ids) = Len(request.ids)
               /\ "limit" \in DOMAIN call => call.limit > 0
    BY <2>1 DEF Named
  <2>4. PartOf(request.range, reply, told.size)
    BY DEF NamedInv
  <2> QED BY <2>2, <2>3, <2>4 DEF ActsOnWhatWasNamed, PartOf
<1> QED BY <1>1, <1>2, <1>3, RequestInvHolds, PTL DEF Spec

=============================================================================
