---------------------------- MODULE SendMessage ----------------------------
(***************************************************************************)
(* POST /v1/chats/{id}/messages (src/src/http/message_routes.cpp:234-414): *)
(* the handler with its idempotency cache, the typing pause, the call over *)
(* the bridge and the wait for the confirmation, against TDLib and the     *)
(* receiver thread.  The bridge is taken by its contract (CallContract):   *)
(* the call gets TDLib's answer or an error, whatever TDLib did with it.   *)
(* Handlers run on several IO loops and meet at the locks, so each step    *)
(* ends where one is taken.                                                *)
(***************************************************************************)
EXTENDS IdempotencyCache, MessageSendTracker

CONSTANTS
    Requests,    \* HTTP requests; each sends at most one message
    Unkeyed,     \* those without an Idempotency-Key header
    NoKey,
    MaxDrains    \* bound on drainAll: the signal thread's and main's

ASSUME SendAssumption ==
    /\ Messages = Requests       \* a message is named by the request sending it
    /\ Unkeyed \subseteq Requests
    /\ NoKey \notin Keys
    /\ MaxDrains \in Nat

VARIABLES
    mode,        \* config: "plain", "typing", or "wait" (typing and id_wait_ms > 0)
    pc,          \* pc[r] : where the handler of r is
    key,         \* key[r] : its Idempotency-Key, or NoKey
    reply,       \* reply[r] : what co_await invoke() will give it
    answer,      \* answer[r] : the HTTP response
    td,          \* td[r] : what became of its sendMessage in TDLib
    taken,       \* requests whose answer the receiver has taken from TDLib
    notified,    \* messages whose final update the receiver has handled
    drains       \* number of drainAll calls so far

handlerVars == <<pc, key, reply, answer>>
tdVars      == <<td, taken, notified>>
vars == <<cacheVars, trackerVars, handlerVars, tdVars, mode, drains>>

NoAnswer == [status |-> 0]
Conflict == [status |-> 409]
Invalid  == [status |-> 400]
Failure  == [status |-> 500]                    \* telegramError of any kind
Sent(r)    == [status |-> 200, message |-> r]
Pending202(r) == [status |-> 202, message |-> r]
Responses == {Sent(r) : r \in Requests} \cup {Pending202(r) : r \in Requests}

Init ==
    /\ CacheInit
    /\ TrackerInit
    /\ mode \in {"plain", "typing", "wait"}
    /\ pc = [r \in Requests |-> "new"]
    /\ key = [r \in Requests |-> NoKey]
    /\ reply = [r \in Requests |-> "none"]
    /\ answer = [r \in Requests |-> NoAnswer]
    /\ td = [r \in Requests |-> "none"]
    /\ taken = {}
    /\ notified = {}
    /\ drains = 0
-----------------------------------------------------------------------------

\* The key is given back, or given its response, only if there is one.
MutReleaseForgotten(k) == UNCHANGED cacheVars
ReleaseKey(k) == IF k = NoKey THEN UNCHANGED cacheVars ELSE Release(k)
MutStoreForgotten(k, resp) == UNCHANGED cacheVars
MutReleaseForStore(k, resp) == ReleaseKey(k)
StoreKey(k, resp) == IF k = NoKey THEN UNCHANGED cacheVars ELSE Store(k, resp)

Goto(r, label) == pc' = [pc EXCEPT ![r] = label]
Respond(r, resp) == Goto(r, "done") /\ answer' = [answer EXCEPT ![r] = resp]

(***************************************************************************)
(* The synchronous part of the handler.                                    *)
(***************************************************************************)

ArriveUnkeyed(r) ==
    /\ pc[r] = "new" /\ r \in Unkeyed
    /\ Goto(r, "checking")
    /\ UNCHANGED <<cacheVars, trackerVars, key, reply, answer, tdVars, mode, drains>>

ArriveFirst(r, k) ==
    /\ pc[r] = "new"
    /\ Claim(k)
    /\ key' = [key EXCEPT ![r] = k]
    /\ Goto(r, "checking")
    /\ UNCHANGED <<trackerVars, reply, answer, tdVars, mode, drains>>

ArriveInFlight(r, k) ==
    /\ pc[r] = "new"
    /\ entries[k] = Pending
    /\ Respond(r, Conflict)
    /\ UNCHANGED <<cacheVars, trackerVars, key, reply, tdVars, mode, drains>>

ArriveRepeat(r, k) ==
    /\ pc[r] = "new"
    /\ entries[k].state = "done"
    /\ Respond(r, entries[k].response)
    /\ UNCHANGED <<cacheVars, trackerVars, key, reply, tdVars, mode, drains>>

\* parse_mode or reply_to_message_id is invalid.
BadRequest(r) ==
    /\ pc[r] = "checking"
    /\ ReleaseKey(key[r])
    /\ Respond(r, Invalid)
    /\ UNCHANGED <<trackerVars, key, reply, tdVars, mode, drains>>

(***************************************************************************)
(* The coroutine.                                                          *)
(***************************************************************************)

\* The typing pause, over however many refreshes of the chat action.
StartTyping(r) ==
    /\ pc[r] = "checking" /\ mode # "plain"
    /\ Goto(r, "typing")
    /\ UNCHANGED <<cacheVars, trackerVars, key, reply, answer, tdVars, mode, drains>>

\* co_await invoke(sendMessage): sent, or refused at the in-flight limit.
Invoke(r) ==
    /\ \/ pc[r] = "typing"
       \/ pc[r] = "checking" /\ mode = "plain"
    /\ Goto(r, "calling")
    /\ \/ td' = [td EXCEPT ![r] = "asked"] /\ UNCHANGED reply
       \/ reply' = [reply EXCEPT ![r] = "error"] /\ UNCHANGED td
    /\ UNCHANGED <<cacheVars, trackerVars, key, answer, taken, notified, mode, drains>>

CallGivesError(r) ==
    /\ pc[r] = "calling" /\ reply[r] = "error"
    /\ ReleaseKey(key[r])
    /\ Respond(r, Failure)
    /\ UNCHANGED <<trackerVars, key, reply, tdVars, mode, drains>>

\* The message is in TDLib's hands; with id_wait_ms the handler waits on.
CallGivesMessage(r) ==
    /\ pc[r] = "calling" /\ reply[r] = "message"
    /\ IF mode = "wait"
       THEN WaitFor(r) /\ Goto(r, "waiting")
       ELSE UNCHANGED trackerVars /\ Goto(r, "concluding")
    /\ UNCHANGED <<cacheVars, key, reply, answer, tdVars, mode, drains>>

TimerResumes(r) ==
    /\ TimerWins(r)
    /\ Goto(r, "concluding")
    /\ UNCHANGED <<cacheVars, key, reply, answer, tdVars, mode, drains>>

TimerExpires(r) ==
    /\ TimerLate(r)
    /\ UNCHANGED <<cacheVars, handlerVars, tdVars, mode, drains>>

LoopResumes(r) ==
    /\ RunResume(r)
    /\ Goto(r, "concluding")
    /\ UNCHANGED <<cacheVars, key, reply, answer, tdVars, mode, drains>>

\* The wait is over, or there was none: 200, an error, or 202.
Conclude(r) ==
    /\ pc[r] = "concluding"
    /\ \/ /\ outcome[r] = "sent"
          /\ StoreKey(key[r], Sent(r))
          /\ Respond(r, Sent(r))
       \/ /\ outcome[r] = "failed"
          /\ ReleaseKey(key[r])
          /\ Respond(r, Failure)
       \/ /\ outcome[r] = "none"
          /\ StoreKey(key[r], Pending202(r))
          /\ Respond(r, Pending202(r))
    /\ UNCHANGED <<trackerVars, key, reply, tdVars, mode, drains>>

(***************************************************************************)
(* TDLib (external) and the receiver thread.                               *)
(***************************************************************************)

\* TDLib answers with a message under a temporary id, or refuses; later the
\* message is sent for good or fails.
TdStep(r) ==
    /\ \/ td[r] = "asked" /\ \E s \in {"accepted", "refused"} : td' = [td EXCEPT ![r] = s]
       \/ td[r] = "accepted" /\ \E s \in {"sent", "failed"} : td' = [td EXCEPT ![r] = s]
    /\ UNCHANGED <<cacheVars, trackerVars, handlerVars, taken, notified, mode, drains>>

\* dispatch of the answer: it reaches the handler if the call is still open.
TakeAnswer(r) ==
    /\ td[r] \notin {"none", "asked"} /\ r \notin taken
    /\ taken' = taken \cup {r}
    /\ reply' = IF reply[r] # "none" THEN reply
                ELSE [reply EXCEPT ![r] = IF td[r] = "refused" THEN "error" ELSE "message"]
    /\ UNCHANGED <<cacheVars, trackerVars, pc, key, answer, td, notified, mode, drains>>

\* updateMessageSendSucceeded / Failed, which TDLib hands over after the answer.
TakeUpdate(r) ==
    /\ td[r] \in {"sent", "failed"} /\ r \in taken /\ r \notin notified
    /\ notified' = notified \cup {r}
    /\ ResolveWith(r, td[r])
    /\ UNCHANGED <<cacheVars, handlerVars, td, taken, mode, drains>>

\* The TTL sweep (504) or a drain of the bridge (503) closes an open call.
CallFails(r) ==
    /\ pc[r] = "calling" /\ reply[r] = "none"
    /\ reply' = [reply EXCEPT ![r] = "error"]
    /\ UNCHANGED <<cacheVars, trackerVars, pc, key, answer, tdVars, mode, drains>>

\* send_tracker.drainAll() of the signal thread, or of main after bridge.stop().
Drain ==
    /\ drains < MaxDrains
    /\ DrainAll
    /\ drains' = drains + 1
    /\ UNCHANGED <<cacheVars, handlerVars, tdVars, mode>>

HandlerStep(r) ==
    \/ BadRequest(r) \/ StartTyping(r) \/ Invoke(r)
    \/ CallGivesError(r) \/ CallGivesMessage(r)
    \/ TimerResumes(r) \/ LoopResumes(r) \/ Conclude(r)

Next ==
    \/ \E r \in Requests \ Unkeyed, k \in Keys :
         ArriveFirst(r, k) \/ ArriveInFlight(r, k) \/ ArriveRepeat(r, k)
    \/ \E r \in Requests :
         \/ ArriveUnkeyed(r)
         \/ HandlerStep(r)
         \/ TimerExpires(r)
         \/ TdStep(r) \/ TakeAnswer(r) \/ TakeUpdate(r)
         \/ CallFails(r)
    \/ Drain

Spec == Init /\ [][Next]_vars

\* The IO loops run for certain only before the shutdown: they quit behind the
\* drain of the signal thread (main.cpp:394-400), and a process that quits by
\* itself comes to the drain of main.
Serving == drains = 0

\* Loops run their timers and queues, and the bridge closes every call
\* (EveryCallReturns of TdBridge), as long as the process serves.  Nothing is
\* assumed of TDLib, and nothing of the loops behind a drain.
Fairness ==
    \A r \in Requests :
        WF_vars(Serving /\ HandlerStep(r)) /\ WF_vars(Serving /\ CallFails(r))
FairSpec == Spec /\ Fairness

-----------------------------------------------------------------------------
TypeOK ==
    /\ entries \in [Keys -> {Absent, Pending} \cup {Done(x) : x \in Responses}]
    /\ order \in Seq(Keys)
    /\ evicted \subseteq Keys
    /\ waitMap \subseteq Requests /\ timers \subseteq Requests /\ resumes \subseteq Requests
    /\ outcome \in [Requests -> {"none", "sent", "failed"}]
    /\ pc \in [Requests -> {"new", "checking", "typing", "calling",
                            "waiting", "concluding", "done"}]
    /\ key \in [Requests -> Keys \cup {NoKey}]
    /\ reply \in [Requests -> {"none", "error", "message"}]
    /\ answer \in [Requests -> {NoAnswer, Conflict, Invalid, Failure} \cup Responses]
    /\ td \in [Requests -> {"none", "asked", "accepted", "refused", "sent", "failed"}]
    /\ taken \subseteq Requests /\ notified \subseteq Requests
    /\ mode \in {"plain", "typing", "wait"}
    /\ drains \in 0 .. MaxDrains

InFlight(r) == pc[r] \notin {"new", "done"}

\* A key that answers 409 always has a request in flight that will settle it:
\* no path of the handler ends without release or store, and no eviction,
\* late store or release by another request leaves a pending key orphaned
\* (message_routes.cpp:253-404, one release-or-store per branch).
PendingHasOwner ==
    \A k \in Keys : entries[k] = Pending =>
        \E r \in Requests : key[r] = k /\ InFlight(r)

\* A replayed answer tells of a message that was sent under this very key,
\* and says "sent" only of one TDLib has confirmed.
ReplayIsTrue ==
    \A k \in Keys : entries[k].state = "done" =>
        LET resp == entries[k].response
        IN  /\ key[resp.message] = k
            /\ td[resp.message] \in {"accepted", "sent", "failed"}
            /\ resp.status = 200 => td[resp.message] = "sent"

\* Two messages go out under one key only after the key was evicted while its
\* request was in flight or answered, or after a call failed towards the
\* client that TDLib carried out all the same.
Live(r) == td[r] \in {"accepted", "sent"}
SentOnceUnlessLost ==
    \A r1, r2 \in Requests :
        /\ r1 # r2 /\ key[r1] = key[r2] /\ key[r1] # NoKey
        /\ Live(r1) /\ Live(r2)
        => \/ key[r1] \in evicted
           \/ reply[r1] = "error" \/ reply[r2] = "error"

\* A handler waits for its confirmation in one place: the map, with its timer
\* running, or the queue of its loop.  So no wait is resumed twice and none is
\* forgotten (MessageSendTracker: claim, drainAll and the timer).
WaitInOnePlace ==
    /\ waitMap \cap resumes = {} /\ waitMap \subseteq timers
    /\ \A r \in Requests : pc[r] = "waiting" <=> r \in waitMap \cup resumes

\* The cache, the tracker and the handlers agree about every key and every wait:
\* the order of eviction lists what is stored, a pending key has an owner, and a
\* waiting handler is in one place.
SendInv == TypeOK /\ OrderMatchesEntries /\ PendingHasOwner /\ WaitInOnePlace

\* A request that was given a key's answer keeps it: as long as the key is not
\* evicted, nothing another request does takes it out of the cache.
AnswerIsKept ==
    \A r \in Requests :
        /\ key[r] # NoKey /\ key[r] \notin evicted
        /\ answer[r] \in {Sent(r), Pending202(r)}
        => entries[key[r]] = Done(answer[r])

\* Every request is answered, whatever TDLib does: by its answer, its timer or
\* the confirmation, in whatever order they race (message_routes.cpp:253-404).
\* It speaks of the time before a shutdown: a resume or a typing pause that is
\* left behind the drains may be lost with the loops.
EveryRequestAnswered ==
    \A r \in Requests : pc[r] # "new" ~> pc[r] = "done" \/ ~Serving

=============================================================================
