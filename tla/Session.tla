------------------------------- MODULE Session -------------------------------
(***************************************************************************)
(* The Telegram session of a gateway with S3 configured, over restarts:    *)
(* main() (src/src/main.cpp) restores td.binlog, starts TDLib, serves,     *)
(* and on a signal or an unexpected termination closes TDLib and pushes    *)
(* the binlog; meanwhile a detached thread pushes changes, and             *)
(* POST /v1/auth/logout ends the session.  TDLib, Telegram and the object  *)
(* store are external.                                                     *)
(***************************************************************************)
EXTENDS Naturals, Sequences, AuthState, SyncGate

CONSTANTS
    Handlers,      \* logout requests of one process run
    NoHandler,
    NoFile,        \* no td.binlog; in S3, no object
    Partial,       \* a td.binlog cut short by a failed write
    MaxSessions,   \* bound on logins
    MaxRev,        \* bound on changes of a binlog under one session
    MaxFaults,     \* bound on crashes, failures and timeouts altogether
    WithSignals    \* whether SIGTERM ever comes

ASSUME SessionAssumption ==
    /\ NoHandler \notin Handlers
    /\ {MaxSessions, MaxRev, MaxFaults} \subseteq Nat
    /\ WithSignals \in BOOLEAN

VARIABLES
    phase,       \* where main() is; "down" between two runs
    quit,        \* what made someone queue app().quit()
    disabled,    \* disabled_, shared by the thread and main
    lastHash,    \* last_hash_ of the thread
    copy,        \* the binlog the thread has read
    final,       \* the final push: was it "alone" or with the thread alive
    retired,     \* g_s3_ever_retired
    wire,        \* PUTs on the cached connection, oldest first
    abandoned,   \* PUTs of a hung loop: each may still land
    pc, reply,   \* logout handlers: where each is, what its call will give
    td,          \* TDLib's client
    requester,   \* the handler whose logOut TDLib carries out
    asked,       \* handlers whose logOut TDLib has not looked at yet
    updates,     \* what TDLib has sent and the receiver not yet taken
    binlog,      \* td.binlog on the pod's volume
    s3,          \* the object in S3
    stale,       \* history: the last PUT to land was an abandoned one
    raced,       \* history: a session ended while a logout was under way
    valid,       \* sessions Telegram honours
    logins,      \* number of logins so far
    faults

syncVars    == <<gateVars, disabled, lastHash, copy>>
putVars     == <<wire, abandoned, s3, stale, retired>>
handlerVars == <<pc, reply>>
tdVars      == <<td, requester, asked, updates, binlog>>
worldVars   == <<valid, logins>>
mainVars    == <<phase, quit, final>>
vars == <<authVars, syncVars, putVars, handlerVars, tdVars, worldVars,
          faults, mainVars, raced>>

Snapshots == [session : 0 .. MaxSessions, rev : 0 .. MaxRev]
Files     == Snapshots \cup {NoFile, Partial}
Fresh     == [session |-> 0, rev |-> 0]     \* a binlog nobody has logged in with

\* The memory of a process that is not there.
ProcessInit ==
    /\ AuthInit /\ GateInit
    /\ quit = "no" /\ final = "none" /\ raced = FALSE
    /\ disabled = FALSE
    /\ lastHash = NoFile /\ copy = NoFile
    /\ retired = FALSE /\ wire = <<>> /\ abandoned = {}
    /\ pc = [h \in Handlers |-> "idle"]
    /\ reply = [h \in Handlers |-> "none"]
    /\ td = "off" /\ requester = NoHandler /\ asked = {} /\ updates = <<>>

Init ==
    /\ ProcessInit
    /\ phase = "down"
    /\ binlog = NoFile /\ s3 = NoFile /\ stale = FALSE
    /\ valid = {} /\ logins = 0
    /\ faults = 0

Fault == faults < MaxFaults /\ faults' = faults + 1
Emit(m) == updates' = Append(updates, m)
State(s) == [kind |-> "state", state |-> s]
Reply(h, r) == [kind |-> "reply", handler |-> h, result |-> r]
-----------------------------------------------------------------------------
(***************************************************************************)
(* main(): start.                                                          *)
(***************************************************************************)

\* restoreFromS3: only where no local binlog exists.  A GET that fails ends
\* the process, which is a step from "down" to "down".
Restore ==
    /\ phase = "down"
    /\ phase' = "boot"
    /\ binlog' = IF binlog = NoFile THEN s3 ELSE binlog
    /\ UNCHANGED <<authVars, syncVars, putVars, handlerVars, td, requester, asked,
                   updates, worldVars, faults, quit, final, raced>>

\* writeSecretFile fails half-way: the process ends, the file stays.
RestoreCutShort ==
    /\ phase = "down" /\ binlog = NoFile /\ s3 # NoFile
    /\ Fault
    /\ binlog' = Partial
    /\ UNCHANGED <<authVars, syncVars, putVars, handlerVars, td, requester, asked,
                   updates, worldVars, mainVars, raced>>

\* The bootstrapper sends the parameters and TDLib opens its database.  What
\* cannot be read counts as no database.
StartTd ==
    /\ phase = "boot" /\ td = "off"
    /\ IF binlog \in Snapshots /\ binlog.session # 0
       THEN td' = "ready" /\ Emit(State("ready")) /\ UNCHANGED binlog
       ELSE td' = "login" /\ Emit(State("login")) /\ binlog' = Fresh
    /\ UNCHANGED <<authVars, syncVars, putVars, handlerVars, requester, asked,
                   worldVars, faults, mainVars, raced>>

\* run() of the bootstrapper is over and the app runs.  If TDLib did not
\* report in time the parameters are never sent, and main goes on all the same.
RunApp ==
    /\ phase = "boot"
    /\ IF td = "off" THEN Fault ELSE UNCHANGED faults
    /\ phase' = "serving"
    /\ UNCHANGED <<authVars, syncVars, putVars, handlerVars, tdVars, worldVars,
                   quit, final, raced>>

(***************************************************************************)
(* main(): shutdown.                                                       *)
(***************************************************************************)
InFlightLogouts == {h \in Handlers : pc[h] = "calling" /\ reply[h] = "none"}

\* The signal thread: every open call of the bridge gets 503, then quit().
Signal ==
    /\ phase \in {"boot", "serving"} /\ quit # "signal"
    /\ WithSignals
    /\ quit' = "signal"
    /\ reply' = [h \in Handlers |-> IF h \in InFlightLogouts THEN "error" ELSE reply[h]]
    /\ UNCHANGED <<authVars, syncVars, putVars, pc, tdVars, worldVars, faults,
                   phase, final, raced>>

\* run() returns; main expects the end and sends close to TDLib.
RunReturns ==
    /\ phase = "serving" /\ quit # "no"
    /\ phase' = "closing"
    /\ ExpectShutdown
    /\ IF td \in {"off", "login", "ready"}
       THEN td' = "closing" /\ Emit(State("closing"))
       ELSE UNCHANGED <<td, updates>>
    /\ UNCHANGED <<syncVars, putVars, handlerVars, requester, asked, binlog,
                   worldVars, faults, quit, final, raced>>

\* waitForClosed, for up to 10 s, and bridge.stop(): no update is taken after.
WaitForClosed ==
    /\ phase = "closing"
    /\ IF state = "closed" THEN UNCHANGED faults ELSE Fault
    /\ phase' = "stopped"
    /\ UNCHANGED <<authVars, syncVars, putVars, handlerVars, tdVars, worldVars,
                   quit, final, raced>>

\* After a logout there is no final push.
SkipFinalPush ==
    /\ phase = "stopped" /\ disabled
    /\ phase' = "failed"
    /\ UNCHANGED <<authVars, syncVars, putVars, handlerVars, tdVars, worldVars,
                   faults, quit, final, raced>>

\* pushToS3, once the thread is gone or 45 s are over.
FinalPush ==
    /\ phase = "stopped" /\ ~disabled
    /\ IF InFlight
       THEN Fault /\ final' = "crowded"
       ELSE UNCHANGED faults /\ final' = "alone"
    /\ IF binlog = NoFile
       THEN phase' = "failed" /\ UNCHANGED wire
       ELSE phase' = "pushing" /\ wire' = Append(wire, [by |-> "main", data |-> binlog])
    /\ UNCHANGED <<authVars, syncVars, abandoned, s3, stale, retired, handlerVars,
                   tdVars, worldVars, quit, raced>>

\* What is left of a process: nothing but the volume, and that only if the
\* container restarts in the same pod.  A PUT under way has landed or not.
Gone ==
    /\ phase' = "down"
    /\ \E kept \in BOOLEAN : binlog' = IF kept THEN binlog ELSE NoFile
    /\ \E kept \in {s3} \cup {wire[i].data : i \in DOMAIN wire} : s3' = kept
    /\ state' = "unknown" /\ expectShutdown' = FALSE
    /\ terminationReported' = FALSE
    /\ running' = FALSE /\ pending' = FALSE /\ sync' = "none" /\ owed' = FALSE
    /\ quit' = "no" /\ final' = "none" /\ raced' = FALSE
    /\ disabled' = FALSE
    /\ lastHash' = NoFile /\ copy' = NoFile
    /\ retired' = FALSE /\ wire' = <<>> /\ abandoned' = {}
    /\ pc' = [h \in Handlers |-> "idle"]
    /\ reply' = [h \in Handlers |-> "none"]
    /\ td' = "off" /\ requester' = NoHandler /\ asked' = {} /\ updates' = <<>>
    /\ UNCHANGED <<stale, worldVars>>

Exit == phase \in {"stored", "failed"} /\ Gone /\ UNCHANGED faults
Crash == phase # "down" /\ Gone /\ Fault
-----------------------------------------------------------------------------
(***************************************************************************)
(* The receiver thread: UpdateRouter hands the state to AuthStateManager,  *)
(* the bridge hands an answer to the handler that still waits for it.      *)
(***************************************************************************)
LogoutUnderWay == \E h \in Handlers : pc[h] \in {"calling", "polling"}

ReceiveState ==
    /\ phase \in {"boot", "serving", "closing"}
    /\ updates # <<>> /\ Head(updates).kind = "state"
    /\ LET s == Head(updates).state
       IN  /\ SetState(s)
           /\ quit' = IF Terminates(s) /\ quit = "no" THEN "termination" ELSE quit
           /\ raced' = (raced \/ (s \in Terminal /\ LogoutUnderWay))
    /\ updates' = Tail(updates)
    /\ UNCHANGED <<syncVars, putVars, handlerVars, td, requester, asked, binlog, worldVars, faults, phase, final>>

ReceiveReply ==
    /\ phase \in {"boot", "serving", "closing"}
    /\ updates # <<>> /\ Head(updates).kind = "reply"
    /\ LET m == Head(updates)
       IN  reply' = IF m.handler \in InFlightLogouts
                    THEN [reply EXCEPT ![m.handler] = m.result] ELSE reply
    /\ updates' = Tail(updates)
    /\ UNCHANGED <<authVars, syncVars, putVars, pc, td, requester, asked, binlog,
                   worldVars, faults, mainVars, raced>>

(***************************************************************************)
(* POST /v1/auth/logout.                                                   *)
(***************************************************************************)
Goto(h, label) == pc' = [pc EXCEPT ![h] = label]

\* Any other state is answered 409 and changes nothing.
LogoutCheck(h) ==
    /\ phase = "serving" /\ pc[h] = "idle" /\ state = "ready"
    /\ Goto(h, "checked")
    /\ UNCHANGED <<authVars, syncVars, putVars, reply, tdVars, worldVars, faults,
                   mainVars, raced>>

MutLogoutUnexpected(h) ==
    /\ phase = "serving" /\ pc[h] = "checked"
    /\ asked' = asked \cup {h}
    /\ Goto(h, "calling")
    /\ UNCHANGED <<authVars, syncVars, putVars, reply, td, requester, updates, binlog,
                   worldVars, faults, mainVars, raced>>
LogoutSend(h) ==
    /\ phase = "serving" /\ pc[h] = "checked"
    /\ ExpectShutdown
    /\ asked' = asked \cup {h}
    /\ Goto(h, "calling")
    /\ UNCHANGED <<syncVars, putVars, reply, td, requester, updates, binlog,
                   worldVars, faults, mainVars, raced>>

\* The sweep of the bridge ends the call with 504.
LogoutCallExpires(h) ==
    /\ h \in InFlightLogouts /\ phase \in {"serving", "closing"}
    /\ Fault
    /\ reply' = [reply EXCEPT ![h] = "error"]
    /\ UNCHANGED <<authVars, syncVars, putVars, pc, tdVars, worldVars, mainVars, raced>>

\* While the loops live the coroutine resumes on one; after that in place,
\* on the thread that resolves the call.
LogoutRefused(h) ==
    /\ phase \in {"serving", "closing"}
    /\ pc[h] = "calling" /\ reply[h] = "error"
    /\ CancelExpectShutdown
    /\ Goto(h, "refused")
    /\ UNCHANGED <<syncVars, putVars, reply, tdVars, worldVars, faults, mainVars, raced>>

LogoutAccepted(h) ==
    /\ phase \in {"serving", "closing"}
    /\ pc[h] = "calling" /\ reply[h] = "ok"
    /\ disabled' = TRUE
    /\ Goto(h, "polling")
    /\ UNCHANGED <<authVars, gateVars, lastHash, copy, putVars, reply,
                   tdVars, worldVars, faults, mainVars, raced>>

\* 200 once the state is Closed, 504 after a hundred polls.
LogoutAnswered(h) ==
    /\ phase = "serving" /\ pc[h] = "polling"
    /\ Goto(h, "answered")
    /\ UNCHANGED <<authVars, syncVars, putVars, reply, tdVars, worldVars, faults,
                   mainVars, raced>>
-----------------------------------------------------------------------------
(***************************************************************************)
(* The sync thread and the S3 client.                                      *)
(***************************************************************************)
othersThanSync == <<authVars, handlerVars, tdVars, worldVars, mainVars, raced>>

\* A tick on the main loop: the timer's, or the one push_now queues when the
\* state first becomes Ready.
Tick ==
    /\ phase = "serving"
    /\ Request
    /\ UNCHANGED <<disabled, lastHash, copy, putVars, faults, othersThanSync>>

SyncCheck ==
    /\ sync = "check"
    /\ IF disabled THEN SyncGoto("finish") /\ owed' = FALSE
                   ELSE SyncGoto("read") /\ UNCHANGED owed
    /\ UNCHANGED <<disabled, lastHash, copy, putVars, faults, othersThanSync>>

SyncRead ==
    /\ sync = "read"
    /\ IF binlog \in {NoFile, lastHash}
       THEN SyncGoto("finish") /\ UNCHANGED copy
       ELSE SyncGoto("send") /\ copy' = binlog
    /\ owed' = FALSE
    /\ UNCHANGED <<disabled, lastHash, putVars, faults, othersThanSync>>

SyncSend ==
    /\ sync = "send"
    /\ wire' = Append(wire, [by |-> "sync", data |-> copy])
    /\ SyncGoto("put") /\ UNCHANGED owed
    /\ UNCHANGED <<disabled, lastHash, copy, abandoned, s3, stale, retired,
                   faults, othersThanSync>>

SyncFinish ==
    /\ FinishStep
    /\ UNCHANGED <<disabled, lastHash, copy, putVars, faults, othersThanSync>>

\* send() gives its result to the one that called it.
MutHashBeforeResult(ok) ==
    IF Head(wire).by = "sync"
    THEN /\ lastHash' = copy /\ copy' = NoFile
         /\ SyncGoto("finish") /\ UNCHANGED <<owed, phase>>
    ELSE /\ phase' = IF ok THEN "stored" ELSE "failed"
         /\ UNCHANGED <<gateVars, lastHash, copy>>
MutHashOfRequest(ok) ==
    IF Head(wire).by = "sync"
    THEN /\ lastHash' = IF ok THEN Head(wire) ELSE lastHash
         /\ copy' = NoFile
         /\ SyncGoto("finish") /\ UNCHANGED <<owed, phase>>
    ELSE /\ phase' = IF ok THEN "stored" ELSE "failed"
         /\ UNCHANGED <<gateVars, lastHash, copy>>
PutReturns(ok) ==
    IF Head(wire).by = "sync"
    THEN /\ lastHash' = IF ok THEN copy ELSE lastHash
         /\ copy' = NoFile
         /\ SyncGoto("finish") /\ UNCHANGED <<owed, phase>>
    ELSE /\ phase' = IF ok THEN "stored" ELSE "failed"
         /\ UNCHANGED <<gateVars, lastHash, copy>>

othersThanPut == <<authVars, disabled, handlerVars, tdVars,
                   worldVars, quit, final, raced>>

PutStored ==
    /\ wire # <<>>
    /\ s3' = Head(wire).data /\ stale' = FALSE
    /\ wire' = Tail(wire)
    /\ PutReturns(TRUE)
    /\ UNCHANGED <<abandoned, retired, faults, othersThanPut>>

\* An error of either attempt; S3 may have stored the object all the same.
PutFailed ==
    /\ wire # <<>>
    /\ Fault
    /\ \/ UNCHANGED <<s3, stale>>
       \/ s3' = Head(wire).data /\ stale' = FALSE
    /\ wire' = Tail(wire)
    /\ PutReturns(FALSE)
    /\ UNCHANGED <<abandoned, retired, othersThanPut>>

\* The loop hangs: send() gives up and retires it with its PUT.
PutHung ==
    /\ wire # <<>>
    /\ Fault
    /\ retired' = TRUE
    /\ abandoned' = abandoned \cup {Head(wire).data}
    /\ wire' = Tail(wire)
    /\ PutReturns(FALSE)
    /\ UNCHANGED <<s3, stale, othersThanPut>>

AbandonedLands ==
    /\ \E d \in abandoned : s3' = d /\ abandoned' = abandoned \ {d}
    /\ stale' = TRUE
    /\ UNCHANGED <<wire, retired, syncVars, faults, othersThanSync>>
-----------------------------------------------------------------------------
(***************************************************************************)
(* TDLib and Telegram (external).                                          *)
(***************************************************************************)
othersThanTd == <<authVars, syncVars, putVars, handlerVars, faults, mainVars, raced>>

Login ==
    /\ td = "login" /\ phase = "serving"
    /\ logins < MaxSessions
    /\ logins' = logins + 1
    /\ valid' = valid \cup {logins + 1}
    /\ binlog' = [session |-> logins + 1, rev |-> 0]
    /\ td' = "ready" /\ Emit(State("ready"))
    /\ UNCHANGED <<requester, asked, othersThanTd>>

TdWrites ==
    /\ td \in {"ready", "closing"} /\ binlog \in Snapshots /\ binlog.rev < MaxRev
    /\ binlog' = [binlog EXCEPT !.rev = @ + 1]
    /\ UNCHANGED <<td, requester, asked, updates, worldVars, othersThanTd>>

\* The owner ends the session from another device.
Revoke ==
    /\ \E s \in valid : valid' = valid \ {s}
    /\ UNCHANGED <<logins, tdVars, othersThanTd>>

TdNoticesRevoked ==
    /\ td = "ready" /\ binlog.session \notin valid
    /\ td' = "loggingOut" /\ Emit(State("loggingOut"))
    /\ UNCHANGED <<requester, asked, binlog, worldVars, othersThanTd>>

TdTakesLogOut(h) ==
    /\ h \in asked
    /\ asked' = asked \ {h}
    /\ IF td = "ready"
       THEN td' = "loggingOut" /\ requester' = h /\ Emit(State("loggingOut"))
       ELSE Emit(Reply(h, "error")) /\ UNCHANGED <<td, requester>>
    /\ UNCHANGED <<binlog, worldVars, othersThanTd>>

TdRefusesLogOut(h) ==
    /\ h \in asked /\ td = "ready"
    /\ asked' = asked \ {h}
    /\ Emit(Reply(h, "error"))
    /\ UNCHANGED <<td, requester, binlog, worldVars, othersThanTd>>

\* The session is gone on the server; then TDLib destroys its database.
TdLoggedOut ==
    /\ td = "loggingOut"
    /\ td' = "destroying"
    /\ valid' = valid \ {binlog.session}
    /\ updates' = updates \o (IF requester = NoHandler THEN <<>>
                              ELSE <<Reply(requester, "ok")>>)
                          \o <<State("closing")>>
    /\ UNCHANGED <<logins, requester, asked, binlog, othersThanTd>>

TdCloses ==
    /\ td \in {"destroying", "closing"}
    /\ td' = "closed" /\ Emit(State("closed"))
    /\ binlog' = IF td = "destroying" THEN NoFile ELSE binlog
    /\ UNCHANGED <<requester, asked, worldVars, othersThanTd>>
-----------------------------------------------------------------------------
MainStep ==
    \/ Restore \/ StartTd \/ RunApp \/ RunReturns \/ WaitForClosed
    \/ SkipFinalPush \/ FinalPush \/ Exit
SyncStep == SyncCheck \/ SyncRead \/ SyncSend \/ SyncFinish
Receive == ReceiveState \/ ReceiveReply
LogoutStep(h) == LogoutSend(h) \/ LogoutRefused(h) \/ LogoutAccepted(h) \/ LogoutAnswered(h)
TdStep ==
    \/ TdNoticesRevoked \/ TdLoggedOut \/ TdCloses
    \/ \E h \in Handlers : TdTakesLogOut(h)

Next ==
    \/ MainStep \/ RestoreCutShort \/ Signal \/ Crash
    \/ Receive
    \/ \E h \in Handlers : LogoutCheck(h) \/ LogoutStep(h) \/ LogoutCallExpires(h)
    \/ Tick \/ SyncStep
    \/ PutStored \/ PutFailed \/ PutHung \/ AbandonedLands
    \/ Login \/ TdWrites \/ Revoke \/ TdStep
    \/ \E h \in Handlers : TdRefusesLogOut(h)

Spec == Init /\ [][Next]_vars

\* The timer ticks, the sync thread runs and S3 answers; that is all a push
\* needs.
SyncFairness == WF_vars(Tick) /\ WF_vars(SyncStep) /\ WF_vars(PutStored)
SyncSpec == Spec /\ SyncFairness

-----------------------------------------------------------------------------
Messages ==
    {State(s) : s \in AuthStates} \cup {Reply(h, r) : h \in Handlers, r \in {"ok", "error"}}

Puts == [by : {"sync", "main"}, data : Files]

TypeOK ==
    /\ AuthTypeOK /\ GateTypeOK
    /\ phase \in {"down", "boot", "serving", "closing", "stopped", "pushing",
                  "stored", "failed"}
    /\ quit \in {"no", "termination", "signal"}
    /\ final \in {"none", "alone", "crowded"}
    /\ disabled \in BOOLEAN
    /\ lastHash \in Files /\ copy \in Files
    /\ retired \in BOOLEAN /\ stale \in BOOLEAN /\ raced \in BOOLEAN
    /\ wire \in Seq(Puts)
    /\ abandoned \subseteq Files
    /\ pc \in [Handlers -> {"idle", "checked", "calling", "polling", "refused", "answered"}]
    /\ reply \in [Handlers -> {"none", "ok", "error"}]
    /\ td \in {"off", "login", "ready", "loggingOut", "destroying", "closing", "closed"}
    /\ requester \in Handlers \cup {NoHandler} /\ asked \subseteq Handlers
    /\ updates \in Seq(Messages)
    /\ binlog \in Files /\ s3 \in Files
    /\ valid \subseteq 1 .. MaxSessions
    /\ logins \in 0 .. MaxSessions
    /\ faults \in 0 .. MaxFaults

\* The final push stores what TDLib left behind: if main saw Closed and pushed
\* with in_flight down, no PUT of the sync thread, begun or still to come, can
\* put an older binlog over it (main.cpp:490-507).  Only a PUT abandoned by a
\* hung loop can, which the comment there admits.
FinalPushIsLast ==
    phase = "stored" /\ state = "closed" /\ final = "alone" /\ ~stale => s3 = binlog

\* A process that carries out a logout asked for over the API does not quit on
\* its own unless one of its logout calls ended in an error (routes.cpp:243-261:
\* expectShutdown before the call, cancelled by an error).
LogoutKeepsProcess ==
    quit = "termination" /\ requester # NoHandler =>
        \E h \in Handlers : pc[h] = "refused"

\* A session that ends from outside, while no logout is under way, makes the
\* process quit instead of answering 409 for ever
\* (auth_state_manager.cpp:80-90), an earlier refused logout notwithstanding.
TerminationReported ==
    phase = "serving" /\ state = "closed" /\ ~raced => quit # "no"

\* The process tells the end of a session it was asked for from one it was not:
\* while no request to log out has been refused it stays up behind a logout of
\* its own, and it quits when the session ends with no logout under way. Logouts
\* that were refused or raced are excused, and may well end the process
\* (StaysUpAfterLogout).
QuitsWhenTerminated == LogoutKeepsProcess /\ TerminationReported

\* What is logged in and stays so is in S3 some day: a failed PUT is repeated
\* and no tick is lost (s3_session.cpp:126-165).  Once a hung loop has been
\* retired its PUT may come last, and last_hash_ keeps the thread from noticing.
Held(s) == phase = "serving" /\ td = "ready" /\ quit = "no" /\ ~disabled /\ ~retired
             /\ binlog.session = s
StoredInS3(s) == s3 \in Snapshots /\ s3.session = s
LoginReachesS3 ==
    \A s \in 1 .. MaxSessions :
        Held(s) ~> ~Held(s) \/ StoredInS3(s)

\* What routes.cpp:243-246 says: after a logout the process does not end, or
\* it would restart and fetch the session from S3 again.
StaysUpAfterLogout == quit = "termination" => requester = NoHandler

===============================================================================
