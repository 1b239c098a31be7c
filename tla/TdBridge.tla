------------------------------ MODULE TdBridge ------------------------------
(***************************************************************************)
(* The bridge between request/response coroutines and asynchronous TDLib   *)
(* (src/src/bridge), with the threads and event loops of main.cpp that     *)
(* drive it: co_await invoke() on any thread, the receiver thread with its *)
(* TTL sweep, the signal thread's drain, and the main thread's shutdown    *)
(* tail.  Time is abstracted to what the code reads off the clock: a sweep *)
(* may be due, and finds some of the deadlines passed.                     *)
(***************************************************************************)
EXTENDS Integers, FiniteSets

CONSTANTS
    Coros,        \* coroutines that call invoke()
    NoCoro,       \* no coroutine: a request id not given out yet
    HookCoros,    \* those the webhook hook starts on the receiver thread
    IoLoops,      \* Drogon's IO event loops, one thread each
    MaxInflight,  \* BridgeConfig::max_inflight
    MaxId         \* bound on the request ids given out before the final close

ASSUME BridgeAssumption ==
    /\ HookCoros \subseteq Coros
    /\ IoLoops \cap {"main", "receiver", "signal"} = {}
    /\ MaxInflight \in Nat
    /\ MaxId \in Nat

Workers == {"main", "receiver", "signal"}   \* threads that resolve calls
Loops   == IoLoops \cup {"main"}            \* threads that run an event loop
Threads == IoLoops \cup Workers
Ids     == 1 .. MaxId + 1                   \* the last one serves close
NoId    == 0

\* What receive() returns besides an answer: an update (request_id 0) or,
\* after its timeout, no object.
Update  == 0
Nothing == -1

Phases == {"none", "Pending", "Fulfilled", "TimedOut", "Rejected"}

Unknown       == [kind |-> "unknown"]
Answer(i)     == [kind |-> "answer", of |-> i]
TimeoutError  == [kind |-> "UPSTREAM_TIMEOUT"]
BusyError     == [kind |-> "SERVICE_BUSY"]
ShutdownError == [kind |-> "UPSTREAM_SHUTDOWN"]
Outcomes == {Unknown, TimeoutError, BusyError, ShutdownError}
                \cup {Answer(i) : i \in Ids}

VARIABLES
    (* RequestState, one per request id *)
    nextId,    \* RequestIdGenerator
    phase,     \* phase[i]
    result,    \* result[i]
    waiter,    \* waiter[i] : the coroutine behind handle
    home,      \* home[i] : the loop the resume is marshalled to
    corr,      \* CorrelationMap: the ids registered in it
    (* the coroutines and where they run *)
    co,        \* co[c] : "unborn", "running", "suspended" or "done"
    host,      \* host[c] : the thread running c
    awaiting,  \* awaiting[c] : the call c is suspended on, or NoId
    sending,   \* sending[t] : call whose await_suspend is between tryInsert
               \* and transport.send on thread t, or NoId
    (* resolution in progress on each worker *)
    todo,      \* todo[w] : ids claimed from the map and not resolved yet
    handoff,   \* handoff[w] : call resolved whose coroutine is still owed
    viaLoop,   \* viaLoop[w] : what isRunning() said of its loop
    (* event loops *)
    up,        \* up[l] : isRunning()
    quitting,  \* quitting[l] : the quit command is in l's queue
    ready,     \* ready[l] : resumes queued in l that it will run
    late,      \* late[l] : resumes queued behind the quit that it will not
    (* TDLib *)
    sent,      \* ids handed to TDLib whose answer the receiver has not taken
    (* control *)
    rpc,       \* where runReceiveLoop is
    resp,      \* the response the receiver holds
    stopping,  \* stopping_
    spc,       \* the signal thread
    mpc        \* the main thread

requestVars == <<nextId, phase, result, waiter, home, corr>>
coroVars    == <<co, host, awaiting, sending>>
workVars    == <<todo, handoff, viaLoop>>
loopVars    == <<up, quitting, ready, late>>
ctlVars     == <<rpc, resp, stopping, spc, mpc>>
vars == <<requestVars, coroVars, workVars, loopVars, sent, ctlVars>>

Init ==
    /\ nextId = 1
    /\ phase = [i \in Ids |-> "none"]
    /\ result = [i \in Ids |-> Unknown]
    /\ waiter = [i \in Ids |-> NoCoro]
    /\ home = [i \in Ids |-> "main"]
    /\ corr = {}
    /\ co = [c \in Coros |-> "unborn"]
    /\ host = [c \in Coros |-> "main"]
    /\ awaiting = [c \in Coros |-> NoId]
    /\ sending = [t \in Threads |-> NoId]
    /\ todo = [w \in Workers |-> {}]
    /\ handoff = [w \in Workers |-> NoId]
    /\ viaLoop = [w \in Workers |-> FALSE]
    /\ up = [l \in Loops |-> FALSE]
    /\ quitting = [l \in Loops |-> FALSE]
    /\ ready = [l \in Loops |-> {}]
    /\ late = [l \in Loops |-> {}]
    /\ sent = {}
    /\ rpc = "check"
    /\ resp = Nothing
    /\ stopping = FALSE
    /\ spc = "sigwait"
    /\ mpc = "boot"
-----------------------------------------------------------------------------

(***************************************************************************)
(* Small pieces of the code that the handlers below share.                 *)
(***************************************************************************)

\* The loop a coroutine on thread t is sent back to: t's own, or the main
\* loop when t runs none (await_suspend).
MutHomeAlwaysMain(t) == "main"
HomeLoop(t) == IF t \in Loops THEN t ELSE "main"

\* tryInsert refuses at the limit.
MutFullOffByOne == Cardinality(corr) > MaxInflight
Full == Cardinality(corr) >= MaxInflight

MutIdFromZero == nextId - 1
FreshId == nextId

\* find + erase under the map's mutex.
MutFindWithoutErase(ids) == corr' = corr
Unregister(ids) == corr' = corr \ ids

\* Nothing runs on thread t and it is not inside await_suspend.
Idle(t) ==
    /\ sending[t] = NoId
    /\ \A c \in Coros : co[c] = "running" => host[c] # t

\* Worker w is back in its own code: not inside a coroutine, no call half resolved.
AtTop(w) == Idle(w) /\ handoff[w] = NoId

\* handle.resume() on thread t.
ResumeOn(c, t) ==
    /\ co' = [co EXCEPT ![c] = "running"]
    /\ host' = [host EXCEPT ![c] = t]
    /\ awaiting' = [awaiting EXCEPT ![c] = NoId]

\* What a worker resolves its claimed calls with.
Verdict(w) ==
    IF w # "receiver" THEN "Rejected"
    ELSE IF rpc = "sweep" THEN "TimedOut" ELSE "Fulfilled"

VerdictResult(w) ==
    CASE Verdict(w) = "Rejected"  -> ShutdownError
      [] Verdict(w) = "TimedOut"  -> TimeoutError
      [] Verdict(w) = "Fulfilled" -> Answer(resp)

\* sendOneWay: a fresh id that is never registered in the map.
SendOneWay ==
    /\ nextId' = nextId + 1
    /\ sent' = sent \cup {nextId}

-----------------------------------------------------------------------------
(***************************************************************************)
(* Coroutines: an HTTP handler on an IO loop, or a hook on the receiver.   *)
(***************************************************************************)

StartHandler(c, l) ==
    /\ c \notin HookCoros /\ co[c] = "unborn"
    /\ up[l] /\ Idle(l)
    /\ co' = [co EXCEPT ![c] = "running"]
    /\ host' = [host EXCEPT ![c] = l]
    /\ UNCHANGED <<requestVars, awaiting, sending, workVars, loopVars, sent, ctlVars>>

\* await_suspend when the map has room: the entry is inserted, the coroutine
\* counts as suspended from here on, and the send is still to come.
InvokeAccepted(c) ==
    LET t == host[c]
        i == FreshId
    IN  /\ co[c] = "running" /\ sending[t] = NoId
        /\ nextId <= MaxId
        /\ ~Full
        /\ nextId' = nextId + 1
        /\ phase' = [phase EXCEPT ![i] = "Pending"]
        /\ waiter' = [waiter EXCEPT ![i] = c]
        /\ home' = [home EXCEPT ![i] = HomeLoop(t)]
        /\ corr' = corr \cup {i}
        /\ co' = [co EXCEPT ![c] = "suspended"]
        /\ awaiting' = [awaiting EXCEPT ![c] = i]
        /\ sending' = [sending EXCEPT ![t] = i]
        /\ UNCHANGED <<result, host, workVars, loopVars, sent, ctlVars>>

\* await_suspend over the limit: 503 at once, the coroutine goes on.
InvokeRefused(c) ==
    LET i == FreshId
    IN  /\ co[c] = "running" /\ sending[host[c]] = NoId
        /\ nextId <= MaxId
        /\ Full
        /\ nextId' = nextId + 1
        /\ phase' = [phase EXCEPT ![i] = "Rejected"]
        /\ result' = [result EXCEPT ![i] = BusyError]
        /\ waiter' = [waiter EXCEPT ![i] = c]
        /\ home' = [home EXCEPT ![i] = HomeLoop(host[c])]
        /\ UNCHANGED <<corr, coroVars, workVars, loopVars, sent, ctlVars>>

\* The transport.send of registerAndSend.  It reads the id through state_, a
\* member of the coroutine's frame: if the coroutine has been resumed
\* meanwhile the read is undefined, and the send may go out under an id that
\* nobody waits for, which is the same as losing it.
Send(t) ==
    LET i == sending[t]
    IN  /\ i # NoId
        /\ sending' = [sending EXCEPT ![t] = NoId]
        /\ \/ sent' = sent \cup {i}
           \/ awaiting[waiter[i]] # i /\ UNCHANGED sent
        /\ UNCHANGED <<requestVars, co, host, awaiting, workVars, loopVars, ctlVars>>

Finish(c) ==
    /\ co[c] = "running" /\ sending[host[c]] = NoId
    /\ co' = [co EXCEPT ![c] = "done"]
    /\ host' = [host EXCEPT ![c] = "main"]     \* of no meaning any more
    /\ UNCHANGED <<requestVars, awaiting, sending, workVars, loopVars, sent, ctlVars>>

CoroutineStep(c) == InvokeAccepted(c) \/ InvokeRefused(c) \/ Finish(c)

-----------------------------------------------------------------------------
(***************************************************************************)
(* resolve(): the outcome is written under the state's mutex, isRunning()  *)
(* is sampled, and only then is the resume queued or run in place.         *)
(***************************************************************************)

MutNeverViaLoop(l) == FALSE
LoopRuns(l) == up[l]

Resolve(w) ==
    /\ AtTop(w)
    /\ \E i \in todo[w] :
        /\ todo' = [todo EXCEPT ![w] = @ \ {i}]
        /\ IF phase[i] = "Pending"
           THEN /\ phase' = [phase EXCEPT ![i] = Verdict(w)]
                /\ result' = [result EXCEPT ![i] = VerdictResult(w)]
                /\ handoff' = [handoff EXCEPT ![w] = i]
                /\ viaLoop' = [viaLoop EXCEPT ![w] = LoopRuns(home[i])]
           ELSE UNCHANGED <<phase, result, handoff, viaLoop>>
    /\ UNCHANGED <<nextId, waiter, home, corr, coroVars, loopVars, sent, ctlVars>>

\* queueInLoop: a functor queued behind the quit command may still be run by
\* the loop's last round, or never.
QueueInLoop(w) ==
    LET i == handoff[w]
    IN  /\ i # NoId /\ viaLoop[w]
        /\ handoff' = [handoff EXCEPT ![w] = NoId]
        /\ \/ /\ quitting[home[i]]
              /\ late' = [late EXCEPT ![home[i]] = @ \cup {i}]
              /\ UNCHANGED ready
           \/ /\ up[home[i]]
              /\ ready' = [ready EXCEPT ![home[i]] = @ \cup {i}]
              /\ UNCHANGED late
        /\ viaLoop' = [viaLoop EXCEPT ![w] = FALSE]
        /\ UNCHANGED <<requestVars, coroVars, todo, up, quitting, sent, ctlVars>>

ResumeInPlace(w) ==
    LET i == handoff[w]
    IN  /\ i # NoId /\ ~viaLoop[w]
        /\ handoff' = [handoff EXCEPT ![w] = NoId]
        /\ ResumeOn(waiter[i], w)
        /\ UNCHANGED <<requestVars, sending, todo, viaLoop, loopVars, sent, ctlVars>>

RunFunctor(l) ==
    /\ up[l] /\ Idle(l) /\ (l = "main" => mpc = "serving")
    /\ \E i \in ready[l] :
        /\ ready' = [ready EXCEPT ![l] = @ \ {i}]
        /\ ResumeOn(waiter[i], l)
    /\ UNCHANGED <<requestVars, sending, workVars, up, quitting, late, sent, ctlVars>>

-----------------------------------------------------------------------------
(***************************************************************************)
(* The receiver thread: runReceiveLoop and dispatch.                       *)
(***************************************************************************)

MutIgnoreStopping == FALSE
StopSeen == stopping

CheckStopping ==
    /\ rpc = "check" /\ AtTop("receiver")
    /\ rpc' = IF StopSeen THEN "exited" ELSE "receive"
    /\ UNCHANGED <<requestVars, coroVars, workVars, loopVars, sent,
                   resp, stopping, spc, mpc>>

\* claimExpired(now) when the sweep is due.  It comes before the response just
\* received is looked at, and whether or not there is one.
MutSweepOnlyOnTraffic(r, due) == IF r = Nothing THEN {} ELSE due
SweepOf(r, due) == due

\* transport_.receive() returns r: TDLib answers a query at most once, in any
\* order or never; or it is an update or a timeout.  Then the TTL sweep takes
\* the entries in due, those whose deadline has passed (none of them when the
\* sweep interval has not elapsed).
Receive(r, due) ==
    /\ rpc = "receive"
    /\ sent' = sent \ {r}
    /\ resp' = r
    /\ todo' = [todo EXCEPT !["receiver"] = SweepOf(r, due)]
    /\ Unregister(SweepOf(r, due))
    /\ rpc' = IF SweepOf(r, due) = {} THEN "dispatch" ELSE "sweep"
    /\ UNCHANGED <<nextId, phase, result, waiter, home, coroVars,
                   handoff, viaLoop, loopVars, stopping, spc, mpc>>

\* All calls claimed by the sweep, or by the dispatch, are resolved.
ResolvedAll ==
    /\ rpc \in {"sweep", "resolve"} /\ AtTop("receiver") /\ todo["receiver"] = {}
    /\ IF rpc = "sweep"
       THEN rpc' = "dispatch" /\ UNCHANGED resp
       ELSE rpc' = "check" /\ resp' = Nothing
    /\ UNCHANGED <<requestVars, coroVars, workVars, loopVars, sent,
                   stopping, spc, mpc>>

\* Which entry an answer claims.
MutClaimOldest(r) == {CHOOSE i \in corr : \A j \in corr : i <= j}
EntryOf(r) == {r}

DispatchAnswer ==
    /\ rpc = "dispatch" /\ resp \in corr
    /\ todo' = [todo EXCEPT !["receiver"] = EntryOf(resp)]
    /\ Unregister(EntryOf(resp))
    /\ rpc' = "resolve"
    /\ UNCHANGED <<nextId, phase, result, waiter, home, coroVars,
                   handoff, viaLoop, loopVars, sent, resp, stopping, spc, mpc>>

\* No object, a late or unknown answer, or an update that starts nothing here.
DispatchNothing ==
    /\ rpc = "dispatch" /\ resp \notin corr
    /\ rpc' = "check" /\ resp' = Nothing
    /\ UNCHANGED <<requestVars, coroVars, workVars, loopVars, sent,
                   stopping, spc, mpc>>

\* updateNewMessage: the webhook hook starts a coroutine on this thread.  The
\* getMe coroutine of the Ready callback starts the same way.
DispatchNewMessage(c) ==
    /\ rpc = "dispatch" /\ resp = Update
    /\ c \in HookCoros /\ co[c] = "unborn"
    /\ co' = [co EXCEPT ![c] = "running"]
    /\ host' = [host EXCEPT ![c] = "receiver"]
    /\ rpc' = "check" /\ resp' = Nothing
    /\ UNCHANGED <<requestVars, awaiting, sending, workVars, loopVars, sent,
                   stopping, spc, mpc>>

\* updateConnectionState, keep-online: a one-way setOption (as the loadChats
\* of the Ready callback).
DispatchConnectionReady ==
    /\ rpc = "dispatch" /\ resp = Update
    /\ nextId <= MaxId
    /\ SendOneWay
    /\ rpc' = "check" /\ resp' = Nothing
    /\ UNCHANGED <<phase, result, waiter, home, corr, coroVars, workVars,
                   loopVars, stopping, spc, mpc>>

\* updateAuthorizationState, an unexpected terminal one: quit is queued.
DispatchTermination ==
    /\ rpc = "dispatch" /\ resp = Update
    /\ quitting' = [quitting EXCEPT !["main"] = TRUE]
    /\ rpc' = "check" /\ resp' = Nothing
    /\ UNCHANGED <<requestVars, coroVars, workVars, up, ready, late, sent,
                   stopping, spc, mpc>>

\* A sweep that finds the deadline of call i passed.
SweepFinds(i) ==
    \E r \in sent \cup {Update, Nothing}, due \in SUBSET corr :
        i \in due /\ Receive(r, due)

ReceiverStep ==
    \/ CheckStopping
    \/ \E r \in sent \cup {Update, Nothing}, due \in SUBSET corr : Receive(r, due)
    \/ ResolvedAll
    \/ DispatchAnswer
    \/ DispatchNothing
    \/ \E c \in HookCoros : DispatchNewMessage(c)
    \/ DispatchConnectionReady
    \/ DispatchTermination

-----------------------------------------------------------------------------
(***************************************************************************)
(* The signal thread: drain while the loops still run, then quit.          *)
(***************************************************************************)

SignalDrain ==
    /\ spc = "sigwait" /\ mpc # "stopped"
    /\ todo' = [todo EXCEPT !["signal"] = corr]
    /\ Unregister(corr)
    /\ spc' = "draining"
    /\ UNCHANGED <<nextId, phase, result, waiter, home, coroVars, handoff,
                   viaLoop, loopVars, sent, rpc, resp, stopping, mpc>>

SignalQuit ==
    /\ spc = "draining" /\ AtTop("signal") /\ todo["signal"] = {}
    /\ quitting' = [quitting EXCEPT !["main"] = TRUE]
    /\ spc' = "done"
    /\ UNCHANGED <<requestVars, coroVars, workVars, up, ready, late, sent,
                   rpc, resp, stopping, mpc>>

-----------------------------------------------------------------------------
(***************************************************************************)
(* The main thread: run(), quit(), and the shutdown tail up to the end of  *)
(* bridge.stop().                                                          *)
(***************************************************************************)

RunApp ==
    /\ mpc = "boot" /\ Idle("main")
    /\ up' = [l \in Loops |-> TRUE]
    /\ mpc' = "serving"
    /\ UNCHANGED <<requestVars, coroVars, workVars, quitting, ready, late, sent,
                   rpc, resp, stopping, spc>>

\* The keep-online timer on the main loop.
KeepOnline ==
    /\ mpc = "serving" /\ Idle("main") /\ nextId <= MaxId
    /\ SendOneWay
    /\ UNCHANGED <<phase, result, waiter, home, corr, coroVars, workVars,
                   loopVars, ctlVars>>

\* quit() on the main loop: it tells the IO loops to quit and joins them.
Quit ==
    /\ mpc = "serving" /\ quitting["main"] /\ ready["main"] = {} /\ Idle("main")
    /\ quitting' = [l \in Loops |-> TRUE]
    /\ mpc' = "joinIo"
    /\ UNCHANGED <<requestVars, coroVars, workVars, up, ready, late, sent,
                   rpc, resp, stopping, spc>>

IoLoopExits(l) ==
    /\ l \in IoLoops /\ up[l] /\ quitting[l] /\ ready[l] = {} /\ Idle(l)
    /\ up' = [up EXCEPT ![l] = FALSE]
    /\ UNCHANGED <<requestVars, coroVars, workVars, quitting, ready, late, sent, ctlVars>>

RunReturns ==
    /\ mpc = "joinIo" /\ \A l \in IoLoops : ~up[l]
    /\ up' = [up EXCEPT !["main"] = FALSE]
    /\ mpc' = "close"
    /\ UNCHANGED <<requestVars, coroVars, workVars, quitting, ready, late, sent,
                   rpc, resp, stopping, spc>>

\* expectShutdown, the one-way close, waitForClosed and the first line of
\* bridge.stop().  waitForClosed ends by TDLib's Closed or by its own timeout
\* and what follows is the same, so the wait itself is not a state.
CloseThenStop ==
    /\ mpc = "close"
    /\ SendOneWay
    /\ stopping' = TRUE
    /\ mpc' = "stop"
    /\ UNCHANGED <<phase, result, waiter, home, corr, coroVars, workVars,
                   loopVars, rpc, resp, spc>>

\* The rest of bridge.stop(): drain, then join the receiver.
StopDrains ==
    /\ mpc = "stop"
    /\ todo' = [todo EXCEPT !["main"] = corr]
    /\ Unregister(corr)
    /\ mpc' = "join"
    /\ UNCHANGED <<nextId, phase, result, waiter, home, coroVars, handoff,
                   viaLoop, loopVars, sent, rpc, resp, stopping, spc>>

StopJoins ==
    /\ mpc = "join" /\ AtTop("main") /\ todo["main"] = {}
    /\ rpc = "exited"
    /\ mpc' = "stopped"
    /\ UNCHANGED <<requestVars, coroVars, workVars, loopVars, sent,
                   rpc, resp, stopping, spc>>

MainStep ==
    RunApp \/ Quit \/ RunReturns \/ CloseThenStop \/ StopDrains \/ StopJoins

\* After stop() the process leaves main.
Terminated == mpc = "stopped" /\ UNCHANGED vars

Next ==
    \/ \E c \in Coros, l \in IoLoops : StartHandler(c, l)
    \/ \E c \in Coros : CoroutineStep(c)
    \/ \E t \in Threads : Send(t)
    \/ \E w \in Workers : Resolve(w) \/ QueueInLoop(w) \/ ResumeInPlace(w)
    \/ \E l \in Loops : RunFunctor(l)
    \/ ReceiverStep
    \/ SignalDrain
    \/ SignalQuit
    \/ KeepOnline
    \/ \E l \in IoLoops : IoLoopExits(l)
    \/ MainStep
    \/ Terminated

Spec == Init /\ [][Next]_vars

(***************************************************************************)
(* Fairness.  Threads are never stopped by the code, receive() returns     *)
(* within receive_timeout, time passes and a coroutine reaches its next    *)
(* suspension point.  Nothing is assumed of TDLib's answers, of clients,   *)
(* of updates or of signals.                                               *)
(***************************************************************************)
Fairness ==
    /\ WF_vars(ReceiverStep)
    /\ \A c \in Coros : WF_vars(CoroutineStep(c))
    /\ \A t \in Threads : WF_vars(Send(t))
    /\ \A w \in Workers :
         WF_vars(Resolve(w)) /\ WF_vars(QueueInLoop(w)) /\ WF_vars(ResumeInPlace(w))
    /\ \A l \in Loops : WF_vars(RunFunctor(l)) /\ WF_vars(IoLoopExits(l))
    /\ \A i \in Ids : SF_vars(SweepFinds(i))
    /\ WF_vars(SignalQuit)
    /\ WF_vars(MainStep)

FairSpec == Spec /\ Fairness

-----------------------------------------------------------------------------
(***************************************************************************)
(* Properties.                                                             *)
(***************************************************************************)

\* Every variable has its type.  An id out of Ids (0 above all, which TDLib
\* uses for updates) would show here: RequestIdGenerator::next.
TypeOK ==
    /\ nextId \in 1 .. MaxId + 2
    /\ phase \in [Ids -> Phases]
    /\ result \in [Ids -> Outcomes]
    /\ waiter \in [Ids -> Coros \cup {NoCoro}]
    /\ home \in [Ids -> Loops]
    /\ corr \subseteq Ids
    /\ co \in [Coros -> {"unborn", "running", "suspended", "done"}]
    /\ host \in [Coros -> Threads]
    /\ awaiting \in [Coros -> Ids \cup {NoId}]
    /\ sending \in [Threads -> Ids \cup {NoId}]
    /\ todo \in [Workers -> SUBSET Ids]
    /\ handoff \in [Workers -> Ids \cup {NoId}]
    /\ viaLoop \in [Workers -> BOOLEAN]
    /\ up \in [Loops -> BOOLEAN]
    /\ quitting \in [Loops -> BOOLEAN]
    /\ ready \in [Loops -> SUBSET Ids]
    /\ late \in [Loops -> SUBSET Ids]
    /\ sent \subseteq Ids
    /\ rpc \in {"check", "receive", "sweep", "dispatch", "resolve", "exited"}
    /\ resp \in Ids \cup {Update, Nothing}
    /\ stopping \in BOOLEAN
    /\ spc \in {"sigwait", "draining", "done"}
    /\ mpc \in {"boot", "serving", "joinIo", "close", "stop", "join", "stopped"}

\* The resumes a loop holds, those it will never run included.
Queued(l) == ready[l] \cup late[l]

\* An unresolved call is in one place only, the map or one worker's list,
\* and it is Pending: whoever took the node out owns the resolution
\* (request_state.hpp:20, correlation_map.hpp:14-16).
UnresolvedInOnePlace ==
    /\ \A i \in corr : phase[i] = "Pending"
    /\ \A w \in Workers : \A i \in todo[w] : phase[i] = "Pending" /\ i \notin corr
    /\ \A w1, w2 \in Workers : w1 # w2 => todo[w1] \cap todo[w2] = {}

\* A resolved call whose coroutine is still owed is with one worker or in one
\* loop's queue, never twice.
OwedInOnePlace ==
    /\ \A w \in Workers : handoff[w] # NoId =>
         /\ phase[handoff[w]] \notin {"none", "Pending"}
         /\ \A l \in Loops : handoff[w] \notin Queued(l)
    /\ \A w1, w2 \in Workers :
         w1 # w2 /\ handoff[w1] # NoId => handoff[w1] # handoff[w2]
    /\ \A l \in Loops : \A i \in Queued(l) :
         phase[i] \notin {"none", "Pending"} /\ home[i] = l
    /\ \A l \in Loops : ready[l] \cap late[l] = {}

\* Call i is resolved and its coroutine is still to be woken.
Owed(i) ==
    \/ \E w \in Workers : i = handoff[w]
    \/ \E l \in Loops : i \in Queued(l)

\* i is somewhere on its way to be resumed.
InTransit(i) ==
    \/ i \in corr
    \/ \E w \in Workers : i \in todo[w]
    \/ Owed(i)

\* Duties and sleepers match one to one: whatever is in transit has its own
\* coroutine asleep on it, and every sleeping coroutine is in transit.  With
\* the two above, no coroutine is resumed twice, none is resumed while it
\* runs, and none is forgotten outside the structures that wake it.
SleepersMatchDuties ==
    /\ \A i \in Ids : InTransit(i) =>
         /\ waiter[i] \in Coros
         /\ co[waiter[i]] = "suspended"
         /\ awaiting[waiter[i]] = i
    /\ \A c \in Coros : co[c] = "suspended" =>
         /\ awaiting[c] \in Ids
         /\ InTransit(awaiting[c])
         /\ waiter[awaiting[c]] = c

\* Sole resolution (td_bridge.cpp resolve, correlation_map.cpp claim).
SoleResolution == UnresolvedInOnePlace /\ OwedInOnePlace /\ SleepersMatchDuties

\* A request id not given out yet has no call behind it.
FreshUnborn == \A i \in Ids : i >= nextId => phase[i] = "none"

\* A worker holds claimed calls only between its claim and the end of its
\* batch, and the receiver's dispatch claims the call it has the answer of.
ClaimsMatchControl ==
    /\ rpc \notin {"sweep", "resolve"} => todo["receiver"] = {}
    /\ rpc = "resolve" => todo["receiver"] \subseteq {resp}
    /\ spc # "draining" => todo["signal"] = {}
    /\ mpc # "join" => todo["main"] = {}

\* The bound on ids leaves one for the final close.
IdLeftForClose ==
    mpc \in {"boot", "serving", "joinIo", "close"} => nextId <= MaxId + 1

\* The inductive invariant behind the properties of this module.
BridgeInv ==
    TypeOK /\ FreshUnborn /\ IdLeftForClose /\ ClaimsMatchControl /\ SoleResolution

\* The map never holds more than max_inflight entries, whatever thread calls
\* invoke and whatever the sweep and the drains do meanwhile (tryInsert).
InflightBounded == Cardinality(corr) <= MaxInflight

\* An outcome is earned: an answer is the answer to this call, and a shutdown
\* error comes only after a shutdown began (dispatch, drainPending).
OutcomeEarned ==
    \A i \in Ids :
        /\ result[i].kind = "answer" => result[i].of = i
        /\ result[i] = ShutdownError => spc # "sigwait" \/ mpc \in {"join", "stopped"}

ShutdownBegan == spc # "sigwait" \/ mpc \in {"stop", "join", "stopped"}

\* A coroutine inside await_suspend, between insert and send, is not resumed
\* by another thread.  The code keeps this as long as no drain has begun
\* (registerAndSend reads state_ out of the coroutine's frame).
NotOvertaken ==
    \A t \in Threads : sending[t] # NoId =>
        awaiting[waiter[sending[t]]] = sending[t]
NotOvertakenWhileServing == ~ShutdownBegan => NotOvertaken

\* A handler that fell asleep on an IO loop wakes on that loop as long as the
\* loop runs (td_bridge.cpp:90-91, queueInLoop guarantees the thread).
WakesOnItsLoop ==
    [][\A c \in Coros :
          co[c] = "suspended" /\ co'[c] = "running"
            /\ host[c] \in IoLoops /\ up[host[c]]
              => host'[c] = host[c]]_vars

\* The invariant behind it: a call goes home to the loop its coroutine slept
\* on, nothing runs on the IO loops before app().run(), and a resume is done
\* in place only when isRunning() said FALSE, which for an IO loop is final.
HomeInv ==
    /\ \A c \in Coros : co[c] = "suspended" => home[awaiting[c]] = HomeLoop(host[c])
    /\ mpc = "boot" => /\ \A l \in Loops : ~ up[l]
                       /\ \A c \in Coros : co[c] \in {"running", "suspended"}
                                             => host[c] \notin IoLoops
    /\ \A w \in Workers :
         LET i == handoff[w]
         IN  i # NoId /\ ~ viaLoop[w] /\ home[i] \in IoLoops => ~ up[home[i]]

\* The bridge implements the contract of invoke().
Stage(i) ==
    IF phase[i] = "none" THEN "unborn"
    ELSE IF phase[i] = "Pending" THEN "open"
    ELSE IF Owed(i) THEN "settled" ELSE "resumed"

Contract == INSTANCE CallContract
    WITH Calls <- Ids, stage <- [i \in Ids |-> Stage(i)], outcome <- result
ImplementsContract == Contract!Spec

\* While the service is not shutting down every call returns: by its answer
\* or by the TTL sweep (runReceiveLoop).
EveryCallReturns ==
    \A c \in Coros : co[c] = "suspended"
        ~> (co[c] # "suspended" \/ ShutdownBegan \/ quitting["main"])

\* Once asked to stop, the process gets through stop(): no join waits for a
\* thread that waits for it (quit, stop).
ShutdownFinishes == (spc # "sigwait" \/ quitting["main"]) ~> mpc = "stopped"
=============================================================================
