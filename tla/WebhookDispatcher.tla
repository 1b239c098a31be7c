-------------------------- MODULE WebhookDispatcher --------------------------
(***************************************************************************)
(* WebhookDispatcher (src/src/webhook/webhook_dispatcher.cpp), after       *)
(* start(): dispatch() queues an event, the worker takes the queue as a    *)
(* batch and hands each delivery to the loop thread, which sends the       *)
(* requests.  stop() joins the worker, passes a barrier over the loop,     *)
(* waits for the requests in flight and takes the loop down, or leaves it  *)
(* alone.  The counters of the metrics are left out.                       *)
(***************************************************************************)
EXTENDS Sequences, WebhookRegistry

CONSTANTS
    Events,
    Undeliverable,  \* urls that do not parse or that the guard blocks
    QueueMax,
    Barrier, Quit   \* functors of stop() and of ~LoopThread

ASSUME DispatcherAssumption ==
    /\ Undeliverable \subseteq Hooks
    /\ QueueMax \in Nat
    /\ Barrier # Quit
    /\ {Barrier, Quit} \cap [event : Events, hook : Hooks] = {}

VARIABLES
    queue,      \* queue_
    stop,       \* stop_
    worker,     \* where the worker is
    batch,      \* its batch
    todo,       \* deliveries of the batch it has still to post
    loopQueue,  \* functors queued in the loop
    loop,       \* the loop thread: "up", "hung" or "gone"
    inFlight,   \* requests whose callback is alive: in_flight_
    stopper,    \* where stop() is
    met,        \* history: events that dispatch() was called with
    sent        \* history: deliveries that became requests

queueVars  == <<queue, stop>>
workerVars == <<worker, batch, todo>>
loopVars   == <<loopQueue, loop, inFlight, sent>>
dispatcherVars == <<queueVars, workerVars, loopVars, stopper, met>>

Deliveries == [event : Events, hook : Hooks]
Functors == Deliveries \cup {Barrier, Quit}

DispatcherInit ==
    /\ queue = <<>> /\ stop = FALSE
    /\ worker = "wait" /\ batch = <<>> /\ todo = {}
    /\ loopQueue = <<>> /\ loop = "up" /\ inFlight = {}
    /\ stopper = "idle"
    /\ met = {} /\ sent = {}

-----------------------------------------------------------------------------
MutFullOffByOne == Len(queue) > QueueMax
Full == Len(queue) >= QueueMax

\* Each message gives one event.  None is taken after stop() has begun, and one
\* too many is dropped.
Dispatch(e) ==
    /\ e \notin met
    /\ met' = met \cup {e}
    /\ queue' = IF stop \/ Full THEN queue ELSE Append(queue, e)
    /\ UNCHANGED <<stop, workerVars, loopVars, stopper>>

MutQuitOnStop ==
    /\ worker = "wait" /\ (stop \/ queue # <<>>)
    /\ IF stop
       THEN worker' = "done" /\ UNCHANGED <<batch, queue>>
       ELSE worker' = "snapshot" /\ batch' = queue /\ queue' = batch
    /\ UNCHANGED <<stop, todo, loopVars, stopper, met>>
\* The wait of the worker and the swap that ends it: the queue gets the old
\* batch.
TakeBatch ==
    /\ worker = "wait" /\ (stop \/ queue # <<>>)
    /\ batch' = queue /\ queue' = batch
    /\ worker' = IF queue = <<>> /\ stop THEN "done" ELSE "snapshot"
    /\ UNCHANGED <<stop, todo, loopVars, stopper, met>>

MutEveryHook ==
    /\ worker = "snapshot"
    /\ todo' = [event : {batch[i] : i \in DOMAIN batch},
                hook : {h \in Hooks : hooks[h] # "absent"}]
    /\ worker' = "post"
    /\ UNCHANGED <<batch, queueVars, loopVars, stopper, met>>
\* The copy of the active hooks is made after the batch was taken.
Snapshot ==
    /\ worker = "snapshot"
    /\ todo' = [event : {batch[i] : i \in DOMAIN batch}, hook : ActiveHooks]
    /\ worker' = "post"
    /\ UNCHANGED <<batch, queueVars, loopVars, stopper, met>>

\* queueInLoop of one delivery; their order tells nothing.
Post ==
    /\ worker = "post"
    /\ \E d \in todo :
         /\ todo' = todo \ {d}
         /\ loopQueue' = Append(loopQueue, d)
    /\ UNCHANGED <<worker, batch, queueVars, loop, inFlight, sent, stopper, met>>

MutBatchKept ==
    /\ worker = "post" /\ todo = {}
    /\ worker' = "wait"
    /\ UNCHANGED <<batch, todo, queueVars, loopVars, stopper, met>>
ClearBatch ==
    /\ worker = "post" /\ todo = {}
    /\ batch' = <<>>
    /\ worker' = "wait"
    /\ UNCHANGED <<todo, queueVars, loopVars, stopper, met>>

-----------------------------------------------------------------------------
(***************************************************************************)
(* The loop thread.                                                        *)
(***************************************************************************)
othersThanLoop == <<queueVars, workerVars, stopper, met>>
LoopTakes == loop = "up" /\ loopQueue # <<>> /\ loopQueue' = Tail(loopQueue)

\* deliverOnLoop: the request counts as in flight until its callback is gone.
Deliver ==
    /\ LoopTakes
    /\ Head(loopQueue) \in Deliveries
    /\ LET d == Head(loopQueue)
       IN  IF d.hook \in Undeliverable
           THEN UNCHANGED <<inFlight, sent>>
           ELSE inFlight' = inFlight \cup {d} /\ sent' = sent \cup {d}
    /\ UNCHANGED <<loop, othersThanLoop>>

\* An answer, an error or the timeout of the request.
Answered(d) ==
    /\ loop = "up" /\ d \in inFlight
    /\ inFlight' = inFlight \ {d}
    /\ UNCHANGED <<loopQueue, loop, sent, othersThanLoop>>

PassBarrier ==
    /\ LoopTakes
    /\ Head(loopQueue) = Barrier
    /\ stopper' = IF stopper = "barrier" THEN "drain" ELSE stopper
    /\ UNCHANGED <<loop, inFlight, sent, queueVars, workerVars, met>>

\* Functors behind the quit and callbacks of open requests die with the loop.
QuitLoop ==
    /\ LoopTakes
    /\ Head(loopQueue) = Quit
    /\ loop' = "gone"
    /\ UNCHANGED <<inFlight, sent, othersThanLoop>>

\* Only something that runs on the loop can hang it.
Hang ==
    /\ loop = "up"
    /\ inFlight # {} \/ (loopQueue # <<>> /\ Head(loopQueue) \in Deliveries)
    /\ loop' = "hung"
    /\ UNCHANGED <<loopQueue, inFlight, sent, othersThanLoop>>

-----------------------------------------------------------------------------
(***************************************************************************)
(* stop(), called by main once the bridge is stopped.                      *)
(***************************************************************************)
StopTo(label) == stopper' = label

RequestStop ==
    /\ stopper = "idle"
    /\ stop' = TRUE
    /\ StopTo("join")
    /\ UNCHANGED <<queue, workerVars, loopVars, met>>

MutNoBarrier ==
    /\ stopper = "join" /\ worker = "done"
    /\ StopTo("drain")
    /\ UNCHANGED <<queueVars, workerVars, loopVars, met>>
JoinWorker ==
    /\ stopper = "join" /\ worker = "done"
    /\ loopQueue' = Append(loopQueue, Barrier)
    /\ StopTo("barrier")
    /\ UNCHANGED <<queueVars, workerVars, loop, inFlight, sent, met>>

\* Five seconds are over: the loop is left to itself, slow or hung.
BarrierTimesOut ==
    /\ stopper = "barrier"
    /\ StopTo("leaked")
    /\ UNCHANGED <<queueVars, workerVars, loopVars, met>>

\* The wait ends early at zero, and at the deadline in any case; then the
\* counter is read once more.
MutNoDeadline ==
    /\ stopper = "drain" /\ inFlight = {}
    /\ loopQueue' = Append(loopQueue, Quit) /\ StopTo("teardown")
    /\ UNCHANGED <<queueVars, workerVars, loop, inFlight, sent, met>>
EndDrain ==
    /\ stopper = "drain"
    /\ IF inFlight = {}
       THEN loopQueue' = Append(loopQueue, Quit) /\ StopTo("teardown")
       ELSE StopTo("leaked") /\ UNCHANGED loopQueue
    /\ UNCHANGED <<queueVars, workerVars, loop, inFlight, sent, met>>

JoinLoop ==
    /\ stopper = "teardown" /\ loop = "gone"
    /\ StopTo("stopped")
    /\ UNCHANGED <<queueVars, workerVars, loopVars, met>>

LoopStep == Deliver \/ PassBarrier \/ QuitLoop
StopStep == JoinWorker \/ BarrierTimesOut \/ EndDrain \/ JoinLoop

-----------------------------------------------------------------------------
DispatcherTypeOK ==
    /\ queue \in Seq(Events) /\ Len(queue) <= QueueMax
    /\ stop \in BOOLEAN
    /\ worker \in {"wait", "snapshot", "post", "done"}
    /\ batch \in Seq(Events)
    /\ todo \subseteq Deliveries
    /\ loopQueue \in Seq(Functors)
    /\ loop \in {"up", "hung", "gone"}
    /\ inFlight \subseteq Deliveries
    /\ stopper \in {"idle", "join", "barrier", "drain", "teardown", "leaked", "stopped"}
    /\ met \subseteq Events /\ sent \subseteq Deliveries

\* The loop is never taken down under a live request or one still to be sent
\* (webhook_dispatcher.cpp:425-464).
LoopGoneIdle ==
    loop = "gone" =>
        inFlight = {} /\ \A i \in DOMAIN loopQueue : loopQueue[i] \notin Deliveries

\* No event goes to a hook twice, although batch and queue are swapped to and
\* fro (webhook_dispatcher.cpp:386, 403).
NeverSentTwice ==
    /\ \A i, j \in DOMAIN loopQueue :
         loopQueue[i] = loopQueue[j] => i = j
    /\ \A i \in DOMAIN loopQueue : loopQueue[i] \notin sent \cup todo
    /\ sent \cap todo = {}
==============================================================================
