------------------------------ MODULE Webhooks ------------------------------
(***************************************************************************)
(* The webhooks of a gateway: routes change the registry                   *)
(* (src/src/http/webhook_routes.cpp), the hook coroutines dispatch events, *)
(* main stops the dispatcher, and a process that ends is followed by       *)
(* another one that loads what the first has stored (src/src/main.cpp).    *)
(***************************************************************************)
EXTENDS WebhookDispatcher

VARIABLE eligible   \* history: hooks active at some time since an event came

vars == <<registryVars, dispatcherVars, eligible>>

Init ==
    /\ RegistryInit
    /\ DispatcherInit
    /\ eligible = [e \in Events |-> {}]

\* The IO loops live until the app has quit, before stop() is called.
Mutate ==
    /\ stopper = "idle"
    /\ \E h \in Hooks : Remove(h) \/ \E active \in BOOLEAN : Add(h, active)
    /\ eligible' = [e \in Events |->
                      IF e \in met THEN eligible[e] \cup ActiveHooks' ELSE {}]
    /\ UNCHANGED dispatcherVars

Save ==
    /\ \E save \in saves : SaveLands(save) \/ SaveIsLost(save)
    /\ UNCHANGED <<dispatcherVars, eligible>>

\* A coroutine of the hook has its event.  bridge.stop() has joined the receiver
\* before main calls stop(), so none comes later.
EventComes ==
    /\ stopper = "idle"
    /\ \E e \in Events :
         Dispatch(e) /\ eligible' = [eligible EXCEPT ![e] = ActiveHooks]
    /\ UNCHANGED registryVars

WorkerStep ==
    /\ TakeBatch \/ Snapshot \/ Post \/ ClearBatch
    /\ UNCHANGED <<registryVars, eligible>>

Loop ==
    /\ LoopStep
    /\ UNCHANGED <<registryVars, eligible>>

World ==
    /\ Hang \/ \E d \in inFlight : Answered(d)
    /\ UNCHANGED <<registryVars, eligible>>

BeginStop == RequestStop /\ UNCHANGED <<registryVars, eligible>>
Stop == StopStep /\ UNCHANGED <<registryVars, eligible>>

\* The end of the process, after stop() or by a crash, and the next start.
Restart ==
    /\ Reload
    /\ queue' = <<>> /\ stop' = FALSE
    /\ worker' = "wait" /\ batch' = <<>> /\ todo' = {}
    /\ loopQueue' = <<>> /\ loop' = "up" /\ inFlight' = {}
    /\ stopper' = "idle"
    /\ met' = {} /\ sent' = {}
    /\ eligible' = [e \in Events |-> {}]

Next ==
    \/ Mutate \/ Save \/ EventComes
    \/ WorkerStep \/ Loop \/ World
    \/ BeginStop \/ Stop
    \/ Restart

\* The worker, the loop unless it hangs and main run, and the budgets of
\* stop() run out.
Spec ==
    /\ Init /\ [][Next]_vars
    /\ WF_vars(WorkerStep) /\ WF_vars(Loop) /\ WF_vars(Stop)

-----------------------------------------------------------------------------
TypeOK ==
    /\ RegistryTypeOK
    /\ DispatcherTypeOK
    /\ eligible \in [Events -> SUBSET Hooks]

\* An event goes only to hooks that were active when it came or later: after
\* the answer to DELETE, or to a POST that pauses a hook, no new event reaches
\* it, for the worker copies the active hooks after it has taken the batch
\* (webhook_dispatcher.cpp:386-391).
OnlyToItsHooks ==
    \A d \in todo \cup inFlight \cup {loopQueue[i] : i \in DOMAIN loopQueue} :
        d \in Deliveries => d.hook \in eligible[d.event]

\* stop() loses no event that dispatch() has accepted: the worker leaves only
\* with an empty queue, and a hook active all the time gets its request unless
\* the loop is given up (webhook_dispatcher.cpp:385-389, 425-437).
Accepted(e) == \E i \in DOMAIN queue : queue[i] = e
AcceptedIsPosted ==
    \A e \in Events, h \in Hooks \ Undeliverable :
        Accepted(e) /\ hooks[h] = "active" ~>
            \/ [event |-> e, hook |-> h] \in sent
            \/ hooks[h] # "active"
            \/ loop = "hung"
            \/ e \notin met

\* stop() returns, whatever receivers do and even if one of them hangs the
\* loop.
StopReturns == stopper = "join" ~> stopper \in {"idle", "leaked", "stopped"}
=============================================================================
