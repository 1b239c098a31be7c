--------------------------- MODULE Webhooks_proofs ---------------------------
(***************************************************************************)
(* Safety of Webhooks for any hooks, events and queue limit: what S3 has   *)
(* once the saves are over, who gets an event, and that the loop is taken  *)
(* down idle.                                                              *)
(***************************************************************************)
EXTENDS Webhooks, SequenceTheorems, TLAPS

\* The save numbered like the last mutation holds the registry as it is, and
\* until it is done nothing is lost.
SaveInv ==
    /\ \A save \in saves : save.n <= mutations
    /\ \A save \in saves : IsLast(save) => save.snapshot = hooks
    /\ ~lost => LastUnderWay \/ stored = hooks

\* Between two batches the worker holds nothing: the swap empties the queue.
WorkerInv == worker \in {"wait", "done"} => batch = <<>> /\ todo = {}

\* How far stop() has come, against the worker and what the loop has to do.
StopInv ==
    /\ stopper \notin {"idle", "join"} => worker = "done"
    /\ stopper \in {"idle", "join"} =>
         loop # "gone" /\ \A i \in DOMAIN loopQueue : loopQueue[i] \in Deliveries
    /\ stopper = "barrier" =>
         /\ loop # "gone" /\ loopQueue # <<>>
         /\ \A i \in DOMAIN loopQueue :
              loopQueue[i] = Barrier \/ (loopQueue[i] \in Deliveries /\ i < Len(loopQueue))
         /\ \A i \in DOMAIN loopQueue : loopQueue[i] = Barrier => i = Len(loopQueue)
    /\ stopper = "drain" => loop # "gone" /\ loopQueue = <<>>
    /\ stopper = "teardown" =>
         inFlight = {} /\ loopQueue = IF loop = "gone" THEN <<>> ELSE <<Quit>>
    /\ stopper = "stopped" => inFlight = {} /\ loopQueue = <<>>
    /\ stopper = "leaked" =>
         loop # "gone" /\ \A i \in DOMAIN loopQueue : loopQueue[i] # Quit

\* Every event on its way has come, and its hooks were active since.
Allowed(d) == d.event \in met /\ d.hook \in eligible[d.event]
EventInv ==
    /\ \A i \in DOMAIN queue : queue[i] \in met
    /\ \A i \in DOMAIN batch : batch[i] \in met
    /\ \A e \in met : ActiveHooks \subseteq eligible[e]
    /\ \A d \in todo \cup inFlight : Allowed(d)
    /\ \A i \in DOMAIN loopQueue : loopQueue[i] \in Deliveries => Allowed(loopQueue[i])

IInv == TypeOK /\ SaveInv /\ WorkerInv /\ StopInv /\ EventInv

USE RegistryAssumption, DispatcherAssumption
USE DEF RegistryAssumption, DispatcherAssumption, registryVars, queueVars, workerVars,
        loopVars, othersThanLoop, dispatcherVars

\* An add or a remove: the registry takes the new entry, and its snapshot waits
\* for a thread.
LEMMA Mutations ==
    ASSUME RegistryTypeOK, Mutate
    PROVE  \E h \in Hooks, entry \in {"absent", "active", "paused"} : Change(h, entry)
  BY DEF Mutate, Add, Remove

\* Every step keeps the types of the registry.
LEMMA RegistryTypes ==
    ASSUME RegistryTypeOK, [Next]_vars
    PROVE  RegistryTypeOK'
<1> USE DEF RegistryTypeOK
<1>1. CASE Mutate
  <2>1. PICK h \in Hooks, entry \in {"absent", "active", "paused"} : Change(h, entry)
    BY <1>1, Mutations
  <2>2. [hooks EXCEPT ![h] = entry] \in Registries
    BY <2>1 DEF Registries
  <2>3. mutations' \in 1 .. MaxMutations
    BY <2>1 DEF Change, Persist
  <2>4. [n |-> mutations', snapshot |-> hooks'] \in Saves /\ hooks' \in Registries
    BY <2>1, <2>2, <2>3 DEF Change, Saves
  <2>5. saves' = saves \cup {[n |-> mutations', snapshot |-> hooks']} /\ UNCHANGED stored
        /\ lost' = FALSE
    BY <2>1 DEF Change, Persist
  <2>6. saves' \subseteq Saves
    BY <2>4, <2>5
  <2>7. mutations' \in 0 .. MaxMutations
    BY <2>3
  <2> QED
    BY <2>4, <2>5, <2>6, <2>7
<1>2. CASE Save
  BY <1>2 DEF Save, SaveLands, SaveIsLost, Saves
<1>3. CASE Restart
  BY <1>3 DEF Restart, Reload, Saves, Registries, Empty
<1>4. CASE EventComes \/ WorkerStep \/ Loop \/ World \/ BeginStop \/ Stop \/ UNCHANGED vars
  BY <1>4 DEF EventComes, WorkerStep, Loop, World, BeginStop, Stop, vars
<1> QED
  BY <1>1, <1>2, <1>3, <1>4 DEF Next

\* Every step keeps the types of the dispatcher, the swap of the batch included.
LEMMA DispatcherTypes ==
    ASSUME DispatcherTypeOK, WorkerInv, [Next]_vars
    PROVE  DispatcherTypeOK'
<1> USE DEF DispatcherTypeOK
<1>1. CASE EventComes
  BY <1>1 DEF EventComes, Dispatch, Full
<1>2. CASE WorkerStep
  <2>1. CASE TakeBatch
    BY <1>2, <2>1 DEF TakeBatch, WorkerInv
  <2>2. CASE Snapshot
    <3>1. todo' \subseteq Deliveries
      BY <2>2 DEF Snapshot, Deliveries, ActiveHooks
    <3> QED
      BY <2>2, <3>1 DEF Snapshot
  <2>3. CASE Post
    BY <2>3 DEF Post, Functors
  <2>4. CASE ClearBatch
    BY <2>4 DEF ClearBatch
  <2> QED
    BY <1>2, <2>1, <2>2, <2>3, <2>4 DEF WorkerStep
<1>3. CASE Loop
  <2>1. CASE Deliver
    BY <2>1 DEF Deliver, LoopTakes
  <2>2. CASE PassBarrier
    BY <2>2 DEF PassBarrier, LoopTakes
  <2>3. CASE QuitLoop
    BY <2>3 DEF QuitLoop, LoopTakes
  <2> QED
    BY <1>3, <2>1, <2>2, <2>3 DEF Loop, LoopStep
<1>4. CASE World
  BY <1>4 DEF World, Hang, Answered
<1>5. CASE BeginStop
  BY <1>5 DEF BeginStop, RequestStop, StopTo
<1>6. CASE Stop
  <2>1. Append(loopQueue, Barrier) \in Seq(Functors) /\ Append(loopQueue, Quit) \in Seq(Functors)
    BY DEF Functors
  <2>2. loopQueue' \in Seq(Functors)
    BY <1>6, <2>1 DEF Stop, StopStep, JoinWorker, BarrierTimesOut, EndDrain, JoinLoop
  <2>3. stopper' \in {"barrier", "leaked", "teardown", "stopped"}
    BY <1>6 DEF Stop, StopStep, JoinWorker, BarrierTimesOut, EndDrain, JoinLoop, StopTo
  <2>4. UNCHANGED <<queueVars, workerVars, loop, inFlight, sent, met>>
    BY <1>6 DEF Stop, StopStep, JoinWorker, BarrierTimesOut, EndDrain, JoinLoop
  <2> QED
    BY <2>2, <2>3, <2>4
<1>7. CASE Restart
  <2>1. <<>> \in Seq(Events) /\ Len(<<>>) = 0 /\ <<>> \in Seq(Functors)
    OBVIOUS
  <2>2. queue' \in Seq(Events) /\ Len(queue') <= QueueMax /\ batch' \in Seq(Events)
        /\ loopQueue' \in Seq(Functors)
    BY <1>7, <2>1 DEF Restart
  <2>3. todo' \subseteq Deliveries /\ inFlight' \subseteq Deliveries /\ met' \subseteq Events
        /\ sent' \subseteq Deliveries
    BY <1>7 DEF Restart
  <2>4. stop' \in BOOLEAN /\ worker' = "wait" /\ loop' = "up" /\ stopper' = "idle"
    BY <1>7 DEF Restart
  <2> QED
    BY <2>2, <2>3, <2>4
<1>8. CASE Mutate \/ Save \/ UNCHANGED vars
  BY <1>8 DEF Mutate, Save, vars
<1> QED
  BY <1>1, <1>2, <1>3, <1>4, <1>5, <1>6, <1>7, <1>8 DEF Next

\* Every step keeps the hooks an event is eligible for among the hooks.
LEMMA EligibleTypes ==
    ASSUME TypeOK, [Next]_vars
    PROVE  (eligible \in [Events -> SUBSET Hooks])'
<1>1. ActiveHooks \in SUBSET Hooks /\ ActiveHooks' \in SUBSET Hooks
  BY DEF ActiveHooks
<1>2. CASE Mutate
  BY <1>1, <1>2 DEF TypeOK, Mutate
<1>3. CASE EventComes
  BY <1>1, <1>3 DEF TypeOK, EventComes
<1>4. CASE Restart
  BY <1>4 DEF Restart
<1>5. CASE Save \/ WorkerStep \/ Loop \/ World \/ BeginStop \/ Stop \/ UNCHANGED vars
  BY <1>5 DEF TypeOK, Save, WorkerStep, Loop, World, BeginStop, Stop, vars
<1> QED
  BY <1>2, <1>3, <1>4, <1>5 DEF Next

\* Every step keeps the last save under way, done or failed.
LEMMA SaveStep ==
    ASSUME RegistryTypeOK, SaveInv, [Next]_vars
    PROVE  SaveInv'
<1> USE DEF RegistryTypeOK, SaveInv, IsLast, LastUnderWay
<1>1. CASE Mutate
  <2>1. PICK h \in Hooks, entry \in {"absent", "active", "paused"} : Change(h, entry)
    BY <1>1, Mutations
  <2>2. \A save \in saves : save.n \in Nat
    BY DEF Saves
  <2>3. saves' = saves \cup {[n |-> mutations', snapshot |-> hooks']}
        /\ mutations' = mutations + 1 /\ lost' = FALSE
    BY <2>1 DEF Change, Persist
  <2>4. mutations \in Nat
    OBVIOUS
  <2>5. \A save \in saves : save.n <= mutations'
    BY <2>2, <2>3, <2>4
  <2>6. \A save \in saves : save.n # mutations'
    BY <2>2, <2>3, <2>4
  <2>7. \A save \in saves' : save \in saves \/ save = [n |-> mutations', snapshot |-> hooks']
    BY <2>3
  <2>8. \A save \in saves' : save.n <= mutations'
    BY <2>3, <2>4, <2>5, <2>7
  <2>9. \A save \in saves' : save.n = mutations' => save.snapshot = hooks'
    BY <2>6, <2>7
  <2>10. \E save \in saves' : save.n = mutations'
    <3>1. [n |-> mutations', snapshot |-> hooks'] \in saves'
      BY <2>3
    <3>2. [n |-> mutations', snapshot |-> hooks'].n = mutations'
      OBVIOUS
    <3> QED
      BY <3>1, <3>2
  <2> QED
    BY <2>8, <2>9, <2>10
<1>2. CASE Save
  <2>1. PICK save \in saves : SaveLands(save) \/ SaveIsLost(save)
    BY <1>2 DEF Save
  <2>2. CASE SaveLands(save)
    BY <2>2 DEF SaveLands
  <2>3. CASE SaveIsLost(save)
    BY <2>3 DEF SaveIsLost
  <2> QED
    BY <2>1, <2>2, <2>3
<1>3. CASE Restart
  BY <1>3 DEF Restart, Reload
<1>4. CASE EventComes \/ WorkerStep \/ Loop \/ World \/ BeginStop \/ Stop \/ UNCHANGED vars
  BY <1>4 DEF EventComes, WorkerStep, Loop, World, BeginStop, Stop, vars
<1> QED
  BY <1>1, <1>2, <1>3, <1>4 DEF Next

\* No step leaves the worker a batch or deliveries between two rounds.
LEMMA WorkerStepKeeps ==
    ASSUME WorkerInv, DispatcherTypeOK, [Next]_vars
    PROVE  WorkerInv'
<1> USE DEF WorkerInv
<1>1. CASE WorkerStep
  BY <1>1 DEF WorkerStep, TakeBatch, Snapshot, Post, ClearBatch
<1>2. CASE Restart
  BY <1>2 DEF Restart
<1>3. CASE Mutate \/ Save \/ EventComes \/ Loop \/ World \/ BeginStop \/ Stop \/ UNCHANGED vars
  BY <1>3 DEF Mutate, Save, EventComes, Dispatch, Loop, LoopStep, Deliver, PassBarrier, QuitLoop,
              World, Hang, Answered, BeginStop, RequestStop, Stop, StopStep, JoinWorker,
              BarrierTimesOut, EndDrain, JoinLoop, vars
<1> QED
  BY <1>1, <1>2, <1>3 DEF Next

\* Every step keeps stop() where the worker and the loop have let it come.
LEMMA StopStepKeeps ==
    ASSUME DispatcherTypeOK, WorkerInv, StopInv, [Next]_vars
    PROVE  StopInv'
<1> USE DEF DispatcherTypeOK, StopInv
<1>1. Barrier \notin Deliveries /\ Quit \notin Deliveries /\ Barrier # Quit
  BY DEF Deliveries
<1>2. CASE WorkerStep
  <2>1. CASE Post
    <3>1. PICK d \in todo : loopQueue' = Append(loopQueue, d)
      BY <2>1 DEF Post
    <3>2. stopper \in {"idle", "join"} /\ UNCHANGED <<stopper, loop, inFlight, worker>>
      BY <2>1 DEF Post
    <3> QED
      BY <3>1, <3>2
  <2>2. CASE TakeBatch \/ Snapshot \/ ClearBatch
    BY <2>2 DEF TakeBatch, Snapshot, ClearBatch
  <2> QED
    BY <1>2, <2>1, <2>2 DEF WorkerStep
<1>3. CASE Loop
  <2>1. PICK f \in Functors : loopQueue # <<>> /\ f = Head(loopQueue) /\ loop = "up"
                              /\ loopQueue' = Tail(loopQueue) /\ f = loopQueue[1]
    BY <1>3 DEF Loop, LoopStep, Deliver, PassBarrier, QuitLoop, LoopTakes
  <2>2. \A i \in DOMAIN loopQueue' :
           i + 1 \in DOMAIN loopQueue /\ loopQueue'[i] = loopQueue[i + 1]
    BY <2>1
  <2>3. Len(loopQueue') = Len(loopQueue) - 1 /\ loopQueue' \in Seq(Functors)
    BY <2>1
  <2>4. CASE Deliver
    BY <1>1, <2>1, <2>2, <2>3, <2>4 DEF Deliver
  <2>5. CASE PassBarrier
    <3>1. f = Barrier /\ UNCHANGED <<loop, inFlight, worker>> /\ 1 \in DOMAIN loopQueue
      BY <2>1, <2>5 DEF PassBarrier
    <3>2. CASE stopper = "barrier"
      <4>1. Len(loopQueue) = 1
        BY <2>1, <3>1, <3>2
      <4>2. loopQueue' = <<>> /\ stopper' = "drain"
        BY <2>3, <2>5, <3>2, <4>1 DEF PassBarrier
      <4> QED
        BY <2>1, <3>1, <3>2, <4>2
    <3>3. CASE stopper # "barrier"
      <4>1. stopper = "leaked"
        BY <1>1, <2>1, <3>1, <3>3
      <4> QED
        BY <2>1, <2>2, <2>5, <3>1, <4>1 DEF PassBarrier
    <3> QED
      BY <3>2, <3>3
  <2>6. CASE QuitLoop
    BY <1>1, <2>1, <2>2, <2>3, <2>6 DEF QuitLoop
  <2> QED
    BY <1>3, <2>4, <2>5, <2>6 DEF Loop, LoopStep
<1>4. CASE World
  BY <1>1, <1>4 DEF World, Hang, Answered
<1>5. CASE BeginStop
  BY <1>5 DEF BeginStop, RequestStop, StopTo
<1>6. CASE Stop
  <2>1. CASE JoinWorker
    BY <1>1, <2>1 DEF JoinWorker, StopTo
  <2>2. CASE BarrierTimesOut
    BY <1>1, <2>2 DEF BarrierTimesOut, StopTo
  <2>3. CASE EndDrain
    BY <1>1, <2>3 DEF EndDrain, StopTo
  <2>4. CASE JoinLoop
    BY <1>1, <2>4 DEF JoinLoop, StopTo
  <2> QED
    BY <1>6, <2>1, <2>2, <2>3, <2>4 DEF Stop, StopStep
<1>7. CASE Restart
  BY <1>7 DEF Restart
<1>8. CASE Mutate \/ Save \/ EventComes \/ UNCHANGED vars
  BY <1>8 DEF Mutate, Save, EventComes, Dispatch, vars
<1> QED
  BY <1>2, <1>3, <1>4, <1>5, <1>6, <1>7, <1>8 DEF Next

\* Every step keeps what is on its way allowed.
LEMMA EventStepKeeps ==
    ASSUME TypeOK, WorkerInv, EventInv, [Next]_vars
    PROVE  EventInv'
<1> USE DEF TypeOK, DispatcherTypeOK, EventInv, Allowed
<1>1. Barrier \notin Deliveries /\ Quit \notin Deliveries
  BY DEF Deliveries
<1>2. ActiveHooks \in SUBSET Hooks /\ ActiveHooks' \in SUBSET Hooks
  BY DEF ActiveHooks
<1>3. CASE Mutate
  <2>1. UNCHANGED dispatcherVars
        /\ \A e \in met : eligible'[e] = eligible[e] \cup ActiveHooks'
    BY <1>3 DEF Mutate
  <2> QED
    BY <2>1
<1>4. CASE Save
  BY <1>4 DEF Save, SaveLands, SaveIsLost, ActiveHooks
<1>5. CASE EventComes
  <2>1. PICK e \in Events : Dispatch(e) /\ eligible' = [eligible EXCEPT ![e] = ActiveHooks]
                            /\ UNCHANGED registryVars
    BY <1>5 DEF EventComes
  <2>2. e \notin met /\ met' = met \cup {e} /\ UNCHANGED <<batch, todo, loopQueue, inFlight>>
        /\ ActiveHooks' = ActiveHooks
    BY <2>1 DEF Dispatch, ActiveHooks
  <2>3. \A x \in met : eligible'[x] = eligible[x]
    BY <2>1, <2>2
  <2>4. eligible'[e] = ActiveHooks
    BY <2>1
  <2>5. \A i \in DOMAIN queue' : queue'[i] \in met'
    BY <2>1, <2>2 DEF Dispatch
  <2> QED
    BY <2>2, <2>3, <2>4, <2>5
<1>6. CASE WorkerStep
  <2>1. CASE TakeBatch
    BY <1>6, <2>1 DEF WorkerStep, TakeBatch, ActiveHooks
  <2>2. CASE Snapshot
    <3>1. \A d \in todo' : d.event \in {batch[i] : i \in DOMAIN batch} /\ d.hook \in ActiveHooks
      BY <2>2 DEF Snapshot
    <3> QED
      BY <1>6, <2>2, <3>1 DEF WorkerStep, Snapshot, ActiveHooks
  <2>3. CASE Post
    BY <1>6, <2>3 DEF WorkerStep, Post, ActiveHooks
  <2>4. CASE ClearBatch
    BY <1>6, <2>4 DEF WorkerStep, ClearBatch, ActiveHooks
  <2> QED
    BY <1>6, <2>1, <2>2, <2>3, <2>4 DEF WorkerStep
<1>7. CASE Loop
  <2>1. UNCHANGED <<queueVars, workerVars, met, registryVars, eligible>> /\ ActiveHooks' = ActiveHooks
    BY <1>7 DEF Loop, LoopStep, Deliver, PassBarrier, QuitLoop, ActiveHooks
  <2>2. loopQueue # <<>> /\ loopQueue' = Tail(loopQueue)
    BY <1>7 DEF Loop, LoopStep, Deliver, PassBarrier, QuitLoop, LoopTakes
  <2>3. inFlight' = inFlight
        \/ (inFlight' = inFlight \cup {Head(loopQueue)} /\ Head(loopQueue) \in Deliveries)
    BY <1>7 DEF Loop, LoopStep, Deliver, PassBarrier, QuitLoop, LoopTakes
  <2>4. \A i \in DOMAIN loopQueue' :
           i + 1 \in DOMAIN loopQueue /\ loopQueue'[i] = loopQueue[i + 1]
    BY <2>2
  <2>5. 1 \in DOMAIN loopQueue /\ Head(loopQueue) = loopQueue[1]
    BY <2>2
  <2>6. \A d \in inFlight' : Allowed(d)
    BY <2>3, <2>5
  <2>7. \A i \in DOMAIN loopQueue' : loopQueue'[i] \in Deliveries => Allowed(loopQueue'[i])
    BY <2>4
  <2> QED
    BY <2>1, <2>6, <2>7
<1>8. CASE World
  BY <1>8 DEF World, Hang, Answered, ActiveHooks
<1>9. CASE BeginStop
  BY <1>9 DEF BeginStop, RequestStop, ActiveHooks
<1>10. CASE Stop
  <2>1. UNCHANGED <<queueVars, workerVars, inFlight, met, registryVars, eligible>>
        /\ ActiveHooks' = ActiveHooks
    BY <1>10 DEF Stop, StopStep, JoinWorker, BarrierTimesOut, EndDrain, JoinLoop, ActiveHooks
  <2>2. loopQueue' = loopQueue \/ \E f \in {Barrier, Quit} : loopQueue' = Append(loopQueue, f)
    BY <1>10 DEF Stop, StopStep, JoinWorker, BarrierTimesOut, EndDrain, JoinLoop
  <2>3. \A i \in DOMAIN loopQueue' : loopQueue'[i] \in Deliveries =>
           i \in DOMAIN loopQueue /\ loopQueue'[i] = loopQueue[i]
    <3>1. ASSUME NEW f \in {Barrier, Quit}, loopQueue' = Append(loopQueue, f),
                 NEW i \in DOMAIN loopQueue', loopQueue'[i] \in Deliveries
          PROVE  i \in DOMAIN loopQueue /\ loopQueue'[i] = loopQueue[i]
      <4>1. f \in Functors /\ f \notin Deliveries
        BY <1>1 DEF Functors
      <4>2. i \in 1 .. Len(loopQueue) + 1
        BY <3>1, <4>1
      <4>3. CASE i = Len(loopQueue) + 1
        BY <3>1, <4>1, <4>3
      <4>4. CASE i \in 1 .. Len(loopQueue)
        BY <3>1, <4>1, <4>4
      <4> QED
        BY <4>2, <4>3, <4>4
    <3> QED
      BY <2>2, <3>1
  <2> QED
    BY <2>1, <2>3
<1>11. CASE Restart
  BY <1>11 DEF Restart
<1>12. CASE UNCHANGED vars
  BY <1>12 DEF vars, ActiveHooks
<1> QED
  BY <1>3, <1>4, <1>5, <1>6, <1>7, <1>8, <1>9, <1>10, <1>11, <1>12 DEF Next

\* The invariant holds at the start.
LEMMA InitHolds == Init => IInv
<1> SUFFICES ASSUME Init PROVE IInv
  OBVIOUS
<1>1. <<>> \in Seq(Events) /\ Len(<<>>) = 0 /\ <<>> \in Seq(Functors)
  OBVIOUS
<1>2. RegistryTypeOK /\ SaveInv
  <2>1. hooks = Empty /\ mutations = 0 /\ saves = {} /\ stored = Empty /\ lost = FALSE
    BY DEF Init, RegistryInit
  <2>2. Empty \in Registries /\ 0 \in 0 .. MaxMutations
    BY DEF Registries, Empty
  <2> QED
    BY <2>1, <2>2 DEF RegistryTypeOK, SaveInv
<1>3. DispatcherTypeOK
  <2>1. queue \in Seq(Events) /\ Len(queue) <= QueueMax /\ batch \in Seq(Events)
        /\ loopQueue \in Seq(Functors)
    BY <1>1 DEF Init, DispatcherInit
  <2>2. stop = FALSE /\ worker = "wait" /\ todo = {} /\ loop = "up" /\ inFlight = {}
        /\ stopper = "idle" /\ met = {} /\ sent = {}
    BY DEF Init, DispatcherInit
  <2> QED
    BY <2>1, <2>2 DEF DispatcherTypeOK
<1>4. eligible \in [Events -> SUBSET Hooks]
  BY DEF Init
<1>5. WorkerInv /\ StopInv /\ EventInv
  BY DEF Init, DispatcherInit, WorkerInv, StopInv, EventInv
<1> QED
  BY <1>2, <1>3, <1>4, <1>5 DEF IInv, TypeOK

\* Every step keeps the invariant.
LEMMA StepKeeps == IInv /\ [Next]_vars => IInv'
  BY RegistryTypes, DispatcherTypes, EligibleTypes, SaveStep, WorkerStepKeeps, StopStepKeeps,
     EventStepKeeps
  DEF IInv, TypeOK

\* The inductive invariant: types, the save numbered last, the worker's
\* empty hands, the stages of stop() and the events on their way.
THEOREM WebhooksInvariant == Spec => []IInv
  BY InitHolds, StepKeeps, PTL DEF Spec

\* For any hooks, events and bounds every variable keeps its type, and the
\* queue its limit (webhook_dispatcher.cpp:361).
THEOREM TypeCorrect == Spec => []TypeOK
<1>1. IInv => TypeOK
  BY DEF IInv
<1> QED
  BY <1>1, WebhooksInvariant, PTL

\* Once no save is under way S3 holds the registry, unless the last save was
\* lost or overtaken (webhook_registry.cpp:171-188).
THEOREM SavesCatchUp == Spec => []LatestIsStored
<1>1. IInv => LatestIsStored
  BY DEF IInv, SaveInv, LatestIsStored, LastUnderWay
<1> QED
  BY <1>1, WebhooksInvariant, PTL

\* The loop is never taken down under a live request or one still to be sent
\* (webhook_dispatcher.cpp:425-464).
THEOREM LoopEndsIdle == Spec => []LoopGoneIdle
<1>1. IInv => LoopGoneIdle
  BY DEF IInv, TypeOK, DispatcherTypeOK, StopInv, LoopGoneIdle
<1> QED
  BY <1>1, WebhooksInvariant, PTL

\* Nobody is sent an event that came while the hook was paused or absent, and
\* has been since (webhook_dispatcher.cpp:386-391).
THEOREM EventsGoToTheirHooks == Spec => []OnlyToItsHooks
<1>1. IInv => OnlyToItsHooks
  BY DEF IInv, EventInv, Allowed, OnlyToItsHooks
<1> QED
  BY <1>1, WebhooksInvariant, PTL

-----------------------------------------------------------------------------
(* Nothing is sent twice *)

\* No delivery of the event has been made out yet.
Unused(e) ==
    /\ \A d \in todo \cup sent : d.event # e
    /\ \A k \in DOMAIN loopQueue : loopQueue[k] \in Deliveries => loopQueue[k].event # e

\* What waits in the queue, or in a batch just taken, is unused, and is in one of
\* them only.
OnceInv ==
    /\ \A d \in sent : d.event \in met
    /\ \A i \in DOMAIN queue : Unused(queue[i])
    /\ \A i \in DOMAIN queue, j \in DOMAIN batch : queue[i] # batch[j]
    /\ worker = "snapshot" => todo = {} /\ \A j \in DOMAIN batch : Unused(batch[j])
    /\ NeverSentTwice

\* A functor is queued in the loop behind the others.
LEMMA Queued ==
    ASSUME DispatcherTypeOK, NEW f \in Functors, loopQueue' = Append(loopQueue, f)
    PROVE  /\ \A i \in DOMAIN loopQueue : i \in DOMAIN loopQueue' /\ loopQueue'[i] = loopQueue[i]
           /\ \E n : /\ n \notin DOMAIN loopQueue /\ loopQueue'[n] = f
                     /\ \A i \in DOMAIN loopQueue' : i \in DOMAIN loopQueue \/ i = n
<1>1. loopQueue \in Seq(Functors) /\ Len(loopQueue) \in Nat
  BY LenProperties DEF DispatcherTypeOK
<1>2. /\ loopQueue' \in Seq(Functors) /\ Len(loopQueue') = Len(loopQueue) + 1
      /\ \A i \in 1 .. Len(loopQueue) : loopQueue'[i] = loopQueue[i]
      /\ loopQueue'[Len(loopQueue) + 1] = f
  BY <1>1, AppendProperties
<1>3. DOMAIN loopQueue = 1 .. Len(loopQueue) /\ DOMAIN loopQueue' = 1 .. Len(loopQueue) + 1
  BY <1>1, <1>2, LenProperties
<1>4. Len(loopQueue) + 1 \notin DOMAIN loopQueue
  BY <1>1, <1>3
<1> QED BY <1>1, <1>2, <1>3, <1>4

\* The loop takes the first one.
LEMMA LoopTook ==
    ASSUME DispatcherTypeOK, loopQueue # <<>>, loopQueue' = Tail(loopQueue)
    PROVE  /\ 1 \in DOMAIN loopQueue /\ Head(loopQueue) = loopQueue[1]
           /\ \A i \in DOMAIN loopQueue' :
                /\ i \in Nat \ {0} /\ i + 1 \in DOMAIN loopQueue
                /\ loopQueue'[i] = loopQueue[i + 1] /\ i + 1 # 1
<1>1. loopQueue \in Seq(Functors)
  BY DEF DispatcherTypeOK
<1> QED BY <1>1

\* It stays unique in the loop when one is added that is nowhere yet.
LEMMA QueuedOnce ==
    ASSUME DispatcherTypeOK, NeverSentTwice, NEW f \in Functors,
           loopQueue' = Append(loopQueue, f), UNCHANGED sent, todo' \subseteq todo,
           \A i \in DOMAIN loopQueue : loopQueue[i] # f, f \notin sent \cup todo'
    PROVE  NeverSentTwice'
<1>1. PICK n : /\ n \notin DOMAIN loopQueue /\ loopQueue'[n] = f
               /\ \A i \in DOMAIN loopQueue' : i \in DOMAIN loopQueue \/ i = n
  BY Queued
<1>2. \A i \in DOMAIN loopQueue : loopQueue'[i] = loopQueue[i]
  BY Queued
<1>3. \A i, j \in DOMAIN loopQueue' : loopQueue'[i] = loopQueue'[j] => i = j
  BY <1>1, <1>2 DEF NeverSentTwice
<1>4. \A i \in DOMAIN loopQueue' : loopQueue'[i] \notin sent' \cup todo'
  BY <1>1, <1>2 DEF NeverSentTwice
<1> QED BY <1>3, <1>4 DEF NeverSentTwice

\* A step keeps OnceInv.
LEMMA OnceStep ==
    ASSUME IInv, OnceInv, [Next]_vars
    PROVE  OnceInv'
<1>0. /\ DispatcherTypeOK /\ WorkerInv /\ StopInv /\ EventInv
      /\ Barrier \notin Deliveries /\ Quit \notin Deliveries /\ Barrier # Quit
  BY DEF IInv, TypeOK, Deliveries
<1>1. CASE EventComes
  <2>1. PICK e \in Events : Dispatch(e)
    BY <1>1 DEF EventComes
  <2>2. /\ UNCHANGED <<stop, workerVars, loopVars, stopper>> /\ e \notin met
        /\ met' = met \cup {e} /\ queue' \in {queue, Append(queue, e)}
    BY <2>1 DEF Dispatch
  <2>3. Unused(e)
    BY <1>0, <2>2 DEF OnceInv, EventInv, Allowed, Unused
  <2>4. \A x : Unused(x)' <=> Unused(x)
    BY <2>2 DEF Unused
  <2>5. \A i \in DOMAIN queue' :
          \/ queue'[i] = e
          \/ \E k \in DOMAIN queue : queue'[i] = queue[k]
    <3>1. queue \in Seq(Events)
      BY <1>0 DEF DispatcherTypeOK
    <3>2. CASE queue' = Append(queue, e)
      BY <3>1, <3>2
    <3> QED BY <2>2, <3>2
  <2>6. \A j \in DOMAIN batch : batch[j] # e
    BY <1>0, <2>2 DEF EventInv
  <2>7. NeverSentTwice'
    BY <2>2 DEF OnceInv, NeverSentTwice
  <2> QED BY <2>2, <2>3, <2>4, <2>5, <2>6, <2>7 DEF OnceInv
<1>2. CASE TakeBatch
  <2>1. /\ batch' = queue /\ queue' = <<>> /\ todo = {}
        /\ UNCHANGED <<todo, loopVars, met>>
    BY <1>0, <1>2 DEF TakeBatch, WorkerInv
  <2>2. \A x : Unused(x)' <=> Unused(x)
    BY <2>1 DEF Unused
  <2>3. NeverSentTwice'
    BY <2>1 DEF OnceInv, NeverSentTwice
  <2> QED BY <2>1, <2>2, <2>3 DEF OnceInv
<1>3. CASE Snapshot
  <2>1. /\ worker = "snapshot" /\ worker' = "post" /\ todo = {}
        /\ UNCHANGED <<batch, queueVars, loopVars, met>>
        /\ \A j \in DOMAIN batch : Unused(batch[j])
    BY <1>3 DEF Snapshot, OnceInv
  <2>2. \A d \in todo' : d \in Deliveries /\ \E j \in DOMAIN batch : d.event = batch[j]
    <3>1. todo' = [event : {batch[i] : i \in DOMAIN batch}, hook : ActiveHooks]
      BY <1>3 DEF Snapshot
    <3>2. \A i \in DOMAIN batch : batch[i] \in Events
      BY <1>0 DEF DispatcherTypeOK
    <3> QED BY <3>1, <3>2 DEF Deliveries, ActiveHooks
  <2>3. ASSUME NEW i \in DOMAIN queue PROVE Unused(queue[i])'
    <3>1. Unused(queue[i]) /\ \A j \in DOMAIN batch : queue[i] # batch[j]
      BY DEF OnceInv
    <3> QED BY <2>1, <2>2, <3>1 DEF Unused
  <2>4. NeverSentTwice'
    <3>1. \A d \in todo' : d \notin sent /\ \A i \in DOMAIN loopQueue : loopQueue[i] # d
      BY <2>1, <2>2 DEF Unused
    <3> QED BY <2>1, <3>1 DEF OnceInv, NeverSentTwice
  <2> QED BY <2>1, <2>3, <2>4 DEF OnceInv
<1>4. CASE Post
  <2>1. PICK d \in todo : todo' = todo \ {d} /\ loopQueue' = Append(loopQueue, d)
    BY <1>4 DEF Post
  <2>2. UNCHANGED <<worker, batch, queueVars, sent, met>> /\ worker = "post"
    BY <1>4 DEF Post
  <2>3. d \in Deliveries /\ d \in Functors
    BY <1>0 DEF DispatcherTypeOK, Functors
  <2>4. NeverSentTwice'
    BY <1>0, <2>1, <2>2, <2>3, QueuedOnce DEF OnceInv, NeverSentTwice
  <2>5. ASSUME NEW i \in DOMAIN queue PROVE Unused(queue[i])'
    <3>1. Unused(queue[i])
      BY DEF OnceInv
    <3>2. \A k \in DOMAIN loopQueue' :
            loopQueue'[k] = d \/ \E j \in DOMAIN loopQueue : loopQueue'[k] = loopQueue[j]
      BY <1>0, <2>1, <2>3, Queued
    <3> QED BY <2>1, <2>2, <3>1, <3>2 DEF Unused
  <2> QED BY <2>2, <2>4, <2>5 DEF OnceInv
<1>5. CASE ClearBatch
  <2>1. batch' = <<>> /\ worker' = "wait" /\ UNCHANGED <<todo, queueVars, loopVars, met>>
    BY <1>5 DEF ClearBatch
  <2> QED BY <2>1 DEF OnceInv, Unused, NeverSentTwice
<1>6. CASE Deliver \/ PassBarrier \/ QuitLoop
  <2>1. /\ loopQueue # <<>> /\ loopQueue' = Tail(loopQueue)
        /\ UNCHANGED <<queueVars, workerVars, met>>
        /\ sent' = sent \/ (sent' = sent \cup {Head(loopQueue)} /\ Head(loopQueue) \in Deliveries)
    BY <1>6 DEF Deliver, PassBarrier, QuitLoop, LoopTakes
  <2>2. /\ 1 \in DOMAIN loopQueue /\ Head(loopQueue) = loopQueue[1]
        /\ \A i \in DOMAIN loopQueue' :
             /\ i \in Nat \ {0} /\ i + 1 \in DOMAIN loopQueue
             /\ loopQueue'[i] = loopQueue[i + 1] /\ i + 1 # 1
    BY <1>0, <2>1, LoopTook
  <2>3. \A x : Unused(x) => Unused(x)'
    BY <2>1, <2>2 DEF Unused
  <2>4. NeverSentTwice'
    <3>1. \A i, j \in DOMAIN loopQueue' : loopQueue'[i] = loopQueue'[j] => i = j
      <4>1. ASSUME NEW i \in DOMAIN loopQueue', NEW j \in DOMAIN loopQueue',
                   loopQueue'[i] = loopQueue'[j]
            PROVE  i = j
        <5>1. i + 1 = j + 1
          BY <2>2, <4>1 DEF OnceInv, NeverSentTwice
        <5> QED BY <2>2, <5>1
      <4> QED BY <4>1
    <3>2. \A i \in DOMAIN loopQueue' : loopQueue'[i] \notin sent' \cup todo'
      <4>1. \A i \in DOMAIN loopQueue' : loopQueue'[i] # Head(loopQueue)
        BY <2>2 DEF OnceInv, NeverSentTwice
      <4> QED BY <2>1, <2>2, <4>1 DEF OnceInv, NeverSentTwice
    <3>3. sent' \cap todo' = {}
      BY <2>1, <2>2 DEF OnceInv, NeverSentTwice
    <3> QED BY <3>1, <3>2, <3>3 DEF NeverSentTwice
  <2>5. \A d \in sent' : d.event \in met
    BY <1>0, <2>1, <2>2 DEF OnceInv, EventInv, Allowed
  <2> QED BY <2>1, <2>3, <2>4, <2>5 DEF OnceInv
<1>7. CASE JoinWorker \/ EndDrain
  <2>1. UNCHANGED <<queueVars, workerVars, sent, met>>
    BY <1>7 DEF JoinWorker, EndDrain
  <2>2. CASE UNCHANGED loopQueue
    BY <2>1, <2>2 DEF OnceInv, Unused, NeverSentTwice
  <2>3. ASSUME NEW f \in {Barrier, Quit}, loopQueue' = Append(loopQueue, f),
               \A i \in DOMAIN loopQueue : loopQueue[i] \in Deliveries
        PROVE  OnceInv'
    <3>1. f \in Functors /\ f \notin Deliveries
      BY <1>0 DEF Functors
    <3>2. NeverSentTwice'
      <4>1. (\A i \in DOMAIN loopQueue : loopQueue[i] # f) /\ f \notin sent \cup todo'
        BY <1>0, <2>1, <2>3, <3>1 DEF DispatcherTypeOK
      <4> QED BY <1>0, <2>1, <2>3, <3>1, <4>1, QueuedOnce DEF OnceInv
    <3>3. \A x : Unused(x) => Unused(x)'
      <4>1. \A k \in DOMAIN loopQueue' :
              loopQueue'[k] = f \/ \E j \in DOMAIN loopQueue : loopQueue'[k] = loopQueue[j]
        BY <1>0, <2>3, <3>1, Queued
      <4> QED BY <2>1, <3>1, <4>1 DEF Unused
    <3> QED BY <2>1, <3>2, <3>3 DEF OnceInv
  <2>4. CASE JoinWorker
    BY <1>0, <2>3, <2>4 DEF JoinWorker, StopInv
  <2>5. CASE EndDrain
    <3>1. DOMAIN loopQueue = {}
      BY <1>0, <2>5 DEF EndDrain, StopInv
    <3> QED BY <2>2, <2>3, <2>5, <3>1 DEF EndDrain
  <2> QED BY <1>7, <2>4, <2>5
<1>8. CASE Restart
  <2>1. /\ queue' = <<>> /\ worker' = "wait" /\ batch' = <<>> /\ todo' = {}
        /\ loopQueue' = <<>> /\ sent' = {}
    BY <1>8 DEF Restart
  <2> QED BY <2>1 DEF OnceInv, NeverSentTwice
<1>9. ASSUME UNCHANGED <<queue, workerVars, loopQueue, sent, met>> PROVE OnceInv'
  BY <1>9 DEF OnceInv, Unused, NeverSentTwice
<1>10. CASE World \/ Mutate \/ Save \/ BeginStop \/ UNCHANGED vars
  BY <1>9, <1>10 DEF World, Hang, Answered, Mutate, Save, BeginStop, RequestStop, vars
<1>11. CASE BarrierTimesOut \/ JoinLoop
  BY <1>9, <1>11 DEF BarrierTimesOut, JoinLoop
<1> QED
  BY <1>1, <1>2, <1>3, <1>4, <1>5, <1>6, <1>7, <1>8, <1>10, <1>11
     DEF Next, WorkerStep, Loop, LoopStep, Stop, StopStep

\* No event goes to a hook twice, although batch and queue are swapped to and fro
\* (webhook_dispatcher.cpp:386, 403).
THEOREM NothingIsSentTwice == Spec => []NeverSentTwice
<1>1. Init => OnceInv
  BY DEF Init, DispatcherInit, OnceInv, NeverSentTwice
<1>2. IInv /\ OnceInv /\ [Next]_vars => OnceInv'
  BY OnceStep
<1>3. OnceInv => NeverSentTwice
  BY DEF OnceInv
<1> QED BY <1>1, <1>2, <1>3, WebhooksInvariant, PTL DEF Spec
=============================================================================
