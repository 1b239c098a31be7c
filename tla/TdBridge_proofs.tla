--------------------------- MODULE TdBridge_proofs ---------------------------
(***************************************************************************)
(* What holds of the bridge for every set of coroutines and IO loops,      *)
(* every max_inflight and every number of requests.                        *)
(***************************************************************************)
EXTENDS TdBridge, FiniteSetTheorems, TLAPS

USE DEF requestVars, coroVars, workVars, loopVars, ctlVars

\* The types of the constants and of the sets made of them.
LEMMA Sorts ==
    /\ MaxId \in Nat /\ MaxInflight \in Nat
    /\ HookCoros \subseteq Coros
    /\ NoId \notin Ids /\ Update \notin Ids /\ Nothing \notin Ids
    /\ \A i \in Ids : i \in Nat /\ i <= MaxId + 1
    /\ \A i \in Nat : i >= 1 /\ i <= MaxId + 1 => i \in Ids
    /\ \A i \in Ids : Answer(i) \in Outcomes
    /\ {Unknown, TimeoutError, BusyError, ShutdownError} \subseteq Outcomes
    /\ Loops \subseteq Threads /\ Workers \subseteq Threads
    /\ IoLoops \subseteq Loops /\ "main" \in Loops
    /\ {"main", "receiver", "signal"} = Workers
    /\ \A t \in Threads : HomeLoop(t) \in Loops
  BY BridgeAssumption DEF BridgeAssumption, NoId, Update, Nothing, Ids,
     Outcomes, Loops, Workers, Threads, HomeLoop

\* Before bridge.start() nothing is registered, claimed or asleep.
LEMMA InitInv == Init => BridgeInv
<1> SUFFICES ASSUME Init PROVE BridgeInv
  OBVIOUS
<1>1. TypeOK
<2> USE Sorts DEF Init
<2>1. nextId \in 1 .. MaxId + 2 /\ resp \in Ids \cup {Update, Nothing}
  OBVIOUS
<2>2. /\ phase \in [Ids -> Phases] /\ result \in [Ids -> Outcomes]
      /\ waiter \in [Ids -> Coros \cup {NoCoro}] /\ home \in [Ids -> Loops]
  BY DEF Phases
<2>3. /\ host \in [Coros -> Threads] /\ awaiting \in [Coros -> Ids \cup {NoId}]
      /\ sending \in [Threads -> Ids \cup {NoId}]
      /\ co \in [Coros -> {"unborn", "running", "suspended", "done"}]
  OBVIOUS
<2>4. /\ todo \in [Workers -> SUBSET Ids] /\ handoff \in [Workers -> Ids \cup {NoId}]
      /\ viaLoop \in [Workers -> BOOLEAN]
      /\ up \in [Loops -> BOOLEAN] /\ quitting \in [Loops -> BOOLEAN]
      /\ ready \in [Loops -> SUBSET Ids] /\ late \in [Loops -> SUBSET Ids]
  OBVIOUS
<2> QED BY <2>1, <2>2, <2>3, <2>4 DEF TypeOK
<1>2. FreshUnborn /\ IdLeftForClose /\ ClaimsMatchControl
  BY Sorts DEF Init, FreshUnborn, IdLeftForClose, ClaimsMatchControl
<1>3. SoleResolution
  BY DEF Init, SoleResolution, UnresolvedInOnePlace, OwedInOnePlace,
         SleepersMatchDuties, InTransit, Owed, Queued, Ids, NoId
<1> QED BY <1>1, <1>2, <1>3 DEF BridgeInv

\* A step keeps the types.
LEMMA TypeStep == BridgeInv /\ [Next]_vars => TypeOK'
<1> SUFFICES ASSUME BridgeInv, [Next]_vars PROVE TypeOK'
  OBVIOUS
<1> USE DEF TypeOK
<1> TypeOK
  BY DEF BridgeInv
<1>1. ASSUME NEW c \in Coros, NEW l \in IoLoops, StartHandler(c, l) PROVE TypeOK'
  BY Sorts, <1>1 DEF StartHandler
<1>2. ASSUME NEW c \in Coros, InvokeAccepted(c) PROVE TypeOK'
  <2>1. nextId \in Ids /\ host[c] \in Threads
    BY Sorts, <1>2 DEF InvokeAccepted
  <2>2. HomeLoop(host[c]) \in Loops
    BY Sorts, <2>1
  <2>3. /\ phase' \in [Ids -> Phases] /\ corr' \subseteq Ids
        /\ waiter' \in [Ids -> Coros \cup {NoCoro}] /\ home' \in [Ids -> Loops]
    BY <1>2, <2>1, <2>2 DEF InvokeAccepted, FreshId, Phases
  <2>4. /\ co' \in [Coros -> {"unborn", "running", "suspended", "done"}]
        /\ awaiting' \in [Coros -> Ids \cup {NoId}]
        /\ sending' \in [Threads -> Ids \cup {NoId}]
        /\ nextId' \in 1 .. MaxId + 2
    BY Sorts, <1>2, <2>1 DEF InvokeAccepted, FreshId
  <2> QED BY <1>2, <2>3, <2>4 DEF InvokeAccepted
<1>3. ASSUME NEW c \in Coros, InvokeRefused(c) PROVE TypeOK'
  <2>1. nextId \in Ids /\ host[c] \in Threads
    BY Sorts, <1>3 DEF InvokeRefused
  <2>2. HomeLoop(host[c]) \in Loops
    BY Sorts, <2>1
  <2>3. /\ phase' \in [Ids -> Phases] /\ result' \in [Ids -> Outcomes]
        /\ waiter' \in [Ids -> Coros \cup {NoCoro}] /\ home' \in [Ids -> Loops]
        /\ nextId' \in 1 .. MaxId + 2
    BY Sorts, <1>3, <2>1, <2>2 DEF InvokeRefused, FreshId, Phases
  <2> QED BY <1>3, <2>3 DEF InvokeRefused
<1>4. ASSUME NEW c \in Coros, Finish(c) PROVE TypeOK'
  BY Sorts, <1>4 DEF Finish
<1>5. ASSUME NEW t \in Threads, Send(t) PROVE TypeOK'
  BY <1>5 DEF Send
<1>6. ASSUME NEW w \in Workers, Resolve(w) PROVE TypeOK'
  <2>1. PICK i \in todo[w] :
           /\ todo' = [todo EXCEPT ![w] = @ \ {i}]
           /\ IF phase[i] = "Pending"
              THEN /\ phase' = [phase EXCEPT ![i] = Verdict(w)]
                   /\ result' = [result EXCEPT ![i] = VerdictResult(w)]
                   /\ handoff' = [handoff EXCEPT ![w] = i]
                   /\ viaLoop' = [viaLoop EXCEPT ![w] = LoopRuns(home[i])]
              ELSE UNCHANGED <<phase, result, handoff, viaLoop>>
    BY <1>6 DEF Resolve
  <2>2. i \in Ids
    BY <2>1
  <2>3. Verdict(w) = "Fulfilled" => resp \in Ids
    BY <2>1, <2>2 DEF Verdict, BridgeInv, ClaimsMatchControl
  <2>4. Verdict(w) \in Phases /\ VerdictResult(w) \in Outcomes
    BY Sorts, <2>3 DEF Verdict, VerdictResult, Phases
  <2>5. LoopRuns(home[i]) \in BOOLEAN
    BY <2>2 DEF LoopRuns
  <2>6. /\ phase' \in [Ids -> Phases] /\ result' \in [Ids -> Outcomes]
        /\ handoff' \in [Workers -> Ids \cup {NoId}]
        /\ viaLoop' \in [Workers -> BOOLEAN]
    <3>1. CASE phase[i] = "Pending"
      <4>1. phase' \in [Ids -> Phases] /\ result' \in [Ids -> Outcomes]
        BY <2>1, <2>4, <3>1
      <4>2. handoff' \in [Workers -> Ids \cup {NoId}]
        BY <2>1, <2>2, <3>1
      <4>3. viaLoop' \in [Workers -> BOOLEAN]
        BY <2>1, <2>5, <3>1
      <4> QED BY <4>1, <4>2, <4>3
    <3>2. CASE phase[i] # "Pending"
      BY <2>1, <3>2
    <3> QED BY <3>1, <3>2
  <2>7. todo' \in [Workers -> SUBSET Ids]
    BY <2>1
  <2> QED BY <1>6, <2>6, <2>7 DEF Resolve
<1>7. ASSUME NEW w \in Workers, QueueInLoop(w) PROVE TypeOK'
  <2>1. handoff[w] \in Ids /\ home[handoff[w]] \in Loops
    BY <1>7 DEF QueueInLoop
  <2> DEFINE h == home[handoff[w]]
  <2>2. /\ ready[h] \cup {handoff[w]} \in SUBSET Ids
        /\ late[h] \cup {handoff[w]} \in SUBSET Ids
    BY <2>1
  <2>4. \/ late' = [late EXCEPT ![h] = @ \cup {handoff[w]}] /\ ready' = ready
        \/ ready' = [ready EXCEPT ![h] = @ \cup {handoff[w]}] /\ late' = late
    BY <1>7 DEF QueueInLoop
  <2>5. ready' \in [Loops -> SUBSET Ids] /\ late' \in [Loops -> SUBSET Ids]
    <3>1. CASE late' = [late EXCEPT ![h] = @ \cup {handoff[w]}] /\ ready' = ready
      BY <2>1, <2>2, <3>1
    <3>2. CASE ready' = [ready EXCEPT ![h] = @ \cup {handoff[w]}] /\ late' = late
      BY <2>1, <2>2, <3>2
    <3> QED BY <2>4, <3>1, <3>2
  <2>3. handoff' \in [Workers -> Ids \cup {NoId}] /\ viaLoop' \in [Workers -> BOOLEAN]
    BY <1>7 DEF QueueInLoop
  <2> QED BY <1>7, <2>3, <2>5 DEF QueueInLoop
<1>8. ASSUME NEW w \in Workers, ResumeInPlace(w) PROVE TypeOK'
  <2>1. /\ handoff' = [handoff EXCEPT ![w] = NoId] /\ ResumeOn(waiter[handoff[w]], w)
        /\ UNCHANGED <<requestVars, sending, todo, viaLoop, loopVars, sent, ctlVars>>
    BY <1>8 DEF ResumeInPlace
  <2>2. /\ co' \in [Coros -> {"unborn", "running", "suspended", "done"}]
        /\ host' \in [Coros -> Threads]
        /\ awaiting' \in [Coros -> Ids \cup {NoId}]
    BY Sorts, <2>1 DEF ResumeOn
  <2>3. handoff' \in [Workers -> Ids \cup {NoId}]
    BY <2>1
  <2> QED BY <2>1, <2>2, <2>3
<1>9. ASSUME NEW l \in Loops, RunFunctor(l) PROVE TypeOK'
  <2>1. PICK i \in ready[l] :
           /\ ready' = [ready EXCEPT ![l] = @ \ {i}]
           /\ ResumeOn(waiter[i], l)
    BY <1>9 DEF RunFunctor
  <2>2. /\ co' \in [Coros -> {"unborn", "running", "suspended", "done"}]
        /\ host' \in [Coros -> Threads]
        /\ awaiting' \in [Coros -> Ids \cup {NoId}]
    BY Sorts, <2>1 DEF ResumeOn
  <2> QED BY <1>9, <2>1, <2>2 DEF RunFunctor
<1>10. ASSUME CheckStopping PROVE TypeOK'
  BY <1>10 DEF CheckStopping
<1>11. ASSUME NEW r \in sent \cup {Update, Nothing}, NEW due \in SUBSET corr, Receive(r, due) PROVE TypeOK'
  BY <1>11 DEF Receive, SweepOf, Unregister
<1>12. ASSUME ResolvedAll PROVE TypeOK'
  BY <1>12 DEF ResolvedAll
<1>13. ASSUME DispatchAnswer PROVE TypeOK'
  BY <1>13 DEF DispatchAnswer, EntryOf, Unregister
<1>14. ASSUME DispatchNothing PROVE TypeOK'
  BY <1>14 DEF DispatchNothing
<1>15. ASSUME NEW c \in HookCoros, DispatchNewMessage(c) PROVE TypeOK'
  BY Sorts, <1>15 DEF DispatchNewMessage
<1>16. ASSUME DispatchConnectionReady PROVE TypeOK'
  BY Sorts, <1>16 DEF DispatchConnectionReady, SendOneWay
<1>17. ASSUME DispatchTermination PROVE TypeOK'
  BY <1>17 DEF DispatchTermination
<1>18. ASSUME SignalDrain PROVE TypeOK'
  BY <1>18 DEF SignalDrain, Unregister
<1>19. ASSUME SignalQuit PROVE TypeOK'
  BY <1>19 DEF SignalQuit
<1>20. ASSUME RunApp PROVE TypeOK'
  BY <1>20 DEF RunApp
<1>21. ASSUME KeepOnline PROVE TypeOK'
  BY Sorts, <1>21 DEF KeepOnline, SendOneWay
<1>22. ASSUME Quit PROVE TypeOK'
  BY <1>22 DEF Quit
<1>23. ASSUME NEW l \in IoLoops, IoLoopExits(l) PROVE TypeOK'
  <2>1. up' \in [Loops -> BOOLEAN]
    BY <1>23 DEF IoLoopExits
  <2> QED BY <1>23, <2>1 DEF IoLoopExits
<1>24. ASSUME RunReturns PROVE TypeOK'
  BY <1>24 DEF RunReturns
<1>25. ASSUME CloseThenStop PROVE TypeOK'
  BY Sorts, <1>25 DEF CloseThenStop, SendOneWay, BridgeInv, IdLeftForClose
<1>26. ASSUME StopDrains PROVE TypeOK'
  BY <1>26 DEF StopDrains, Unregister
<1>27. ASSUME StopJoins PROVE TypeOK'
  BY <1>27 DEF StopJoins
<1>28. ASSUME UNCHANGED vars PROVE TypeOK'
  BY <1>28 DEF vars
<1> QED BY <1>1, <1>2, <1>3, <1>4, <1>5, <1>6, <1>7, <1>8, <1>9, <1>10, <1>11, <1>12, <1>13,
    <1>14, <1>15, <1>16, <1>17, <1>18, <1>19, <1>20, <1>21, <1>22, <1>23, <1>24, <1>25, <1>26,
    <1>27, <1>28
  DEF Next, CoroutineStep, ReceiverStep, MainStep, Terminated

\* Ids are given out in order, and the last one is kept for close.
LEMMA FreshStep == BridgeInv /\ [Next]_vars => FreshUnborn' /\ IdLeftForClose'
<1> SUFFICES ASSUME BridgeInv, [Next]_vars PROVE FreshUnborn' /\ IdLeftForClose'
  OBVIOUS
<1> TypeOK /\ FreshUnborn /\ IdLeftForClose /\ ClaimsMatchControl /\ UnresolvedInOnePlace
  BY DEF BridgeInv, SoleResolution
<1> USE DEF TypeOK, FreshUnborn, IdLeftForClose
<1>1. ASSUME NEW c \in Coros, NEW l \in IoLoops, StartHandler(c, l) PROVE FreshUnborn' /\ IdLeftForClose'
  BY <1>1 DEF StartHandler
<1>2. ASSUME NEW c \in Coros, InvokeAccepted(c) PROVE FreshUnborn' /\ IdLeftForClose'
  BY Sorts, <1>2 DEF InvokeAccepted, FreshId
<1>3. ASSUME NEW c \in Coros, InvokeRefused(c) PROVE FreshUnborn' /\ IdLeftForClose'
  BY Sorts, <1>3 DEF InvokeRefused, FreshId
<1>4. ASSUME NEW c \in Coros, Finish(c) PROVE FreshUnborn' /\ IdLeftForClose'
  BY <1>4 DEF Finish
<1>5. ASSUME NEW t \in Threads, Send(t) PROVE FreshUnborn' /\ IdLeftForClose'
  BY <1>5 DEF Send
<1>6. ASSUME NEW w \in Workers, Resolve(w) PROVE FreshUnborn' /\ IdLeftForClose'
  BY <1>6 DEF Resolve
<1>7. ASSUME NEW w \in Workers, QueueInLoop(w) PROVE FreshUnborn' /\ IdLeftForClose'
  BY <1>7 DEF QueueInLoop
<1>8. ASSUME NEW w \in Workers, ResumeInPlace(w) PROVE FreshUnborn' /\ IdLeftForClose'
  BY <1>8 DEF ResumeInPlace, ResumeOn
<1>9. ASSUME NEW l \in Loops, RunFunctor(l) PROVE FreshUnborn' /\ IdLeftForClose'
  BY <1>9 DEF RunFunctor, ResumeOn
<1>10. ASSUME CheckStopping PROVE FreshUnborn' /\ IdLeftForClose'
  BY <1>10 DEF CheckStopping
<1>11. ASSUME NEW r \in sent \cup {Update, Nothing}, NEW due \in SUBSET corr, Receive(r, due) PROVE FreshUnborn' /\ IdLeftForClose'
  BY <1>11 DEF Receive, SweepOf, Unregister
<1>12. ASSUME ResolvedAll PROVE FreshUnborn' /\ IdLeftForClose'
  BY <1>12 DEF ResolvedAll
<1>13. ASSUME DispatchAnswer PROVE FreshUnborn' /\ IdLeftForClose'
  BY <1>13 DEF DispatchAnswer, EntryOf, Unregister
<1>14. ASSUME DispatchNothing PROVE FreshUnborn' /\ IdLeftForClose'
  BY <1>14 DEF DispatchNothing
<1>15. ASSUME NEW c \in HookCoros, DispatchNewMessage(c) PROVE FreshUnborn' /\ IdLeftForClose'
  BY <1>15 DEF DispatchNewMessage
<1>16. ASSUME DispatchConnectionReady PROVE FreshUnborn' /\ IdLeftForClose'
  BY Sorts, <1>16 DEF DispatchConnectionReady, SendOneWay
<1>17. ASSUME DispatchTermination PROVE FreshUnborn' /\ IdLeftForClose'
  BY <1>17 DEF DispatchTermination
<1>18. ASSUME SignalDrain PROVE FreshUnborn' /\ IdLeftForClose'
  BY <1>18 DEF SignalDrain, Unregister
<1>19. ASSUME SignalQuit PROVE FreshUnborn' /\ IdLeftForClose'
  BY <1>19 DEF SignalQuit
<1>20. ASSUME RunApp PROVE FreshUnborn' /\ IdLeftForClose'
  BY <1>20 DEF RunApp
<1>21. ASSUME KeepOnline PROVE FreshUnborn' /\ IdLeftForClose'
  BY Sorts, <1>21 DEF KeepOnline, SendOneWay
<1>22. ASSUME Quit PROVE FreshUnborn' /\ IdLeftForClose'
  BY <1>22 DEF Quit
<1>23. ASSUME NEW l \in IoLoops, IoLoopExits(l) PROVE FreshUnborn' /\ IdLeftForClose'
  BY <1>23 DEF IoLoopExits
<1>24. ASSUME RunReturns PROVE FreshUnborn' /\ IdLeftForClose'
  BY <1>24 DEF RunReturns
<1>25. ASSUME CloseThenStop PROVE FreshUnborn' /\ IdLeftForClose'
  BY Sorts, <1>25 DEF CloseThenStop, SendOneWay
<1>26. ASSUME StopDrains PROVE FreshUnborn' /\ IdLeftForClose'
  BY <1>26 DEF StopDrains, Unregister
<1>27. ASSUME StopJoins PROVE FreshUnborn' /\ IdLeftForClose'
  BY <1>27 DEF StopJoins
<1>28. ASSUME UNCHANGED vars PROVE FreshUnborn' /\ IdLeftForClose'
  BY <1>28 DEF vars
<1> QED BY <1>1, <1>2, <1>3, <1>4, <1>5, <1>6, <1>7, <1>8, <1>9, <1>10, <1>11, <1>12, <1>13,
    <1>14, <1>15, <1>16, <1>17, <1>18, <1>19, <1>20, <1>21, <1>22, <1>23, <1>24, <1>25, <1>26,
    <1>27, <1>28
  DEF Next, CoroutineStep, ReceiverStep, MainStep, Terminated

\* A worker leaves its batch empty-handed.
LEMMA ControlStep == BridgeInv /\ [Next]_vars => ClaimsMatchControl'
<1> SUFFICES ASSUME BridgeInv, [Next]_vars PROVE ClaimsMatchControl'
  OBVIOUS
<1> TypeOK /\ ClaimsMatchControl
  BY DEF BridgeInv
<1> USE DEF TypeOK, ClaimsMatchControl
<1>1. ASSUME NEW c \in Coros, NEW l \in IoLoops, StartHandler(c, l) PROVE ClaimsMatchControl'
  BY <1>1 DEF StartHandler
<1>2. ASSUME NEW c \in Coros, InvokeAccepted(c) PROVE ClaimsMatchControl'
  BY <1>2 DEF InvokeAccepted, FreshId
<1>3. ASSUME NEW c \in Coros, InvokeRefused(c) PROVE ClaimsMatchControl'
  BY <1>3 DEF InvokeRefused, FreshId
<1>4. ASSUME NEW c \in Coros, Finish(c) PROVE ClaimsMatchControl'
  BY <1>4 DEF Finish
<1>5. ASSUME NEW t \in Threads, Send(t) PROVE ClaimsMatchControl'
  BY <1>5 DEF Send
<1>6. ASSUME NEW w \in Workers, Resolve(w) PROVE ClaimsMatchControl'
  BY <1>6 DEF Resolve
<1>7. ASSUME NEW w \in Workers, QueueInLoop(w) PROVE ClaimsMatchControl'
  BY <1>7 DEF QueueInLoop
<1>8. ASSUME NEW w \in Workers, ResumeInPlace(w) PROVE ClaimsMatchControl'
  BY <1>8 DEF ResumeInPlace, ResumeOn
<1>9. ASSUME NEW l \in Loops, RunFunctor(l) PROVE ClaimsMatchControl'
  BY <1>9 DEF RunFunctor, ResumeOn
<1>10. ASSUME CheckStopping PROVE ClaimsMatchControl'
  BY <1>10 DEF CheckStopping
<1>11. ASSUME NEW r \in sent \cup {Update, Nothing}, NEW due \in SUBSET corr, Receive(r, due) PROVE ClaimsMatchControl'
  BY <1>11 DEF Receive, SweepOf, Unregister
<1>12. ASSUME ResolvedAll PROVE ClaimsMatchControl'
  BY <1>12 DEF ResolvedAll
<1>13. ASSUME DispatchAnswer PROVE ClaimsMatchControl'
  BY <1>13 DEF DispatchAnswer, EntryOf, Unregister
<1>14. ASSUME DispatchNothing PROVE ClaimsMatchControl'
  BY <1>14 DEF DispatchNothing
<1>15. ASSUME NEW c \in HookCoros, DispatchNewMessage(c) PROVE ClaimsMatchControl'
  BY <1>15 DEF DispatchNewMessage
<1>16. ASSUME DispatchConnectionReady PROVE ClaimsMatchControl'
  BY <1>16 DEF DispatchConnectionReady, SendOneWay
<1>17. ASSUME DispatchTermination PROVE ClaimsMatchControl'
  BY <1>17 DEF DispatchTermination
<1>18. ASSUME SignalDrain PROVE ClaimsMatchControl'
  BY <1>18 DEF SignalDrain, Unregister
<1>19. ASSUME SignalQuit PROVE ClaimsMatchControl'
  BY <1>19 DEF SignalQuit
<1>20. ASSUME RunApp PROVE ClaimsMatchControl'
  BY <1>20 DEF RunApp
<1>21. ASSUME KeepOnline PROVE ClaimsMatchControl'
  BY <1>21 DEF KeepOnline, SendOneWay
<1>22. ASSUME Quit PROVE ClaimsMatchControl'
  BY <1>22 DEF Quit
<1>23. ASSUME NEW l \in IoLoops, IoLoopExits(l) PROVE ClaimsMatchControl'
  BY <1>23 DEF IoLoopExits
<1>24. ASSUME RunReturns PROVE ClaimsMatchControl'
  BY <1>24 DEF RunReturns
<1>25. ASSUME CloseThenStop PROVE ClaimsMatchControl'
  BY <1>25 DEF CloseThenStop, SendOneWay
<1>26. ASSUME StopDrains PROVE ClaimsMatchControl'
  BY <1>26 DEF StopDrains, Unregister
<1>27. ASSUME StopJoins PROVE ClaimsMatchControl'
  BY <1>27 DEF StopJoins
<1>28. ASSUME UNCHANGED vars PROVE ClaimsMatchControl'
  BY <1>28 DEF vars
<1> QED BY <1>1, <1>2, <1>3, <1>4, <1>5, <1>6, <1>7, <1>8, <1>9, <1>10, <1>11, <1>12, <1>13,
    <1>14, <1>15, <1>16, <1>17, <1>18, <1>19, <1>20, <1>21, <1>22, <1>23, <1>24, <1>25, <1>26,
    <1>27, <1>28
  DEF Next, CoroutineStep, ReceiverStep, MainStep, Terminated

\* An unresolved call stays in one place.
LEMMA UnresolvedStep == BridgeInv /\ [Next]_vars => UnresolvedInOnePlace'
<1> SUFFICES ASSUME BridgeInv, [Next]_vars PROVE UnresolvedInOnePlace'
  OBVIOUS
<1> TypeOK /\ FreshUnborn /\ ClaimsMatchControl /\ UnresolvedInOnePlace /\ OwedInOnePlace
  BY DEF BridgeInv, SoleResolution
<1> USE DEF TypeOK, FreshUnborn, ClaimsMatchControl, UnresolvedInOnePlace
<1>1. ASSUME NEW c \in Coros, NEW l \in IoLoops, StartHandler(c, l) PROVE UnresolvedInOnePlace'
  BY <1>1 DEF StartHandler
<1>2. ASSUME NEW c \in Coros, InvokeAccepted(c) PROVE UnresolvedInOnePlace'
  <2>1. nextId \in Ids /\ phase[nextId] = "none" /\ nextId \notin corr
    BY Sorts, <1>2 DEF InvokeAccepted
  <2>2. /\ corr' = corr \cup {nextId} /\ todo' = todo
        /\ phase' = [phase EXCEPT ![nextId] = "Pending"]
    BY <1>2 DEF InvokeAccepted, FreshId
  <2>3. ASSUME NEW v \in Workers, NEW i \in todo[v] PROVE i # nextId
    BY <2>1
  <2> QED BY <2>1, <2>2, <2>3
<1>3. ASSUME NEW c \in Coros, InvokeRefused(c) PROVE UnresolvedInOnePlace'
  BY <1>3 DEF InvokeRefused, FreshId
<1>4. ASSUME NEW c \in Coros, Finish(c) PROVE UnresolvedInOnePlace'
  BY <1>4 DEF Finish
<1>5. ASSUME NEW t \in Threads, Send(t) PROVE UnresolvedInOnePlace'
  BY <1>5 DEF Send
<1>6. ASSUME NEW w \in Workers, Resolve(w) PROVE UnresolvedInOnePlace'
  BY <1>6 DEF Resolve
<1>7. ASSUME NEW w \in Workers, QueueInLoop(w) PROVE UnresolvedInOnePlace'
  BY <1>7 DEF QueueInLoop
<1>8. ASSUME NEW w \in Workers, ResumeInPlace(w) PROVE UnresolvedInOnePlace'
  BY <1>8 DEF ResumeInPlace, ResumeOn
<1>9. ASSUME NEW l \in Loops, RunFunctor(l) PROVE UnresolvedInOnePlace'
  BY <1>9 DEF RunFunctor, ResumeOn
<1>10. ASSUME CheckStopping PROVE UnresolvedInOnePlace'
  BY <1>10 DEF CheckStopping
<1>11. ASSUME NEW r \in sent \cup {Update, Nothing}, NEW due \in SUBSET corr, Receive(r, due) PROVE UnresolvedInOnePlace'
  BY <1>11 DEF Receive, SweepOf, Unregister
<1>12. ASSUME ResolvedAll PROVE UnresolvedInOnePlace'
  BY <1>12 DEF ResolvedAll
<1>13. ASSUME DispatchAnswer PROVE UnresolvedInOnePlace'
  BY <1>13 DEF DispatchAnswer, EntryOf, Unregister
<1>14. ASSUME DispatchNothing PROVE UnresolvedInOnePlace'
  BY <1>14 DEF DispatchNothing
<1>15. ASSUME NEW c \in HookCoros, DispatchNewMessage(c) PROVE UnresolvedInOnePlace'
  BY <1>15 DEF DispatchNewMessage
<1>16. ASSUME DispatchConnectionReady PROVE UnresolvedInOnePlace'
  BY <1>16 DEF DispatchConnectionReady, SendOneWay
<1>17. ASSUME DispatchTermination PROVE UnresolvedInOnePlace'
  BY <1>17 DEF DispatchTermination
<1>18. ASSUME SignalDrain PROVE UnresolvedInOnePlace'
  BY <1>18 DEF SignalDrain, Unregister
<1>19. ASSUME SignalQuit PROVE UnresolvedInOnePlace'
  BY <1>19 DEF SignalQuit
<1>20. ASSUME RunApp PROVE UnresolvedInOnePlace'
  BY <1>20 DEF RunApp
<1>21. ASSUME KeepOnline PROVE UnresolvedInOnePlace'
  BY <1>21 DEF KeepOnline, SendOneWay
<1>22. ASSUME Quit PROVE UnresolvedInOnePlace'
  BY <1>22 DEF Quit
<1>23. ASSUME NEW l \in IoLoops, IoLoopExits(l) PROVE UnresolvedInOnePlace'
  BY <1>23 DEF IoLoopExits
<1>24. ASSUME RunReturns PROVE UnresolvedInOnePlace'
  BY <1>24 DEF RunReturns
<1>25. ASSUME CloseThenStop PROVE UnresolvedInOnePlace'
  BY <1>25 DEF CloseThenStop, SendOneWay
<1>26. ASSUME StopDrains PROVE UnresolvedInOnePlace'
  BY <1>26 DEF StopDrains, Unregister
<1>27. ASSUME StopJoins PROVE UnresolvedInOnePlace'
  BY <1>27 DEF StopJoins
<1>28. ASSUME UNCHANGED vars PROVE UnresolvedInOnePlace'
  BY <1>28 DEF vars
<1> QED BY <1>1, <1>2, <1>3, <1>4, <1>5, <1>6, <1>7, <1>8, <1>9, <1>10, <1>11, <1>12, <1>13,
    <1>14, <1>15, <1>16, <1>17, <1>18, <1>19, <1>20, <1>21, <1>22, <1>23, <1>24, <1>25, <1>26,
    <1>27, <1>28
  DEF Next, CoroutineStep, ReceiverStep, MainStep, Terminated

\* A resolved call whose coroutine is owed stays in one place.
LEMMA OwedStep == BridgeInv /\ [Next]_vars => OwedInOnePlace'
<1> SUFFICES ASSUME BridgeInv, [Next]_vars PROVE OwedInOnePlace'
  OBVIOUS
<1> TypeOK /\ FreshUnborn /\ ClaimsMatchControl /\ UnresolvedInOnePlace /\ OwedInOnePlace
  BY DEF BridgeInv, SoleResolution
<1> USE DEF TypeOK, FreshUnborn, UnresolvedInOnePlace, OwedInOnePlace, Queued
<1>1. ASSUME NEW c \in Coros, NEW l \in IoLoops, StartHandler(c, l) PROVE OwedInOnePlace'
  BY <1>1 DEF StartHandler
<1>2. ASSUME NEW c \in Coros, InvokeAccepted(c) PROVE OwedInOnePlace'
  BY <1>2 DEF InvokeAccepted, FreshId
<1>3. ASSUME NEW c \in Coros, InvokeRefused(c) PROVE OwedInOnePlace'
  BY <1>3 DEF InvokeRefused, FreshId
<1>4. ASSUME NEW c \in Coros, Finish(c) PROVE OwedInOnePlace'
  BY <1>4 DEF Finish
<1>5. ASSUME NEW t \in Threads, Send(t) PROVE OwedInOnePlace'
  BY <1>5 DEF Send
<1>6. ASSUME NEW w \in Workers, Resolve(w) PROVE OwedInOnePlace'
  <2>1. PICK i \in todo[w] :
           /\ handoff' = [handoff EXCEPT ![w] = i]
           /\ phase' = [phase EXCEPT ![i] = Verdict(w)]
    BY <1>6 DEF Resolve
  <2>2. Verdict(w) \in Phases \ {"none", "Pending"}
    BY DEF Verdict, Phases
  <2>3. i \in Ids /\ phase[i] = "Pending" /\ UNCHANGED <<ready, late, home>>
    BY <1>6, <2>1 DEF Resolve
  <2>4. /\ \A l \in Loops : i \notin ready[l] /\ i \notin late[l]
        /\ \A v \in Workers : handoff[v] # i
    BY Sorts, <2>3
  <2>5. \A j \in Ids : phase[j] \notin {"none", "Pending"} => phase'[j] = phase[j]
    BY <2>1, <2>3
  <2>6. phase'[i] \notin {"none", "Pending"}
    BY <2>1, <2>2, <2>3
  <2>7. \A v \in Workers : handoff'[v] = IF v = w THEN i ELSE handoff[v]
    BY <2>1
  <2> QED BY <2>3, <2>4, <2>5, <2>6, <2>7
<1>7. ASSUME NEW w \in Workers, QueueInLoop(w) PROVE OwedInOnePlace'
  <2> DEFINE i == handoff[w]
             h == home[i]
  <2>1. i \in Ids /\ h \in Loops /\ UNCHANGED <<phase, home>>
    BY <1>7 DEF QueueInLoop
  <2>2. \A v \in Workers : handoff'[v] = IF v = w THEN NoId ELSE handoff[v]
    BY <1>7 DEF QueueInLoop
  <2>3. \/ late' = [late EXCEPT ![h] = @ \cup {i}] /\ ready' = ready
        \/ ready' = [ready EXCEPT ![h] = @ \cup {i}] /\ late' = late
    BY <1>7 DEF QueueInLoop
  <2>4. /\ phase[i] \notin {"none", "Pending"}
        /\ \A l \in Loops : i \notin ready[l] /\ i \notin late[l]
        /\ \A v \in Workers : v # w => handoff[v] # i
    BY <1>7, <2>1 DEF QueueInLoop
  <2>5. \A l \in Loops : \A j \in ready'[l] \cup late'[l] :
            j \in ready[l] \cup late[l] \/ (j = i /\ l = h)
    BY <2>1, <2>3
  <2>6. ASSUME NEW l \in Loops PROVE ready'[l] \cap late'[l] = {}
    <3>1. ready[l] \cap late[l] = {} /\ i \notin ready[l] /\ i \notin late[l]
      BY <2>4
    <3>2. CASE late' = [late EXCEPT ![h] = @ \cup {i}] /\ ready' = ready
      <4>0. DOMAIN late = Loops
        OBVIOUS
      <4>1. late'[l] = IF l = h THEN late[l] \cup {i} ELSE late[l]
        BY <4>0, <3>2, <2>1, Zenon
      <4> HIDE DEF i, h
      <4> QED BY <3>1, <3>2, <4>1
    <3>3. CASE ready' = [ready EXCEPT ![h] = @ \cup {i}] /\ late' = late
      <4>0. DOMAIN ready = Loops
        OBVIOUS
      <4>1. ready'[l] = IF l = h THEN ready[l] \cup {i} ELSE ready[l]
        BY <4>0, <3>3, <2>1, Zenon
      <4> HIDE DEF i, h
      <4> QED BY <3>1, <3>3, <4>1
    <3> QED BY <2>3, <3>2, <3>3
  <2> QED BY <2>1, <2>2, <2>4, <2>5, <2>6
<1>8. ASSUME NEW w \in Workers, ResumeInPlace(w) PROVE OwedInOnePlace'
  BY <1>8 DEF ResumeInPlace, ResumeOn
<1>9. ASSUME NEW l \in Loops, RunFunctor(l) PROVE OwedInOnePlace'
  BY <1>9 DEF RunFunctor, ResumeOn
<1>10. ASSUME CheckStopping PROVE OwedInOnePlace'
  BY <1>10 DEF CheckStopping
<1>11. ASSUME NEW r \in sent \cup {Update, Nothing}, NEW due \in SUBSET corr, Receive(r, due) PROVE OwedInOnePlace'
  BY <1>11 DEF Receive, SweepOf, Unregister
<1>12. ASSUME ResolvedAll PROVE OwedInOnePlace'
  BY <1>12 DEF ResolvedAll
<1>13. ASSUME DispatchAnswer PROVE OwedInOnePlace'
  BY <1>13 DEF DispatchAnswer, EntryOf, Unregister
<1>14. ASSUME DispatchNothing PROVE OwedInOnePlace'
  BY <1>14 DEF DispatchNothing
<1>15. ASSUME NEW c \in HookCoros, DispatchNewMessage(c) PROVE OwedInOnePlace'
  BY <1>15 DEF DispatchNewMessage
<1>16. ASSUME DispatchConnectionReady PROVE OwedInOnePlace'
  BY <1>16 DEF DispatchConnectionReady, SendOneWay
<1>17. ASSUME DispatchTermination PROVE OwedInOnePlace'
  BY <1>17 DEF DispatchTermination
<1>18. ASSUME SignalDrain PROVE OwedInOnePlace'
  BY <1>18 DEF SignalDrain, Unregister
<1>19. ASSUME SignalQuit PROVE OwedInOnePlace'
  BY <1>19 DEF SignalQuit
<1>20. ASSUME RunApp PROVE OwedInOnePlace'
  BY <1>20 DEF RunApp
<1>21. ASSUME KeepOnline PROVE OwedInOnePlace'
  BY <1>21 DEF KeepOnline, SendOneWay
<1>22. ASSUME Quit PROVE OwedInOnePlace'
  BY <1>22 DEF Quit
<1>23. ASSUME NEW l \in IoLoops, IoLoopExits(l) PROVE OwedInOnePlace'
  BY <1>23 DEF IoLoopExits
<1>24. ASSUME RunReturns PROVE OwedInOnePlace'
  BY <1>24 DEF RunReturns
<1>25. ASSUME CloseThenStop PROVE OwedInOnePlace'
  BY <1>25 DEF CloseThenStop, SendOneWay
<1>26. ASSUME StopDrains PROVE OwedInOnePlace'
  BY <1>26 DEF StopDrains, Unregister
<1>27. ASSUME StopJoins PROVE OwedInOnePlace'
  BY <1>27 DEF StopJoins
<1>28. ASSUME UNCHANGED vars PROVE OwedInOnePlace'
  BY <1>28 DEF vars
<1> QED BY <1>1, <1>2, <1>3, <1>4, <1>5, <1>6, <1>7, <1>8, <1>9, <1>10, <1>11, <1>12, <1>13,
    <1>14, <1>15, <1>16, <1>17, <1>18, <1>19, <1>20, <1>21, <1>22, <1>23, <1>24, <1>25, <1>26,
    <1>27, <1>28
  DEF Next, CoroutineStep, ReceiverStep, MainStep, Terminated

\* A call whose coroutine is owed is resolved, so it is no longer claimed.
LEMMA OwedIsResolved ==
  ASSUME BridgeInv, NEW i \in Ids, Owed(i)
  PROVE  /\ phase[i] \notin {"none", "Pending"}
         /\ i \notin corr /\ \A w \in Workers : i \notin todo[w]
<1>1. phase[i] \notin {"none", "Pending"}
  <2>1. CASE \E w \in Workers : i = handoff[w]
    BY Sorts, <2>1 DEF BridgeInv, SoleResolution, OwedInOnePlace
  <2>2. CASE \E l \in Loops : i \in Queued(l)
    BY <2>2 DEF BridgeInv, SoleResolution, OwedInOnePlace
  <2> QED BY <2>1, <2>2 DEF Owed
<1> QED BY <1>1 DEF BridgeInv, SoleResolution, UnresolvedInOnePlace

\* Queueing a resume passes it on.
LEMMA QueueKeepsOwed ==
  ASSUME TypeOK, NEW w \in Workers, QueueInLoop(w)
  PROVE  \A j \in Ids : Owed(j)' <=> Owed(j)
<1> USE DEF TypeOK
<1> DEFINE i == handoff[w]
           h == home[i]
<1>1. i \in Ids /\ i # NoId /\ h \in Loops
  BY DEF QueueInLoop
<1>2. \A v \in Workers : handoff'[v] = IF v = w THEN NoId ELSE handoff[v]
  BY DEF QueueInLoop
<1>3. \/ late' = [late EXCEPT ![h] = @ \cup {i}] /\ ready' = ready
      \/ ready' = [ready EXCEPT ![h] = @ \cup {i}] /\ late' = late
  BY DEF QueueInLoop
<1> HIDE DEF i, h
<1>6. \A l \in Loops : Queued(l)' = IF l = h THEN Queued(l) \cup {i} ELSE Queued(l)
  <2>1. CASE late' = [late EXCEPT ![h] = @ \cup {i}] /\ ready' = ready
    <3>1. \A l \in Loops : late'[l] = IF l = h THEN late[l] \cup {i} ELSE late[l]
      BY <1>1, <2>1
    <3> QED BY <2>1, <3>1 DEF Queued
  <2>2. CASE ready' = [ready EXCEPT ![h] = @ \cup {i}] /\ late' = late
    <3>1. \A l \in Loops : ready'[l] = IF l = h THEN ready[l] \cup {i} ELSE ready[l]
      BY <1>1, <2>2
    <3> QED BY <2>2, <3>1 DEF Queued
  <2> QED BY <1>3, <2>1, <2>2
<1>4. \A j \in Ids : (\E l \in Loops : j \in Queued(l)')
                     <=> (\E l \in Loops : j \in Queued(l)) \/ j = i
  BY <1>1, <1>6
<1>5. \A j \in Ids : (\E v \in Workers : j = handoff[v])
                     <=> (\E v \in Workers : j = handoff'[v]) \/ j = i
  BY Sorts, <1>1, <1>2 DEF i
<1> QED BY <1>4, <1>5 DEF Owed

\* Resuming in place, or running a queued resume, takes just that call out.
LEMMA InPlaceTakesOwed ==
  ASSUME BridgeInv, NEW w \in Workers, ResumeInPlace(w)
  PROVE  \E i \in Ids :
            /\ i = handoff[w] /\ Owed(i) /\ ResumeOn(waiter[i], w)
            /\ \A j \in Ids : Owed(j)' <=> Owed(j) /\ j # i
<1> DEFINE i == handoff[w]
<1> TypeOK /\ OwedInOnePlace
  BY DEF BridgeInv, SoleResolution
<1>1. i \in Ids /\ i # NoId /\ ResumeOn(waiter[i], w)
  BY DEF ResumeInPlace, TypeOK
<1>2. UNCHANGED <<ready, late>>
  BY DEF ResumeInPlace
<1>3. \A v \in Workers : handoff'[v] = IF v = w THEN NoId ELSE handoff[v]
  BY DEF ResumeInPlace, TypeOK
<1>4. \A v \in Workers : v # w => handoff[v] # i
  BY <1>1 DEF OwedInOnePlace
<1>5. \A l \in Loops : i \notin Queued(l)
  BY <1>1 DEF OwedInOnePlace
<1>6. \A j \in Ids : (\E v \in Workers : j = handoff'[v])
                     <=> (\E v \in Workers : j = handoff[v]) /\ j # i
  BY Sorts, <1>1, <1>3, <1>4
<1>7. \A j \in Ids : Owed(j)' <=> Owed(j) /\ j # i
  BY <1>2, <1>5, <1>6 DEF Owed, Queued
<1> QED BY <1>1, <1>7 DEF Owed

\* Running a queued resume takes just that call out of the queue (the functor of
\* resolve).
LEMMA FunctorTakesOwed ==
  ASSUME BridgeInv, NEW l \in Loops, RunFunctor(l)
  PROVE  \E i \in Ids :
            /\ i \in ready[l] /\ Owed(i) /\ ResumeOn(waiter[i], l)
            /\ \A j \in Ids : Owed(j)' <=> Owed(j) /\ j # i
<1> TypeOK /\ OwedInOnePlace
  BY DEF BridgeInv, SoleResolution
<1>1. PICK i \in ready[l] :
         ready' = [ready EXCEPT ![l] = @ \ {i}] /\ ResumeOn(waiter[i], l)
  BY DEF RunFunctor
<1>2. UNCHANGED <<handoff, late>>
  BY DEF RunFunctor
<1>3. i \in Ids /\ i \in Queued(l) /\ i # NoId
  BY Sorts, <1>1 DEF TypeOK, Queued
<1>4. \A v \in Workers : handoff[v] # i
  BY <1>3 DEF OwedInOnePlace
<1>5. (\A k \in Loops : k # l => i \notin Queued(k)) /\ i \notin late[l]
  BY <1>1, <1>3 DEF OwedInOnePlace
<1>6. \A j \in Ids : (\E k \in Loops : j \in Queued(k)')
                     <=> (\E k \in Loops : j \in Queued(k)) /\ j # i
  BY <1>1, <1>2, <1>5 DEF Queued, TypeOK
<1>7. \A j \in Ids : Owed(j)' <=> Owed(j) /\ j # i
  BY <1>2, <1>4, <1>6 DEF Owed
<1> QED BY <1>1, <1>3, <1>7 DEF Owed

\* Moving a call from one structure to the next keeps the match.
LEMMA MoveKeepsMatch ==
  ASSUME SleepersMatchDuties,
         \A i \in Ids : InTransit(i)' <=> InTransit(i),
         UNCHANGED <<waiter, co, awaiting>>
  PROVE  SleepersMatchDuties'
  BY DEF SleepersMatchDuties

\* So does claiming calls out of the map for a worker that holds none.
LEMMA ClaimKeepsMatch ==
  ASSUME TypeOK, SleepersMatchDuties,
         NEW w \in Workers, NEW due \in SUBSET corr,
         todo[w] = {}, todo' = [todo EXCEPT ![w] = due], corr' = corr \ due,
         UNCHANGED <<waiter, co, awaiting, handoff, ready, late>>
  PROVE  SleepersMatchDuties'
<1>1. \A v \in Workers : todo'[v] = IF v = w THEN due ELSE todo[v]
  BY DEF TypeOK
<1>2. \A i \in Ids : (i \in corr' \/ \E v \in Workers : i \in todo'[v])
                     <=> (i \in corr \/ \E v \in Workers : i \in todo[v])
  BY <1>1
<1>3. \A i \in Ids : InTransit(i)' <=> InTransit(i)
  BY <1>2 DEF InTransit, Owed, Queued
<1> QED BY <1>3, MoveKeepsMatch

\* Waking the coroutine of a call that leaves transit keeps the match.
LEMMA WakeKeepsMatch ==
  ASSUME TypeOK, SleepersMatchDuties,
         NEW i \in Ids, NEW t, InTransit(i), ResumeOn(waiter[i], t),
         \A j \in Ids : InTransit(j)' <=> InTransit(j) /\ j # i,
         UNCHANGED waiter
  PROVE  SleepersMatchDuties'
<1>1. /\ waiter[i] \in Coros /\ awaiting[waiter[i]] = i
  BY DEF SleepersMatchDuties
<1>2. \A c \in Coros : co'[c] = IF c = waiter[i] THEN "running" ELSE co[c]
  BY DEF TypeOK, ResumeOn
<1>3. \A c \in Coros : c # waiter[i] => awaiting'[c] = awaiting[c]
  BY DEF TypeOK, ResumeOn
<1>4. ASSUME NEW j \in Ids, InTransit(j)'
      PROVE  /\ waiter'[j] \in Coros /\ co'[waiter'[j]] = "suspended"
             /\ awaiting'[waiter'[j]] = j
  <2>1. InTransit(j) /\ j # i
    BY <1>4
  <2>2. waiter[j] \in Coros /\ co[waiter[j]] = "suspended" /\ awaiting[waiter[j]] = j
    BY <2>1 DEF SleepersMatchDuties
  <2>3. waiter[j] # waiter[i]
    BY <1>1, <2>1, <2>2
  <2> QED BY <1>2, <1>3, <2>2, <2>3
<1>5. ASSUME NEW c \in Coros, co'[c] = "suspended"
      PROVE  /\ awaiting'[c] \in Ids /\ InTransit(awaiting[c])'
             /\ waiter'[awaiting'[c]] = c
  <2>1. c # waiter[i] /\ co[c] = "suspended" /\ awaiting'[c] = awaiting[c]
    BY <1>2, <1>3, <1>5
  <2>2. awaiting[c] \in Ids /\ InTransit(awaiting[c]) /\ waiter[awaiting[c]] = c
    BY <2>1 DEF SleepersMatchDuties
  <2>3. awaiting[c] # i
    BY <2>1, <2>2
  <2>4. PICK j \in Ids : j = awaiting[c] /\ j = awaiting'[c]
    BY <2>1, <2>2
  <2>5. InTransit(j)'
    BY <2>2, <2>3, <2>4
  <2>6. InTransit(awaiting[c])'
    BY <2>4, <2>5 DEF InTransit, Owed, Queued
  <2> QED BY <2>1, <2>2, <2>4, <2>6
<1> QED BY <1>4, <1>5 DEF SleepersMatchDuties

\* Sleeping coroutines and calls in transit stay matched one to one.
LEMMA SleepersStep == BridgeInv /\ [Next]_vars => SleepersMatchDuties'
<1> SUFFICES ASSUME BridgeInv, [Next]_vars PROVE SleepersMatchDuties'
  OBVIOUS
<1> /\ TypeOK /\ FreshUnborn /\ ClaimsMatchControl
    /\ UnresolvedInOnePlace /\ OwedInOnePlace /\ SleepersMatchDuties
  BY DEF BridgeInv, SoleResolution
<1> USE DEF TypeOK
<1>1. ASSUME NEW c \in Coros, NEW l \in IoLoops, StartHandler(c, l) PROVE SleepersMatchDuties'
  BY <1>1 DEF StartHandler, SleepersMatchDuties, InTransit, Owed, Queued
<1>2. ASSUME NEW c \in Coros, InvokeAccepted(c) PROVE SleepersMatchDuties'
  <2>1. nextId \in Ids /\ phase[nextId] = "none" /\ co[c] = "running"
    BY Sorts, <1>2 DEF InvokeAccepted, FreshUnborn
  <2>2. /\ corr' = corr \cup {nextId} /\ UNCHANGED <<todo, handoff, ready, late>>
        /\ waiter' = [waiter EXCEPT ![nextId] = c]
        /\ co' = [co EXCEPT ![c] = "suspended"]
        /\ awaiting' = [awaiting EXCEPT ![c] = nextId]
    BY <1>2 DEF InvokeAccepted, FreshId
  <2>3. \A i \in Ids : InTransit(i)' <=> InTransit(i) \/ i = nextId
    BY <2>2 DEF InTransit, Owed, Queued
  <2>4. ~ InTransit(nextId)
    BY Sorts, <2>1 DEF InTransit, Owed, UnresolvedInOnePlace, OwedInOnePlace
  <2>5. \A i \in Ids : InTransit(i) => waiter[i] # c
    BY <2>1 DEF SleepersMatchDuties
  <2>6. ASSUME NEW i \in Ids, InTransit(i)'
        PROVE  waiter'[i] \in Coros /\ co'[waiter'[i]] = "suspended"
                 /\ awaiting'[waiter'[i]] = i
    <3>1. CASE i = nextId
      BY <2>2, <3>1
    <3>2. CASE i # nextId
      BY <2>2, <2>3, <2>5, <2>6, <3>2 DEF SleepersMatchDuties
    <3> QED BY <3>1, <3>2
  <2>7. ASSUME NEW d \in Coros, co'[d] = "suspended"
        PROVE  awaiting'[d] \in Ids /\ InTransit(awaiting[d])'
                 /\ waiter'[awaiting'[d]] = d
    <3>1. CASE d = c
      BY <2>1, <2>2, <3>1 DEF InTransit
    <3>2. CASE d # c
      <4>1. awaiting'[d] = awaiting[d] /\ co[d] = "suspended"
        BY <2>2, <2>7, <3>2
      <4>2. PICK i \in Ids : i = awaiting[d] /\ InTransit(i) /\ waiter[i] = d
        BY <4>1 DEF SleepersMatchDuties
      <4>3. InTransit(i)' /\ i # nextId
        BY <2>3, <2>4, <4>2
      <4>4. InTransit(awaiting[d])'
        BY <4>1, <4>2, <4>3 DEF InTransit, Owed, Queued
      <4> QED BY <2>2, <4>1, <4>2, <4>3, <4>4
    <3> QED BY <3>1, <3>2
  <2> QED BY <2>6, <2>7 DEF SleepersMatchDuties
<1>3. ASSUME NEW c \in Coros, InvokeRefused(c) PROVE SleepersMatchDuties'
  <2>1. nextId \in Ids /\ phase[nextId] = "none"
    BY Sorts, <1>3 DEF InvokeRefused, FreshUnborn
  <2>2. UNCHANGED <<co, awaiting, corr, todo, handoff, ready, late>>
        /\ waiter' = [waiter EXCEPT ![nextId] = c]
    BY <1>3 DEF InvokeRefused, FreshId
  <2>3. ~ InTransit(nextId)
    BY Sorts, <2>1 DEF InTransit, Owed, UnresolvedInOnePlace, OwedInOnePlace
  <2>4. \A i \in Ids : InTransit(i)' <=> InTransit(i)
    BY <2>2 DEF InTransit, Owed, Queued
  <2>5. \A i \in Ids : i # nextId => waiter'[i] = waiter[i]
    BY <2>2
  <2> QED BY <2>2, <2>3, <2>4, <2>5 DEF SleepersMatchDuties
<1>4. ASSUME NEW c \in Coros, Finish(c) PROVE SleepersMatchDuties'
  <2>1. /\ co[c] = "running" /\ co' = [co EXCEPT ![c] = "done"]
        /\ UNCHANGED <<waiter, awaiting, corr, todo, handoff, ready, late>>
    BY <1>4 DEF Finish
  <2>2. \A i \in Ids : InTransit(i)' <=> InTransit(i)
    BY <2>1 DEF InTransit, Owed, Queued
  <2>3. \A d \in Coros : co'[d] = "suspended" <=> co[d] = "suspended"
    BY <2>1
  <2> QED BY <2>1, <2>2, <2>3 DEF SleepersMatchDuties
<1>5. ASSUME NEW t \in Threads, Send(t) PROVE SleepersMatchDuties'
  BY <1>5 DEF Send, SleepersMatchDuties, InTransit, Owed, Queued
<1>6. ASSUME NEW w \in Workers, Resolve(w) PROVE SleepersMatchDuties'
  <2>1. PICK i \in todo[w] :
           /\ todo' = [todo EXCEPT ![w] = @ \ {i}]
           /\ handoff' = [handoff EXCEPT ![w] = i]
    BY <1>6 DEF Resolve, UnresolvedInOnePlace
  <2>2. handoff[w] = NoId /\ i \in Ids /\ i # NoId
    BY Sorts, <1>6 DEF Resolve, AtTop
  <2>3. UNCHANGED <<waiter, co, awaiting, corr, ready, late>>
    BY <1>6 DEF Resolve
  <2>4. \A j \in Ids : InTransit(j)' <=> InTransit(j)
    BY Sorts, <2>1, <2>2, <2>3 DEF InTransit, Owed, Queued
  <2> QED BY <2>3, <2>4, MoveKeepsMatch
<1>7. ASSUME NEW w \in Workers, QueueInLoop(w) PROVE SleepersMatchDuties'
  <2>1. \A j \in Ids : Owed(j)' <=> Owed(j)
    BY <1>7, QueueKeepsOwed
  <2>2. UNCHANGED <<waiter, co, awaiting, corr, todo>>
    BY <1>7 DEF QueueInLoop
  <2>3. \A j \in Ids : InTransit(j)' <=> InTransit(j)
    BY <2>1, <2>2 DEF InTransit
  <2> QED BY <2>2, <2>3, MoveKeepsMatch
<1>8. ASSUME NEW w \in Workers, ResumeInPlace(w) PROVE SleepersMatchDuties'
  <2>1. PICK i \in Ids :
           /\ Owed(i) /\ ResumeOn(waiter[i], w)
           /\ \A j \in Ids : Owed(j)' <=> Owed(j) /\ j # i
    BY <1>8, InPlaceTakesOwed
  <2>2. UNCHANGED <<waiter, corr, todo>>
    BY <1>8 DEF ResumeInPlace
  <2>3. InTransit(i) /\ \A j \in Ids : InTransit(j)' <=> InTransit(j) /\ j # i
    BY <2>1, <2>2, OwedIsResolved DEF InTransit
  <2> QED BY <2>1, <2>2, <2>3, WakeKeepsMatch
<1>9. ASSUME NEW l \in Loops, RunFunctor(l) PROVE SleepersMatchDuties'
  <2>1. PICK i \in Ids :
           /\ Owed(i) /\ ResumeOn(waiter[i], l)
           /\ \A j \in Ids : Owed(j)' <=> Owed(j) /\ j # i
    BY <1>9, FunctorTakesOwed
  <2>2. UNCHANGED <<waiter, corr, todo>>
    BY <1>9 DEF RunFunctor
  <2>3. InTransit(i) /\ \A j \in Ids : InTransit(j)' <=> InTransit(j) /\ j # i
    BY <2>1, <2>2, OwedIsResolved DEF InTransit
  <2> QED BY <2>1, <2>2, <2>3, WakeKeepsMatch
<1>10. ASSUME CheckStopping PROVE SleepersMatchDuties'
  BY <1>10 DEF CheckStopping, SleepersMatchDuties, InTransit, Owed, Queued
<1>11. ASSUME NEW r \in sent \cup {Update, Nothing}, NEW due \in SUBSET corr, Receive(r, due) PROVE SleepersMatchDuties'
  <2>1. /\ todo["receiver"] = {} /\ due \in SUBSET corr /\ "receiver" \in Workers
        /\ todo' = [todo EXCEPT !["receiver"] = due] /\ corr' = corr \ due
        /\ UNCHANGED <<waiter, co, awaiting, handoff, ready, late>>
    BY Sorts, <1>11 DEF Receive, SweepOf, Unregister, ClaimsMatchControl
  <2> QED BY <2>1, ClaimKeepsMatch
<1>12. ASSUME ResolvedAll PROVE SleepersMatchDuties'
  BY <1>12 DEF ResolvedAll, SleepersMatchDuties, InTransit, Owed, Queued
<1>13. ASSUME DispatchAnswer PROVE SleepersMatchDuties'
  <2>1. /\ todo["receiver"] = {} /\ {resp} \in SUBSET corr /\ "receiver" \in Workers
        /\ todo' = [todo EXCEPT !["receiver"] = {resp}] /\ corr' = corr \ {resp}
        /\ UNCHANGED <<waiter, co, awaiting, handoff, ready, late>>
    BY Sorts, <1>13 DEF DispatchAnswer, EntryOf, Unregister, ClaimsMatchControl
  <2> QED BY <2>1, ClaimKeepsMatch
<1>14. ASSUME DispatchNothing PROVE SleepersMatchDuties'
  BY <1>14 DEF DispatchNothing, SleepersMatchDuties, InTransit, Owed, Queued
<1>15. ASSUME NEW c \in HookCoros, DispatchNewMessage(c) PROVE SleepersMatchDuties'
  BY <1>15 DEF DispatchNewMessage, SleepersMatchDuties, InTransit, Owed, Queued
<1>16. ASSUME DispatchConnectionReady PROVE SleepersMatchDuties'
  BY <1>16 DEF DispatchConnectionReady, SendOneWay, SleepersMatchDuties, InTransit, Owed, Queued
<1>17. ASSUME DispatchTermination PROVE SleepersMatchDuties'
  BY <1>17 DEF DispatchTermination, SleepersMatchDuties, InTransit, Owed, Queued
<1>18. ASSUME SignalDrain PROVE SleepersMatchDuties'
  <2>1. /\ todo["signal"] = {} /\ corr \in SUBSET corr /\ "signal" \in Workers
        /\ todo' = [todo EXCEPT !["signal"] = corr] /\ corr' = corr \ corr
        /\ UNCHANGED <<waiter, co, awaiting, handoff, ready, late>>
    BY Sorts, <1>18 DEF SignalDrain, Unregister, ClaimsMatchControl
  <2> QED BY <2>1, ClaimKeepsMatch
<1>19. ASSUME SignalQuit PROVE SleepersMatchDuties'
  BY <1>19 DEF SignalQuit, SleepersMatchDuties, InTransit, Owed, Queued
<1>20. ASSUME RunApp PROVE SleepersMatchDuties'
  BY <1>20 DEF RunApp, SleepersMatchDuties, InTransit, Owed, Queued
<1>21. ASSUME KeepOnline PROVE SleepersMatchDuties'
  BY <1>21 DEF KeepOnline, SendOneWay, SleepersMatchDuties, InTransit, Owed, Queued
<1>22. ASSUME Quit PROVE SleepersMatchDuties'
  BY <1>22 DEF Quit, SleepersMatchDuties, InTransit, Owed, Queued
<1>23. ASSUME NEW l \in IoLoops, IoLoopExits(l) PROVE SleepersMatchDuties'
  BY <1>23 DEF IoLoopExits, SleepersMatchDuties, InTransit, Owed, Queued
<1>24. ASSUME RunReturns PROVE SleepersMatchDuties'
  BY <1>24 DEF RunReturns, SleepersMatchDuties, InTransit, Owed, Queued
<1>25. ASSUME CloseThenStop PROVE SleepersMatchDuties'
  BY <1>25 DEF CloseThenStop, SendOneWay, SleepersMatchDuties, InTransit, Owed, Queued
<1>26. ASSUME StopDrains PROVE SleepersMatchDuties'
  <2>1. /\ todo["main"] = {} /\ corr \in SUBSET corr /\ "main" \in Workers
        /\ todo' = [todo EXCEPT !["main"] = corr] /\ corr' = corr \ corr
        /\ UNCHANGED <<waiter, co, awaiting, handoff, ready, late>>
    BY Sorts, <1>26 DEF StopDrains, Unregister, ClaimsMatchControl
  <2> QED BY <2>1, ClaimKeepsMatch
<1>27. ASSUME StopJoins PROVE SleepersMatchDuties'
  BY <1>27 DEF StopJoins, SleepersMatchDuties, InTransit, Owed, Queued
<1>28. ASSUME UNCHANGED vars PROVE SleepersMatchDuties'
  BY <1>28 DEF vars, SleepersMatchDuties, InTransit, Owed, Queued
<1> QED BY <1>1, <1>2, <1>3, <1>4, <1>5, <1>6, <1>7, <1>8, <1>9, <1>10, <1>11, <1>12, <1>13,
    <1>14, <1>15, <1>16, <1>17, <1>18, <1>19, <1>20, <1>21, <1>22, <1>23, <1>24, <1>25, <1>26,
    <1>27, <1>28
  DEF Next, CoroutineStep, ReceiverStep, MainStep, Terminated

\* Every step of every thread keeps the inductive invariant.
LEMMA NextInv == BridgeInv /\ [Next]_vars => BridgeInv'
  BY TypeStep, FreshStep, ControlStep, UnresolvedStep, OwedStep, SleepersStep
     DEF BridgeInv, SoleResolution

\* The inductive invariant holds of every reachable state: who claims a call
\* from the map owns it, through resolve() to the resume of its coroutine.
THEOREM BridgeInvariant == Spec => []BridgeInv
  BY InitInv, NextInv, PTL DEF Spec

\* Every variable keeps its type, whatever the interleaving: in particular a
\* request id is never 0, the id TDLib uses for updates (RequestIdGenerator).
THEOREM TypeCorrect == Spec => []TypeOK
<1>1. BridgeInv => TypeOK
  BY DEF BridgeInv
<1> QED BY <1>1, BridgeInvariant, PTL

\* A call is resolved by one worker, its coroutine is owed in one place and
\* woken once, and no sleeping coroutine is lost (resolve, claim,
\* claimExpired, drainPending).
THEOREM ResolutionIsSole == Spec => []SoleResolution
<1>1. BridgeInv => SoleResolution
  BY DEF BridgeInv
<1> QED BY <1>1, BridgeInvariant, PTL

\* Sets of request ids are finite, so that the map has a size (tryInsert).
LEMMA IdsFinite ==
  ASSUME NEW S \in SUBSET Ids
  PROVE  /\ IsFiniteSet(S) /\ Cardinality(S) \in Nat
         /\ \A T \in SUBSET S : IsFiniteSet(T) /\ Cardinality(T) <= Cardinality(S)
<1>1. IsFiniteSet(Ids)
  BY FS_Interval, BridgeAssumption DEF BridgeAssumption, Ids
<1>2. IsFiniteSet(S)
  BY <1>1, FS_Subset
<1> QED BY <1>2, FS_Subset, FS_CardinalityType

\* The map never outgrows max_inflight (CorrelationMap::tryInsert).
THEOREM InflightIsBounded == Spec => []InflightBounded
<1>1. Init => InflightBounded
  BY Sorts, FS_EmptySet DEF Init, InflightBounded
<1>2. ASSUME BridgeInv, InflightBounded, [Next]_vars
      PROVE  InflightBounded'
  <2> corr \in SUBSET Ids /\ nextId \in Nat
    BY <1>2 DEF BridgeInv, TypeOK
  <2>1. CASE \E c \in Coros : InvokeAccepted(c)
    <3>1. corr' = corr \cup {nextId} /\ Cardinality(corr) < MaxInflight
      BY <2>1, IdsFinite, Sorts DEF InvokeAccepted, FreshId, Full
    <3>2. Cardinality(corr') <= Cardinality(corr) + 1
      BY <3>1, IdsFinite, FS_AddElement
    <3> QED BY <3>1, <3>2, IdsFinite, FS_AddElement, FS_CardinalityType, Sorts DEF InflightBounded
  <2>2. CASE ~ \E c \in Coros : InvokeAccepted(c)
    <3>1. corr' \in SUBSET corr
      BY <1>2, <2>2
         DEF Next, CoroutineStep, ReceiverStep, MainStep, Terminated, vars,
             StartHandler, InvokeRefused, Finish, Send, Resolve, QueueInLoop,
             ResumeInPlace, RunFunctor, CheckStopping, Receive, ResolvedAll,
             DispatchAnswer, DispatchNothing, DispatchNewMessage,
             DispatchConnectionReady, DispatchTermination, Unregister,
             SignalDrain, SignalQuit, RunApp, KeepOnline, Quit, IoLoopExits,
             RunReturns, CloseThenStop, StopDrains, StopJoins
    <3> QED BY <1>2, <3>1, IdsFinite, Sorts DEF InflightBounded
  <2> QED BY <2>1, <2>2
<1> QED BY <1>1, <1>2, BridgeInvariant, PTL DEF Spec

\* The errors of the bridge are not answers, nor one another (makeError).
LEMMA OutcomesDiffer ==
    /\ \A i \in Ids : Answer(i).kind = "answer" /\ Answer(i).of = i
    /\ \A o \in {Unknown, TimeoutError, BusyError, ShutdownError} : o.kind # "answer"
    /\ \A i \in Ids : Answer(i) # ShutdownError
    /\ ShutdownError \notin {Unknown, TimeoutError, BusyError}
<1> USE DEF Answer, Unknown, TimeoutError, BusyError, ShutdownError
<1>1. /\ \A i \in Ids : Answer(i).kind = "answer" /\ Answer(i).of = i
      /\ \A o \in {Unknown, TimeoutError, BusyError, ShutdownError} : o.kind # "answer"
  OBVIOUS
<1>2. /\ Unknown.kind = "unknown" /\ TimeoutError.kind = "UPSTREAM_TIMEOUT"
      /\ BusyError.kind = "SERVICE_BUSY" /\ ShutdownError.kind = "UPSTREAM_SHUTDOWN"
  OBVIOUS
<1> HIDE DEF Answer, Unknown, TimeoutError, BusyError, ShutdownError
<1> QED BY <1>1, <1>2

\* An answer reaches only the call it answers, and a shutdown error only a
\* call that a shutdown cut short (dispatch, claim, drainPending).
THEOREM OutcomesAreEarned == Spec => []OutcomeEarned
<1>1. Init => OutcomeEarned
  BY OutcomesDiffer DEF Init, OutcomeEarned
<1>2. ASSUME BridgeInv, OutcomeEarned, [Next]_vars
      PROVE  OutcomeEarned'
  <2> TypeOK /\ ClaimsMatchControl /\ UnresolvedInOnePlace
    BY <1>2 DEF BridgeInv, SoleResolution
  <2> DEFINE Began == spc # "sigwait" \/ mpc \in {"join", "stopped"}
  <2>1. CASE \E c \in Coros : InvokeRefused(c)
    <3>1. result' = [result EXCEPT ![nextId] = BusyError] /\ UNCHANGED <<spc, mpc>>
      BY <2>1 DEF InvokeRefused, FreshId
    <3>2. \A i \in Ids : result'[i] = result[i] \/ result'[i] = BusyError
      BY <3>1 DEF TypeOK
    <3> QED BY <1>2, <3>1, <3>2, OutcomesDiffer DEF OutcomeEarned
  <2>2. CASE \E w \in Workers : Resolve(w)
    <3>0. PICK w \in Workers : Resolve(w)
      BY <2>2
    <3>1. PICK i \in todo[w] : result' = [result EXCEPT ![i] = VerdictResult(w)]
      BY <3>0 DEF Resolve, UnresolvedInOnePlace
    <3>2. i \in Ids /\ UNCHANGED <<spc, mpc>>
      BY <2>2, <3>1 DEF Resolve, TypeOK
    <3>3. CASE w = "receiver"
      <4>1. VerdictResult(w) \in {TimeoutError, Answer(i)}
        BY <3>1, <3>3 DEF VerdictResult, Verdict, ClaimsMatchControl
      <4>2. \A j \in Ids : j # i => result'[j] = result[j]
        BY <3>1 DEF TypeOK
      <4>3. result'[i] \in {TimeoutError, Answer(i)}
        BY <3>1, <3>2, <4>1 DEF TypeOK
      <4> QED BY <1>2, <3>2, <4>2, <4>3, OutcomesDiffer DEF OutcomeEarned
    <3>4. CASE w # "receiver"
      <4>1. VerdictResult(w) = ShutdownError
        BY <3>4 DEF VerdictResult, Verdict
      <4>2. Began'
        BY <3>1, <3>2, <3>4, Sorts DEF ClaimsMatchControl, TypeOK
      <4>3. \A j \in Ids : result'[j] = result[j] \/ result'[j] = ShutdownError
        BY <3>1, <4>1 DEF TypeOK
      <4> QED BY <1>2, <4>2, <4>3, OutcomesDiffer DEF OutcomeEarned
    <3> QED BY <3>3, <3>4
  <2>3. CASE ~ (\E c \in Coros : InvokeRefused(c)) /\ ~ (\E w \in Workers : Resolve(w))
    <3>1. result' = result /\ (Began => Began')
      BY <1>2, <2>3
         DEF Next, CoroutineStep, ReceiverStep, MainStep, Terminated, vars,
             StartHandler, InvokeAccepted, Finish, Send, QueueInLoop,
             ResumeInPlace, RunFunctor, CheckStopping, Receive, ResolvedAll,
             DispatchAnswer, DispatchNothing, DispatchNewMessage,
             DispatchConnectionReady, DispatchTermination,
             SignalDrain, SignalQuit, RunApp, KeepOnline, Quit, IoLoopExits,
             RunReturns, CloseThenStop, StopDrains, StopJoins
    <3> QED BY <1>2, <3>1 DEF OutcomeEarned
  <2> QED BY <2>1, <2>2, <2>3
<1> QED BY <1>1, <1>2, BridgeInvariant, PTL DEF Spec

\* The two modules give the outcomes the same values.
LEMMA SameOutcomes ==
    /\ Contract!Unknown = Unknown /\ Contract!TimeoutError = TimeoutError
    /\ Contract!BusyError = BusyError /\ Contract!ShutdownError = ShutdownError
    /\ \A i \in Ids : Contract!Answer(i) = Answer(i)
  BY DEF Contract!Unknown, Contract!TimeoutError, Contract!BusyError,
         Contract!ShutdownError, Contract!Answer, Unknown, TimeoutError,
         BusyError, ShutdownError, Answer

\* The refinement mapping, and what a step does to it.
StageFn == [i \in Ids |-> Stage(i)]

\* A step that resolves nothing and resumes nobody is a stutter of the contract.
LEMMA SameStage ==
  ASSUME UNCHANGED phase, \A j \in Ids : Owed(j)' <=> Owed(j)
  PROVE  StageFn' = StageFn
  BY DEF StageFn, Stage

\* Resuming the coroutine of a resolved call is the Resume of the contract.
LEMMA ResumedStage ==
  ASSUME BridgeInv, NEW i \in Ids, Owed(i), UNCHANGED <<phase, result>>,
         \A j \in Ids : Owed(j)' <=> Owed(j) /\ j # i
  PROVE  Contract!Resume(i)
<1>1. phase[i] \notin {"none", "Pending"}
  BY OwedIsResolved
<1>2. /\ StageFn[i] = "settled"
      /\ StageFn' = [StageFn EXCEPT ![i] = "resumed"]
  BY <1>1 DEF StageFn, Stage
<1> QED BY <1>2 DEF Contract!Resume, StageFn

\* The bridge implements what invoke() promises: one outcome per call, its
\* own answer or an error, and at most one wake-up, after the outcome is
\* written.
THEOREM BridgeImplementsContract == Spec => ImplementsContract
<1>1. Init => Contract!Init
  <2> SUFFICES ASSUME Init PROVE Contract!Init
    OBVIOUS
  <2>1. \A i \in Ids : Stage(i) = "unborn"
    BY DEF Init, Stage
  <2> QED BY <2>1, SameOutcomes DEF Init, Contract!Init
<1>2. ASSUME BridgeInv, [Next]_vars
      PROVE  [Contract!Next]_(Contract!callVars)
  <2> TypeOK /\ FreshUnborn /\ UnresolvedInOnePlace /\ OwedInOnePlace
    BY <1>2 DEF BridgeInv, SoleResolution
  <2>1. ASSUME NEW c \in Coros, InvokeAccepted(c) PROVE Contract!Open(nextId)
    <3>1. nextId \in Ids /\ phase[nextId] = "none" /\ UNCHANGED result
      BY <2>1, Sorts DEF InvokeAccepted, TypeOK, FreshUnborn
    <3>2. /\ phase' = [phase EXCEPT ![nextId] = "Pending"]
          /\ UNCHANGED <<handoff, ready, late>>
      BY <2>1 DEF InvokeAccepted, FreshId
    <3>3. \A j \in Ids : Owed(j)' <=> Owed(j)
      BY <3>2 DEF Owed, Queued
    <3>4. StageFn[nextId] = "unborn" /\ StageFn' = [StageFn EXCEPT ![nextId] = "open"]
      BY <3>1, <3>2, <3>3 DEF StageFn, Stage, TypeOK
    <3> QED BY <3>1, <3>4 DEF Contract!Open, StageFn
  <2>2. ASSUME NEW c \in Coros, InvokeRefused(c) PROVE Contract!Refuse(nextId)
    <3>1. nextId \in Ids /\ phase[nextId] = "none"
      BY <2>2, Sorts DEF InvokeRefused, TypeOK, FreshUnborn
    <3>2. /\ phase' = [phase EXCEPT ![nextId] = "Rejected"]
          /\ result' = [result EXCEPT ![nextId] = BusyError]
          /\ UNCHANGED <<handoff, ready, late>>
      BY <2>2 DEF InvokeRefused, FreshId
    <3>3. (\A j \in Ids : Owed(j)' <=> Owed(j)) /\ ~ Owed(nextId)
      BY <1>2, <3>1, <3>2, OwedIsResolved DEF Owed, Queued
    <3>4. StageFn[nextId] = "unborn" /\ StageFn' = [StageFn EXCEPT ![nextId] = "resumed"]
      BY <3>1, <3>2, <3>3 DEF StageFn, Stage, TypeOK
    <3> QED BY <3>1, <3>2, <3>4, SameOutcomes DEF Contract!Refuse, StageFn
  <2>3. ASSUME NEW w \in Workers, Resolve(w)
        PROVE  \E i \in Ids : Contract!Settle(i)
    <3>1. PICK i \in todo[w] :
             /\ handoff' = [handoff EXCEPT ![w] = i]
             /\ phase' = [phase EXCEPT ![i] = Verdict(w)]
             /\ result' = [result EXCEPT ![i] = VerdictResult(w)]
      BY <2>3 DEF Resolve, UnresolvedInOnePlace
    <3>2. /\ i \in Ids /\ phase[i] = "Pending" /\ UNCHANGED <<ready, late>>
          /\ handoff[w] = NoId
      BY <2>3, <3>1 DEF Resolve, AtTop, TypeOK, UnresolvedInOnePlace
    <3>3. Verdict(w) \notin {"none", "Pending"}
      BY DEF Verdict
    <3>4. VerdictResult(w) \in {Answer(i), TimeoutError, ShutdownError}
      BY <1>2, <3>1 DEF Verdict, VerdictResult, BridgeInv, ClaimsMatchControl
    <3>5. \A j \in Ids : Owed(j)' <=> Owed(j) \/ j = i
      BY <3>1, <3>2, Sorts DEF Owed, Queued, TypeOK
    <3>6. StageFn[i] = "open" /\ StageFn' = [StageFn EXCEPT ![i] = "settled"]
      BY <3>1, <3>2, <3>3, <3>5 DEF StageFn, Stage, TypeOK
    <3> QED BY <3>1, <3>2, <3>4, <3>6, SameOutcomes DEF Contract!Settle, StageFn
  <2>4. ASSUME NEW w \in Workers, ResumeInPlace(w)
        PROVE  \E i \in Ids : Contract!Resume(i)
    BY <1>2, <2>4, InPlaceTakesOwed, ResumedStage DEF ResumeInPlace
  <2>5. ASSUME NEW l \in Loops, RunFunctor(l)
        PROVE  \E i \in Ids : Contract!Resume(i)
    BY <1>2, <2>5, FunctorTakesOwed, ResumedStage DEF RunFunctor
  <2>6. ASSUME NEW w \in Workers, QueueInLoop(w)
        PROVE  UNCHANGED <<StageFn, result>>
    BY <2>6, QueueKeepsOwed, SameStage DEF QueueInLoop
  <2>7. CASE /\ \A c \in Coros : ~ InvokeAccepted(c) /\ ~ InvokeRefused(c)
             /\ \A w \in Workers : ~ Resolve(w) /\ ~ QueueInLoop(w) /\ ~ ResumeInPlace(w)
             /\ \A l \in Loops : ~ RunFunctor(l)
    <3>1. UNCHANGED <<phase, result, handoff, ready, late>>
      BY <1>2, <2>7
         DEF Next, CoroutineStep, ReceiverStep, MainStep, Terminated, vars,
             StartHandler, Finish, Send, CheckStopping, Receive, ResolvedAll,
             DispatchAnswer, DispatchNothing, DispatchNewMessage,
             DispatchConnectionReady, DispatchTermination,
             SignalDrain, SignalQuit, RunApp, KeepOnline, Quit, IoLoopExits,
             RunReturns, CloseThenStop, StopDrains, StopJoins
    <3>2. \A j \in Ids : Owed(j)' <=> Owed(j)
      BY <3>1 DEF Owed, Queued
    <3> QED BY <3>1, <3>2, SameStage DEF Contract!callVars, StageFn
  <2>8. ASSUME NEW c \in Coros, InvokeAccepted(c) \/ InvokeRefused(c)
        PROVE  nextId \in Ids
    BY <2>8, Sorts DEF InvokeAccepted, InvokeRefused, TypeOK
  <2> QED BY <2>1, <2>2, <2>3, <2>4, <2>5, <2>6, <2>7, <2>8
          DEF Contract!Next, Contract!callVars, StageFn
<1> QED BY <1>1, <1>2, BridgeInvariant, PTL DEF Spec, ImplementsContract, Contract!Spec

\* No worker runs an IO loop.
LEMMA WorkersAreNotIo == Workers \cap IoLoops = {} /\ "main" \notin IoLoops
  BY BridgeAssumption DEF BridgeAssumption, Workers

\* An id about to be given out is not yet on anybody's way.
LEMMA FreshIsNowhere ==
  ASSUME BridgeInv, nextId <= MaxId
  PROVE  /\ nextId \in Ids
         /\ \A c \in Coros : co[c] = "suspended" => awaiting[c] # nextId
         /\ \A w \in Workers : handoff[w] # nextId
<1>1. nextId \in Ids /\ phase[nextId] = "none"
  BY Sorts DEF BridgeInv, TypeOK, FreshUnborn
<1>2. ~ InTransit(nextId)
  BY <1>1, OwedIsResolved DEF BridgeInv, SoleResolution, UnresolvedInOnePlace, InTransit
<1> QED BY <1>1, <1>2 DEF InTransit, Owed, BridgeInv, SoleResolution, SleepersMatchDuties

\* Every step keeps a call's way home.
LEMMA HomeStep == BridgeInv /\ HomeInv /\ [Next]_vars => HomeInv'
<1> SUFFICES ASSUME BridgeInv, HomeInv, [Next]_vars PROVE HomeInv'
  OBVIOUS
<1> USE DEF TypeOK, HomeInv
<1> TypeOK
  BY DEF BridgeInv
<1>1. ASSUME NEW c \in Coros, NEW l \in IoLoops, StartHandler(c, l) PROVE HomeInv'
  BY <1>1, Sorts DEF StartHandler
<1>2. ASSUME NEW c \in Coros, InvokeAccepted(c) PROVE HomeInv'
  <2>1. nextId \in Ids /\ co[c] = "running" /\ nextId <= MaxId
    BY <1>2, FreshIsNowhere DEF InvokeAccepted
  <2>2. /\ home' = [home EXCEPT ![nextId] = HomeLoop(host[c])]
        /\ co' = [co EXCEPT ![c] = "suspended"]
        /\ awaiting' = [awaiting EXCEPT ![c] = nextId]
        /\ UNCHANGED <<host, mpc, up, handoff, viaLoop>>
    BY <1>2 DEF InvokeAccepted, FreshId
  <2>3. \A i \in Ids : i # nextId => home'[i] = home[i]
    BY <2>2
  <2>4. ASSUME NEW d \in Coros, co'[d] = "suspended"
        PROVE  home'[awaiting'[d]] = HomeLoop(host[d])
    <3>1. CASE d = c
      BY <2>1, <2>2, <3>1
    <3>2. CASE d # c
      <4>1. /\ co[d] = "suspended" /\ awaiting'[d] = awaiting[d]
            /\ awaiting[d] \in Ids /\ awaiting[d] # nextId
        BY <2>1, <2>2, <2>4, <3>2, FreshIsNowhere
           DEF BridgeInv, SoleResolution, SleepersMatchDuties
      <4> QED BY <2>3, <4>1
    <3> QED BY <3>1, <3>2
  <2>5. \A w \in Workers : handoff[w] # NoId => home'[handoff[w]] = home[handoff[w]]
    BY <2>1, <2>3, FreshIsNowhere
  <2> QED BY <2>1, <2>2, <2>4, <2>5 DEF HomeLoop
<1>3. ASSUME NEW c \in Coros, InvokeRefused(c) PROVE HomeInv'
  <2>1. nextId \in Ids /\ nextId <= MaxId
    BY <1>3, FreshIsNowhere DEF InvokeRefused
  <2>2. /\ home' = [home EXCEPT ![nextId] = HomeLoop(host[c])]
        /\ UNCHANGED <<co, awaiting, host, mpc, up, handoff, viaLoop>>
    BY <1>3 DEF InvokeRefused, FreshId
  <2>3. \A i \in Ids : i # nextId => home'[i] = home[i]
    BY <2>2
  <2>4. \A d \in Coros : co[d] = "suspended" => home'[awaiting[d]] = home[awaiting[d]]
    BY <2>1, <2>3, FreshIsNowhere DEF BridgeInv, SoleResolution, SleepersMatchDuties
  <2>5. \A w \in Workers : handoff[w] # NoId => home'[handoff[w]] = home[handoff[w]]
    BY <2>1, <2>3, FreshIsNowhere
  <2> QED BY <2>2, <2>4, <2>5 DEF HomeLoop
<1>4. ASSUME NEW c \in Coros, Finish(c) PROVE HomeInv'
  BY <1>4 DEF Finish
<1>5. ASSUME NEW t \in Threads, Send(t) PROVE HomeInv'
  BY <1>5 DEF Send
<1>6. ASSUME NEW w \in Workers, Resolve(w) PROVE HomeInv'
  <2>1. PICK i \in todo[w] :
           /\ handoff' = [handoff EXCEPT ![w] = i]
           /\ viaLoop' = [viaLoop EXCEPT ![w] = up[home[i]]]
    BY <1>6 DEF Resolve, LoopRuns, BridgeInv, SoleResolution, UnresolvedInOnePlace
  <2>2. UNCHANGED <<home, co, awaiting, host, mpc, up>>
    BY <1>6 DEF Resolve
  <2>3. \A v \in Workers : v # w => handoff'[v] = handoff[v] /\ viaLoop'[v] = viaLoop[v]
    BY <2>1
  <2>4. handoff'[w] = i /\ viaLoop'[w] = up[home[i]]
    BY <2>1
  <2> QED BY <2>2, <2>3, <2>4 DEF HomeLoop
<1>7. ASSUME NEW w \in Workers, QueueInLoop(w) PROVE HomeInv'
  BY <1>7 DEF QueueInLoop
<1>8. ASSUME NEW w \in Workers, ResumeInPlace(w) PROVE HomeInv'
  <2>1. PICK i \in Ids : ResumeOn(waiter[i], w)
    BY <1>8 DEF ResumeInPlace
  <2>2. /\ UNCHANGED <<home, mpc, up, viaLoop>>
        /\ handoff' = [handoff EXCEPT ![w] = NoId]
    BY <1>8 DEF ResumeInPlace
  <2>3. /\ \A c \in Coros : c # waiter[i] =>
              co'[c] = co[c] /\ host'[c] = host[c] /\ awaiting'[c] = awaiting[c]
        /\ waiter[i] \in Coros => co'[waiter[i]] = "running" /\ host'[waiter[i]] = w
    BY <2>1 DEF ResumeOn
  <2>4. w \notin IoLoops
    BY WorkersAreNotIo
  <2>5. \A v \in Workers : handoff'[v] = handoff[v] \/ handoff'[v] = NoId
    BY <2>2
  <2> QED BY <2>2, <2>3, <2>4, <2>5 DEF HomeLoop
<1>9. ASSUME NEW l \in Loops, RunFunctor(l) PROVE HomeInv'
  BY <1>9 DEF RunFunctor, ResumeOn
<1>10. ASSUME CheckStopping PROVE HomeInv'
  BY <1>10 DEF CheckStopping
<1>11. ASSUME NEW r \in sent \cup {Update, Nothing}, NEW due \in SUBSET corr, Receive(r, due) PROVE HomeInv'
  BY <1>11 DEF Receive, SweepOf, Unregister
<1>12. ASSUME ResolvedAll PROVE HomeInv'
  BY <1>12 DEF ResolvedAll
<1>13. ASSUME DispatchAnswer PROVE HomeInv'
  BY <1>13 DEF DispatchAnswer, EntryOf, Unregister
<1>14. ASSUME DispatchNothing PROVE HomeInv'
  BY <1>14 DEF DispatchNothing
<1>15. ASSUME NEW c \in HookCoros, DispatchNewMessage(c) PROVE HomeInv'
  BY <1>15, WorkersAreNotIo, Sorts DEF DispatchNewMessage
<1>16. ASSUME DispatchConnectionReady PROVE HomeInv'
  BY <1>16 DEF DispatchConnectionReady, SendOneWay
<1>17. ASSUME DispatchTermination PROVE HomeInv'
  BY <1>17 DEF DispatchTermination
<1>18. ASSUME SignalDrain PROVE HomeInv'
  BY <1>18 DEF SignalDrain, Unregister
<1>19. ASSUME SignalQuit PROVE HomeInv'
  BY <1>19 DEF SignalQuit
<1>20. ASSUME RunApp PROVE HomeInv'
  <2>1. mpc = "boot" /\ mpc' = "serving"
    BY <1>20 DEF RunApp
  <2>2. ASSUME NEW v \in Workers, handoff[v] # NoId PROVE home[handoff[v]] \notin IoLoops
    <3>1. PICK i \in Ids : i = handoff[v] /\ Owed(i) /\ InTransit(i)
      BY <2>2 DEF Owed, InTransit
    <3>2. waiter[i] \in Coros /\ co[waiter[i]] = "suspended" /\ awaiting[waiter[i]] = i
      BY <3>1 DEF BridgeInv, SoleResolution, SleepersMatchDuties
    <3>3. home[i] = HomeLoop(host[waiter[i]]) /\ host[waiter[i]] \notin IoLoops
      BY <2>1, <3>2
    <3> QED BY <3>1, <3>3, WorkersAreNotIo DEF HomeLoop, Loops
  <2>3. UNCHANGED <<home, co, awaiting, host, handoff, viaLoop>>
    BY <1>20 DEF RunApp
  <2> QED BY <2>1, <2>2, <2>3 DEF HomeLoop
<1>21. ASSUME KeepOnline PROVE HomeInv'
  BY <1>21 DEF KeepOnline, SendOneWay
<1>22. ASSUME Quit PROVE HomeInv'
  BY <1>22 DEF Quit
<1>23. ASSUME NEW l \in IoLoops, IoLoopExits(l) PROVE HomeInv'
  BY <1>23 DEF IoLoopExits
<1>24. ASSUME RunReturns PROVE HomeInv'
  BY <1>24 DEF RunReturns
<1>25. ASSUME CloseThenStop PROVE HomeInv'
  BY <1>25 DEF CloseThenStop, SendOneWay
<1>26. ASSUME StopDrains PROVE HomeInv'
  BY <1>26 DEF StopDrains, Unregister
<1>27. ASSUME StopJoins PROVE HomeInv'
  BY <1>27 DEF StopJoins
<1>28. ASSUME UNCHANGED vars PROVE HomeInv'
  BY <1>28 DEF vars
<1> QED BY <1>1, <1>2, <1>3, <1>4, <1>5, <1>6, <1>7, <1>8, <1>9, <1>10, <1>11, <1>12, <1>13,
    <1>14, <1>15, <1>16, <1>17, <1>18, <1>19, <1>20, <1>21, <1>22, <1>23, <1>24, <1>25, <1>26,
    <1>27, <1>28
  DEF Next, CoroutineStep, ReceiverStep, MainStep, Terminated

\* A handler asleep on an IO loop that still runs wakes on that very loop:
\* isRunning() sampled before the resume never sends it to another thread
\* (await_suspend, resolve, queueInLoop).
THEOREM HandlersWakeOnTheirLoop == Spec => WakesOnItsLoop
<1>1. Init => HomeInv
  BY Sorts, WorkersAreNotIo DEF Init, HomeInv
<1>2. ASSUME BridgeInv, HomeInv, [Next]_vars, NEW c \in Coros,
             co[c] = "suspended", co'[c] = "running", host[c] \in IoLoops, up[host[c]]
      PROVE  host'[c] = host[c]
  <2> TypeOK /\ SleepersMatchDuties /\ OwedInOnePlace
    BY <1>2 DEF BridgeInv, SoleResolution
  <2>1. HomeLoop(host[c]) = host[c]
    BY <1>2 DEF HomeLoop, Loops
  <2>2. ASSUME NEW w \in Workers, ResumeInPlace(w) PROVE FALSE
    <3>1. PICK i \in Ids : i = handoff[w] /\ Owed(i) /\ ResumeOn(waiter[i], w)
      BY <1>2, <2>2, InPlaceTakesOwed
    <3>2. c = waiter[i] /\ awaiting[c] = i
      BY <1>2, <3>1 DEF ResumeOn, TypeOK, SleepersMatchDuties, InTransit
    <3>3. home[i] = host[c] /\ i # NoId /\ ~ viaLoop[w]
      BY <1>2, <2>1, <2>2, <3>1, <3>2, Sorts DEF HomeInv, ResumeInPlace
    <3> QED BY <1>2, <3>1, <3>3 DEF HomeInv
  <2>3. ASSUME NEW l \in Loops, RunFunctor(l) PROVE host'[c] = host[c]
    <3>1. PICK i \in Ids : i \in ready[l] /\ Owed(i) /\ ResumeOn(waiter[i], l)
      BY <1>2, <2>3, FunctorTakesOwed
    <3>2. c = waiter[i] /\ awaiting[c] = i
      BY <1>2, <3>1 DEF ResumeOn, TypeOK, SleepersMatchDuties, InTransit
    <3>3. home[i] = l /\ home[i] = host[c]
      BY <1>2, <2>1, <3>1, <3>2 DEF HomeInv, OwedInOnePlace, Queued
    <3> QED BY <3>1, <3>2, <3>3 DEF ResumeOn, TypeOK
  <2>4. CASE /\ \A w \in Workers : ~ ResumeInPlace(w)
             /\ \A l \in Loops : ~ RunFunctor(l)
    BY <1>2, <2>4
       DEF Next, CoroutineStep, ReceiverStep, MainStep, Terminated, vars, TypeOK,
           StartHandler, InvokeAccepted, InvokeRefused, Finish, Send, Resolve,
           QueueInLoop, CheckStopping, Receive, ResolvedAll, DispatchAnswer,
           DispatchNothing, DispatchNewMessage, DispatchConnectionReady,
           DispatchTermination, SignalDrain, SignalQuit, RunApp, KeepOnline,
           Quit, IoLoopExits, RunReturns, CloseThenStop, StopDrains, StopJoins
  <2> QED BY <2>2, <2>3, <2>4
<1>3. BridgeInv /\ HomeInv /\ [Next]_vars =>
        [\A c \in Coros :
            co[c] = "suspended" /\ co'[c] = "running"
              /\ host[c] \in IoLoops /\ up[host[c]]
                => host'[c] = host[c]]_vars
  BY <1>2
<1> QED BY <1>1, <1>3, HomeStep, BridgeInvariant, PTL DEF Spec, WakesOnItsLoop
-----------------------------------------------------------------------------
(* A send is not overtaken. *)

\* Before a shutdown begins a thread that runs a coroutine runs its loop as well,
\* the receiver runs none while it receives or dispatches, and the other two
\* threads have resolved nothing.
ThreadsState ==
    ~ ShutdownBegan =>
        /\ handoff["signal"] = NoId /\ handoff["main"] = NoId
        /\ Idle("signal")
        /\ ~ Idle("main") => mpc = "serving"
        /\ \A l \in IoLoops : ~ Idle(l) => up[l]
        /\ rpc \in {"receive", "dispatch"} => AtTop("receiver")
        /\ mpc = "serving" => up["main"]

\* Until the send of call i is through, its coroutine sleeps on the very thread
\* that sends, TDLib cannot have answered, and whoever resolves the call - the
\* sweep - is on another thread, leaves the resume to the loop of this one.
SendingOf(t, i) ==
    /\ waiter[i] \in Coros /\ co[waiter[i]] = "suspended"
    /\ awaiting[waiter[i]] = i /\ host[waiter[i]] = t
    /\ i \notin sent /\ resp # i
    /\ t = "receiver" => i \in corr
    /\ t # "receiver" /\ handoff["receiver"] = i => viaLoop["receiver"]

SendingState ==
    ~ ShutdownBegan => \A t \in Threads, i \in Ids : sending[t] = i => SendingOf(t, i)

\* TDLib has seen, and a thread is sending, only ids that were given out.
GivenOut ==
    \A i \in Ids : i \in sent \/ resp = i \/ (\E t \in Threads : sending[t] = i)
        => i < nextId

SendInv == BridgeInv /\ HomeInv /\ GivenOut /\ ThreadsState /\ SendingState

\* The signal thread and, until stop(), the main thread have no calls to resolve.
LEMMA OnlyReceiverResolves ==
    ASSUME SendInv, ~ ShutdownBegan, NEW w \in Workers,
           Resolve(w) \/ QueueInLoop(w) \/ ResumeInPlace(w)
    PROVE  w = "receiver"
  BY DEF SendInv, BridgeInv, ClaimsMatchControl, ThreadsState, ShutdownBegan, Workers, Resolve,
     QueueInLoop, ResumeInPlace

\* A shutdown that has begun goes on.
LEMMA BegunStaysBegun == ShutdownBegan /\ [Next]_vars => ShutdownBegan'
  BY DEF ShutdownBegan, Next, StartHandler, CoroutineStep, InvokeAccepted, InvokeRefused, Finish,
     Send, Resolve, QueueInLoop, ResumeInPlace, RunFunctor, ReceiverStep, CheckStopping, Receive,
     ResolvedAll, DispatchAnswer, DispatchNothing, DispatchNewMessage, DispatchConnectionReady,
     DispatchTermination, SignalDrain, SignalQuit, KeepOnline, IoLoopExits, MainStep, RunApp, Quit,
     RunReturns, CloseThenStop, StopDrains, StopJoins, Terminated, vars

\* Where a coroutine runs after a step is where one ran, or where one is started.
LEMMA ThreadsStep == SendInv /\ [Next]_vars => ThreadsState'
<1> SUFFICES ASSUME SendInv, [Next]_vars, ~ ShutdownBegan' PROVE ThreadsState'
  BY DEF ThreadsState
<1> USE DEF TypeOK
<1> TypeOK /\ ~ ShutdownBegan
  BY BegunStaysBegun DEF SendInv, BridgeInv
<1> DEFINE Calm == UNCHANGED <<co, host, sending, handoff, up>>
<1>0. /\ handoff["signal"] = NoId /\ handoff["main"] = NoId
      /\ Idle("signal")
      /\ ~ Idle("main") => mpc = "serving"
      /\ \A l \in IoLoops : ~ Idle(l) => up[l]
      /\ rpc \in {"receive", "dispatch"} => AtTop("receiver")
      /\ mpc = "serving" => up["main"]
  BY DEF SendInv, ThreadsState
<1>1. ASSUME NEW c \in Coros, NEW l \in IoLoops, StartHandler(c, l) PROVE ThreadsState'
  BY <1>0, <1>1, WorkersAreNotIo DEF StartHandler, ThreadsState, Idle, AtTop, Workers
<1>2. ASSUME NEW c \in Coros, InvokeAccepted(c) PROVE ThreadsState'
  <2>1. /\ co' = [co EXCEPT ![c] = "suspended"] /\ co[c] = "running" /\ host[c] \in Threads
        /\ sending' = [sending EXCEPT ![host[c]] = nextId]
        /\ UNCHANGED <<host, handoff, up, rpc, mpc>>
    BY <1>2 DEF InvokeAccepted, FreshId
  <2>2. \A t \in Threads : Idle(t) => Idle(t)'
    BY <2>1 DEF Idle
  <2> QED BY <1>0, <2>1, <2>2, Sorts DEF ThreadsState, AtTop
<1>3. ASSUME NEW c \in Coros, Finish(c) PROVE ThreadsState'
  <2>1. \A t \in Threads : Idle(t) => Idle(t)'
    BY <1>3 DEF Finish, Idle
  <2> QED BY <1>0, <1>3, <2>1, Sorts DEF Finish, ThreadsState, AtTop
<1>4. ASSUME NEW t \in Threads, Send(t) PROVE ThreadsState'
  <2>1. \A u \in Threads : Idle(u) => Idle(u)'
    BY <1>4 DEF Send, Idle
  <2> QED BY <1>0, <1>4, <2>1, Sorts DEF Send, ThreadsState, AtTop
<1>5. ASSUME NEW w \in Workers, Resolve(w) PROVE ThreadsState'
  <2>1. w = "receiver" /\ UNCHANGED <<co, host, sending, up, mpc, rpc>>
    BY <1>5, OnlyReceiverResolves DEF Resolve
  <2>2. handoff'["signal"] = handoff["signal"] /\ handoff'["main"] = handoff["main"]
    BY <1>5, <2>1, Sorts DEF Resolve
  <2>3. rpc \notin {"receive", "dispatch"}
    BY <1>5, <2>1 DEF Resolve, SendInv, BridgeInv, ClaimsMatchControl
  <2> QED BY <1>0, <2>1, <2>2, <2>3 DEF ThreadsState, Idle
<1>6. ASSUME NEW w \in Workers, QueueInLoop(w) PROVE ThreadsState'
  <2>1. /\ w = "receiver" /\ UNCHANGED <<co, host, sending, up, mpc, rpc>>
        /\ handoff' = [handoff EXCEPT ![w] = NoId]
    BY <1>6, OnlyReceiverResolves DEF QueueInLoop
  <2> QED BY <1>0, <2>1, Sorts DEF ThreadsState, Idle, AtTop
<1>7. ASSUME NEW w \in Workers, ResumeInPlace(w) PROVE ThreadsState'
  <2>1. /\ w = "receiver" /\ UNCHANGED <<sending, up, mpc, rpc>>
        /\ handoff' = [handoff EXCEPT ![w] = NoId] /\ handoff[w] # NoId
        /\ ResumeOn(waiter[handoff[w]], w)
    BY <1>7, OnlyReceiverResolves DEF ResumeInPlace
  <2>2. rpc \notin {"receive", "dispatch"}
    BY <1>0, <2>1 DEF AtTop
  <2>3. \A t \in Threads : t # "receiver" /\ Idle(t) => Idle(t)'
    BY <2>1 DEF ResumeOn, Idle
  <2>4. "receiver" \notin IoLoops
    BY WorkersAreNotIo DEF Workers
  <2> QED BY <1>0, <2>1, <2>2, <2>3, <2>4, Sorts DEF ThreadsState
<1>8. ASSUME NEW l \in Loops, RunFunctor(l) PROVE ThreadsState'
  <2>1. /\ up[l] /\ (l = "main" => mpc = "serving") /\ UNCHANGED <<sending, handoff, up, mpc, rpc>>
        /\ \E i \in ready[l] : ResumeOn(waiter[i], l)
    BY <1>8 DEF RunFunctor
  <2>2. \A t \in Threads : t # l /\ Idle(t) => Idle(t)'
    BY <2>1 DEF ResumeOn, Idle
  <2>3. l # "receiver" /\ l # "signal"
    BY WorkersAreNotIo DEF Loops, Workers
  <2> QED BY <1>0, <2>1, <2>2, <2>3, Sorts DEF ThreadsState, AtTop
<1>9. ASSUME NEW c \in HookCoros, DispatchNewMessage(c) PROVE ThreadsState'
  <2>1. /\ rpc' = "check" /\ UNCHANGED <<sending, handoff, up, mpc>>
        /\ co' = [co EXCEPT ![c] = "running"] /\ host' = [host EXCEPT ![c] = "receiver"]
        /\ c \in Coros
    BY <1>9, Sorts DEF DispatchNewMessage
  <2>2. \A t \in Threads : t # "receiver" /\ Idle(t) => Idle(t)'
    BY <2>1 DEF Idle
  <2>3. "receiver" \notin IoLoops
    BY WorkersAreNotIo DEF Workers
  <2> QED BY <1>0, <2>1, <2>2, <2>3, Sorts DEF ThreadsState
<1>10. ASSUME Calm, mpc' = mpc, rpc' \in {"receive", "dispatch"} => AtTop("receiver")
       PROVE  ThreadsState'
  BY <1>0, <1>10 DEF ThreadsState, Idle, AtTop
<1>11. CASE (\E c \in Coros : InvokeRefused(c)) \/ KeepOnline \/ UNCHANGED vars
  BY <1>0, <1>10, <1>11 DEF InvokeRefused, KeepOnline, vars
<1>12. CASE \/ CheckStopping \/ ResolvedAll \/ DispatchAnswer \/ DispatchNothing
            \/ DispatchConnectionReady \/ DispatchTermination
            \/ \E r \in sent \cup {Update, Nothing}, due \in SUBSET corr : Receive(r, due)
  BY <1>0, <1>10, <1>12
     DEF CheckStopping, ResolvedAll, DispatchAnswer, DispatchNothing, DispatchConnectionReady,
         DispatchTermination, Receive
<1>13. CASE SignalDrain \/ SignalQuit \/ CloseThenStop \/ StopDrains \/ StopJoins
  BY <1>13 DEF SignalDrain, SignalQuit, CloseThenStop, StopDrains, StopJoins, ShutdownBegan
<1>14. CASE RunApp \/ Quit \/ RunReturns
  BY <1>0, <1>14, Sorts DEF RunApp, Quit, RunReturns, ThreadsState, Idle, AtTop
<1>15. ASSUME NEW l \in IoLoops, IoLoopExits(l) PROVE ThreadsState'
  BY <1>0, <1>15, Sorts, WorkersAreNotIo DEF IoLoopExits, ThreadsState, Idle, AtTop
<1> QED BY <1>1, <1>2, <1>3, <1>4, <1>5, <1>6, <1>7, <1>8, <1>9, <1>11, <1>12, <1>13, <1>14, <1>15
  DEF Next, CoroutineStep, ReceiverStep, MainStep, Terminated

\* Ids are handed to TDLib in no order, but never before they are given out.
LEMMA GivenOutStep == SendInv /\ [Next]_vars => GivenOut'
<1> SUFFICES ASSUME SendInv, [Next]_vars PROVE GivenOut'
  OBVIOUS
<1> USE DEF TypeOK
<1> TypeOK
  BY DEF SendInv, BridgeInv
<1>0. \A i \in Ids : i \in sent \/ resp = i \/ (\E t \in Threads : sending[t] = i)
                       => i < nextId
  BY DEF SendInv, GivenOut
<1>1. ASSUME nextId' \in {nextId, nextId + 1}, sending' = sending, resp' \in sent \cup {resp, Update, Nothing},
             sent' \subseteq sent \cup (nextId .. nextId' - 1)
      PROVE  GivenOut'
  BY <1>0, <1>1, Sorts DEF GivenOut
<1>2. ASSUME NEW c \in Coros, InvokeAccepted(c) PROVE GivenOut'
  <2>1. /\ nextId' = nextId + 1 /\ UNCHANGED <<sent, resp>>
        /\ \A t \in Threads : sending'[t] = sending[t] \/ sending'[t] = nextId
    BY <1>2 DEF InvokeAccepted, FreshId
  <2> SUFFICES ASSUME NEW i \in Ids, i \in sent' \/ resp' = i \/ \E t \in Threads : sending'[t] = i
               PROVE  i < nextId'
    BY DEF GivenOut
  <2>2. i < nextId \/ i = nextId
    BY <1>0, <2>1
  <2> QED BY <2>1, <2>2, Sorts
<1>3. ASSUME NEW t \in Threads, Send(t) PROVE GivenOut'
  <2>1. /\ UNCHANGED <<nextId, resp>> /\ sent' \subseteq sent \cup {sending[t]}
        /\ \A u \in Threads : sending'[u] = sending[u] \/ sending'[u] = NoId
    BY <1>3 DEF Send
  <2> QED BY <1>0, <2>1, Sorts DEF GivenOut
<1>4. ASSUME NEW r \in sent \cup {Update, Nothing}, NEW due \in SUBSET corr, Receive(r, due)
      PROVE  GivenOut'
  BY <1>1, <1>4 DEF Receive
<1>5. CASE KeepOnline \/ DispatchConnectionReady \/ CloseThenStop
  BY <1>1, <1>5 DEF KeepOnline, DispatchConnectionReady, CloseThenStop, SendOneWay
<1>6. CASE UNCHANGED <<nextId, sending, sent>> /\ resp' \in {resp, Nothing}
  BY <1>1, <1>6
<1>7. CASE \E c \in Coros : InvokeRefused(c)
  BY <1>1, <1>7 DEF InvokeRefused
<1> QED BY <1>2, <1>3, <1>4, <1>5, <1>6, <1>7
  DEF Next, CoroutineStep, ReceiverStep, MainStep, Terminated, vars, StartHandler, Finish, Resolve,
      QueueInLoop, ResumeInPlace, RunFunctor, CheckStopping, ResolvedAll, DispatchAnswer,
      DispatchNothing, DispatchNewMessage, DispatchTermination, SignalDrain, SignalQuit,
      IoLoopExits, RunApp, Quit, RunReturns, StopDrains, StopJoins

\* The thread inside await_suspend is busy, and its call's way home is its own loop.
LEMMA SenderIsBusy ==
    ASSUME SendInv, ~ ShutdownBegan, NEW t \in Threads, NEW i \in Ids, sending[t] = i
    PROVE  /\ SendingOf(t, i) /\ ~ Idle(t) /\ t # "signal" /\ i < nextId
           /\ home[i] = HomeLoop(t)
           /\ t # "receiver" => home[i] = t /\ up[t]
<1>1. SendingOf(t, i) /\ ~ Idle(t) /\ t # "signal" /\ i < nextId
  BY Sorts DEF SendInv, SendingState, GivenOut, ThreadsState, Idle
<1>2. home[i] = HomeLoop(t)
  BY <1>1 DEF SendInv, HomeInv, SendingOf
<1> QED BY <1>1, <1>2 DEF HomeLoop, SendInv, ThreadsState, Threads, Workers, Loops

\* A resume that is owed elsewhere is not the sender's: its own goes through its loop, and
\* the receiver's own calls are still in the map.
LEMMA OtherIsWoken ==
    ASSUME SendInv, ~ ShutdownBegan, NEW t \in Threads, NEW i \in Ids, sending[t] = i,
           NEW j \in Ids, Owed(j), i # j
    PROVE  waiter[j] # waiter[i]
  BY DEF SendInv, SendingState, SendingOf, BridgeInv, SoleResolution, SleepersMatchDuties, InTransit

\* No step of another thread reaches the coroutine whose call is being sent.
LEMMA SendingStep == SendInv /\ [Next]_vars => SendingState'
<1> SUFFICES ASSUME SendInv, [Next]_vars, ~ ShutdownBegan',
                    NEW t \in Threads, NEW i \in Ids, sending'[t] = i
             PROVE  SendingOf(t, i)'
  BY DEF SendingState
<1> USE DEF TypeOK, SendingOf
<1> TypeOK /\ ~ ShutdownBegan
  BY BegunStaysBegun DEF SendInv, BridgeInv
<1>0. sending[t] = i => /\ SendingOf(t, i) /\ ~ Idle(t) /\ t # "signal" /\ i < nextId
                        /\ t # "receiver" => home[i] = t /\ up[t]
  BY SenderIsBusy
<1>1. ASSUME NEW c \in Coros, NEW l \in IoLoops, StartHandler(c, l) PROVE SendingOf(t, i)'
  BY <1>0, <1>1 DEF StartHandler
<1>2. ASSUME NEW c \in Coros, InvokeAccepted(c) PROVE SendingOf(t, i)'
  <2>1. /\ nextId \in Ids /\ nextId \notin sent /\ resp # nextId /\ handoff["receiver"] # nextId
        /\ co[c] = "running"
    BY <1>2, FreshIsNowhere, Sorts DEF InvokeAccepted, SendInv, GivenOut
  <2>2. /\ waiter' = [waiter EXCEPT ![nextId] = c] /\ co' = [co EXCEPT ![c] = "suspended"]
        /\ awaiting' = [awaiting EXCEPT ![c] = nextId] /\ corr' = corr \cup {nextId}
        /\ sending' = [sending EXCEPT ![host[c]] = nextId]
        /\ UNCHANGED <<host, sent, resp, handoff, viaLoop>>
    BY <1>2 DEF InvokeAccepted, FreshId
  <2>3. CASE t = host[c]
    BY <2>1, <2>2, <2>3
  <2>4. CASE t # host[c]
    BY <1>0, <2>1, <2>2, <2>4
  <2> QED BY <2>3, <2>4
<1>3. ASSUME NEW c \in Coros, InvokeRefused(c) PROVE SendingOf(t, i)'
  BY <1>0, <1>3 DEF InvokeRefused, FreshId
<1>4. ASSUME NEW c \in Coros, Finish(c) PROVE SendingOf(t, i)'
  BY <1>0, <1>4 DEF Finish
<1>5. ASSUME NEW u \in Threads, Send(u) PROVE SendingOf(t, i)'
  <2>1. u # t /\ sending[t] = i /\ sending[u] \in Ids /\ sent' \subseteq sent \cup {sending[u]}
    BY <1>5, Sorts DEF Send
  <2>2. sending[u] # i
    BY <1>0, <2>1, SenderIsBusy
  <2> QED BY <1>0, <1>5, <2>1, <2>2 DEF Send
<1>6. ASSUME NEW w \in Workers, Resolve(w) PROVE SendingOf(t, i)'
  <2>1. /\ w = "receiver" /\ Idle("receiver") /\ sending[t] = i
        /\ UNCHANGED <<waiter, co, awaiting, host, sent, resp, corr>>
    BY <1>6, OnlyReceiverResolves DEF Resolve, AtTop
  <2>2. t # "receiver" /\ home[i] = t /\ up[t]
    BY <1>0, <2>1
  <2>3. handoff'["receiver"] = i => viaLoop'["receiver"]
    <3>1. PICK j \in todo[w] :
            IF phase[j] = "Pending"
            THEN /\ handoff' = [handoff EXCEPT ![w] = j]
                 /\ viaLoop' = [viaLoop EXCEPT ![w] = LoopRuns(home[j])]
            ELSE UNCHANGED <<handoff, viaLoop>>
      BY <1>6 DEF Resolve
    <3> QED BY <1>0, <2>1, <2>2, <3>1, Sorts DEF LoopRuns
  <2> QED BY <1>0, <2>1, <2>2, <2>3
<1>7. ASSUME NEW w \in Workers, QueueInLoop(w) PROVE SendingOf(t, i)'
  BY <1>0, <1>7, OnlyReceiverResolves, Sorts DEF QueueInLoop
<1>8. ASSUME NEW w \in Workers, ResumeInPlace(w) PROVE SendingOf(t, i)'
  <2>1. w = "receiver" /\ sending[t] = i /\ ~ viaLoop[w]
    BY <1>8, OnlyReceiverResolves DEF ResumeInPlace
  <2>2. PICK j \in Ids : j = handoff[w] /\ Owed(j) /\ ResumeOn(waiter[j], w)
    BY <1>8, InPlaceTakesOwed DEF SendInv
  <2>3. j # i
    BY <1>0, <2>1, <2>2, OwedIsResolved DEF SendInv
  <2>4. waiter[j] # waiter[i]
    BY <2>1, <2>2, <2>3, OtherIsWoken
  <2> QED BY <1>0, <1>8, <2>1, <2>2, <2>4, Sorts DEF ResumeInPlace, ResumeOn
<1>9. ASSUME NEW l \in Loops, RunFunctor(l) PROVE SendingOf(t, i)'
  <2>1. Idle(l) /\ sending[t] = i
    BY <1>9 DEF RunFunctor
  <2>2. PICK j \in Ids : j \in ready[l] /\ Owed(j) /\ ResumeOn(waiter[j], l)
    BY <1>9, FunctorTakesOwed DEF SendInv
  <2>3. home[j] = l
    BY <2>2 DEF SendInv, BridgeInv, SoleResolution, OwedInOnePlace, Queued
  <2>4. j # i
    BY <1>0, <2>1, <2>2, <2>3, OwedIsResolved DEF SendInv
  <2>5. waiter[j] # waiter[i]
    BY <2>1, <2>2, <2>4, OtherIsWoken
  <2> QED BY <1>0, <1>9, <2>1, <2>2, <2>5 DEF RunFunctor, ResumeOn
<1>10. ASSUME NEW r \in sent \cup {Update, Nothing}, NEW due \in SUBSET corr, Receive(r, due)
       PROVE  SendingOf(t, i)'
  <2>1. sending[t] = i /\ rpc = "receive" /\ Idle("receiver")
    BY <1>10 DEF Receive, SendInv, ThreadsState, AtTop
  <2> QED BY <1>0, <1>10, <2>1, Sorts DEF Receive
<1>11. CASE DispatchAnswer
  <2>1. sending[t] = i /\ Idle("receiver")
    BY <1>11 DEF DispatchAnswer, SendInv, ThreadsState, AtTop
  <2> QED BY <1>0, <1>11, <2>1 DEF DispatchAnswer
<1>12. ASSUME NEW c \in HookCoros, DispatchNewMessage(c) PROVE SendingOf(t, i)'
  BY <1>0, <1>12, Sorts DEF DispatchNewMessage
<1>13. CASE KeepOnline \/ DispatchConnectionReady
  BY <1>0, <1>13, Sorts DEF KeepOnline, DispatchConnectionReady, SendOneWay
<1>14. CASE \/ UNCHANGED vars \/ CheckStopping \/ ResolvedAll \/ DispatchNothing
            \/ DispatchTermination \/ RunApp \/ Quit \/ RunReturns
            \/ \E l \in IoLoops : IoLoopExits(l)
  BY <1>0, <1>14, Sorts
     DEF vars, CheckStopping, ResolvedAll, DispatchNothing, DispatchTermination, RunApp, Quit,
         RunReturns, IoLoopExits
<1>15. CASE SignalDrain \/ SignalQuit \/ CloseThenStop \/ StopDrains \/ StopJoins
  BY <1>15 DEF SignalDrain, SignalQuit, CloseThenStop, StopDrains, StopJoins, ShutdownBegan
<1> QED BY <1>1, <1>2, <1>3, <1>4, <1>5, <1>6, <1>7, <1>8, <1>9, <1>10, <1>11, <1>12, <1>13,
           <1>14, <1>15
  DEF Next, CoroutineStep, ReceiverStep, MainStep, Terminated

\* Before a shutdown begins, a coroutine between the insert and the send of its call is not
\* resumed by another thread, so that registerAndSend still reads its own state out of
\* the frame: neither the TTL sweep nor an answer can wake it before the send is through.
THEOREM SendsAreNotOvertaken == Spec => []NotOvertakenWhileServing
<1>1. Init => HomeInv /\ GivenOut /\ ThreadsState /\ SendingState
  <2> SUFFICES ASSUME Init PROVE HomeInv /\ GivenOut /\ ThreadsState /\ SendingState
    OBVIOUS
  <2>1. HomeInv
    BY Sorts, WorkersAreNotIo DEF Init, HomeInv
  <2>2. GivenOut /\ SendingState
    BY Sorts DEF Init, GivenOut, SendingState
  <2>3. ThreadsState
    BY Sorts DEF Init, ThreadsState, Idle
  <2> QED BY <2>1, <2>2, <2>3
<1>2. SendInv /\ [Next]_vars => HomeInv' /\ GivenOut' /\ ThreadsState' /\ SendingState'
  BY HomeStep, GivenOutStep, ThreadsStep, SendingStep DEF SendInv
<1>3. SendInv => NotOvertakenWhileServing
  <2> SUFFICES ASSUME SendInv, ~ ShutdownBegan, NEW t \in Threads, sending[t] # NoId
               PROVE  awaiting[waiter[sending[t]]] = sending[t]
    BY DEF NotOvertakenWhileServing, NotOvertaken
  <2>1. sending[t] \in Ids
    BY DEF SendInv, BridgeInv, TypeOK
  <2> QED BY <2>1 DEF SendInv, SendingState, SendingOf
<1> QED BY <1>1, <1>2, <1>3, BridgeInvariant, PTL DEF Spec, SendInv
=============================================================================
