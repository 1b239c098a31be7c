---------------------------- MODULE Session_proofs ----------------------------
(***************************************************************************)
(* What holds of the session for any number of logins, faults, changes of  *)
(* the binlog and logout requests.                                         *)
(***************************************************************************)
EXTENDS Session, SequenceTheorems, TLAPS

USE DEF authVars, gateVars, syncVars, putVars, handlerVars, tdVars, worldVars, mainVars,
        othersThanSync, othersThanPut, othersThanTd

\* The thread of the gate and the PUTs on the connection belong together:
\* each has at most one, and only while it waits for it.
PutOwners ==
    /\ \A i \in DOMAIN wire :
         /\ wire[i].by = "sync" => sync = "put"
         /\ wire[i].by = "main" => phase = "pushing"
    /\ \A i, j \in DOMAIN wire : wire[i].by = wire[j].by => i = j

\* A thread that reads or puts was let through.
GateInv == GateMatchesThread /\ RequestNotLost

\* TDLib says Closed when it is, and from then on leaves the binlog alone.
ClosedIsTrue ==
    /\ state = "closed" => td = "closed"
    /\ \A i \in DOMAIN updates : updates[i] = State("closed") => td = "closed"

\* A final push with no thread beside it is alone on the connection, and
\* stores what is on the disk.
AlonePushing ==
    final = "alone" /\ phase \in {"pushing", "stored"} =>
        /\ sync = "none"
        /\ state = "closed" =>
             \A i \in DOMAIN wire : wire[i].data = binlog
        /\ phase = "stored" => wire = <<>>

IInv == TypeOK /\ GateInv /\ PutOwners /\ ClosedIsTrue /\ AlonePushing /\ FinalPushIsLast

\* The types of the constants and of what the actions put together.
LEMMA Sorts ==
    /\ NoHandler \notin Handlers
    /\ MaxSessions \in Nat /\ MaxRev \in Nat /\ MaxFaults \in Nat
    /\ NoFile \in Files /\ Partial \in Files /\ Fresh \in Files
    /\ Snapshots \subseteq Files
    /\ \A s \in {"login", "ready", "loggingOut", "closing", "closed"} :
         State(s) \in Messages
    /\ \A h \in Handlers, r \in {"ok", "error"} : Reply(h, r) \in Messages
  BY SessionAssumption
     DEF SessionAssumption, Files, Snapshots, Fresh, Messages, AuthStates

\* What a message of the queue carries.
LEMMA MessageSorts ==
    ASSUME NEW m \in Messages
    PROVE  /\ m.kind = "state" => m.state \in AuthStates /\ m = State(m.state)
           /\ m.kind = "reply" => m.result \in {"ok", "error"}
  BY DEF Messages, State, Reply

\* What a PUT carries.
LEMMA PutSorts ==
    /\ \A p \in Puts : p.data \in Files /\ p.by \in {"sync", "main"}
    /\ \A d \in Files, b \in {"sync", "main"} : [by |-> b, data |-> d] \in Puts
  BY DEF Puts

\* Before the first start there is nothing but the bounds.
LEMMA InitInv == Init => IInv
<1> SUFFICES ASSUME Init PROVE IInv
  OBVIOUS
<1> USE DEF Init, ProcessInit, AuthInit, GateInit
<1>1. TypeOK
  <2>1. AuthTypeOK /\ GateTypeOK
    BY DEF AuthTypeOK, GateTypeOK, AuthStates, SyncSteps
  <2>2. wire \in Seq(Puts) /\ updates \in Seq(Messages)
    OBVIOUS
  <2>3. pc = [h \in Handlers |-> "idle"] /\ reply = [h \in Handlers |-> "none"]
    OBVIOUS
  <2>4. /\ valid \subseteq 1 .. MaxSessions
        /\ logins \in 0 .. MaxSessions /\ faults \in 0 .. MaxFaults
    BY Sorts
  <2> QED BY <2>1, <2>2, <2>3, <2>4, Sorts DEF TypeOK
<1>2. GateInv /\ PutOwners /\ ClosedIsTrue /\ AlonePushing /\ FinalPushIsLast
  BY DEF GateInv, GateMatchesThread, RequestNotLost, PutOwners, ClosedIsTrue,
         AlonePushing, FinalPushIsLast
<1> QED BY <1>1, <1>2 DEF IInv

\* What a process leaves behind has its types.
LEMMA GoneTypes == TypeOK /\ Gone /\ faults' \in 0 .. MaxFaults => TypeOK'
<1> SUFFICES ASSUME TypeOK, Gone, faults' \in 0 .. MaxFaults PROVE TypeOK'
  OBVIOUS
<1> USE DEF Gone
<1>1. AuthTypeOK' /\ GateTypeOK'
  BY DEF AuthTypeOK, GateTypeOK, AuthStates, SyncSteps
<1>2. wire' \in Seq(Puts) /\ updates' \in Seq(Messages)
  OBVIOUS
<1>3. /\ pc' = [h \in Handlers |-> "idle"] /\ reply' = [h \in Handlers |-> "none"]
      /\ binlog' \in {binlog, NoFile}
  OBVIOUS
<1>4. s3' \in Files
  <2>1. \A i \in DOMAIN wire : wire[i] \in Puts
    BY DEF TypeOK
  <2>2. \A i \in DOMAIN wire : wire[i].data \in Files
    BY <2>1, PutSorts
  <2> QED BY <2>2 DEF TypeOK
<1>5. {lastHash', copy'} \subseteq Files /\ binlog' \in Files
  BY <1>3, Sorts DEF TypeOK
<1>6. requester' \in Handlers \cup {NoHandler} /\ asked' \subseteq Handlers
  BY Sorts DEF TypeOK
<1>7. /\ pc' \in [Handlers -> {"idle", "checked", "calling", "polling", "refused", "answered"}]
      /\ reply' \in [Handlers -> {"none", "ok", "error"}]
  BY <1>3
<1> QED BY <1>1, <1>2, <1>4, <1>5, <1>6, <1>7 DEF TypeOK

\* The caller of send() goes on.
LEMMA PutReturnsTypes ==
    ASSUME TypeOK, NEW ok \in BOOLEAN, PutReturns(ok)
    PROVE  /\ GateTypeOK' /\ phase' \in {phase, "stored", "failed"}
           /\ lastHash' \in Files /\ copy' \in Files
<1>1. CASE Head(wire).by = "sync"
  BY Sorts, <1>1 DEF PutReturns, TypeOK, GateTypeOK, SyncGoto, SyncSteps
<1>2. CASE Head(wire).by # "sync"
  BY <1>2 DEF PutReturns, TypeOK, GateTypeOK
<1> QED BY <1>1, <1>2

\* A step keeps the types.
LEMMA TypeStep == TypeOK /\ [Next]_vars => TypeOK'
<1> SUFFICES ASSUME TypeOK, [Next]_vars PROVE TypeOK'
  OBVIOUS
<1> USE DEF TypeOK, AuthTypeOK, GateTypeOK
<1>1. ASSUME Restore PROVE TypeOK'
  BY Sorts, <1>1 DEF Restore
<1>2. ASSUME RestoreCutShort PROVE TypeOK'
  BY Sorts, <1>2 DEF RestoreCutShort, Fault
<1>3. ASSUME StartTd PROVE TypeOK'
  <2>1. State("ready") \in Messages /\ State("login") \in Messages
    BY Sorts
  <2>2. updates' \in Seq(Messages)
    <3>1. CASE updates' = Append(updates, State("ready"))
      BY <2>1, <3>1
    <3>2. CASE updates' = Append(updates, State("login"))
      BY <2>1, <3>2
    <3> QED BY <1>3, <3>1, <3>2 DEF StartTd, Emit
  <2>3. td' \in {"ready", "login"} /\ binlog' \in Files
    BY Sorts, <1>3 DEF StartTd, Emit
  <2> QED BY <1>3, <2>2, <2>3 DEF StartTd
<1>4. ASSUME RunApp PROVE TypeOK'
  BY Sorts, <1>4 DEF RunApp, Fault
<1>5. ASSUME RunReturns PROVE TypeOK'
  <2>1. State("closing") \in Messages
    BY Sorts
  <2>2. td' \in {td, "closing"} /\ updates' \in {updates, Append(updates, State("closing"))}
    BY <1>5, Zenon DEF RunReturns, Emit
  <2>4. updates' \in Seq(Messages)
    <3>1. CASE updates' = Append(updates, State("closing"))
      BY <2>1, <3>1
    <3>2. CASE updates' = updates
      BY <3>2
    <3> QED BY <2>2, <3>1, <3>2
  <2>3. AuthTypeOK'
    BY <1>5 DEF RunReturns, ExpectShutdown, SetExpect
  <2> QED BY <1>5, <2>2, <2>3, <2>4 DEF RunReturns
<1>6. ASSUME WaitForClosed PROVE TypeOK'
  BY Sorts, <1>6 DEF WaitForClosed, Fault
<1>7. ASSUME SkipFinalPush PROVE TypeOK'
  BY Sorts, <1>7 DEF SkipFinalPush
<1>8. ASSUME FinalPush PROVE TypeOK'
  <2>1. [by |-> "main", data |-> binlog] \in Puts
    BY PutSorts
  <2>2. wire' \in Seq(Puts) /\ phase' \in {"failed", "pushing"}
    <3>1. CASE binlog = NoFile
      BY <1>8, <3>1 DEF FinalPush
    <3>2. CASE binlog # NoFile
      BY <1>8, <2>1, <3>2 DEF FinalPush
    <3> QED BY <3>1, <3>2
  <2>3. faults' \in 0 .. MaxFaults /\ final' \in {"crowded", "alone"}
    BY Sorts, <1>8 DEF FinalPush, Fault
  <2> QED BY <1>8, <2>2, <2>3 DEF FinalPush
<1>9. ASSUME Exit PROVE TypeOK'
  BY <1>9, GoneTypes DEF Exit
<1>10. ASSUME Crash PROVE TypeOK'
  <2>1. faults' \in 0 .. MaxFaults
    BY Sorts, <1>10 DEF Crash, Fault
  <2> QED BY <1>10, <2>1, GoneTypes DEF Crash
<1>11. ASSUME Signal PROVE TypeOK'
  BY <1>11 DEF Signal
<1>12. ASSUME ReceiveState PROVE TypeOK'
  <2>1. Head(updates) \in Messages /\ updates' \in Seq(Messages)
    BY <1>12 DEF ReceiveState
  <2>2. Head(updates).state \in AuthStates
    BY <1>12, <2>1, MessageSorts DEF ReceiveState
  <2> QED BY <1>12, <2>1, <2>2 DEF ReceiveState, SetState, Terminates
<1>13. ASSUME ReceiveReply PROVE TypeOK'
  <2>1. Head(updates) \in Messages /\ updates' \in Seq(Messages)
    BY <1>13 DEF ReceiveReply
  <2>2. Head(updates).result \in {"ok", "error"}
    BY <1>13, <2>1, MessageSorts DEF ReceiveReply
  <2>3. reply' \in [Handlers -> {"none", "ok", "error"}]
    BY <1>13, <2>2 DEF ReceiveReply
  <2> QED BY <1>13, <2>1, <2>3 DEF ReceiveReply
<1>14. ASSUME Tick PROVE TypeOK'
  <2>1. GateTypeOK'
    <3>1. CASE running
      BY <1>14, <3>1 DEF Tick, Request
    <3>2. CASE ~running
      BY <1>14, <3>2 DEF Tick, Request, SyncSteps
    <3> QED BY <3>1, <3>2
  <2> QED BY <1>14, <2>1 DEF Tick
<1>15. ASSUME SyncCheck PROVE TypeOK'
  <2>1. GateTypeOK'
    <3>1. CASE disabled
      BY <1>15, <3>1 DEF SyncCheck, SyncGoto, SyncSteps
    <3>2. CASE ~disabled
      BY <1>15, <3>2 DEF SyncCheck, SyncGoto, SyncSteps
    <3> QED BY <3>1, <3>2
  <2> QED BY <1>15, <2>1 DEF SyncCheck
<1>16. ASSUME SyncRead PROVE TypeOK'
  <2>1. GateTypeOK' /\ copy' \in Files
    <3>1. CASE binlog \in {NoFile, lastHash}
      BY <1>16, <3>1 DEF SyncRead, SyncGoto, SyncSteps
    <3>2. CASE binlog \notin {NoFile, lastHash}
      BY <1>16, <3>2 DEF SyncRead, SyncGoto, SyncSteps
    <3> QED BY <3>1, <3>2
  <2> QED BY <1>16, <2>1 DEF SyncRead
<1>17. ASSUME SyncSend PROVE TypeOK'
  <2>1. [by |-> "sync", data |-> copy] \in Puts
    BY PutSorts
  <2>2. wire' \in Seq(Puts)
    BY <1>17, <2>1 DEF SyncSend
  <2> QED BY <1>17, <2>2 DEF SyncSend, SyncGoto, SyncSteps
<1>18. ASSUME SyncFinish PROVE TypeOK'
  <2>1. GateTypeOK'
    <3>1. CASE pending
      BY <1>18, <3>1 DEF SyncFinish, FinishStep, SyncSteps
    <3>2. CASE ~pending
      BY <1>18, <3>2 DEF SyncFinish, FinishStep, SyncSteps
    <3> QED BY <3>1, <3>2
  <2> QED BY <1>18, <2>1 DEF SyncFinish
<1>19. ASSUME PutStored PROVE TypeOK'
  <2>1. wire' \in Seq(Puts) /\ Head(wire) \in Puts
    BY <1>19 DEF PutStored
  <2>2. Head(wire).data \in Files
    BY <2>1, PutSorts
  <2>3. PICK ok \in BOOLEAN : PutReturns(ok)
    BY <1>19 DEF PutStored
  <2>4. GateTypeOK' /\ phase' \in {phase, "stored", "failed"}
        /\ lastHash' \in Files /\ copy' \in Files
    BY <2>3, PutReturnsTypes
  <2>5. s3' \in Files /\ stale' \in BOOLEAN
    BY <1>19, <2>2 DEF PutStored
  <2>6. abandoned' \subseteq Files /\ retired' \in BOOLEAN
    BY <1>19, <2>2 DEF PutStored
  <2> QED BY Sorts, <1>19, <2>1, <2>4, <2>5, <2>6 DEF PutStored, Fault
<1>20. ASSUME PutFailed PROVE TypeOK'
  <2>1. wire' \in Seq(Puts) /\ Head(wire) \in Puts
    BY <1>20 DEF PutFailed
  <2>2. Head(wire).data \in Files
    BY <2>1, PutSorts
  <2>3. PICK ok \in BOOLEAN : PutReturns(ok)
    BY <1>20 DEF PutFailed
  <2>4. GateTypeOK' /\ phase' \in {phase, "stored", "failed"}
        /\ lastHash' \in Files /\ copy' \in Files
    BY <2>3, PutReturnsTypes
  <2>5. s3' \in Files /\ stale' \in BOOLEAN
    BY <1>20, <2>2 DEF PutFailed
  <2>6. abandoned' \subseteq Files /\ retired' \in BOOLEAN
    BY <1>20, <2>2 DEF PutFailed
  <2> QED BY Sorts, <1>20, <2>1, <2>4, <2>5, <2>6 DEF PutFailed, Fault
<1>21. ASSUME PutHung PROVE TypeOK'
  <2>1. wire' \in Seq(Puts) /\ Head(wire) \in Puts
    BY <1>21 DEF PutHung
  <2>2. Head(wire).data \in Files
    BY <2>1, PutSorts
  <2>3. PICK ok \in BOOLEAN : PutReturns(ok)
    BY <1>21 DEF PutHung
  <2>4. GateTypeOK' /\ phase' \in {phase, "stored", "failed"}
        /\ lastHash' \in Files /\ copy' \in Files
    BY <2>3, PutReturnsTypes
  <2>5. s3' \in Files /\ stale' \in BOOLEAN
    BY <1>21, <2>2 DEF PutHung
  <2>6. abandoned' \subseteq Files /\ retired' \in BOOLEAN
    BY <1>21, <2>2 DEF PutHung
  <2> QED BY Sorts, <1>21, <2>1, <2>4, <2>5, <2>6 DEF PutHung, Fault
<1>22. ASSUME AbandonedLands PROVE TypeOK'
  BY <1>22 DEF AbandonedLands
<1>23. ASSUME Login PROVE TypeOK'
  <2>1. /\ logins + 1 \in 1 .. MaxSessions
        /\ [session |-> logins + 1, rev |-> 0] \in Files
    BY Sorts, <1>23 DEF Login, Files, Snapshots
  <2> QED BY Sorts, <1>23, <2>1 DEF Login, Emit
<1>24. ASSUME TdWrites PROVE TypeOK'
  <2>1. binlog' \in Snapshots
    BY Sorts, <1>24 DEF TdWrites, Snapshots
  <2> QED BY Sorts, <1>24, <2>1 DEF TdWrites
<1>25. ASSUME Revoke PROVE TypeOK'
  BY <1>25 DEF Revoke
<1>26. ASSUME TdNoticesRevoked PROVE TypeOK'
  BY Sorts, <1>26 DEF TdNoticesRevoked, Emit
<1>27. ASSUME TdLoggedOut PROVE TypeOK'
  <2>1. <<State("closing")>> \in Seq(Messages)
    BY Sorts
  <2>2. requester # NoHandler => <<Reply(requester, "ok")>> \in Seq(Messages)
    BY Sorts
  <2>3. updates' \in Seq(Messages)
    <3>1. CASE requester = NoHandler
      BY <1>27, <2>1, <3>1 DEF TdLoggedOut
    <3>2. CASE requester # NoHandler
      BY <1>27, <2>1, <2>2, <3>2 DEF TdLoggedOut
    <3> QED BY <3>1, <3>2
  <2>4. valid' \subseteq 1 .. MaxSessions
    BY <1>27 DEF TdLoggedOut
  <2> QED BY <1>27, <2>3, <2>4 DEF TdLoggedOut
<1>28. ASSUME TdCloses PROVE TypeOK'
  BY Sorts, <1>28 DEF TdCloses, Emit
<1>29. ASSUME NEW h \in Handlers, LogoutCheck(h) PROVE TypeOK'
  BY <1>29 DEF LogoutCheck, Goto
<1>30. ASSUME NEW h \in Handlers, LogoutSend(h) PROVE TypeOK'
  BY <1>30 DEF LogoutSend, Goto, ExpectShutdown, SetExpect
<1>31. ASSUME NEW h \in Handlers, LogoutCallExpires(h) PROVE TypeOK'
  BY Sorts, <1>31 DEF LogoutCallExpires, Fault
<1>32. ASSUME NEW h \in Handlers, LogoutRefused(h) PROVE TypeOK'
  <2>1. AuthTypeOK'
    BY <1>32 DEF LogoutRefused, CancelExpectShutdown, SetExpect
  <2> QED BY <1>32, <2>1 DEF LogoutRefused, Goto
<1>33. ASSUME NEW h \in Handlers, LogoutAccepted(h) PROVE TypeOK'
  BY <1>33 DEF LogoutAccepted, Goto
<1>34. ASSUME NEW h \in Handlers, LogoutAnswered(h) PROVE TypeOK'
  BY <1>34 DEF LogoutAnswered, Goto
<1>35. ASSUME NEW h \in Handlers, TdTakesLogOut(h) PROVE TypeOK'
  <2>1. State("loggingOut") \in Messages /\ Reply(h, "error") \in Messages
    BY Sorts
  <2>2. updates' \in Seq(Messages)
    <3>1. CASE updates' = Append(updates, State("loggingOut"))
      BY <2>1, <3>1
    <3>2. CASE updates' = Append(updates, Reply(h, "error"))
      BY <2>1, <3>2
    <3> QED BY <1>35, <3>1, <3>2 DEF TdTakesLogOut, Emit
  <2>3. td' \in {td, "loggingOut"} /\ requester' \in {requester, h}
    BY <1>35 DEF TdTakesLogOut
  <2> QED BY <1>35, <2>2, <2>3 DEF TdTakesLogOut
<1>36. ASSUME NEW h \in Handlers, TdRefusesLogOut(h) PROVE TypeOK'
  BY Sorts, <1>36 DEF TdRefusesLogOut, Emit
<1>37. ASSUME UNCHANGED vars PROVE TypeOK'
  BY <1>37 DEF vars
<1> QED
  BY <1>1, <1>2, <1>3, <1>4, <1>5, <1>6, <1>7, <1>8, <1>9, <1>10, <1>11, <1>12,
     <1>13, <1>14, <1>15, <1>16, <1>17, <1>18, <1>19, <1>20, <1>21, <1>22,
     <1>23, <1>24, <1>25, <1>26, <1>27, <1>28, <1>29, <1>30, <1>31, <1>32,
     <1>33, <1>34, <1>35, <1>36, <1>37
     DEF Next, MainStep, Receive, SyncStep, LogoutStep, TdStep

\* What TDLib reports is true of it, if it was so far and is of the new report.
LEMMA EmitKeepsClosed ==
    ASSUME TypeOK, ClosedIsTrue, NEW m, Emit(m),
           m = State("closed") => td' = "closed",
           td = "closed" => td' = "closed",
           UNCHANGED state
    PROVE  ClosedIsTrue'
<1>1. updates \in Seq(Messages) /\ updates' = Append(updates, m)
  BY DEF TypeOK, Emit
<1>2. ASSUME NEW i \in DOMAIN updates', updates'[i] = State("closed")
      PROVE  td' = "closed"
  <2>1. CASE i \in DOMAIN updates
    BY <1>1, <1>2, <2>1 DEF ClosedIsTrue
  <2>2. CASE i \notin DOMAIN updates
    BY <1>1, <1>2, <2>2
  <2> QED BY <2>1, <2>2
<1> QED BY <1>2 DEF ClosedIsTrue

\* The oldest PUT comes back to its owner; the others on the connection are
\* not its owner's.
LEMMA OthersRemain ==
    ASSUME TypeOK, PutOwners, wire # <<>>, wire' = Tail(wire)
    PROVE  /\ 1 \in DOMAIN wire /\ Head(wire) = wire[1]
           /\ Head(wire).by \in {"sync", "main"}
           /\ \A i \in DOMAIN wire' :
                /\ i + 1 \in DOMAIN wire /\ wire'[i] = wire[i + 1]
                /\ wire'[i].by # Head(wire).by
<1>1. wire \in Seq(Puts)
  BY DEF TypeOK
<1>2. 1 \in DOMAIN wire /\ Head(wire) = wire[1] /\ Head(wire) \in Puts
  BY <1>1
<1>3. \A i \in DOMAIN wire' : i + 1 \in DOMAIN wire /\ wire'[i] = wire[i + 1]
  BY <1>1
<1>4. \A i \in DOMAIN wire' : i \in Nat /\ i >= 1
  BY <1>1
<1>5. \A i \in DOMAIN wire' : wire'[i].by # Head(wire).by
  BY <1>2, <1>3, <1>4 DEF PutOwners
<1> QED BY <1>2, <1>3, <1>5 DEF Puts

\* The end of a PUT takes it off the connection and tells its owner, and no more.
LEMMA PutReturnsLinks ==
    ASSUME IInv, NEW ok \in BOOLEAN, wire # <<>>, wire' = Tail(wire), PutReturns(ok),
           UNCHANGED <<state, final, binlog, td, updates>>
    PROVE  /\ GateInv' /\ PutOwners' /\ ClosedIsTrue' /\ AlonePushing'
           /\ phase' = "stored" /\ final = "alone" /\ state = "closed" =>
                ok /\ Head(wire).data = binlog
<1> USE DEF IInv, GateInv, GateMatchesThread, RequestNotLost
<1>1. ClosedIsTrue'
  BY DEF ClosedIsTrue
<1>2. wire \in Seq(Puts) /\ wire' \in Seq(Puts)
  BY DEF TypeOK
<1>3. \A i, j \in DOMAIN wire' : i + 1 = j + 1 => i = j
  BY <1>2
<1>4. \A i, j \in DOMAIN wire' : wire'[i].by = wire'[j].by => i = j
  BY <1>3, OthersRemain DEF PutOwners
<1>5. CASE Head(wire).by = "sync"
  <2>1. sync = "put" /\ sync' = "finish" /\ UNCHANGED <<phase, running, pending, owed>>
    BY <1>5, OthersRemain DEF PutReturns, PutOwners, SyncGoto
  <2>2. GateInv'
    BY <2>1
  <2>3. PutOwners'
    BY <1>4, <1>5, <2>1, OthersRemain DEF PutOwners
  <2>4. ~(final = "alone" /\ phase \in {"pushing", "stored"})
    BY <2>1 DEF AlonePushing
  <2> QED BY <1>1, <2>1, <2>2, <2>3, <2>4 DEF AlonePushing
<1>6. CASE Head(wire).by = "main"
  <2>1. /\ phase = "pushing" /\ phase' = (IF ok THEN "stored" ELSE "failed")
        /\ UNCHANGED <<sync, running, pending, owed>>
    BY <1>6, OthersRemain DEF PutReturns, PutOwners
  <2>2. GateInv'
    BY <2>1
  <2>3. PutOwners'
    BY <1>4, <1>6, <2>1, OthersRemain DEF PutOwners
  <2>4. ASSUME final = "alone" PROVE wire' = <<>> /\ sync = "none"
    <3>1. sync = "none"
      BY <2>1, <2>4 DEF AlonePushing
    <3>2. \A i \in DOMAIN wire : wire[i].by = "main"
      BY <1>2, <3>1, PutSorts DEF PutOwners
    <3>3. DOMAIN wire' = {}
      BY <1>6, <3>2, OthersRemain
    <3> QED BY <1>2, <3>1, <3>3, EmptySeq
  <2>5. AlonePushing'
    BY <2>1, <2>4 DEF AlonePushing
  <2>6. final = "alone" /\ state = "closed" => Head(wire).data = binlog
    BY <2>1, OthersRemain DEF AlonePushing
  <2> QED BY <1>1, <2>1, <2>2, <2>3, <2>5, <2>6
<1> QED BY <1>5, <1>6, OthersRemain

\* Of a process that is gone nothing is left to be linked.
LEMMA GoneLinks ==
    Gone => GateInv' /\ PutOwners' /\ ClosedIsTrue' /\ AlonePushing' /\ FinalPushIsLast'
  BY DEF Gone, GateInv, GateMatchesThread, RequestNotLost, PutOwners, ClosedIsTrue,
         AlonePushing, FinalPushIsLast

\* A step keeps what links the gate, the connection, TDLib and main.
LEMMA LinkStep ==
    ASSUME IInv, [Next]_vars
    PROVE  GateInv' /\ PutOwners' /\ ClosedIsTrue' /\ AlonePushing' /\ FinalPushIsLast'
<1> DEFINE Links == GateInv /\ PutOwners /\ ClosedIsTrue /\ AlonePushing /\ FinalPushIsLast
<1> TypeOK /\ Links
  BY DEF IInv
<1> SUFFICES Links'
  OBVIOUS
<1> USE DEF GateInv, GateMatchesThread, RequestNotLost, PutOwners, ClosedIsTrue,
        AlonePushing, FinalPushIsLast
<1>1. ASSUME Restore PROVE Links'
  BY <1>1 DEF Restore, TypeOK
<1>2. ASSUME RestoreCutShort PROVE Links'
  BY <1>2 DEF RestoreCutShort, TypeOK
<1>3. ASSUME StartTd PROVE Links'
  <2>1. ClosedIsTrue'
    BY <1>3, EmitKeepsClosed DEF StartTd, State
  <2> QED BY <1>3, <2>1 DEF StartTd
<1>4. ASSUME RunApp PROVE Links'
  BY <1>4 DEF RunApp, TypeOK
<1>5. ASSUME RunReturns PROVE Links'
  <2>1. ClosedIsTrue'
    <3>1. CASE td \in {"off", "login", "ready"}
      BY <1>5, <3>1, EmitKeepsClosed DEF RunReturns, State, ExpectShutdown, SetExpect
    <3>2. CASE td \notin {"off", "login", "ready"}
      BY <1>5, <3>2 DEF RunReturns, ExpectShutdown, SetExpect
    <3> QED BY <3>1, <3>2
  <2> QED BY <1>5, <2>1 DEF RunReturns
<1>6. ASSUME WaitForClosed PROVE Links'
  BY <1>6 DEF WaitForClosed, TypeOK
<1>7. ASSUME SkipFinalPush PROVE Links'
  BY <1>7 DEF SkipFinalPush, TypeOK
<1>8. ASSUME FinalPush PROVE Links'
  <2>1. /\ wire \in Seq(Puts) /\ phase = "stopped" /\ UNCHANGED <<state, binlog, td, updates>>
        /\ UNCHANGED <<sync, running, pending, owed>>
    BY <1>8 DEF FinalPush, TypeOK
  <2>2. GateInv' /\ ClosedIsTrue'
    BY <2>1
  <2>3. CASE binlog = NoFile
    BY <1>8, <2>1, <2>2, <2>3 DEF FinalPush
  <2>4. CASE binlog # NoFile
    <3>1. phase' = "pushing" /\ wire' = Append(wire, [by |-> "main", data |-> binlog])
      BY <1>8, <2>4 DEF FinalPush
    <3>2. \A i \in DOMAIN wire : wire[i].by # "main"
      BY <2>1
    <3>3. PutOwners'
      BY <2>1, <3>1, <3>2
    <3>4. ASSUME final' = "alone" PROVE sync = "none" /\ wire = <<>>
      <4>1. sync = "none"
        BY <1>8, <3>4 DEF FinalPush, InFlight
      <4>2. \A i \in DOMAIN wire : wire[i].by \in {"sync", "main"}
        BY <2>1, PutSorts
      <4>3. DOMAIN wire = {}
        BY <3>2, <4>1, <4>2
      <4> QED BY <2>1, <4>1, <4>3, EmptySeq
    <3>5. AlonePushing'
      BY <2>1, <3>1, <3>4
    <3> QED BY <2>2, <3>1, <3>3, <3>5
  <2> QED BY <2>3, <2>4
<1>9. ASSUME Exit PROVE Links'
  BY <1>9, GoneLinks DEF Exit
<1>10. ASSUME Crash PROVE Links'
  BY <1>10, GoneLinks DEF Crash
<1>11. ASSUME Signal PROVE Links'
  BY <1>11 DEF Signal, TypeOK
<1>12. ASSUME ReceiveState PROVE Links'
  <2>1. updates \in Seq(Messages) /\ Head(updates) = updates[1] /\ 1 \in DOMAIN updates
    BY <1>12 DEF ReceiveState, TypeOK
  <2>2. state' = Head(updates).state /\ Head(updates) = State(Head(updates).state)
    BY <1>12, <2>1, MessageSorts DEF ReceiveState, SetState
  <2>3. state' = "closed" => td = "closed"
    BY <2>1, <2>2
  <2>4. \A i \in DOMAIN updates' : i + 1 \in DOMAIN updates /\ updates'[i] = updates[i + 1]
    BY <1>12, <2>1 DEF ReceiveState
  <2>5. ClosedIsTrue'
    BY <1>12, <2>3, <2>4 DEF ReceiveState
  <2> QED BY <1>12, <2>5 DEF ReceiveState
<1>13. ASSUME ReceiveReply PROVE Links'
  BY <1>13 DEF ReceiveReply, TypeOK
<1>14. ASSUME Tick PROVE Links'
  <2>1. GateInv'
    <3>1. CASE running
      BY <1>14, <3>1 DEF Tick, Request
    <3>2. CASE ~running
      BY <1>14, <3>2 DEF Tick, Request, TypeOK, GateTypeOK
    <3> QED BY <3>1, <3>2
  <2>2. PutOwners'
    BY <1>14 DEF Tick, Request
  <2> QED BY <1>14, <2>1, <2>2 DEF Tick
<1>15. ASSUME SyncCheck PROVE Links'
  <2>1. sync = "check" /\ sync' \in {"finish", "read"} /\ UNCHANGED <<running, pending>>
    BY <1>15 DEF SyncCheck, SyncGoto
  <2>2. sync' = "finish" => ~owed'
    BY <1>15 DEF SyncCheck, SyncGoto
  <2>3. GateInv'
    BY <2>1, <2>2
  <2> QED BY <1>15, <2>1, <2>3 DEF SyncCheck
<1>16. ASSUME SyncRead PROVE Links'
  <2>1. /\ sync = "read" /\ sync' \in {"finish", "send"} /\ ~owed'
        /\ UNCHANGED <<running, pending>>
    BY <1>16 DEF SyncRead, SyncGoto
  <2>2. GateInv'
    BY <2>1
  <2> QED BY <1>16, <2>1, <2>2 DEF SyncRead
<1>17. ASSUME SyncSend PROVE Links'
  <2>1. sync = "send" /\ sync' = "put" /\ UNCHANGED <<running, pending, owed>>
    BY <1>17 DEF SyncSend, SyncGoto
  <2>2. GateInv'
    BY <2>1
  <2>3. /\ wire \in Seq(Puts) /\ wire' = Append(wire, [by |-> "sync", data |-> copy])
        /\ \A i \in DOMAIN wire : wire[i].by # "sync"
    BY <1>17, <2>1 DEF SyncSend, TypeOK
  <2>4. PutOwners'
    BY <1>17, <2>1, <2>3 DEF SyncSend
  <2> QED BY <1>17, <2>1, <2>2, <2>4 DEF SyncSend
<1>18. ASSUME SyncFinish PROVE Links'
  <2>1. GateInv'
    <3>1. CASE pending
      BY <1>18, <3>1 DEF SyncFinish, FinishStep
    <3>2. CASE ~pending
      BY <1>18, <3>2 DEF SyncFinish, FinishStep
    <3> QED BY <3>1, <3>2
  <2> QED BY <1>18, <2>1 DEF SyncFinish, FinishStep
<1>19. ASSUME PutStored PROVE Links'
  <2>1. /\ wire # <<>> /\ wire' = Tail(wire) /\ PutReturns(TRUE)
        /\ UNCHANGED <<state, final, binlog, td, updates>>
    BY <1>19 DEF PutStored
  <2>2. /\ GateInv' /\ PutOwners' /\ ClosedIsTrue' /\ AlonePushing'
        /\ phase' = "stored" /\ final = "alone" /\ state = "closed" =>
             TRUE /\ Head(wire).data = binlog
    BY <2>1, PutReturnsLinks
  <2> QED BY <1>19, <2>1, <2>2 DEF PutStored
<1>20. ASSUME PutFailed PROVE Links'
  <2>1. /\ wire # <<>> /\ wire' = Tail(wire) /\ PutReturns(FALSE)
        /\ UNCHANGED <<state, final, binlog, td, updates>>
    BY <1>20 DEF PutFailed
  <2>2. /\ GateInv' /\ PutOwners' /\ ClosedIsTrue' /\ AlonePushing'
        /\ phase' = "stored" /\ final = "alone" /\ state = "closed" =>
             FALSE /\ Head(wire).data = binlog
    BY <2>1, PutReturnsLinks
  <2> QED BY <1>20, <2>1, <2>2 DEF PutFailed
<1>21. ASSUME PutHung PROVE Links'
  <2>1. /\ wire # <<>> /\ wire' = Tail(wire) /\ PutReturns(FALSE)
        /\ UNCHANGED <<state, final, binlog, td, updates>>
    BY <1>21 DEF PutHung
  <2>2. /\ GateInv' /\ PutOwners' /\ ClosedIsTrue' /\ AlonePushing'
        /\ phase' = "stored" /\ final = "alone" /\ state = "closed" =>
             FALSE /\ Head(wire).data = binlog
    BY <2>1, PutReturnsLinks
  <2> QED BY <1>21, <2>1, <2>2 DEF PutHung
<1>22. ASSUME AbandonedLands PROVE Links'
  BY <1>22 DEF AbandonedLands, TypeOK
<1>23. ASSUME Login PROVE Links'
  <2>1. ClosedIsTrue'
    BY <1>23, EmitKeepsClosed DEF Login, State
  <2> QED BY <1>23, <2>1 DEF Login, TypeOK
<1>24. ASSUME TdWrites PROVE Links'
  BY <1>24 DEF TdWrites, TypeOK
<1>25. ASSUME Revoke PROVE Links'
  BY <1>25 DEF Revoke, TypeOK
<1>26. ASSUME TdNoticesRevoked PROVE Links'
  <2>1. ClosedIsTrue'
    BY <1>26, EmitKeepsClosed DEF TdNoticesRevoked, State
  <2> QED BY <1>26, <2>1 DEF TdNoticesRevoked, TypeOK
<1>27. ASSUME TdLoggedOut PROVE Links'
  <2>1. \A i \in DOMAIN updates : updates[i] # State("closed")
    BY <1>27 DEF TdLoggedOut
  <2>2. \A i \in DOMAIN updates' : updates'[i] # State("closed")
    <3>1. CASE requester = NoHandler
      BY <1>27, <2>1, <3>1 DEF TdLoggedOut, State, TypeOK
    <3>2. CASE requester # NoHandler
      BY <1>27, <2>1, <3>2 DEF TdLoggedOut, State, Reply, TypeOK
    <3> QED BY <3>1, <3>2
  <2> QED BY <1>27, <2>2 DEF TdLoggedOut
<1>28. ASSUME TdCloses PROVE Links'
  BY <1>28 DEF TdCloses, TypeOK
<1>29. ASSUME NEW h \in Handlers, LogoutCheck(h) PROVE Links'
  BY <1>29 DEF LogoutCheck, TypeOK
<1>30. ASSUME NEW h \in Handlers, LogoutSend(h) PROVE Links'
  BY <1>30 DEF LogoutSend, ExpectShutdown, SetExpect
<1>31. ASSUME NEW h \in Handlers, LogoutCallExpires(h) PROVE Links'
  BY <1>31 DEF LogoutCallExpires, TypeOK
<1>32. ASSUME NEW h \in Handlers, LogoutRefused(h) PROVE Links'
  BY <1>32 DEF LogoutRefused, CancelExpectShutdown, SetExpect
<1>33. ASSUME NEW h \in Handlers, LogoutAccepted(h) PROVE Links'
  BY <1>33 DEF LogoutAccepted, TypeOK
<1>34. ASSUME NEW h \in Handlers, LogoutAnswered(h) PROVE Links'
  BY <1>34 DEF LogoutAnswered, TypeOK
<1>35. ASSUME NEW h \in Handlers, TdTakesLogOut(h) PROVE Links'
  <2>1. ClosedIsTrue'
    <3>1. CASE td = "ready"
      BY <1>35, <3>1, EmitKeepsClosed DEF TdTakesLogOut, State
    <3>2. CASE td # "ready"
      BY <1>35, <3>2, EmitKeepsClosed DEF TdTakesLogOut, State, Reply
    <3> QED BY <3>1, <3>2
  <2> QED BY <1>35, <2>1 DEF TdTakesLogOut
<1>36. ASSUME NEW h \in Handlers, TdRefusesLogOut(h) PROVE Links'
  <2>1. ClosedIsTrue'
    BY <1>36, EmitKeepsClosed DEF TdRefusesLogOut, State, Reply
  <2> QED BY <1>36, <2>1 DEF TdRefusesLogOut, TypeOK
<1>37. ASSUME UNCHANGED vars PROVE Links'
  BY <1>37 DEF vars
<1> QED
  BY <1>1, <1>2, <1>3, <1>4, <1>5, <1>6, <1>7, <1>8, <1>9, <1>10, <1>11, <1>12,
     <1>13, <1>14, <1>15, <1>16, <1>17, <1>18, <1>19, <1>20, <1>21, <1>22,
     <1>23, <1>24, <1>25, <1>26, <1>27, <1>28, <1>29, <1>30, <1>31, <1>32,
     <1>33, <1>34, <1>35, <1>36, <1>37
     DEF Next, MainStep, Receive, SyncStep, LogoutStep, TdStep

\* The invariant holds throughout.
THEOREM SessionInvariant == Spec => []IInv
<1>1. Init => IInv
  BY InitInv
<1>2. IInv /\ [Next]_vars => IInv'
  BY TypeStep, LinkStep DEF IInv
<1> QED BY <1>1, <1>2, PTL DEF Spec

\* Every variable keeps its type, and no bound is passed.
THEOREM TypeCorrect == Spec => []TypeOK
<1>1. IInv => TypeOK
  BY DEF IInv
<1> QED BY <1>1, SessionInvariant, PTL

\* A sync asked for while the thread runs is not lost (SyncGate).
THEOREM RequestsAreKept == Spec => []RequestNotLost
<1>1. IInv => RequestNotLost
  BY DEF IInv, GateInv
<1> QED BY <1>1, SessionInvariant, PTL

\* The final push, done with in_flight down, is not overwritten by an older
\* binlog (main.cpp:483-515).
THEOREM FinalPushLasts == Spec => []FinalPushIsLast
<1>1. IInv => FinalPushIsLast
  BY DEF IInv
<1> QED BY <1>1, SessionInvariant, PTL

-----------------------------------------------------------------------------
(* Why the process quits *)

\* The end of the session is under way in TDLib.
PastReady == td \in {"loggingOut", "destroying", "closing", "closed"}

\* main is still to return from run().
Running == phase \in {"down", "boot", "serving"}

\* A logOut that reached TDLib was announced, and only its own error takes that back.
AskedIsExpected ==
    asked # {} \/ requester # NoHandler =>
        expectShutdown \/ \E h \in Handlers : pc[h] = "refused"

\* Nobody hears of an end before it is under way, and quits only for one.
EndIsTrue ==
    /\ quit = "termination" => PastReady
    /\ \A i \in DOMAIN updates, s \in Terminal : updates[i] = State(s) => PastReady

\* While the app runs an end is expected only for a logout, and one that was not is told.
EndIsTold ==
    /\ terminationReported => quit # "no"
    /\ Running /\ expectShutdown =>
         \E h \in Handlers : pc[h] \in {"calling", "polling", "answered"}
    /\ Running /\ state = "closed" /\ ~raced => quit # "no"

\* The end that a logout brings about is heard of before its answer, while its call is
\* still open: whoever has an "ok" has raced.
Heralded(i) == \E j \in DOMAIN updates : j < i /\ updates[j] = State("loggingOut")
Announced == \E j \in DOMAIN updates : updates[j] = State("loggingOut")
OkIsHeralded ==
    /\ \A h \in Handlers :
         /\ reply[h] = "ok" \/ pc[h] \in {"polling", "answered"} => raced
         /\ h \in asked \cup {requester} => pc[h] \notin {"idle", "checked"}
    /\ \A i \in DOMAIN updates, h \in Handlers : updates[i] = Reply(h, "ok") =>
         /\ pc[h] \notin {"idle", "checked"}
         /\ pc[h] = "calling" => raced \/ Heralded(i)
    /\ td = "loggingOut" /\ requester \in Handlers /\ pc[requester] = "calling" =>
         raced \/ Announced

QuitInv == AskedIsExpected /\ EndIsTrue /\ EndIsTold /\ OkIsHeralded /\ LogoutKeepsProcess

\* The messages are told apart.
LEMMA MessagesDiffer ==
    /\ \A a, h, r : State(a) # Reply(h, r)
    /\ \A a, b : State(a) = State(b) => a = b
    /\ \A h, g, r, q : Reply(h, r) = Reply(g, q) => h = g /\ r = q
    /\ \A m \in Messages : m.kind = "reply" =>
         m.handler \in Handlers /\ m = Reply(m.handler, m.result)
    /\ \A m \in Messages : m.kind = "state" => m = State(m.state)
<1>1. \A a : State(a).kind = "state" /\ State(a).state = a
  BY DEF State
<1>2. \A h, r : Reply(h, r).kind = "reply" /\ Reply(h, r).handler = h /\ Reply(h, r).result = r
  BY DEF Reply
<1>3. \A a, h, r : State(a) # Reply(h, r)
  BY <1>1, <1>2
<1>4. \A m \in Messages : \/ \E a : m = State(a)
                          \/ \E h \in Handlers : \E r : m = Reply(h, r)
  BY DEF Messages
<1> QED BY <1>1, <1>2, <1>3, <1>4

\* The queue of what TDLib has sent.
LEMMA QueueDomain ==
    TypeOK => /\ updates \in Seq(Messages) /\ Len(updates) \in Nat
              /\ DOMAIN updates = 1 .. Len(updates)
              /\ \A i \in DOMAIN updates : updates[i] \in Messages
  BY LenProperties DEF TypeOK

\* A message is sent behind the others.
LEMMA Emitted ==
    ASSUME TypeOK, NEW m, m \in Messages, Emit(m)
    PROVE  /\ Len(updates') = Len(updates) + 1
           /\ \A i \in DOMAIN updates : i \in DOMAIN updates' /\ updates'[i] = updates[i]
           /\ \A i \in DOMAIN updates' :
                i \in DOMAIN updates \/ (i = Len(updates) + 1 /\ updates'[i] = m)
           /\ Len(updates) + 1 \in DOMAIN updates' /\ updates'[Len(updates) + 1] = m
<1>1. updates' = Append(updates, m)
  BY DEF Emit
<1>2. updates \in Seq(Messages) /\ Len(updates) \in Nat /\ DOMAIN updates = 1 .. Len(updates)
  BY QueueDomain
<1>3. /\ updates' \in Seq(Messages) /\ Len(updates') = Len(updates) + 1
      /\ \A i \in 1 .. Len(updates) : updates'[i] = updates[i]
      /\ updates'[Len(updates) + 1] = m
  BY <1>1, <1>2, AppendProperties
<1>4. DOMAIN updates' = 1 .. Len(updates) + 1
  BY <1>3, LenProperties
<1> QED BY <1>2, <1>3, <1>4

\* What was announced stays announced.
LEMMA HeraldedStays ==
    ASSUME TypeOK, NEW m, m \in Messages, Emit(m)
    PROVE  /\ \A i : Heralded(i) => Heralded(i)'
           /\ m = State("loggingOut") \/ Announced => Announced'
  BY Emitted DEF Heralded, Announced

\* TDLib says something that does not answer a logout.
LEMMA SaidKeeps ==
    ASSUME TypeOK, QuitInv, NEW m \in Messages, Emit(m),
           UNCHANGED <<state, terminationReported, quit, pc, reply, raced>>,
           expectShutdown => expectShutdown',
           Running' => Running /\ expectShutdown' = expectShutdown,
           PastReady => PastReady',
           \A t \in Terminal : m = State(t) => PastReady',
           \A h : m # Reply(h, "ok"),
           asked' \subseteq asked, requester' \in asked \cup {requester},
           requester' = requester \/ quit # "termination",
           td' = "loggingOut" =>
               \/ requester' \notin Handlers
               \/ m = State("loggingOut")
               \/ td = "loggingOut" /\ requester' = requester
    PROVE  QuitInv'
<1> USE DEF QuitInv
<1>1. AskedIsExpected'
  BY DEF AskedIsExpected
<1>2. EndIsTrue'
  <2>1. ASSUME NEW i \in DOMAIN updates', NEW t \in Terminal, updates'[i] = State(t)
        PROVE  PastReady'
    BY <2>1, Emitted DEF EndIsTrue
  <2> QED BY <2>1 DEF EndIsTrue
<1>3. EndIsTold'
  BY DEF EndIsTold
<1>4. OkIsHeralded'
  <2>1. ASSUME NEW h \in Handlers
        PROVE  /\ reply'[h] = "ok" \/ pc'[h] \in {"polling", "answered"} => raced'
               /\ h \in asked' \cup {requester'} => pc'[h] \notin {"idle", "checked"}
    BY DEF OkIsHeralded
  <2>2. ASSUME NEW i \in DOMAIN updates', NEW h \in Handlers, updates'[i] = Reply(h, "ok")
        PROVE  /\ pc'[h] \notin {"idle", "checked"}
               /\ pc'[h] = "calling" => raced' \/ Heralded(i)'
    <3>1. i \in DOMAIN updates /\ updates[i] = Reply(h, "ok")
      BY <2>2, Emitted
    <3>2. Heralded(i) => Heralded(i)'
      BY HeraldedStays
    <3> QED BY <3>1, <3>2 DEF OkIsHeralded
  <2>3. ASSUME td' = "loggingOut", requester' \in Handlers, pc'[requester'] = "calling"
        PROVE  raced' \/ Announced'
    BY <2>3, HeraldedStays DEF OkIsHeralded
  <2> QED BY <2>1, <2>2, <2>3 DEF OkIsHeralded
<1>5. LogoutKeepsProcess'
  BY DEF LogoutKeepsProcess
<1> QED BY <1>1, <1>2, <1>3, <1>4, <1>5

\* The receiver takes the oldest message.
LEMMA Taken ==
    ASSUME TypeOK, updates # <<>>, updates' = Tail(updates)
    PROVE  /\ 1 \in DOMAIN updates /\ Head(updates) = updates[1] /\ Head(updates) \in Messages
           /\ \A i \in DOMAIN updates' : i + 1 \in DOMAIN updates /\ updates'[i] = updates[i + 1]
           /\ \A i \in DOMAIN updates' :
                Heralded(i + 1) => Heralded(i)' \/ Head(updates) = State("loggingOut")
           /\ Announced => Announced' \/ Head(updates) = State("loggingOut")
<1>1. updates \in Seq(Messages) /\ Len(updates) \in Nat /\ DOMAIN updates = 1 .. Len(updates)
  BY QueueDomain
<1>2. /\ Len(updates) >= 1 /\ Head(updates) = updates[1] /\ updates[1] \in Messages
      /\ Tail(updates) \in Seq(Messages) /\ Len(Tail(updates)) = Len(updates) - 1
      /\ \A i \in 1 .. Len(Tail(updates)) : Tail(updates)[i] = updates[i + 1]
  BY <1>1, HeadTailProperties, EmptySeq
<1>3. DOMAIN updates' = 1 .. Len(updates) - 1
  BY <1>2, LenProperties
<1>4. \A i \in 1 .. Len(updates) - 1 : i + 1 \in 1 .. Len(updates) /\ updates'[i] = updates[i + 1]
  BY <1>1, <1>2
<1>5. ASSUME NEW j \in DOMAIN updates, updates[j] = State("loggingOut"),
             Head(updates) # State("loggingOut")
      PROVE  j - 1 \in DOMAIN updates' /\ updates'[j - 1] = State("loggingOut")
  <2>1. j # 1 /\ j \in 1 .. Len(updates)
    BY <1>1, <1>2, <1>5
  <2>2. j - 1 \in 1 .. Len(updates) - 1 /\ j - 1 + 1 = j
    BY <1>1, <2>1
  <2> QED BY <1>3, <1>4, <1>5, <2>2
<1>6. ASSUME NEW i \in DOMAIN updates', Heralded(i + 1), Head(updates) # State("loggingOut")
      PROVE  Heralded(i)'
  <2>1. PICK j \in DOMAIN updates : j < i + 1 /\ updates[j] = State("loggingOut")
    BY <1>6 DEF Heralded
  <2>2. j - 1 < i
    BY <1>1, <1>3, <2>1
  <2> QED BY <1>5, <1>6, <2>1, <2>2 DEF Heralded
<1>7. Announced => Announced' \/ Head(updates) = State("loggingOut")
  BY <1>5 DEF Announced
<1> QED BY <1>1, <1>2, <1>3, <1>4, <1>6, <1>7

\* The steps that have nothing to do with it.
LEMMA QuietKeeps ==
    ASSUME QuitInv, Running' => Running,
           UNCHANGED <<authVars, quit, pc, reply, td, requester, asked, updates, raced>>
    PROVE  QuitInv'
<1> USE DEF QuitInv
<1>1. AskedIsExpected' /\ LogoutKeepsProcess'
  BY DEF AskedIsExpected, LogoutKeepsProcess
<1>2. EndIsTrue'
  BY DEF EndIsTrue, PastReady
<1>3. EndIsTold'
  BY DEF EndIsTold
<1>4. OkIsHeralded'
  BY DEF OkIsHeralded, Heralded, Announced
<1> QED BY <1>1, <1>2, <1>3, <1>4

\* A handler goes on, with its flag or its answer, and TDLib says nothing.
LEMMA HandlerKeeps ==
    ASSUME TypeOK, QuitInv, NEW h \in Handlers,
           UNCHANGED <<state, terminationReported, quit, td, requester, updates, raced, phase>>,
           \A g \in Handlers \ {h} : pc'[g] = pc[g] /\ reply'[g] = reply[g],
           asked' = asked \/ (asked' = asked \cup {h} /\ expectShutdown'),
           expectShutdown => expectShutdown' \/ pc'[h] = "refused",
           pc[h] # "refused",
           Running /\ expectShutdown' =>
               \/ expectShutdown /\ pc'[h] = pc[h]
               \/ \E g \in Handlers : pc'[g] \in {"calling", "polling", "answered"},
           reply'[h] = "ok" \/ pc'[h] \in {"polling", "answered"} => raced,
           h \in asked' \cup {requester} => pc'[h] \notin {"idle", "checked"},
           pc[h] \notin {"idle", "checked"} => pc'[h] \notin {"idle", "checked"},
           pc'[h] = "calling" => pc[h] \in {"checked", "calling"},
           pc[h] = "checked" => h \notin asked \cup {requester}
    PROVE  QuitInv'
<1> USE DEF QuitInv
<1>1. \A g \in Handlers : pc[g] = "refused" => pc'[g] = "refused"
  OBVIOUS
<1>2. AskedIsExpected'
  BY <1>1 DEF AskedIsExpected
<1>3. LogoutKeepsProcess'
  BY <1>1 DEF LogoutKeepsProcess
<1>4. EndIsTrue'
  BY DEF EndIsTrue, PastReady
<1>5. EndIsTold'
  <2>1. ASSUME Running, expectShutdown'
        PROVE  \E g \in Handlers : pc'[g] \in {"calling", "polling", "answered"}
    BY <2>1 DEF EndIsTold
  <2> QED BY <2>1 DEF EndIsTold, Running
<1>6. OkIsHeralded'
  <2>1. ASSUME NEW g \in Handlers
        PROVE  /\ reply'[g] = "ok" \/ pc'[g] \in {"polling", "answered"} => raced'
               /\ g \in asked' \cup {requester'} => pc'[g] \notin {"idle", "checked"}
    BY DEF OkIsHeralded
  <2>2. \A i : Heralded(i)' <=> Heralded(i)
    BY DEF Heralded
  <2>3. ASSUME NEW i \in DOMAIN updates, NEW g \in Handlers, updates[i] = Reply(g, "ok")
        PROVE  /\ pc'[g] \notin {"idle", "checked"}
               /\ pc'[g] = "calling" => raced' \/ Heralded(i)'
    <3>1. /\ pc[g] \notin {"idle", "checked"}
          /\ pc[g] = "calling" => raced \/ Heralded(i)
      BY <2>3 DEF OkIsHeralded
    <3> QED BY <2>2, <3>1
  <2>4. ASSUME td = "loggingOut", requester \in Handlers, pc'[requester] = "calling"
        PROVE  raced' \/ Announced'
    <3>1. pc[requester] = "calling"
      BY <2>4
    <3> QED BY <2>4, <3>1 DEF OkIsHeralded, Announced
  <2> QED BY <2>1, <2>3, <2>4 DEF OkIsHeralded
<1> QED BY <1>2, <1>3, <1>4, <1>5, <1>6

\* The logOut is carried out: its answer stands behind the news of the end.
LEMMA LoggedOutKeeps ==
    ASSUME TypeOK, QuitInv, TdLoggedOut
    PROVE  QuitInv'
<1> USE DEF QuitInv
<1>0. /\ UNCHANGED <<authVars, quit, pc, reply, requester, asked, raced, phase>>
      /\ td = "loggingOut" /\ td' = "destroying"
  BY DEF TdLoggedOut
<1>1. /\ updates \in Seq(Messages) /\ Len(updates) \in Nat
      /\ DOMAIN updates = 1 .. Len(updates)
  BY QueueDomain
<1>2. PICK ok \in Seq(Messages) :
        /\ \/ requester = NoHandler /\ ok = <<>>
           \/ requester # NoHandler /\ ok = <<Reply(requester, "ok")>>
        /\ updates' = updates \o ok \o <<State("closing")>>
  <2>1. CASE requester = NoHandler
    BY <2>1, EmptySeq DEF TdLoggedOut
  <2>2. CASE requester # NoHandler
    <3>1. Reply(requester, "ok") \in Messages
      BY <2>2, Sorts DEF TypeOK
    <3>2. <<Reply(requester, "ok")>> \in Seq(Messages)
      BY <3>1
    <3> QED BY <2>2, <3>2 DEF TdLoggedOut
  <2> QED BY <2>1, <2>2
<1>3. /\ \A i \in DOMAIN updates : i \in DOMAIN updates' /\ updates'[i] = updates[i]
      /\ \A i \in DOMAIN updates' :
           \/ i \in DOMAIN updates
           \/ /\ requester # NoHandler /\ i = Len(updates) + 1
              /\ updates'[i] = Reply(requester, "ok")
           \/ updates'[i] = State("closing")
  <2>1. State("closing") \in Messages
    BY Sorts
  <2>2. CASE requester = NoHandler
    <3>1. updates' = Append(updates, State("closing"))
      BY <1>1, <1>2, <2>1, <2>2
    <3> QED BY <1>1, <2>1, <3>1
  <2>3. CASE requester # NoHandler
    <3>1. Reply(requester, "ok") \in Messages
      BY <2>3, Sorts DEF TypeOK
    <3>a. Append(updates, Reply(requester, "ok")) \in Seq(Messages)
      BY <1>1, <3>1, AppendProperties
    <3>2. PICK u \in Seq(Messages) : u = Append(updates, Reply(requester, "ok"))
      BY <3>a
    <3>3. u = updates \o <<Reply(requester, "ok")>>
      BY <1>1, <3>1, <3>2, AppendIsConcat
    <3>4. updates' = Append(u, State("closing"))
      BY <1>2, <2>1, <2>3, <3>2, <3>3, AppendIsConcat
    <3> QED BY <1>1, <2>1, <2>3, <3>1, <3>2, <3>4
  <2> QED BY <2>2, <2>3
<1>4. AskedIsExpected' /\ LogoutKeepsProcess'
  BY <1>0 DEF AskedIsExpected, LogoutKeepsProcess
<1>5. EndIsTrue'
  BY <1>0 DEF EndIsTrue, PastReady
<1>6. EndIsTold'
  BY <1>0 DEF EndIsTold, Running
<1>7. OkIsHeralded'
  <2>1. \A i : Heralded(i) => Heralded(i)'
    BY <1>3 DEF Heralded
  <2>2. ASSUME NEW i \in DOMAIN updates', NEW h \in Handlers, updates'[i] = Reply(h, "ok")
        PROVE  pc[h] \notin {"idle", "checked"} /\ (pc[h] = "calling" => raced \/ Heralded(i)')
    <3>1. CASE i \in DOMAIN updates
      <4>1. updates[i] = Reply(h, "ok")
        BY <1>3, <2>2, <3>1
      <4> QED BY <2>1, <3>1, <4>1 DEF OkIsHeralded
    <3>2. CASE h = requester /\ i = Len(updates) + 1
      <4>1. pc[h] \notin {"idle", "checked"}
        BY <3>2 DEF OkIsHeralded
      <4>2. pc[h] = "calling" => raced \/ Announced
        BY <1>0, <3>2 DEF OkIsHeralded
      <4>3. Announced => Heralded(i)'
        <5>1. \A j \in DOMAIN updates : j < i
          BY <1>1, <3>2
        <5> QED BY <1>3, <5>1 DEF Announced, Heralded
      <4> QED BY <4>1, <4>2, <4>3
    <3> QED BY <1>3, <2>2, <3>1, <3>2, MessagesDiffer
  <2>3. \A h \in Handlers :
          /\ reply'[h] = "ok" \/ pc'[h] \in {"polling", "answered"} => raced'
          /\ h \in asked' \cup {requester'} => pc'[h] \notin {"idle", "checked"}
    BY <1>0 DEF OkIsHeralded
  <2> QED BY <1>0, <2>2, <2>3 DEF OkIsHeralded
<1> QED BY <1>4, <1>5, <1>6, <1>7

\* A state is taken: it quits the process, or it was expected, or a logout raced with it.
LEMMA ReceiveStateKeeps ==
    ASSUME TypeOK, QuitInv, ReceiveState
    PROVE  QuitInv'
<1> USE DEF QuitInv
<1> DEFINE t == Head(updates).state
<1>1. /\ updates # <<>> /\ updates' = Tail(updates) /\ Head(updates).kind = "state"
      /\ phase \in {"boot", "serving", "closing"}
      /\ UNCHANGED <<expectShutdown, pc, reply, td, requester, asked, phase>>
      /\ state' = t /\ terminationReported' = (terminationReported \/ Terminates(t))
      /\ quit' = IF Terminates(t) /\ quit = "no" THEN "termination" ELSE quit
      /\ raced' = (raced \/ (t \in Terminal /\ LogoutUnderWay))
  BY DEF ReceiveState, SetState
<1>2. 1 \in DOMAIN updates /\ updates[1] = State(t)
  BY <1>1, Taken, MessagesDiffer
<1>3. t \in Terminal => PastReady
  BY <1>2 DEF EndIsTrue
<1>4. quit' = "termination" => PastReady
  BY <1>1, <1>3 DEF EndIsTrue, Terminates
<1>5. Head(updates) = State("loggingOut") => t \in Terminal
  <2>1. Head(updates) = State("loggingOut") => t = "loggingOut"
    BY <1>1, <1>2, Taken, MessagesDiffer
  <2> QED BY <2>1 DEF Terminal
<1>6. (raced => raced') /\ (t \in Terminal /\ LogoutUnderWay => raced')
  BY <1>1
<1>7. Head(updates) = State("loggingOut") /\ LogoutUnderWay => raced'
  BY <1>5, <1>6
<1>a. /\ quit' = "termination" => quit = "termination" \/ Terminates(t)
      /\ Terminates(t) => quit' # "no"
      /\ quit # "no" => quit' # "no"
  BY <1>1
<1> HIDE DEF t
<1>8. AskedIsExpected'
  BY <1>1 DEF AskedIsExpected
<1>9. EndIsTrue'
  <2>1. PastReady' = PastReady
    BY <1>1 DEF PastReady
  <2>2. \A i \in DOMAIN updates', a \in Terminal : updates'[i] = State(a) => PastReady
    BY <1>1, Taken DEF EndIsTrue
  <2> QED BY <1>4, <2>1, <2>2 DEF EndIsTrue
<1>10. EndIsTold'
  <2>1. terminationReported' => quit' # "no"
    BY <1>1, <1>a DEF EndIsTold
  <2>2. Running' /\ expectShutdown' =>
          \E h \in Handlers : pc'[h] \in {"calling", "polling", "answered"}
    BY <1>1 DEF EndIsTold, Running
  <2>3. ASSUME Running, t = "closed", ~raced' PROVE quit' # "no"
    <3>1. ~raced /\ ~LogoutUnderWay
      BY <1>6, <2>3 DEF Terminal
    <3>2. \A h \in Handlers : pc[h] \notin {"calling", "polling", "answered"}
      BY <3>1 DEF LogoutUnderWay, OkIsHeralded
    <3>3. ~expectShutdown
      BY <2>3, <3>2 DEF EndIsTold
    <3>4. terminationReported => quit' # "no"
      BY <1>a DEF EndIsTold
    <3> QED BY <1>a, <2>3, <3>3, <3>4 DEF Terminates, Terminal
  <2> QED BY <1>1, <2>1, <2>2, <2>3 DEF EndIsTold, Running
<1>11. OkIsHeralded'
  <2>1. \A h \in Handlers :
          /\ reply'[h] = "ok" \/ pc'[h] \in {"polling", "answered"} => raced'
          /\ h \in asked' \cup {requester'} => pc'[h] \notin {"idle", "checked"}
    BY <1>1, <1>6 DEF OkIsHeralded
  <2>2. ASSUME NEW i \in DOMAIN updates', NEW h \in Handlers, updates'[i] = Reply(h, "ok")
        PROVE  pc[h] \notin {"idle", "checked"} /\ (pc[h] = "calling" => raced' \/ Heralded(i)')
    <3>1. i + 1 \in DOMAIN updates /\ updates[i + 1] = Reply(h, "ok")
      BY <1>1, <2>2, Taken
    <3>2. /\ pc[h] \notin {"idle", "checked"}
          /\ pc[h] = "calling" => raced \/ Heralded(i + 1)
      BY <3>1 DEF OkIsHeralded
    <3>3. Heralded(i + 1) => Heralded(i)' \/ Head(updates) = State("loggingOut")
      BY <1>1, Taken
    <3>4. pc[h] = "calling" => LogoutUnderWay
      BY DEF LogoutUnderWay
    <3> QED BY <1>6, <1>7, <3>2, <3>3, <3>4
  <2>3. ASSUME td = "loggingOut", requester \in Handlers, pc[requester] = "calling"
        PROVE  raced' \/ Announced'
    <3>1. raced \/ Announced
      BY <2>3 DEF OkIsHeralded
    <3>2. Announced => Announced' \/ Head(updates) = State("loggingOut")
      BY <1>1, Taken
    <3>3. LogoutUnderWay
      BY <2>3 DEF LogoutUnderWay
    <3> QED BY <1>6, <1>7, <3>1, <3>2, <3>3
  <2> QED BY <1>1, <2>1, <2>2, <2>3 DEF OkIsHeralded
<1>12. LogoutKeepsProcess'
  <2> SUFFICES ASSUME quit' = "termination", requester # NoHandler
               PROVE  \E h \in Handlers : pc[h] = "refused"
    BY <1>1 DEF LogoutKeepsProcess
  <2>1. CASE quit = "termination"
    BY <2>1 DEF LogoutKeepsProcess
  <2>2. CASE Terminates(t)
    BY <2>2 DEF AskedIsExpected, Terminates
  <2> QED BY <1>a, <2>1, <2>2
<1> QED BY <1>8, <1>9, <1>10, <1>11, <1>12

\* An answer is taken: an "ok" by a handler that has raced.
LEMMA ReceiveReplyKeeps ==
    ASSUME TypeOK, QuitInv, ReceiveReply
    PROVE  QuitInv'
<1> USE DEF QuitInv
<1> DEFINE m == Head(updates)
<1>1. /\ updates # <<>> /\ updates' = Tail(updates) /\ m.kind = "reply"
      /\ UNCHANGED <<authVars, quit, pc, td, requester, asked, raced, phase>>
      /\ reply' = IF m.handler \in InFlightLogouts
                  THEN [reply EXCEPT ![m.handler] = m.result] ELSE reply
  BY DEF ReceiveReply
<1>2. /\ m = updates[1] /\ 1 \in DOMAIN updates
      /\ m.handler \in Handlers /\ m = Reply(m.handler, m.result)
  BY <1>1, Taken, MessagesDiffer
<1>3. m # State("loggingOut")
  BY <1>2, MessagesDiffer
<1>4. AskedIsExpected' /\ LogoutKeepsProcess'
  BY <1>1 DEF AskedIsExpected, LogoutKeepsProcess
<1>5. EndIsTrue'
  <2>1. \A i \in DOMAIN updates', t \in Terminal : updates'[i] = State(t) => PastReady
    BY <1>1, Taken DEF EndIsTrue
  <2> QED BY <1>1, <2>1 DEF EndIsTrue, PastReady
<1>6. EndIsTold'
  BY <1>1 DEF EndIsTold, Running
<1>7. OkIsHeralded'
  <2>1. ASSUME NEW h \in Handlers, reply'[h] = "ok" PROVE raced
    <3>1. CASE reply[h] = "ok"
      BY <3>1 DEF OkIsHeralded
    <3>2. CASE h = m.handler /\ m.result = "ok" /\ h \in InFlightLogouts
      <4>1. updates[1] = Reply(h, "ok") /\ pc[h] = "calling"
        BY <1>2, <3>2 DEF InFlightLogouts
      <4>2. ~Heralded(1)
        <5>1. DOMAIN updates = 1 .. Len(updates) /\ Len(updates) \in Nat
          BY QueueDomain
        <5> QED BY <5>1 DEF Heralded
      <4> QED BY <1>2, <4>1, <4>2 DEF OkIsHeralded
    <3> QED BY <1>1, <1>2, <2>1, <3>1, <3>2 DEF TypeOK
  <2>2. \A h \in Handlers :
          /\ reply'[h] = "ok" \/ pc[h] \in {"polling", "answered"} => raced
          /\ h \in asked \cup {requester} => pc[h] \notin {"idle", "checked"}
    BY <2>1 DEF OkIsHeralded
  <2>3. ASSUME NEW i \in DOMAIN updates', NEW h \in Handlers, updates'[i] = Reply(h, "ok")
        PROVE  pc[h] \notin {"idle", "checked"} /\ (pc[h] = "calling" => raced \/ Heralded(i)')
    <3>1. i + 1 \in DOMAIN updates /\ updates[i + 1] = Reply(h, "ok")
      BY <1>1, <2>3, Taken
    <3>2. /\ pc[h] \notin {"idle", "checked"}
          /\ pc[h] = "calling" => raced \/ Heralded(i + 1)
      BY <3>1 DEF OkIsHeralded
    <3> QED BY <1>1, <1>3, <2>3, <3>2, Taken
  <2>4. Announced => Announced'
    BY <1>1, <1>3, Taken
  <2> QED BY <1>1, <2>2, <2>3, <2>4 DEF OkIsHeralded
<1> QED BY <1>4, <1>5, <1>6, <1>7

\* Before the first start, and between two processes, nobody has asked for anything.
LEMMA NobodyAsked ==
    ASSUME asked = {}, requester = NoHandler, quit = "no", updates = <<>>,
           terminationReported = FALSE, expectShutdown = FALSE, state = "unknown",
           pc = [h \in Handlers |-> "idle"], reply = [h \in Handlers |-> "none"], td = "off"
    PROVE  QuitInv
<1>1. NoHandler \notin Handlers /\ DOMAIN updates = {}
  BY Sorts
<1> QED BY <1>1 DEF QuitInv, AskedIsExpected, EndIsTrue, EndIsTold, OkIsHeralded,
                    LogoutKeepsProcess

\* The next process asks for nothing either.
LEMMA GoneKeeps == Gone => QuitInv'
<1> SUFFICES ASSUME Gone PROVE QuitInv'
  OBVIOUS
<1> USE DEF Gone
<1>1. NoHandler \notin Handlers /\ DOMAIN updates' = {}
  BY Sorts
<1> QED BY <1>1 DEF QuitInv, AskedIsExpected, EndIsTrue, EndIsTold, OkIsHeralded,
                    LogoutKeepsProcess

\* Every step keeps it.
LEMMA QuitStep ==
    ASSUME TypeOK, QuitInv, [Next]_vars
    PROVE  QuitInv'
<1>q. /\ AskedIsExpected /\ EndIsTrue /\ EndIsTold /\ OkIsHeralded /\ LogoutKeepsProcess
      /\ \A a, h, r : State(a) # Reply(h, r)
      /\ \A a, b : State(a) = State(b) => a = b
      /\ \A h, g, r, q : Reply(h, r) = Reply(g, q) => h = g /\ r = q
  BY MessagesDiffer DEF QuitInv
<1>1. ASSUME StartTd PROVE QuitInv'
  <2> DEFINE m == State(td')
  <2>1. /\ td = "off" /\ td' \in {"ready", "login"} /\ Emit(m)
        /\ UNCHANGED <<authVars, quit, pc, reply, requester, asked, raced, phase>>
    BY <1>1 DEF StartTd
  <2>2. m \in Messages
    BY <2>1, Sorts
  <2>3. m # State("loggingOut") /\ \A h : m # Reply(h, "ok")
    BY <1>q, <2>1
  <2>4. \A t \in Terminal : m # State(t)
    BY <1>q, <2>1 DEF Terminal
  <2> HIDE DEF m
  <2> QED BY <2>1, <2>2, <2>3, <2>4, SaidKeeps DEF PastReady, Running
<1>2. ASSUME Signal PROVE QuitInv'
  <2>1. /\ quit' = "signal" /\ UNCHANGED <<authVars, pc, td, requester, asked, updates, raced, phase>>
        /\ \A h \in Handlers : reply'[h] = "ok" => reply[h] = "ok"
    BY <1>2 DEF Signal
  <2>2. AskedIsExpected' /\ LogoutKeepsProcess'
    BY <1>q, <2>1 DEF AskedIsExpected, LogoutKeepsProcess
  <2>3. EndIsTrue' /\ EndIsTold'
    BY <1>q, <2>1 DEF EndIsTrue, EndIsTold, Running, PastReady
  <2>4. OkIsHeralded'
    BY <1>q, <2>1 DEF OkIsHeralded, Heralded, Announced
  <2> QED BY <2>2, <2>3, <2>4 DEF QuitInv
<1>3. ASSUME RunReturns PROVE QuitInv'
  <2>1. /\ phase' = "closing" /\ expectShutdown'
        /\ UNCHANGED <<state, terminationReported, quit, pc, reply, requester, asked, raced>>
    BY <1>3 DEF RunReturns, ExpectShutdown, SetExpect
  <2>2. CASE td \in {"off", "login", "ready"}
    <3>1. td' = "closing" /\ Emit(State("closing"))
      BY <1>3, <2>2 DEF RunReturns
    <3>2. State("closing") \in Messages /\ \A h : State("closing") # Reply(h, "ok")
      BY <1>q, Sorts
    <3> QED BY <2>1, <2>2, <3>1, <3>2, SaidKeeps DEF PastReady, Running
  <2>3. CASE td \notin {"off", "login", "ready"}
    <3>1. UNCHANGED <<td, updates>>
      BY <1>3, <2>3 DEF RunReturns
    <3>2. AskedIsExpected' /\ LogoutKeepsProcess' /\ EndIsTrue'
      BY <1>q, <2>1, <3>1 DEF AskedIsExpected, LogoutKeepsProcess, EndIsTrue, PastReady
    <3>3. EndIsTold' /\ OkIsHeralded'
      BY <1>q, <2>1, <3>1 DEF EndIsTold, Running, OkIsHeralded, Heralded, Announced
    <3> QED BY <3>2, <3>3 DEF QuitInv
  <2> QED BY <2>2, <2>3
<1>4. ASSUME NEW h \in Handlers, LogoutCheck(h) PROVE QuitInv'
  <2>1. /\ pc[h] = "idle" /\ pc'[h] = "checked" /\ \A g \in Handlers \ {h} : pc'[g] = pc[g]
        /\ UNCHANGED <<authVars, quit, td, requester, asked, updates, raced, phase, reply>>
    BY <1>4 DEF LogoutCheck, Goto, TypeOK
  <2>2. h \notin asked \cup {requester} /\ (reply[h] = "ok" => raced)
    BY <1>q, <2>1 DEF OkIsHeralded
  <2>3. Running /\ expectShutdown' =>
          \E g \in Handlers \ {h} : pc'[g] \in {"calling", "polling", "answered"}
    BY <1>q, <2>1 DEF EndIsTold
  <2> QED BY <1>q, <2>1, <2>2, <2>3, HandlerKeeps
<1>5. ASSUME NEW h \in Handlers, LogoutSend(h) PROVE QuitInv'
  BY <1>5, <1>q, HandlerKeeps
     DEF LogoutSend, Goto, ExpectShutdown, SetExpect, TypeOK, OkIsHeralded
<1>6. ASSUME NEW h \in Handlers, LogoutCallExpires(h) PROVE QuitInv'
  BY <1>6, <1>q, HandlerKeeps
     DEF LogoutCallExpires, InFlightLogouts, TypeOK, OkIsHeralded
<1>7. ASSUME NEW h \in Handlers, LogoutRefused(h) PROVE QuitInv'
  BY <1>7, <1>q, HandlerKeeps
     DEF LogoutRefused, Goto, CancelExpectShutdown, SetExpect, TypeOK, OkIsHeralded
<1>8. ASSUME NEW h \in Handlers, LogoutAccepted(h) PROVE QuitInv'
  BY <1>8, <1>q, HandlerKeeps DEF LogoutAccepted, Goto, TypeOK, OkIsHeralded
<1>9. ASSUME NEW h \in Handlers, LogoutAnswered(h) PROVE QuitInv'
  BY <1>9, <1>q, HandlerKeeps DEF LogoutAnswered, Goto, TypeOK, OkIsHeralded
<1>10. ASSUME Login PROVE QuitInv'
  <2>1. /\ td = "login" /\ td' = "ready" /\ Emit(State("ready"))
        /\ UNCHANGED <<authVars, quit, pc, reply, requester, asked, raced, phase>>
    BY <1>10 DEF Login
  <2>2. State("ready") \in Messages /\ \A h : State("ready") # Reply(h, "ok")
    BY <1>q, Sorts
  <2>3. \A t \in Terminal : State("ready") # State(t)
    BY <1>q DEF Terminal
  <2> QED BY <2>1, <2>2, <2>3, SaidKeeps DEF PastReady, Running
<1>11. ASSUME TdNoticesRevoked PROVE QuitInv'
  <2>1. /\ td = "ready" /\ td' = "loggingOut" /\ Emit(State("loggingOut"))
        /\ UNCHANGED <<authVars, quit, pc, reply, requester, asked, raced, phase>>
    BY <1>11 DEF TdNoticesRevoked
  <2>2. State("loggingOut") \in Messages /\ \A h : State("loggingOut") # Reply(h, "ok")
    BY <1>q, Sorts
  <2> QED BY <2>1, <2>2, SaidKeeps DEF PastReady, Running
<1>12. ASSUME NEW h \in Handlers, TdTakesLogOut(h) PROVE QuitInv'
  <2>1. /\ h \in asked /\ asked' = asked \ {h}
        /\ UNCHANGED <<authVars, quit, pc, reply, raced, phase>>
    BY <1>12 DEF TdTakesLogOut
  <2>2. CASE td = "ready"
    <3>1. td' = "loggingOut" /\ requester' = h /\ Emit(State("loggingOut"))
      BY <1>12, <2>2 DEF TdTakesLogOut
    <3>2. State("loggingOut") \in Messages /\ \A g : State("loggingOut") # Reply(g, "ok")
      BY <1>q, Sorts
    <3>3. quit # "termination"
      BY <1>q, <2>2 DEF EndIsTrue, PastReady
    <3> QED BY <2>1, <2>2, <3>1, <3>2, <3>3, SaidKeeps DEF PastReady, Running
  <2>3. CASE td # "ready"
    <3>1. UNCHANGED <<td, requester>> /\ Emit(Reply(h, "error"))
      BY <1>12, <2>3 DEF TdTakesLogOut
    <3>2. /\ Reply(h, "error") \in Messages /\ \A g : Reply(h, "error") # Reply(g, "ok")
          /\ \A t : Reply(h, "error") # State(t)
      BY <1>q, Sorts
    <3> QED BY <2>1, <3>1, <3>2, SaidKeeps DEF PastReady, Running
  <2> QED BY <2>2, <2>3
<1>13. ASSUME NEW h \in Handlers, TdRefusesLogOut(h) PROVE QuitInv'
  <2>1. /\ Emit(Reply(h, "error")) /\ asked' = asked \ {h}
        /\ UNCHANGED <<authVars, quit, pc, reply, td, requester, raced, phase>>
    BY <1>13 DEF TdRefusesLogOut
  <2>2. /\ Reply(h, "error") \in Messages /\ \A g : Reply(h, "error") # Reply(g, "ok")
        /\ \A t : Reply(h, "error") # State(t)
    BY <1>q, Sorts
  <2> QED BY <2>1, <2>2, SaidKeeps DEF PastReady, Running
<1>14. ASSUME TdLoggedOut PROVE QuitInv'
  BY <1>14, LoggedOutKeeps
<1>15. ASSUME TdCloses PROVE QuitInv'
  <2>1. /\ td' = "closed" /\ Emit(State("closed"))
        /\ UNCHANGED <<authVars, quit, pc, reply, requester, asked, raced, phase>>
    BY <1>15 DEF TdCloses
  <2>2. State("closed") \in Messages /\ \A h : State("closed") # Reply(h, "ok")
    BY <1>q, Sorts
  <2> QED BY <2>1, <2>2, SaidKeeps DEF PastReady, Running
<1>16. CASE Receive
  BY <1>16, ReceiveStateKeeps, ReceiveReplyKeeps DEF Receive
<1>17. CASE Exit \/ Crash
  BY <1>17, GoneKeeps DEF Exit, Crash
<1>18. ASSUME \/ Restore \/ RestoreCutShort \/ RunApp \/ WaitForClosed \/ SkipFinalPush
              \/ FinalPush \/ Tick \/ SyncStep \/ AbandonedLands \/ TdWrites \/ Revoke
              \/ UNCHANGED vars
       PROVE  QuitInv'
  <2>1. /\ UNCHANGED <<authVars, quit, pc, reply, td, requester, asked, updates, raced>>
        /\ Running' => Running
    BY <1>18 DEF Restore, RestoreCutShort, RunApp, WaitForClosed, SkipFinalPush, FinalPush,
         Tick, SyncStep, SyncCheck, SyncRead, SyncSend, SyncFinish, AbandonedLands, TdWrites,
         Revoke, Running, vars
  <2> QED BY <2>1, QuietKeeps
<1>19. CASE PutStored \/ PutFailed \/ PutHung
  <2>1. PICK ok \in BOOLEAN : PutReturns(ok)
    BY <1>19 DEF PutStored, PutFailed, PutHung
  <2>2. phase' \in {phase, "stored", "failed"}
    BY <2>1, PutReturnsTypes
  <2>3. UNCHANGED <<authVars, quit, pc, reply, td, requester, asked, updates, raced>>
    BY <1>19 DEF PutStored, PutFailed, PutHung
  <2> QED BY <2>2, <2>3, QuietKeeps DEF Running
<1> QED
  BY <1>1, <1>2, <1>3, <1>4, <1>5, <1>6, <1>7, <1>8, <1>9, <1>10, <1>11, <1>12,
     <1>13, <1>14, <1>15, <1>16, <1>17, <1>18, <1>19
     DEF Next, MainStep, LogoutStep, TdStep

\* Behind a logout that went through, no other having been refused, the process stays
\* up, and it quits when the session ends with no logout under way
\* (routes.cpp:243-261, auth_state_manager.cpp:80-90).
THEOREM EndsAreToldApart == Spec => []QuitsWhenTerminated
<1>1. Init => QuitInv
  BY NobodyAsked DEF Init, ProcessInit, AuthInit
<1>2. TypeOK /\ QuitInv /\ [Next]_vars => QuitInv'
  BY QuitStep
<1>3. QuitInv => QuitsWhenTerminated
  BY DEF QuitInv, QuitsWhenTerminated, EndIsTold, TerminationReported, Running
<1> QED BY <1>1, <1>2, <1>3, TypeCorrect, PTL DEF Spec

\* The thread of the gate and main never have more than one PUT each under way, and a
\* final push that was let go ahead alone has the connection for itself (pushToS3 of main).
THEOREM PushesAreApart == Spec => [](PutOwners /\ AlonePushing)
<1>1. IInv => PutOwners /\ AlonePushing
  BY DEF IInv
<1> QED BY <1>1, SessionInvariant, PTL
=============================================================================
