----------------------- MODULE AccountLifecycle_proofs -----------------------
(***************************************************************************)
(* What holds of the life of any number of accounts, under any number of   *)
(* visits, requests to delete them and troubles.                            *)
(***************************************************************************)
EXTENDS AccountLifecycle, TLAPS

USE StoreAssumption, LifecycleAssumption, OnboardingAssumption
    DEF StoreAssumption, LifecycleAssumption, OnboardingAssumption

\* The steps behind the clearing of S3.
Late == {"s3_deleted", "archive_purged"}

\* A binlog is in S3 only if a pod was started since podGone said yes.
NoWayBack(a) == ~stored[a] \/ reborn[a]

\* No session is alive, or it is one of the named excuses that it is.
Out(a) == ~Live(a) \/ excuse[a] # "none"

\* What has been cleaned away when the deletion has reached step s.
Cleaned(a, s) ==
    /\ s \in Late => NoWayBack(a) /\ "s3" \in cleaned[a]
    /\ s = "archive_purged" => "archive" \in cleaned[a]

\* What goes for an account whose deletion has reached step s.
Reached(a, s) == Cleaned(a, s) /\ (s \in SCALED_DOWN_STEPS => Out(a))

\* Where the session of an account is.
SessionOf(a) ==
    /\ pod[a] = "none" => login[a] = "none"
    /\ pod[a] # "none" => reborn[a]
    /\ ~secret[a] => Out(a)

SessionState == \A a \in Accounts : SessionOf(a)

\* What the row of an account stands for, whatever its status has become since
\* its step was written, and what its end does.
RowOf(a) ==
    /\ HasRow(a) => a \in born /\ Reached(a, accounts[a].step)
    /\ Gone(a) => NoWayBack(a) /\ cleaned[a] = {"s3", "archive"}

RowState == \A a \in Accounts : RowOf(a)

InDeletions == pc \in {"deletions", "step", "write", "drop"}
AtAccount   == pc \in {"step", "write", "drop"}

\* What the pass has listed of an account that it has yet to apply.
ToApply(a) ==
    /\ listed[a] \in Row
    /\ listed[a].status = "deleting" /\ listed[a].step \in SCALED_DOWN_STEPS => Out(a)

\* An account whose deletion the pass has found to be at step s. Its row may have
\* been called off or the deletion begun anew meanwhile, but it is no further.
OnItsWayOut(a, s) ==
    /\ listed[a] \in Row /\ listed[a].status = "deleting"
    /\ HasRow(a)
    /\ Reached(a, s)

NoFurther(a, s) == accounts[a].step \in {s, "null", "logged_out"}

ToDelete(a) == OnItsWayOut(a, listed[a].step) /\ NoFurther(a, listed[a].step)

\* The account whose deletion it advances, and the step it has reached.
AdvancedState ==
    AtAccount =>
        /\ acct \in Accounts \ todo
        /\ OnItsWayOut(acct, step)
        /\ pc = "step" => NoFurther(acct, step)
        /\ pc = "write" /\ step = "logout_wait" => listed[acct].waited + 1 < LogoutWaitPasses
        /\ pc = "drop" => step = "archive_purged"

\* What the pass has listed and read against what the rows have become.
PassState ==
    /\ pc = "apply" => \A a \in todo : ToApply(a)
    /\ InDeletions => \A a \in todo : ToDelete(a)
    /\ AdvancedState
    /\ pc \in {"expire_write", "poll_write"} => acct \in Accounts

\* A request that goes on has its account.
RequestState == \A d \in Deletes : deletes[d].at = "loaded" => deletes[d].acct \in Accounts

IInv == TypeOK /\ SessionState /\ RowState /\ PassState /\ RequestState
-----------------------------------------------------------------------------

\* The types of the worker's variables, one by one.
LEMMA WorkersTyped ==
    WorkersTypeOK <=>
        /\ sts \in [Accounts -> {"none", "up", "down"}]
        /\ pod \in [Accounts -> {"none", "up", "stopping"}]
        /\ login \in [Accounts -> LoginStates]
        /\ route \in [Accounts -> BOOLEAN]
        /\ secret \in [Accounts -> BOOLEAN]
        /\ valid \in [Accounts -> BOOLEAN]
        /\ stored \in [Accounts -> BOOLEAN]
        /\ reborn \in [Accounts -> BOOLEAN]
  BY DEF WorkersTypeOK

\* What the control plane does to Kubernetes and S3 keeps their types.
LEMMA CallTypes ==
    ASSUME WorkersTypeOK, NEW a \in Accounts, NEW row, NEW b \in BOOLEAN,
           \/ applyObjects(a, row) \/ applyInPart(a, row) \/ deleteObjects(a)
           \/ deleteRoute(a) \/ setSecret(a, b) \/ seePodGone(a) \/ deletePrefix(a)
    PROVE  WorkersTypeOK'
<1> USE WorkersTyped DEF kubeVars, gatewayVars
<1>1. Replicas(row) \in {"up", "down"}
  BY DEF Replicas
<1>2. CASE applyObjects(a, row)
  BY <1>1, <1>2 DEF applyObjects, WorkersTypeOK
<1>3. CASE applyInPart(a, row)
  BY <1>1, <1>3 DEF applyInPart, WorkersTypeOK
<1>4. CASE deleteObjects(a)
  BY <1>4 DEF deleteObjects, WorkersTypeOK
<1>5. CASE deleteRoute(a)
  BY <1>5 DEF deleteRoute, WorkersTypeOK
<1>6. CASE setSecret(a, b)
  BY <1>6 DEF setSecret, WorkersTypeOK
<1>7. CASE seePodGone(a)
  BY <1>7 DEF seePodGone, WorkersTypeOK
<1>8. CASE deletePrefix(a)
  BY <1>8 DEF deletePrefix, WorkersTypeOK
<1> QED
  BY <1>2, <1>3, <1>4, <1>5, <1>6, <1>7, <1>8

\* So does what happens to the worker by itself.
LEMMA EnvironmentTypes ==
    ASSUME WorkersTypeOK, NEW a \in Accounts,
           \/ PodStep(a) \/ Pushes(a) \/ PodIsEvicted(a) \/ Revoked(a) \/ LogsIn(a) \/ LogsOut(a)
           \/ GatewayReady(a) \/ GatewayQuits(a) \/ GatewayCrashes(a) \/ LoginBegins(a)
    PROVE  WorkersTypeOK'
<1> USE WorkersTyped DEF kubeVars, WorkersTypeOK, LoginStates
<1>1. CASE PodStarts(a)
  BY <1>1 DEF PodStarts
<1>2. CASE PodIsTold(a) \/ PodIsEvicted(a)
  BY <1>2 DEF PodIsTold, PodIsEvicted
<1>3. CASE PodEnds(a)
  <2>1. Holds(a) \in BOOLEAN
    BY DEF Holds
  <2> QED
    BY <1>3, <2>1 DEF PodEnds
<1>4. CASE Pushes(a)
  BY <1>4 DEF Pushes
<1>5. CASE Revoked(a)
  BY <1>5 DEF Revoked
<1>6. CASE LogsIn(a)
  BY <1>6 DEF LogsIn
<1>7. CASE LogsOut(a)
  BY <1>7 DEF LogsOut
<1>8. CASE GatewayReady(a) \/ GatewayCrashes(a) \/ LoginBegins(a)
  BY <1>8 DEF GatewayReady, GatewayCrashes, LoginBegins
<1>9. CASE GatewayQuits(a)
  BY <1>9 DEF GatewayQuits
<1> QED
  BY <1>1, <1>2, <1>3, <1>4, <1>5, <1>6, <1>7, <1>8, <1>9 DEF PodStep

\* The queries of the store keep its type.
LEMMA StoreTypes ==
    ASSUME StoreTypeOK, NEW a \in Accounts, NEW st \in Statuses, NEW s \in Steps,
           NEW n \in 0 .. LogoutWaitPasses,
           \/ insertAccount(a) \/ SetStatus(a, st) \/ SetStep(a, s, n)
           \/ SetStatusAndStep(a, st, s) \/ deleteAccount(a)
    PROVE  StoreTypeOK'
<1> USE DEF StoreTypeOK, HasRow
<1>1. /\ "onboarding" \in Statuses /\ "null" \in Steps
      /\ 0 \in 0 .. LogoutWaitPasses
  BY DEF Statuses, Steps
<1>2. CASE insertAccount(a)
  BY <1>1, <1>2 DEF insertAccount, Row
<1>3. CASE SetStatus(a, st)
  <2>1. accounts[a] \in Row
    BY <1>3 DEF SetStatus
  <2>2. [accounts[a] EXCEPT !.status = st] \in Row
    BY <2>1 DEF Row
  <2> QED
    BY <1>3, <2>2 DEF SetStatus
<1>4. CASE SetStep(a, s, n)
  <2>1. accounts[a] \in Row
    BY <1>4 DEF SetStep
  <2>2. [[accounts[a] EXCEPT !.step = s] EXCEPT !.waited = n] \in Row
    BY <2>1 DEF Row
  <2> QED
    BY <1>4, <2>2 DEF SetStep
<1>5. CASE SetStatusAndStep(a, st, s)
  BY <1>1, <1>5 DEF SetStatusAndStep, Row
<1>6. CASE deleteAccount(a)
  BY <1>6 DEF deleteAccount
<1> QED
  BY <1>2, <1>3, <1>4, <1>5, <1>6

\* A row has a status and a step, and is not NoRow.
LEMMA RowTyped ==
    ASSUME StoreTypeOK, NEW a \in Accounts, HasRow(a)
    PROVE  /\ accounts[a] \in Row
           /\ accounts[a].status \in Statuses
           /\ accounts[a].step \in Steps
           /\ accounts[a].waited \in 0 .. LogoutWaitPasses
  BY DEF StoreTypeOK, HasRow, Row

\* The stops of a visit and the pages keep their types.
LEMMA OnboardingTypes ==
    ASSUME OnboardingTypeOK, NEW a \in Accounts, NEW v \in Visits,
           \/ VisitStep(v, a) \/ VisitLogsOut(v, a) \/ DuplicateWrites(v, a)
           \/ InviteStep(a) \/ VisitFails(v)
    PROVE  OnboardingTypeOK'
<1> DEFINE VisitType == [at : Stops, acct : Accounts \cup {NoAccount}]
           Page      == {"none", "new", "relogin", "expired", "over"}
<1>1. Idle \in VisitType
  BY DEF Idle, Stops
<1>2. ASSUME NEW from, NEW to \in Stops, Goes(v, from, to, a)
      PROVE  visits' \in [Visits -> VisitType]
  <2>1. [at |-> to, acct |-> a] \in VisitType
    OBVIOUS
  <2> QED
    BY <1>1, <1>2, <2>1 DEF Goes, OnboardingTypeOK
<1>3. VisitStep(v, a) \/ VisitLogsOut(v, a) \/ DuplicateWrites(v, a) =>
        \E from \in Stops, to \in Stops : Goes(v, from, to, a)
  BY DEF VisitStep, VisitLogsOut, DuplicateWrites, CreateInserts, CreateApplies,
     CreateAttaches, GivesUp,
     GiveUpWrites, DuplicateOutcome, StrangerOutcome, FinishBegins, FinishActivates, FinishLogsOut,
     Stops
<1>4. VisitFails(v) => visits' \in [Visits -> VisitType]
  BY <1>1 DEF VisitFails, OnboardingTypeOK
<1>5. InviteStep(a) => visits' = visits
  BY DEF InviteStep, InviteExpires, ReloginOpens, ReloginExpires, PageBeginsLogin, onboardingVars
<1>6. visits' \in [Visits -> VisitType]
  BY <1>2, <1>3, <1>4, <1>5 DEF OnboardingTypeOK
<1>7. page' = page \/ \E state \in Page : Turn(a, state)
  BY DEF VisitStep, VisitLogsOut, DuplicateWrites, CreateInserts, CreateApplies,
     CreateAttaches, GivesUp,
     GiveUpWrites, DuplicateOutcome, StrangerOutcome, FinishBegins, FinishActivates, FinishLogsOut,
     InviteStep, InviteExpires, ReloginOpens, ReloginExpires, PageBeginsLogin, onboardingVars,
     VisitFails
<1>8. page' \in [Accounts -> Page]
  BY <1>7 DEF Turn, OnboardingTypeOK
<1> QED
  BY <1>6, <1>8 DEF OnboardingTypeOK

\* The types of the pass and of the requests.
OwnTypes ==
    /\ OnboardingTypeOK
    /\ pc \in Phases
    /\ listed \in [Accounts -> Row \cup {NoRow}]
    /\ todo \subseteq Accounts
    /\ acct \in Accounts \cup {NoAccount}
    /\ step \in Steps
    /\ deletes \in [Deletes -> [at : {"new", "loaded", "answered"},
                                acct : Accounts \cup {NoAccount},
                                seen : Statuses \cup {NoRow}]]
    /\ troubles \in 0 .. MaxTroubles
    /\ cleaned \in [Accounts -> SUBSET {"s3", "archive"}]
    /\ excuse \in [Accounts -> Excuses]

\* The steps of the pass keep the types of rows and workers.
LEMMA PassTypes ==
    ASSUME TypeOK, PassState, Pass \/ PassFails
    PROVE  StoreTypeOK' /\ WorkersTypeOK'
<1> USE DEF TypeOK
<1>1. CASE UNCHANGED <<storeVars, workerVars>>
  BY <1>1, WorkersTyped DEF storeVars, workerVars, StoreTypeOK, WorkersTypeOK
<1>2. CASE UNCHANGED storeVars /\ WorkersTypeOK'
  BY <1>2 DEF storeVars, StoreTypeOK
<1>3. CASE UNCHANGED workerVars /\ StoreTypeOK'
  BY <1>3, WorkersTyped DEF workerVars, WorkersTypeOK
<1>4. ASSUME NEW a \in Accounts, Apply(a) \/ ApplyFails(a) \/ Sweep(a)
      PROVE  StoreTypeOK' /\ WorkersTypeOK'
  <2>1. \/ applyObjects(a, listed[a]) \/ applyInPart(a, listed[a])
        \/ deleteObjects(a) \/ deleteRoute(a) \/ UNCHANGED workerVars
    BY <1>4 DEF Apply, ApplyFails, Sweep
  <2>2. UNCHANGED storeVars
    BY <1>4 DEF Apply, ApplyFails, Sweep
  <2>4. TRUE \in BOOLEAN
    OBVIOUS
  <2>5. CASE UNCHANGED workerVars
    BY <2>2, <2>5, <1>1
  <2>6. CASE ~UNCHANGED workerVars
    BY <2>1, <2>2, <2>4, <2>6, <1>2, CallTypes
  <2> QED
    BY <2>5, <2>6
<1>5. ASSUME AtAccount
      PROVE  /\ acct \in Accounts /\ listed[acct] \in Row /\ HasRow(acct)
             /\ listed[acct].waited \in 0 .. LogoutWaitPasses
  BY <1>5 DEF PassState, AdvancedState, OnItsWayOut, Row
<1>6. CASE LogoutStep
  <2>1. AtAccount /\ UNCHANGED storeVars /\ (LogsOut(acct) \/ UNCHANGED workerVars)
    BY <1>6 DEF LogoutStep, AtAccount
  <2> QED
    BY <2>1, <1>1, <1>2, <1>5, EnvironmentTypes
<1>7. CASE PodGoneStep
  <2>1. AtAccount /\ UNCHANGED storeVars /\ seePodGone(acct)
    BY <1>7 DEF PodGoneStep, AtAccount
  <2>2. TRUE \in BOOLEAN
    OBVIOUS
  <2> QED
    BY <2>1, <2>2, <1>2, <1>5, CallTypes
<1>8. CASE ClearS3Step \/ DeletionFails
  <2>1. AtAccount /\ UNCHANGED storeVars /\ (deletePrefix(acct) \/ UNCHANGED workerVars)
    BY <1>8 DEF ClearS3Step, DeletionFails, AtAccount
  <2>2. TRUE \in BOOLEAN
    OBVIOUS
  <2> QED
    BY <2>1, <2>2, <1>1, <1>2, <1>5, CallTypes
<1>9. CASE DropSecretStep
  <2>1. AtAccount /\ UNCHANGED storeVars /\ setSecret(acct, FALSE)
    BY <1>9 DEF DropSecretStep, AtAccount
  <2>2. FALSE \in BOOLEAN
    OBVIOUS
  <2> QED
    BY <2>1, <2>2, <1>2, <1>5, CallTypes
<1>10. CASE DropRow
  <2>1. AtAccount /\ UNCHANGED workerVars /\ deleteAccount(acct)
    BY <1>10 DEF DropRow, AtAccount
  <2>2. "active" \in Statuses /\ "null" \in Steps /\ 0 \in 0 .. LogoutWaitPasses
    BY DEF Statuses, Steps
  <2> QED
    BY <2>1, <2>2, <1>3, <1>5, StoreTypes
<1>11. CASE WriteStep
  <2> DEFINE n == IF step = "logout_wait" THEN listed[acct].waited + 1 ELSE 0
  <2>1. AtAccount /\ UNCHANGED workerVars /\ SetStep(acct, step, n)
    BY <1>11 DEF WriteStep, AtAccount
  <2>2. n \in 0 .. LogoutWaitPasses
    BY <2>1, <1>5, <1>11 DEF PassState, AdvancedState, WriteStep
  <2>3. "active" \in Statuses /\ step \in Steps
    BY DEF Statuses
  <2> HIDE DEF n
  <2> QED
    BY <2>1, <2>2, <2>3, <1>3, <1>5, StoreTypes
<1>12. CASE ExpireWrites \/ PollWrites \/ (HookFails /\ ~UNCHANGED storeVars)
  <2>1. PICK st \in Statuses : UNCHANGED workerVars /\ SetStatus(acct, st)
    BY <1>12 DEF ExpireWrites, PollWrites, HookFails, Statuses
  <2>2. acct \in Accounts
    BY <1>12 DEF PassState, ExpireWrites, PollWrites, HookFails
  <2>3. "null" \in Steps /\ 0 \in 0 .. LogoutWaitPasses
    BY DEF Steps
  <2> QED
    BY <2>1, <2>2, <2>3, <1>3, StoreTypes
<1>13. CASE PassBegins \/ AllApplied \/ AllSwept \/ DeletionsBegin \/ PollBegins \/ PassEnds
            \/ ScaleStep \/ PodStillThere \/ PurgeStep \/ SweepFails \/ (HookFails /\ UNCHANGED storeVars) \/ Crash
  BY <1>1, <1>13
     DEF PassBegins, AllApplied, AllSwept, DeletionsBegin, PollBegins, PassEnds, ScaleStep,
         PodStillThere, PurgeStep, SweepFails, HookFails, Crash
<1>14. ASSUME NEW a \in Accounts,
              ExpireReads(a) \/ TakeDeletion(a) \/ PollFindsLost(a) \/ PollFindsNothing(a)
       PROVE  StoreTypeOK' /\ WorkersTypeOK'
  BY <1>1, <1>14 DEF ExpireReads, TakeDeletion, PollFindsLost, PollFindsNothing
<1> QED
  BY <1>4, <1>6, <1>7, <1>8, <1>9, <1>10, <1>11, <1>12, <1>13, <1>14 DEF Pass, PassFails

\* So do requests, tenants and the cluster.
LEMMA OthersTypes ==
    ASSUME TypeOK, RequestState, Admin \/ Tenant \/ Cluster
    PROVE  StoreTypeOK' /\ WorkersTypeOK'
<1> USE DEF TypeOK
<1>1. CASE UNCHANGED <<storeVars, workerVars>>
  BY <1>1, WorkersTyped DEF storeVars, workerVars, StoreTypeOK, WorkersTypeOK
<1>2. CASE UNCHANGED storeVars /\ WorkersTypeOK'
  BY <1>2 DEF storeVars, StoreTypeOK
<1>3. CASE UNCHANGED workerVars /\ StoreTypeOK'
  BY <1>3, WorkersTyped DEF workerVars, WorkersTypeOK
<1>4. /\ {"onboarding", "active", "deleting"} \subseteq Statuses
      /\ {"null", "logged_out"} \subseteq Steps
      /\ 0 \in 0 .. LogoutWaitPasses
      /\ TRUE \in BOOLEAN
  BY DEF Statuses, Steps, SCALED_DOWN_STEPS
<1>5. ASSUME NEW d \in Deletes, DeleteWrites(d)
      PROVE  StoreTypeOK' /\ WorkersTypeOK'
  <2>1. deletes[d].acct \in Accounts
    BY <1>5 DEF RequestState, DeleteWrites
  <2>2. SetStatusAndStep(deletes[d].acct, "deleting", "null") /\ UNCHANGED workerVars
    BY <1>5 DEF DeleteWrites
  <2> QED
    BY <2>1, <2>2, <1>3, <1>4, StoreTypes
<1>6. ASSUME NEW d \in Deletes,
             \/ \E a \in Accounts : DeleteLoads(d, a)
             \/ DeleteIsUnderWay(d) \/ DeleteFindsNoRow(d)
      PROVE  StoreTypeOK' /\ WorkersTypeOK'
  BY <1>1, <1>6 DEF DeleteLoads, DeleteIsUnderWay, DeleteFindsNoRow
<1>7. ASSUME NEW v \in Visits, NEW a \in Accounts, Visit(v, a)
      PROVE  StoreTypeOK' /\ WorkersTypeOK'
  <2>1. \/ /\ UNCHANGED workerVars
           /\ \/ insertAccount(a) \/ SetStatus(a, "deleting") \/ SetStatus(a, "active")
              \/ SetStatusAndStep(a, "deleting", "logged_out")
        \/ /\ UNCHANGED storeVars
           /\ setSecret(a, TRUE) \/ LogsOut(a) \/ UNCHANGED workerVars
    BY <1>7 DEF Visit, VisitStep, VisitLogsOut, DuplicateWrites, CreateInserts, CreateApplies,
       CreateAttaches,
       GivesUp, GiveUpWrites, DuplicateOutcome, StrangerOutcome, FinishBegins, FinishActivates,
       FinishLogsOut
  <2>2. CASE UNCHANGED workerVars /\ ~UNCHANGED storeVars
    BY <2>1, <2>2, <1>3, <1>4, StoreTypes
  <2>3. CASE UNCHANGED storeVars /\ setSecret(a, TRUE)
    BY <2>3, <1>2, <1>4, CallTypes
  <2>4. CASE UNCHANGED storeVars /\ LogsOut(a)
    BY <2>4, <1>2, EnvironmentTypes
  <2> QED
    BY <2>1, <2>2, <2>3, <2>4, <1>1
<1>8. ASSUME NEW a \in Accounts, InviteMoves(a) \/ Login(a)
      PROVE  StoreTypeOK' /\ WorkersTypeOK'
  <2>1. UNCHANGED storeVars /\ (LoginBegins(a) \/ LogsIn(a) \/ UNCHANGED workerVars)
    BY <1>8 DEF InviteMoves, Login, InviteStep, InviteExpires, ReloginOpens, ReloginExpires,
       PageBeginsLogin
  <2> QED
    BY <2>1, <1>1, <1>2, EnvironmentTypes
<1>9. ASSUME NEW v \in Visits, VisitEnds(v)
      PROVE  StoreTypeOK' /\ WorkersTypeOK'
  BY <1>1, <1>9 DEF VisitEnds, VisitFails
<1>10. CASE Cluster
  BY <1>2, <1>10, EnvironmentTypes DEF Cluster
<1> QED
  BY <1>5, <1>6, <1>7, <1>8, <1>9, <1>10 DEF Admin, Tenant

\* The pass, the requests and the histories keep their types.
LEMMA OwnTypesStep ==
    ASSUME TypeOK, PassState, Next
    PROVE  OwnTypes'
<1> USE DEF TypeOK, OwnTypes
<1>1. CASE UNCHANGED <<passVars, deletes, cleaned>> /\ OnboardingTypeOK'
           /\ excuse' \in [Accounts -> Excuses] /\ troubles' \in 0 .. MaxTroubles
  BY <1>1 DEF passVars
<1>2. ASSUME UNCHANGED troubles \/ Trouble
      PROVE  troubles' \in 0 .. MaxTroubles
  BY <1>2 DEF Trouble
<1>3. /\ {"null", "logout_wait"} \subseteq Steps /\ SCALED_DOWN_STEPS \subseteq Steps
      /\ accounts \in [Accounts -> Row \cup {NoRow}]
      /\ [a \in Accounts |-> NoRow] \in [Accounts -> Row \cup {NoRow}]
      /\ {"none", "mute", "conflict", "duplicate", "late"} \subseteq Excuses
  BY DEF Steps, StoreTypeOK, Excuses
<1>4. UNCHANGED onboardingVars => OnboardingTypeOK'
  BY DEF onboardingVars, OnboardingTypeOK
<1>5. \A a : Turn(a, "over") /\ visits' = visits => OnboardingTypeOK'
  BY DEF Turn, OnboardingTypeOK
<1>6. ASSUME NEW a \in Accounts, NEW why \in Excuses, Excuse(a, why)
      PROVE  excuse' \in [Accounts -> Excuses]
  BY <1>6 DEF Excuse
<1>7. CASE Pass
  <2> USE <1>2 DEF envVars, historyVars, Phases
  <2>1. CASE PassBegins \/ AllApplied \/ AllSwept \/ DeletionsBegin \/ PollBegins \/ PassEnds
    BY <2>1, <1>3, <1>4
       DEF PassBegins, AllApplied, AllSwept, DeletionsBegin, PollBegins, PassEnds, PassStops, Rows,
           Forget
  <2>2. ASSUME NEW a \in Accounts, Apply(a) \/ Sweep(a)
        PROVE  OwnTypes'
    BY <2>2, <1>4 DEF Apply, Sweep
  <2>3. ASSUME NEW a \in Accounts, ExpireReads(a)
        PROVE  OwnTypes'
    <3>1. OnboardingTypeOK' /\ UNCHANGED <<deletes, historyVars, troubles, listed, step>>
      BY <2>3, <1>4, <1>5 DEF ExpireReads
    <3> QED
      BY <2>3, <3>1 DEF ExpireReads
  <2>4. ASSUME NEW a \in Accounts, TakeDeletion(a)
        PROVE  OwnTypes'
    <3>1. listed[a] \in Row
      BY <2>4 DEF TakeDeletion, PassState, ToDelete, OnItsWayOut, InDeletions
    <3> QED
      BY <2>4, <3>1, <1>4 DEF TakeDeletion, Row
  <2>5. ASSUME NEW a \in Accounts, PollFindsLost(a) \/ PollFindsNothing(a)
        PROVE  OwnTypes'
    BY <2>5, <1>4 DEF PollFindsLost, PollFindsNothing
  <2>6. CASE PollWrites \/ ScaleStep \/ PodGoneStep \/ PodStillThere
    BY <2>6, <1>3, <1>4 DEF PollWrites, ScaleStep, PodGoneStep, PodStillThere, Return,
        Reach, SCALED_DOWN_STEPS
  <2>7. CASE ExpireWrites
    BY <2>7, <1>3, <1>5 DEF ExpireWrites, Return
  <2>8. CASE LogoutStep
    <3>1. acct \in Accounts
      BY <2>8 DEF LogoutStep, PassState, AdvancedState, AtAccount
    <3>2. UNCHANGED <<deletes, onboardingVars, cleaned, troubles>>
      BY <2>8 DEF LogoutStep
    <3>3. Reach("logged_out") \/ Reach("logout_wait")
      BY <2>8 DEF LogoutStep
    <3>4. \/ UNCHANGED excuse \/ Excuse(acct, "conflict") \/ Excuse(acct, "mute")
          \/ excuse' = [excuse EXCEPT ![acct] = "none"]
      BY <2>8 DEF LogoutStep
    <3>5. excuse' \in [Accounts -> Excuses]
      BY <3>1, <3>4, <1>3, <1>6
    <3> QED
      BY <3>2, <3>3, <3>5, <1>3, <1>4 DEF Reach, SCALED_DOWN_STEPS
  <2>9. CASE ClearS3Step \/ PurgeStep
    <3>1. Reach("s3_deleted") \/ Reach("archive_purged")
      BY <2>9 DEF ClearS3Step, PurgeStep
    <3>2. cleaned' \in [Accounts -> SUBSET {"s3", "archive"}]
      BY <2>9 DEF ClearS3Step, PurgeStep
    <3>3. UNCHANGED <<deletes, onboardingVars, troubles, excuse>>
      BY <2>9 DEF ClearS3Step, PurgeStep
    <3> QED
      BY <3>1, <3>2, <3>3, <1>3, <1>4 DEF Reach, SCALED_DOWN_STEPS
  <2>10. CASE DropSecretStep \/ DropRow \/ WriteStep
    BY <2>10, <1>3, <1>4 DEF DropSecretStep, DropRow, WriteStep, Return
  <2> QED
    BY <1>7, <2>1, <2>2, <2>3, <2>4, <2>5, <2>6, <2>7, <2>8, <2>9, <2>10 DEF Pass
<1>8. CASE PassFails
  <2> USE DEF envVars, historyVars, Phases
  <2>1. troubles' \in 0 .. MaxTroubles
    BY <1>2, <1>8 DEF PassFails, ApplyFails, SweepFails, DeletionFails, HookFails, Crash
  <2>2. CASE SweepFails \/ DeletionFails \/ HookFails \/ \E a \in Accounts : ApplyFails(a)
    BY <2>1, <2>2, <1>3, <1>4
       DEF ApplyFails, SweepFails, DeletionFails, HookFails, PassStops, Forget, Return
  <2>3. CASE Crash
    <3>1. deletes' \in [Deletes -> [at : {"new", "loaded", "answered"},
                                    acct : Accounts \cup {NoAccount},
                                    seen : Statuses \cup {NoRow}]]
      BY <2>3 DEF Crash, Answered
    <3>2. OnboardingTypeOK'
      <4>1. Idle \in [at : Stops, acct : Accounts \cup {NoAccount}]
        BY DEF Idle, Stops
      <4>2. visits' = [v \in Visits |-> Idle] /\ page' = page
        BY <2>3 DEF Crash
      <4> QED
        BY <4>1, <4>2 DEF OnboardingTypeOK
    <3> QED
      BY <2>1, <2>3, <3>1, <3>2, <1>3 DEF Crash, PassStops, Forget
  <2> QED
    BY <1>8, <2>2, <2>3 DEF PassFails
<1>9. CASE Admin
  <2> USE DEF passVars, historyVars
  <2>1. PICK d \in Deletes : \/ \E a \in Accounts : DeleteLoads(d, a)
                             \/ DeleteWrites(d) \/ DeleteIsUnderWay(d) \/ DeleteFindsNoRow(d)
    BY <1>9 DEF Admin
  <2>2. ASSUME NEW a \in Accounts, DeleteLoads(d, a)
        PROVE  OwnTypes'
    BY <2>2, <1>4, RowTyped DEF DeleteLoads
  <2>3. CASE DeleteWrites(d) \/ DeleteIsUnderWay(d) \/ DeleteFindsNoRow(d)
    BY <2>3, <1>4 DEF DeleteWrites, DeleteIsUnderWay, DeleteFindsNoRow, Answered
  <2> QED
    BY <2>1, <2>2, <2>3
<1>10. CASE Tenant
  <2>1. ASSUME NEW v \in Visits, NEW a \in Accounts, Visit(v, a)
        PROVE  OwnTypes'
    <3>1. UNCHANGED excuse \/ Excuse(a, "duplicate")
      BY <2>1 DEF Visit
    <3>2. excuse' \in [Accounts -> Excuses]
      BY <3>1, <1>3, <1>6
    <3>3. UNCHANGED troubles \/ Trouble
      BY <2>1 DEF Visit
    <3> QED
      BY <2>1, <3>2, <3>3, <1>1, <1>2, OnboardingTypes DEF Visit
  <2>2. ASSUME NEW v \in Visits, VisitEnds(v)
        PROVE  OwnTypes'
    <3>1. OnboardingTypeOK'
      <4>1. Idle \in [at : Stops, acct : Accounts \cup {NoAccount}]
        BY DEF Idle, Stops
      <4>2. visits' = [visits EXCEPT ![v] = Idle] /\ page' = page
        BY <2>2 DEF VisitEnds, VisitFails
      <4> QED
        BY <4>1, <4>2 DEF OnboardingTypeOK
    <3> QED
      BY <2>2, <3>1, <1>1 DEF VisitEnds, historyVars
  <2>3. ASSUME NEW a \in Accounts, InviteMoves(a)
        PROVE  OwnTypes'
    <3>1. /\ visits' = visits
          /\ page' = page \/ \E state \in {"over", "relogin", "expired"} : Turn(a, state)
      BY <2>3 DEF InviteMoves, InviteStep, InviteExpires, ReloginOpens, ReloginExpires,
         PageBeginsLogin, onboardingVars
    <3>2. OnboardingTypeOK'
      BY <3>1 DEF OnboardingTypeOK, Turn
    <3> QED
      BY <2>3, <3>2, <1>1 DEF InviteMoves, historyVars
  <2>4. ASSUME NEW a \in Accounts, Login(a)
        PROVE  OwnTypes'
    <3>1. excuse' \in [Accounts -> Excuses]
      BY <2>4, <1>3 DEF Login
    <3> QED
      BY <2>4, <3>1, <1>1, <1>4 DEF Login
  <2> QED
    BY <1>10, <2>1, <2>2, <2>3, <2>4 DEF Tenant
<1>11. CASE Cluster
  <2>1. UNCHANGED troubles \/ Trouble
    BY <1>11 DEF Cluster
  <2> QED
    BY <1>11, <2>1, <1>2, <1>4 DEF Cluster, passVars, envVars, historyVars
<1> QED
  BY <1>7, <1>8, <1>9, <1>10, <1>11 DEF Next

\* Every step keeps the types.
LEMMA TypeStep ==
    ASSUME TypeOK, PassState, RequestState, [Next]_vars
    PROVE  TypeOK'
<1>1. CASE Next
  <2>1. StoreTypeOK' /\ WorkersTypeOK'
    BY <1>1, PassTypes, OthersTypes DEF Next
  <2>2. OwnTypes'
    BY <1>1, OwnTypesStep
  <2> QED
    BY <2>1, <2>2 DEF TypeOK, OwnTypes
<1>2. CASE UNCHANGED vars
  BY <1>2, WorkersTyped DEF vars, storeVars, workerVars, passVars, envVars, historyVars,
     onboardingVars, TypeOK, StoreTypeOK, WorkersTypeOK, OnboardingTypeOK
<1> QED
  BY <1>1, <1>2
-----------------------------------------------------------------------------

-----------------------------------------------------------------------------

\* What a step leaves of an account's session and of what has been cleaned away:
\* a binlog comes back only behind a new look at the pod, and a session of an
\* account on its way out only with an excuse.
Lasts(a) ==
    /\ cleaned[a] \subseteq cleaned'[a]
    /\ NoWayBack(a) /\ ~(PodGoneStep /\ acct = a) => NoWayBack(a)'
    /\ Out(a) /\ BeingDeleted(a) => Out(a)'

\* No session comes to life where neither a login is confirmed nor an excuse dropped.
LEMMA StaysOut ==
    ASSUME NEW a \in Accounts, Out(a),
           excuse[a] # "none" => excuse'[a] # "none",
           valid'[a] => valid[a],
           Holds(a)' \/ stored'[a] => Holds(a) \/ stored[a]
    PROVE  Out(a)'
  BY DEF Out, Live

\* A logout that was carried out leaves no session.
LEMMA LogoutEnds ==
    ASSUME WorkersTypeOK, NEW b \in Accounts, LogsOut(b), NEW a \in Accounts
    PROVE  /\ ~Live(b)'
           /\ UNCHANGED <<secret, pod, stored, reborn>> /\ pod[b] = "up"
           /\ valid'[a] => valid[a]
           /\ Holds(a)' => Holds(a)
  BY WorkersTyped DEF LogsOut, Answers, Live, Holds, kubeVars

\* What happens to the worker by itself keeps its session accounted for. Only a
\* login makes one.
LEMMA EnvironmentSession ==
    ASSUME TypeOK, SessionState, NEW b \in Accounts, NEW a \in Accounts,
           \/ PodStep(b) \/ Pushes(b) \/ PodIsEvicted(b) \/ Revoked(b)
           \/ GatewayReady(b) \/ GatewayQuits(b) \/ GatewayCrashes(b) \/ LoginBegins(b),
           UNCHANGED <<excuse, cleaned>>
    PROVE  SessionOf(a)' /\ Lasts(a)
<1> USE WorkersTyped DEF TypeOK, kubeVars
<1>1. SessionOf(a)
  BY DEF SessionState
<1>2. /\ pod'[a] = "none" => login'[a] = "none"
      /\ pod'[a] # "none" => reborn'[a]
      /\ NoWayBack(a) => NoWayBack(a)'
  <2> USE <1>1 DEF SessionOf, NoWayBack, Holds
  <2>1. CASE PodStarts(b)
    BY <2>1 DEF PodStarts
  <2>2. CASE PodIsTold(b) \/ PodIsEvicted(b) \/ Revoked(b)
    BY <2>2 DEF PodIsTold, PodIsEvicted, Revoked
  <2>3. CASE PodEnds(b)
    BY <2>3 DEF PodEnds
  <2>4. CASE Pushes(b)
    BY <2>4 DEF Pushes
  <2>5. CASE GatewayReady(b) \/ GatewayQuits(b) \/ GatewayCrashes(b)
    BY <2>5 DEF GatewayReady, GatewayQuits, GatewayCrashes
  <2>6. CASE LoginBegins(b)
    BY <2>6 DEF LoginBegins, Answers
  <2> QED
    BY <2>1, <2>2, <2>3, <2>4, <2>5, <2>6 DEF PodStep
<1>3. secret' = secret /\ (valid'[a] => valid[a])
  BY DEF PodStep, PodStarts, PodIsTold, PodEnds, Pushes, PodIsEvicted, Revoked, GatewayReady,
     GatewayQuits, GatewayCrashes, LoginBegins
<1>4. Holds(a)' \/ stored'[a] => Holds(a) \/ stored[a]
  <2> USE DEF Holds
  <2>1. CASE PodStarts(b)
    BY <2>1 DEF PodStarts
  <2>2. CASE PodIsTold(b) \/ PodIsEvicted(b) \/ Revoked(b)
    BY <2>2 DEF PodIsTold, PodIsEvicted, Revoked
  <2>3. CASE PodEnds(b)
    BY <2>3 DEF PodEnds
  <2>4. CASE Pushes(b)
    BY <2>4 DEF Pushes
  <2>5. CASE GatewayReady(b) \/ GatewayQuits(b) \/ GatewayCrashes(b) \/ LoginBegins(b)
    BY <2>5 DEF GatewayReady, GatewayQuits, GatewayCrashes, LoginBegins
  <2> QED
    BY <2>1, <2>2, <2>3, <2>4, <2>5 DEF PodStep
<1>5. Out(a) => Out(a)'
  BY <1>3, <1>4, StaysOut
<1> QED
  BY <1>1, <1>2, <1>3, <1>5 DEF SessionOf, Lasts

\* Where the gateway and its Secret are left alone, so is the session.
LEMMA UntouchedSession ==
    ASSUME SessionState, NEW a \in Accounts, UNCHANGED <<gatewayVars, cleaned>>,
           secret[a] => secret'[a],
           excuse[a] # "none" => excuse'[a] # "none"
    PROVE  SessionOf(a)' /\ Lasts(a)
<1>1. SessionOf(a) /\ UNCHANGED <<pod, login, valid, stored, reborn>>
  BY DEF SessionState, gatewayVars
<1>2. Holds(a)' = Holds(a) /\ NoWayBack(a)' = NoWayBack(a)
  BY <1>1 DEF Holds, NoWayBack
<1>3. Out(a) => Out(a)'
  BY <1>1, <1>2, StaysOut
<1> QED
  BY <1>1, <1>2, <1>3 DEF SessionOf, Lasts

\* An excuse that is given is kept, and given where the session is alive.
LEMMA ExcuseGiven ==
    ASSUME TypeOK, NEW b \in Accounts, NEW why \in Excuses \ {"none"}, Excuse(b, why)
    PROVE  /\ \A a \in Accounts : excuse[a] # "none" => excuse'[a] # "none"
           /\ UNCHANGED workerVars => Out(b)'
           /\ LogsOut(b) => Out(b)'
<1>1. \A a \in Accounts : excuse'[a] = IF a = b /\ Live(b) /\ excuse[b] = "none"
                                       THEN why ELSE excuse[a]
  BY DEF Excuse, TypeOK
<1>2. UNCHANGED workerVars => Out(b)'
  BY <1>1 DEF Out, Live, Holds, workerVars
<1>3. LogsOut(b) => Out(b)'
  BY LogoutEnds DEF Out, TypeOK
<1> QED
  BY <1>1, <1>2, <1>3

\* The steps of the pass keep the session accounted for.
LEMMA PassSession ==
    ASSUME TypeOK, SessionState, PassState, Pass \/ PassFails, NEW a \in Accounts
    PROVE  SessionOf(a)' /\ Lasts(a)
<1>1. SessionOf(a)
  BY DEF SessionState
<1>2. CASE UNCHANGED <<gatewayVars, secret, historyVars>>
  BY <1>2, UntouchedSession DEF historyVars
<1>3. ASSUME NEW b \in Accounts,
             \/ Apply(b) \/ ApplyFails(b) \/ Sweep(b) \/ ExpireReads(b) \/ TakeDeletion(b)
             \/ PollFindsLost(b) \/ PollFindsNothing(b)
      PROVE  UNCHANGED <<gatewayVars, secret, historyVars>>
  BY <1>3 DEF Apply, ApplyFails, Sweep, ExpireReads, TakeDeletion, PollFindsLost, PollFindsNothing,
     applyObjects, applyInPart, deleteObjects, deleteRoute, envVars, workerVars, gatewayVars
<1>4. CASE \/ PassBegins \/ AllApplied \/ AllSwept \/ DeletionsBegin \/ PollBegins \/ PassEnds
           \/ ExpireWrites \/ PollWrites \/ ScaleStep \/ PodStillThere \/ DropRow \/ WriteStep
           \/ SweepFails \/ HookFails \/ Crash
  BY <1>2, <1>4
     DEF PassBegins, AllApplied, AllSwept, DeletionsBegin, PollBegins, PassEnds, ExpireWrites,
         PollWrites, ScaleStep, PodStillThere, DropRow, WriteStep, SweepFails, HookFails, Crash,
         envVars, workerVars, gatewayVars
<1>5. CASE LogoutStep
  <2>1. PICK b \in Accounts : b = acct /\ UNCHANGED cleaned
    BY <1>5 DEF LogoutStep, PassState, AdvancedState, AtAccount
  <2>2. CASE ~LogsOut(b)
    <3>1. UNCHANGED workerVars
      BY <1>5, <2>1, <2>2 DEF LogoutStep
    <3>2. UNCHANGED excuse \/ Excuse(acct, "conflict") \/ Excuse(acct, "mute")
      BY <1>5, <2>1, <2>2 DEF LogoutStep
    <3>3. {"conflict", "mute"} \subseteq Excuses \ {"none"}
      BY DEF Excuses
    <3>4. excuse[a] # "none" => excuse'[a] # "none"
      BY <2>1, <3>2, <3>3, ExcuseGiven
    <3> QED
      BY <2>1, <3>1, <3>4, UntouchedSession DEF workerVars, gatewayVars
  <2>3. CASE LogsOut(b)
    <3>1. /\ ~Live(b)' /\ UNCHANGED <<secret, pod, stored, reborn>> /\ pod[b] = "up"
          /\ valid'[a] => valid[a]
          /\ Holds(a)' => Holds(a)
      BY <2>1, <2>3, LogoutEnds DEF TypeOK
    <3>2. a # b => login'[a] = login[a] /\ excuse'[a] = excuse[a]
      BY <1>5, <2>1, <2>3 DEF LogoutStep, LogsOut, Excuse, TypeOK
    <3>3. Out(a) => Out(a)'
      <4>1. CASE a = b
        BY <3>1, <4>1 DEF Out
      <4>2. CASE a # b
        BY <3>1, <3>2, <4>2, StaysOut
      <4> QED
        BY <4>1, <4>2
    <3>4. pod'[a] = "none" => login'[a] = "none"
      BY <1>1, <3>1, <3>2 DEF SessionOf
    <3> QED
      BY <1>1, <2>1, <3>1, <3>3, <3>4 DEF SessionOf, Lasts, NoWayBack
  <2> QED
    BY <2>2, <2>3
<1>6. CASE PodGoneStep
  <2>1. acct \in Accounts
    BY <1>6 DEF PodGoneStep, PassState, AdvancedState, AtAccount
  <2>2. /\ UNCHANGED <<secret, pod, login, valid, stored, excuse, cleaned>> /\ pod[acct] = "none"
        /\ a # acct => reborn'[a] = reborn[a]
    BY <1>6, <2>1, WorkersTyped
       DEF PodGoneStep, seePodGone, podGone, kubeVars, envVars, historyVars, TypeOK
  <2>3. Holds(a)' = Holds(a) /\ (Out(a) => Out(a)')
    BY <2>2 DEF Holds, Out, Live
  <2>4. NoWayBack(a) /\ a # acct => NoWayBack(a)'
    BY <2>2 DEF NoWayBack
  <2> QED
    BY <1>1, <1>6, <2>2, <2>3, <2>4 DEF SessionOf, Lasts
<1>7. CASE ClearS3Step \/ PurgeStep \/ DeletionFails
  <2>1. acct \in Accounts
    BY <1>7 DEF ClearS3Step, PurgeStep, DeletionFails, PassState, AdvancedState, AtAccount
  <2>2. UNCHANGED excuse /\ (deletePrefix(acct) \/ UNCHANGED workerVars)
    BY <1>7 DEF ClearS3Step, PurgeStep, DeletionFails, envVars, historyVars
  <2>3. cleaned[a] \subseteq cleaned'[a]
    BY <1>7, <2>1 DEF ClearS3Step, PurgeStep, DeletionFails, envVars, historyVars, TypeOK
  <2>4. /\ UNCHANGED <<secret, pod, login, valid, reborn>>
        /\ stored'[a] => stored[a]
    BY <2>1, <2>2, WorkersTyped DEF deletePrefix, kubeVars, workerVars, TypeOK
  <2>5. Out(a) => Out(a)'
    BY <2>2, <2>4, StaysOut DEF Holds
  <2> QED
    BY <1>1, <2>3, <2>4, <2>5 DEF SessionOf, Lasts, NoWayBack
<1>8. CASE DropSecretStep
  <2>1. acct \in Accounts /\ Out(acct)
    <3>1. step \in SCALED_DOWN_STEPS
      BY <1>8 DEF DropSecretStep, SCALED_DOWN_STEPS
    <3> QED
      BY <1>8, <3>1 DEF DropSecretStep, PassState, AdvancedState, AtAccount, OnItsWayOut, Reached
  <2>2. /\ UNCHANGED <<pod, login, valid, stored, reborn, excuse, cleaned>>
        /\ a # acct => secret'[a] = secret[a]
    BY <1>8, <2>1, WorkersTyped
       DEF DropSecretStep, setSecret, gatewayVars, envVars, historyVars, TypeOK
  <2>3. Holds(a)' = Holds(a) /\ (Out(a) => Out(a)')
    BY <2>2 DEF Holds, Out, Live
  <2> QED
    BY <1>1, <2>1, <2>2, <2>3 DEF SessionOf, Lasts, NoWayBack
<1> QED
  BY <1>2, <1>3, <1>4, <1>5, <1>6, <1>7, <1>8 DEF Pass, PassFails

\* So do requests, tenants and the cluster.
LEMMA OthersSession ==
    ASSUME TypeOK, SessionState, Admin \/ Tenant \/ Cluster, NEW a \in Accounts
    PROVE  SessionOf(a)' /\ Lasts(a)
<1>1. SessionOf(a)
  BY DEF SessionState
<1>2. CASE UNCHANGED <<gatewayVars, secret, historyVars>>
  BY <1>2, UntouchedSession DEF historyVars
<1>3. CASE Admin
  BY <1>2, <1>3
     DEF Admin, DeleteLoads, DeleteWrites, DeleteIsUnderWay, DeleteFindsNoRow, workerVars,
         gatewayVars
<1>4. ASSUME NEW v \in Visits, NEW b \in Accounts, Visit(v, b)
      PROVE  SessionOf(a)' /\ Lasts(a)
  <2>1. UNCHANGED cleaned /\ (UNCHANGED excuse \/ Excuse(b, "duplicate"))
    BY <1>4 DEF Visit
  <2>2. "duplicate" \in Excuses \ {"none"}
    BY DEF Excuses
  <2>3. excuse[a] # "none" => excuse'[a] # "none"
    BY <2>1, <2>2, ExcuseGiven
  <2>4. setSecret(b, TRUE) \/ LogsOut(b) \/ UNCHANGED workerVars
    BY <1>4 DEF Visit, VisitStep, VisitLogsOut, DuplicateWrites, CreateInserts, CreateApplies,
       CreateAttaches,
       GivesUp, GiveUpWrites, DuplicateOutcome, StrangerOutcome, FinishBegins, FinishActivates,
       FinishLogsOut
  <2>5. CASE setSecret(b, TRUE) \/ UNCHANGED workerVars
    <3>1. UNCHANGED gatewayVars /\ (secret[a] => secret'[a])
      BY <2>5, WorkersTyped DEF setSecret, workerVars, gatewayVars, TypeOK
    <3> QED
      BY <2>1, <2>3, <3>1, UntouchedSession
  <2>6. CASE LogsOut(b)
    <3>1. /\ ~Live(b)' /\ UNCHANGED <<secret, pod, stored, reborn>> /\ pod[b] = "up"
          /\ valid'[a] => valid[a]
          /\ Holds(a)' => Holds(a)
      BY <2>6, LogoutEnds DEF TypeOK
    <3>2. a # b => login'[a] = login[a]
      BY <2>6 DEF LogsOut
    <3>3. Out(a) => Out(a)'
      BY <2>3, <3>1, StaysOut
    <3> QED
      BY <1>1, <2>1, <3>1, <3>2, <3>3 DEF SessionOf, Lasts, NoWayBack
  <2> QED
    BY <2>4, <2>5, <2>6
<1>5. ASSUME NEW b \in Accounts, Login(b)
      PROVE  SessionOf(a)' /\ Lasts(a)
  <2>1. LogsIn(b) /\ UNCHANGED cleaned
    BY <1>5 DEF Login
  <2>2. excuse'[a] = IF a = b /\ BeingDeleted(b) THEN "late" ELSE excuse[a]
    BY <1>5 DEF Login, TypeOK
  <2>3. /\ UNCHANGED <<secret, pod, stored, reborn>> /\ pod[b] = "up"
        /\ a # b => login'[a] = login[a] /\ valid'[a] = valid[a]
    BY <2>1, WorkersTyped DEF LogsIn, kubeVars, TypeOK
  <2>4. Out(a) /\ BeingDeleted(a) => Out(a)'
    BY <2>2, <2>3 DEF Out, Live, Holds
  <2>5. ~secret[a] => BeingDeleted(a)
    BY DEF BeingDeleted
  <2> QED
    BY <1>1, <2>1, <2>3, <2>4, <2>5 DEF SessionOf, Lasts, NoWayBack
<1>6. ASSUME NEW b \in Accounts, InviteMoves(b)
      PROVE  SessionOf(a)' /\ Lasts(a)
  <2>1. CASE LoginBegins(b)
    BY <1>6, <2>1, EnvironmentSession DEF InviteMoves, historyVars
  <2>2. CASE ~LoginBegins(b)
    <3>1. UNCHANGED <<workerVars, historyVars>>
      BY <1>6, <2>2 DEF InviteMoves, InviteStep, InviteExpires, ReloginOpens, ReloginExpires,
         PageBeginsLogin
    <3> QED
      BY <1>2, <3>1 DEF workerVars, gatewayVars
  <2> QED
    BY <2>1, <2>2
<1>7. ASSUME NEW v \in Visits, VisitEnds(v)
      PROVE  SessionOf(a)' /\ Lasts(a)
  BY <1>2, <1>7 DEF VisitEnds, VisitFails, workerVars, gatewayVars
<1>8. CASE Cluster
  BY <1>8, EnvironmentSession DEF Cluster, envVars, historyVars
<1> QED
  BY <1>3, <1>4, <1>5, <1>6, <1>7, <1>8 DEF Admin, Tenant
-----------------------------------------------------------------------------

SameRow(a) == accounts'[a] = accounts[a] /\ (a \in born' <=> a \in born)

StaysRow(a) == HasRow(a) /\ HasRow(a)' /\ born' = born

\* What a step may make of the row of an account: nothing; another status, or the
\* deletion begun anew; a duplicate; the step reached; its end; its beginning.
RowMoves(a) ==
    \/ SameRow(a)
    \/ StaysRow(a) /\ accounts'[a].step \in {accounts[a].step, "null"}
    \/ StaysRow(a) /\ accounts'[a].step = "logged_out" /\ Out(a)'
    \/ StaysRow(a) /\ acct = a /\ WriteStep /\ accounts'[a].step = step
    \/ HasRow(a) /\ ~HasRow(a)' /\ born' = born /\ acct = a /\ DropRow
    \/ a \notin born /\ a \in born' /\ HasRow(a)' /\ accounts'[a].step = "null"

\* What the queries make of the row they write, and of the others.
LEMMA WrittenRow ==
    ASSUME StoreTypeOK, NEW b \in Accounts, NEW a \in Accounts, NEW st \in Statuses,
           NEW s \in Steps, NEW n \in 0 .. LogoutWaitPasses
    PROVE  /\ SetStatus(b, st) =>
                IF a = b THEN StaysRow(a) /\ accounts'[a].step = accounts[a].step ELSE SameRow(a)
           /\ SetStep(b, s, n) =>
                IF a = b THEN StaysRow(a) /\ accounts'[a].step = s ELSE SameRow(a)
           /\ SetStatusAndStep(b, st, s) =>
                IF a = b THEN StaysRow(a) /\ accounts'[a].step = s ELSE SameRow(a)
<1> USE DEF StoreTypeOK, HasRow, StaysRow, SameRow
<1>1. ASSUME SetStatus(b, st), a = b
      PROVE  StaysRow(a) /\ accounts'[a].step = accounts[a].step
  <2>1. accounts[a] \in Row
    BY <1>1 DEF SetStatus
  <2>2. accounts'[a] = [accounts[a] EXCEPT !.status = st]
    BY <1>1 DEF SetStatus
  <2>3. accounts'[a] \in Row
    BY <2>1, <2>2 DEF Row
  <2> QED
    BY <1>1, <2>1, <2>2, <2>3 DEF SetStatus, Row
<1>2. ASSUME SetStep(b, s, n), a = b
      PROVE  StaysRow(a) /\ accounts'[a].step = s
  <2>1. accounts[a] \in Row
    BY <1>2 DEF SetStep
  <2>2. accounts'[a] = [[accounts[a] EXCEPT !.step = s] EXCEPT !.waited = n]
    BY <1>2 DEF SetStep
  <2>3. accounts'[a] \in Row
    BY <2>1, <2>2 DEF Row
  <2> QED
    BY <1>2, <2>1, <2>2, <2>3 DEF SetStep, Row
<1>3. ASSUME SetStatusAndStep(b, st, s), a = b
      PROVE  StaysRow(a) /\ accounts'[a].step = s
  <2>1. accounts'[a] = [status |-> st, step |-> s, waited |-> 0] /\ 0 \in 0 .. LogoutWaitPasses
    BY <1>3 DEF SetStatusAndStep
  <2>2. accounts'[a] \in Row
    BY <2>1 DEF Row
  <2> QED
    BY <1>3, <2>1, <2>2 DEF SetStatusAndStep
<1>4. (SetStatus(b, st) \/ SetStep(b, s, n) \/ SetStatusAndStep(b, st, s)) /\ a # b => SameRow(a)
  BY DEF SetStatus, SetStep, SetStatusAndStep
<1> QED
  BY <1>1, <1>2, <1>3, <1>4

\* Every step does one of these to each row.
LEMMA RowMoved ==
    ASSUME TypeOK, PassState, RequestState, Next, NEW a \in Accounts
    PROVE  RowMoves(a)
<1> USE DEF TypeOK
<1>1. CASE UNCHANGED storeVars
  BY <1>1 DEF storeVars, RowMoves, SameRow
<1>2. /\ {"onboarding", "active", "needs_relogin", "deleting"} \subseteq Statuses
      /\ {"null", "logged_out"} \subseteq Steps
      /\ 0 \in 0 .. LogoutWaitPasses
  BY DEF Statuses, Steps, SCALED_DOWN_STEPS
<1>3. ASSUME NEW b \in Accounts, NEW st \in Statuses,
             SetStatus(b, st) \/ SetStatusAndStep(b, st, "null")
      PROVE  RowMoves(a)
  BY <1>2, <1>3, WrittenRow DEF RowMoves
<1>4. CASE WriteStep
  <2> DEFINE n == IF step = "logout_wait" THEN listed[acct].waited + 1 ELSE 0
  <2>1. AtAccount /\ SetStep(acct, step, n)
    BY <1>4 DEF WriteStep, AtAccount
  <2>2. n \in 0 .. LogoutWaitPasses
    BY <2>1, <1>4 DEF PassState, AdvancedState, OnItsWayOut, WriteStep, Row
  <2>3. acct \in Accounts
    BY <2>1 DEF PassState, AdvancedState
  <2> HIDE DEF n
  <2> QED
    BY <1>2, <1>4, <2>1, <2>2, <2>3, WrittenRow DEF RowMoves
<1>5. CASE DropRow
  <2>1. acct \in Accounts /\ HasRow(acct) /\ deleteAccount(acct)
    BY <1>5 DEF DropRow, PassState, AdvancedState, AtAccount, OnItsWayOut
  <2>2. accounts' = [accounts EXCEPT ![acct] = NoRow] /\ born' = born
    BY <2>1 DEF deleteAccount
  <2>3. CASE a = acct
    BY <1>5, <2>1, <2>2, <2>3 DEF RowMoves, StoreTypeOK, HasRow
  <2>4. CASE a # acct
    BY <2>2, <2>4 DEF RowMoves, SameRow, StoreTypeOK
  <2> QED
    BY <2>3, <2>4
<1>6. CASE Pass \/ PassFails
  <2>1. \/ UNCHANGED storeVars \/ WriteStep \/ DropRow
        \/ ExpireWrites \/ PollWrites \/ HookFails
    BY <1>6 DEF Pass, PassFails, PassBegins, AllApplied, AllSwept, DeletionsBegin, PollBegins, PassEnds,
       Apply, Sweep, ExpireReads, TakeDeletion, PollFindsLost, PollFindsNothing, LogoutStep,
       ScaleStep, PodGoneStep, PodStillThere, ClearS3Step, PurgeStep, DropSecretStep, ApplyFails,
       SweepFails, DeletionFails, Crash
  <2>2. CASE (ExpireWrites \/ PollWrites \/ HookFails) /\ ~UNCHANGED storeVars
    <3>1. PICK st \in Statuses : SetStatus(acct, st)
      BY <1>2, <2>2 DEF ExpireWrites, PollWrites, HookFails
    <3>2. acct \in Accounts
      BY <2>2 DEF ExpireWrites, PollWrites, HookFails, PassState
    <3> QED
      BY <1>3, <3>1, <3>2
  <2> QED
    BY <1>1, <1>4, <1>5, <2>1, <2>2
<1>7. CASE Admin
  <2>1. PICK d \in Deletes : \/ \E b \in Accounts : DeleteLoads(d, b)
                             \/ DeleteWrites(d) \/ DeleteIsUnderWay(d) \/ DeleteFindsNoRow(d)
    BY <1>7 DEF Admin
  <2>2. CASE DeleteWrites(d)
    <3>1. deletes[d].acct \in Accounts
      BY <2>2 DEF DeleteWrites, RequestState
    <3> QED
      BY <1>2, <1>3, <2>2, <3>1 DEF DeleteWrites
  <2> QED
    BY <1>1, <2>1, <2>2 DEF DeleteLoads, DeleteIsUnderWay, DeleteFindsNoRow
<1>8. ASSUME NEW v \in Visits, NEW b \in Accounts, Visit(v, b)
      PROVE  RowMoves(a)
  <2>1. \/ UNCHANGED storeVars \/ insertAccount(b)
        \/ SetStatus(b, "deleting") \/ SetStatus(b, "active")
        \/ DuplicateWrites(v, b) /\ Excuse(b, "duplicate")
    BY <1>8 DEF Visit, VisitStep, VisitLogsOut, CreateInserts, CreateApplies,
       CreateAttaches, GivesUp,
       GiveUpWrites, DuplicateOutcome, StrangerOutcome, FinishBegins, FinishActivates, FinishLogsOut
  <2>2. CASE insertAccount(b)
    <3>1. CASE a = b
      <4>1. /\ accounts'[a] = [status |-> "onboarding", step |-> "null", waited |-> 0]
            /\ a \notin born /\ a \in born'
        BY <2>2, <3>1 DEF insertAccount, StoreTypeOK
      <4>2. accounts'[a] \in Row
        BY <4>1, <1>2 DEF Row
      <4> QED
        BY <4>1, <4>2 DEF HasRow, RowMoves
    <3>2. CASE a # b
      BY <2>2, <3>2 DEF insertAccount, StoreTypeOK, RowMoves, SameRow
    <3> QED
      BY <3>1, <3>2
  <2>3. CASE DuplicateWrites(v, b) /\ Excuse(b, "duplicate")
    <3>1. SetStatusAndStep(b, "deleting", "logged_out") /\ UNCHANGED workerVars
      BY <2>3 DEF DuplicateWrites
    <3>2. "duplicate" \in Excuses \ {"none"}
      BY DEF Excuses
    <3>3. Out(b)'
      BY <2>3, <3>1, <3>2, ExcuseGiven
    <3> QED
      BY <1>2, <3>1, <3>3, WrittenRow DEF RowMoves
  <2> QED
    BY <1>1, <1>2, <1>3, <2>1, <2>2, <2>3
<1>9. CASE (Tenant /\ ~\E v \in Visits, b \in Accounts : Visit(v, b)) \/ Cluster
  BY <1>1, <1>9
     DEF Tenant, Login, InviteMoves, InviteStep, InviteExpires, ReloginOpens, ReloginExpires,
         PageBeginsLogin, VisitEnds, VisitFails, Cluster
<1> QED
  BY <1>6, <1>7, <1>8, <1>9 DEF Next

\* What a step makes of a session and of what has been cleaned away, whoever takes it.
LEMMA SessionStep ==
    ASSUME IInv, Next, NEW a \in Accounts
    PROVE  SessionOf(a)' /\ Lasts(a)
  BY PassSession, OthersSession DEF IInv, Next

\* What goes for step s of a deletion goes on to, until podGone is asked anew.
LEMMA ReachedStays ==
    ASSUME IInv, Next, NEW a \in Accounts, NEW s, Reached(a, s),
           s \in SCALED_DOWN_STEPS => BeingDeleted(a),
           acct = a /\ PodGoneStep => s \notin Late
    PROVE  Reached(a, s)'
<1>1. Lasts(a)
  BY SessionStep
<1>2. Cleaned(a, s)'
  BY <1>1 DEF Lasts, Reached, Cleaned, Late
<1>3. s \in SCALED_DOWN_STEPS => Out(a)'
  BY <1>1 DEF Lasts, Reached
<1> QED
  BY <1>2, <1>3 DEF Reached

\* A look at the pod is taken of an account that has a row, and one that is not late.
LEMMA LookedAt ==
    ASSUME IInv, NEW a \in Accounts, acct = a, PodGoneStep
    PROVE  HasRow(a) /\ accounts[a].step \notin Late /\ accounts'[a] = accounts[a]
<1>1. AtAccount /\ pc = "step" /\ step = "scaled" /\ UNCHANGED storeVars
  BY DEF PodGoneStep, AtAccount
<1>2. OnItsWayOut(a, step) /\ NoFurther(a, "scaled")
  BY <1>1 DEF IInv, PassState, AdvancedState
<1> QED
  BY <1>1, <1>2 DEF OnItsWayOut, NoFurther, Late, storeVars

\* Every step keeps what the rows stand for.
LEMMA RowStep ==
    ASSUME IInv, Next, TypeOK', NEW a \in Accounts
    PROVE  RowOf(a)'
<1> USE DEF IInv
<1>1. /\ RowOf(a) /\ Lasts(a) /\ RowMoves(a)
      /\ cleaned'[a] \subseteq {"s3", "archive"}
  BY SessionStep, RowMoved DEF RowState, TypeOK
<1>2. PICK s : s = accounts[a].step
  OBVIOUS
<1>3. ASSUME HasRow(a)
      PROVE  Reached(a, s)' /\ a \in born
  <2>1. Reached(a, s) /\ a \in born
    BY <1>1, <1>2, <1>3 DEF RowOf
  <2>2. s \in SCALED_DOWN_STEPS => BeingDeleted(a)
    BY <1>2, <1>3 DEF BeingDeleted, SCALED_DOWN_STEPS
  <2>3. acct = a /\ PodGoneStep => s \notin Late
    BY <1>2, LookedAt
  <2> QED
    BY <2>1, <2>2, <2>3, ReachedStays
<1>4. Reached(a, "null")'
  BY DEF Reached, Cleaned, Late, SCALED_DOWN_STEPS
<1>5. CASE SameRow(a)
  <2>1. CASE HasRow(a)
    BY <1>2, <1>3, <1>5, <2>1 DEF SameRow, HasRow, Gone, RowOf
  <2>2. CASE ~HasRow(a)
    <3>1. ~(PodGoneStep /\ acct = a)
      BY <2>2, LookedAt
    <3> QED
      BY <1>1, <1>5, <2>2, <3>1 DEF SameRow, HasRow, Gone, RowOf, Lasts
  <2> QED
    BY <2>1, <2>2
<1>6. CASE StaysRow(a) /\ accounts'[a].step \in {accounts[a].step, "null"}
  BY <1>2, <1>3, <1>4, <1>6 DEF StaysRow, RowOf, Gone
<1>7. CASE StaysRow(a) /\ accounts'[a].step = "logged_out" /\ Out(a)'
  <2>1. Reached(a, "logged_out")'
    BY <1>7 DEF Reached, Cleaned, Late
  <2> QED
    BY <1>3, <1>7, <2>1 DEF StaysRow, RowOf, Gone
<1>8. CASE StaysRow(a) /\ acct = a /\ WriteStep /\ accounts'[a].step = step
  <2>1. PICK t : t = step
    OBVIOUS
  <2>2. OnItsWayOut(a, t)
    BY <1>8, <2>1 DEF WriteStep, PassState, AdvancedState, AtAccount
  <2>3. BeingDeleted(a)
    BY <2>2 DEF OnItsWayOut, BeingDeleted, Row
  <2>4. ~PodGoneStep
    BY <1>8 DEF WriteStep, PodGoneStep
  <2>5. Reached(a, t)'
    BY <2>2, <2>3, <2>4, ReachedStays DEF OnItsWayOut
  <2> QED
    BY <1>3, <1>8, <2>1, <2>5 DEF StaysRow, RowOf, Gone
<1>9. CASE HasRow(a) /\ ~HasRow(a)' /\ born' = born /\ acct = a /\ DropRow
  <2>1. Cleaned(a, "archive_purged") /\ ~PodGoneStep
    BY <1>9 DEF DropRow, PodGoneStep, PassState, AdvancedState, AtAccount, OnItsWayOut, Reached
  <2> QED
    BY <1>1, <1>9, <2>1 DEF RowOf, Lasts, Gone, Cleaned, Late
<1>10. CASE a \notin born /\ a \in born' /\ HasRow(a)' /\ accounts'[a].step = "null"
  BY <1>4, <1>10 DEF RowOf, Gone
<1> QED
  BY <1>1, <1>5, <1>6, <1>7, <1>8, <1>9, <1>10 DEF RowMoves
-----------------------------------------------------------------------------

\* An account on its way out has its row until it is dropped.
LEMMA RowStays ==
    ASSUME IInv, Next, NEW a \in Accounts, HasRow(a), ~(acct = a /\ DropRow)
    PROVE  HasRow(a)'
<1>1. RowMoves(a)
  BY RowMoved DEF IInv
<1> QED
  BY <1>1 DEF RowMoves, SameRow, StaysRow, HasRow

\* It stays on its way while the pass goes by the same listing.
LEMMA StaysOnItsWay ==
    ASSUME IInv, Next, listed' = listed, NEW a \in Accounts, NEW s, OnItsWayOut(a, s),
           ~(acct = a /\ DropRow), acct = a /\ PodGoneStep => s \notin Late
    PROVE  OnItsWayOut(a, s)'
<1>1. HasRow(a)'
  BY RowStays DEF OnItsWayOut
<1>2. BeingDeleted(a)
  BY DEF OnItsWayOut, BeingDeleted, Row
<1>3. Reached(a, s)'
  BY <1>2, ReachedStays DEF OnItsWayOut
<1> QED
  BY <1>1, <1>3 DEF OnItsWayOut

\* The step in a row is the one reached while nobody begins the deletion anew.
LEMMA StepStays ==
    ASSUME IInv, Next, NEW a \in Accounts, NEW s, HasRow(a), NoFurther(a, s),
           ~(acct = a /\ (DropRow \/ WriteStep))
    PROVE  NoFurther(a, s)'
<1>1. RowMoves(a) /\ a \in born
  BY RowMoved DEF IInv, RowState, RowOf
<1> QED
  BY <1>1 DEF RowMoves, SameRow, NoFurther

\* What the pass has listed of an account stays true while the pass is elsewhere.
LEMMA ListedStays ==
    ASSUME IInv, Next, listed' = listed, NEW a \in Accounts,
           ~(acct = a /\ (DropRow \/ WriteStep \/ PodGoneStep))
    PROVE  /\ ToApply(a) => ToApply(a)'
           /\ ToDelete(a) => ToDelete(a)'
<1>1. PICK s : s = listed[a].step
  OBVIOUS
<1>2. listed'[a] = listed[a]
  OBVIOUS
<1>3. ASSUME ToApply(a)
      PROVE  ToApply(a)'
  <2>1. listed[a].status = "deleting" /\ listed[a].step \in SCALED_DOWN_STEPS => Out(a)'
    <3>1. listed[a].status = "deleting" => BeingDeleted(a)
      BY <1>3 DEF ToApply, BeingDeleted
    <3> QED
      BY <1>3, <3>1, SessionStep DEF ToApply, Lasts
  <2> QED
    BY <1>2, <1>3, <2>1 DEF ToApply
<1>4. ASSUME ToDelete(a)
      PROVE  ToDelete(a)'
  <2>1. OnItsWayOut(a, s) /\ NoFurther(a, s) /\ HasRow(a)
    BY <1>1, <1>4 DEF ToDelete, OnItsWayOut
  <2>2. OnItsWayOut(a, s)'
    BY <2>1, StaysOnItsWay
  <2>3. NoFurther(a, s)'
    BY <2>1, StepStays
  <2> QED
    BY <1>1, <1>2, <2>2, <2>3 DEF ToDelete
<1> QED
  BY <1>3, <1>4

\* While the pass stays where it is, what it holds stays true.
LEMMA PassHolds ==
    ASSUME IInv, TypeOK', Next, UNCHANGED passVars
    PROVE  PassState'
<1> USE DEF IInv
<1>1. ~(DropRow \/ WriteStep \/ PodGoneStep) /\ listed' = listed
  BY DEF passVars, DropRow, WriteStep, PodGoneStep, Return, Reach
<1>2. \A a \in Accounts : (ToApply(a) => ToApply(a)') /\ (ToDelete(a) => ToDelete(a)')
  BY <1>1, ListedStays
<1>3. AdvancedState'
  <2>1. SUFFICES ASSUME AtAccount
                 PROVE  AdvancedState'
    BY DEF AdvancedState, AtAccount, passVars
  <2>2. PICK a \in Accounts : a = acct /\ a \notin todo
    BY <2>1 DEF PassState, AdvancedState
  <2>3. PICK s : s = step
    OBVIOUS
  <2>4. OnItsWayOut(a, s) /\ HasRow(a)
    BY <2>1, <2>2, <2>3 DEF PassState, AdvancedState, OnItsWayOut
  <2>5. OnItsWayOut(a, s)'
    BY <1>1, <2>4, StaysOnItsWay
  <2>6. ASSUME pc = "step"
        PROVE  NoFurther(a, s)'
    <3>1. NoFurther(a, s)
      BY <2>1, <2>2, <2>3, <2>6 DEF PassState, AdvancedState
    <3> QED
      BY <1>1, <2>4, <3>1, StepStays
  <2>7. /\ pc = "write" /\ s = "logout_wait" => listed[a].waited + 1 < LogoutWaitPasses
        /\ pc = "drop" => s = "archive_purged"
    BY <2>1, <2>2, <2>3 DEF PassState, AdvancedState
  <2> QED
    BY <2>2, <2>3, <2>5, <2>6, <2>7 DEF AdvancedState, AtAccount, passVars
<1> QED
  BY <1>2, <1>3 DEF PassState, InDeletions, passVars, TypeOK

\* Moving on, the pass holds what is true.
LEMMA PassMoves ==
    ASSUME IInv, TypeOK', Pass \/ PassFails
    PROVE  PassState'
<1> USE DEF IInv
<1>1. Next /\ \A a \in Accounts : RowOf(a)
  BY DEF Next, RowState
<1>2. ASSUME NEW a \in Accounts, listed' = listed, ~(DropRow \/ WriteStep \/ PodGoneStep)
      PROVE  /\ ToApply(a) => ToApply(a)'
             /\ ToDelete(a) => ToDelete(a)'
  BY <1>1, <1>2, ListedStays
<1>3. "null" \notin SCALED_DOWN_STEPS /\ "logout_wait" \notin SCALED_DOWN_STEPS
  BY DEF SCALED_DOWN_STEPS
<1>4. ASSUME NEW a \in Accounts, UNCHANGED <<storeVars, workerVars, envVars>>, HasRow(a)
      PROVE  /\ accounts[a] \in Row /\ accounts' = accounts
             /\ Reached(a, accounts[a].step)' /\ HasRow(a)'
  <2>1. Reached(a, accounts[a].step)
    BY <1>1, <1>4 DEF RowOf
  <2> QED
    BY <1>4, <2>1, RowTyped
       DEF TypeOK, Reached, Cleaned, NoWayBack, Out, Live, Holds, HasRow, storeVars, workerVars,
           envVars, historyVars
<1>5. CASE PassBegins
  <2>1. /\ pc' = "apply" /\ listed' = accounts /\ todo' = Rows
        /\ UNCHANGED <<storeVars, workerVars, envVars>>
    BY <1>5 DEF PassBegins
  <2>2. ASSUME NEW a \in todo'
        PROVE  ToApply(a)'
    <3>1. a \in Accounts /\ HasRow(a)
      BY <2>1, <2>2 DEF Rows
    <3>2. accounts[a] \in Row /\ accounts' = accounts /\ Reached(a, accounts[a].step)'
      BY <1>4, <2>1, <3>1
    <3> QED
      BY <2>1, <3>2 DEF ToApply, Reached
  <2> QED
    BY <2>1, <2>2 DEF PassState, InDeletions, AdvancedState, AtAccount
<1>6. CASE \E a \in Accounts : Apply(a) \/ ApplyFails(a)
  <2>1. /\ pc = "apply" /\ pc' = "apply" /\ listed' = listed /\ todo' \subseteq todo
        /\ todo \subseteq Accounts
    BY <1>6 DEF Apply, ApplyFails, TypeOK
  <2>2. ~(DropRow \/ WriteStep \/ PodGoneStep)
    BY <2>1 DEF DropRow, WriteStep, PodGoneStep
  <2> QED
    BY <1>2, <2>1, <2>2 DEF PassState, InDeletions, AdvancedState, AtAccount
<1>7. CASE pc' \in {"idle", "sweep", "expire", "poll"}
  BY <1>7 DEF PassState, InDeletions, AdvancedState, AtAccount
<1>8. CASE AllApplied \/ (\E a \in Accounts : Sweep(a)) \/ SweepFails \/ AllSwept \/ ExpireWrites
           \/ PollBegins \/ (\E a \in Accounts : PollFindsNothing(a)) \/ PollWrites \/ PassEnds
           \/ Crash
  BY <1>7, <1>8
     DEF AllApplied, Sweep, SweepFails, AllSwept, ExpireWrites, PollBegins, PollFindsNothing,
         PollWrites, PassEnds, Crash, PassStops, Return
<1>9. CASE \E a \in Accounts : ExpireReads(a) \/ PollFindsLost(a)
  BY <1>9 DEF ExpireReads, PollFindsLost, PassState, InDeletions, AdvancedState, AtAccount
<1>10. CASE DeletionsBegin
  <2>1. /\ pc' = "deletions" /\ listed' = accounts
        /\ todo' = {a \in Accounts : Is(a, "deleting")}
        /\ UNCHANGED <<storeVars, workerVars, envVars>>
    BY <1>10 DEF DeletionsBegin
  <2>2. ASSUME NEW a \in todo'
        PROVE  ToDelete(a)'
    <3>1. a \in Accounts /\ HasRow(a) /\ accounts[a].status = "deleting"
      BY <2>1, <2>2 DEF Is
    <3>2. /\ accounts[a] \in Row /\ accounts' = accounts
          /\ Reached(a, accounts[a].step)' /\ HasRow(a)'
      BY <1>4, <2>1, <3>1
    <3> QED
      BY <2>1, <3>1, <3>2 DEF ToDelete, OnItsWayOut, NoFurther
  <2> QED
    BY <2>1, <2>2 DEF PassState, InDeletions, AdvancedState, AtAccount
<1>11. ASSUME NEW a \in Accounts, TakeDeletion(a)
       PROVE  PassState'
  <2>1. /\ pc = "deletions" /\ pc' = "step" /\ acct' = a /\ step' = listed[a].step
        /\ todo' = todo \ {a} /\ listed' = listed /\ a \in todo
    BY <1>11 DEF TakeDeletion
  <2>2. \A b \in todo : ToDelete(b)'
    <3>1. ~(DropRow \/ WriteStep \/ PodGoneStep)
      BY <2>1 DEF DropRow, WriteStep, PodGoneStep
    <3> QED
      BY <1>2, <2>1, <3>1 DEF PassState, InDeletions, TypeOK
  <2>3. AdvancedState'
    <3>1. ToDelete(a)'
      BY <2>1, <2>2
    <3> QED
      BY <2>1, <3>1 DEF ToDelete, AdvancedState
  <2> QED
    BY <2>1, <2>2, <2>3 DEF PassState, InDeletions
<1>12. ASSUME AtAccount, listed' = listed, todo' = todo, AdvancedState', InDeletions'
       PROVE  PassState'
  <2>1. \A a \in todo : a # acct /\ a \in Accounts /\ ToDelete(a)
    BY <1>12 DEF PassState, AdvancedState, InDeletions, AtAccount, TypeOK
  <2>2. \A a \in todo : ToDelete(a)'
    BY <1>1, <1>12, <2>1, ListedStays
  <2> QED
    BY <1>12, <2>2 DEF PassState, InDeletions
<1>13. ASSUME AtAccount, Return("deletions")
       PROVE  PassState'
  <2>1. pc' = "deletions" /\ listed' = listed /\ todo' = todo
    BY <1>13 DEF Return
  <2> QED
    BY <1>12, <1>13, <2>1 DEF AdvancedState, AtAccount, InDeletions
<1>14. CASE PodStillThere \/ DropRow \/ DeletionFails \/ (WriteStep /\ step = "logout_wait")
  <2>1. AtAccount /\ Return("deletions")
    BY <1>14 DEF PodStillThere, DropRow, DeletionFails, WriteStep, AtAccount
  <2> QED
    BY <1>13, <2>1
<1>15. ASSUME NEW b \in Accounts, b = acct, NEW s \in Steps, pc = "step", Reach(s),
              storeVars' = storeVars, Reached(b, s)',
              s = "logout_wait" => listed[b].waited + 1 < LogoutWaitPasses
       PROVE  PassState'
  <2>1. /\ AtAccount /\ pc' = "write" /\ step' = s /\ acct' = b
        /\ listed' = listed /\ todo' = todo /\ accounts' = accounts
    BY <1>15 DEF AtAccount, Reach, storeVars
  <2>2. b \notin todo /\ OnItsWayOut(b, step)
    BY <1>15, <2>1 DEF PassState, AdvancedState
  <2>3. OnItsWayOut(b, s)'
    BY <1>15, <2>1, <2>2 DEF OnItsWayOut, HasRow
  <2>4. AdvancedState'
    BY <1>15, <2>1, <2>2, <2>3 DEF AdvancedState
  <2> QED
    BY <1>12, <2>1, <2>4 DEF InDeletions
<1>16. CASE LogoutStep
  <2>1. PICK b \in Accounts : b = acct
    BY <1>16 DEF LogoutStep, PassState, AdvancedState, AtAccount
  <2>2. /\ pc = "step" /\ storeVars' = storeVars
        /\ {"logged_out", "logout_wait"} \subseteq Steps
        /\ listed[b] \in Row
    BY <1>16, <2>1
       DEF LogoutStep, Steps, SCALED_DOWN_STEPS, PassState, AdvancedState, AtAccount, OnItsWayOut
  <2>3. CASE Reach("logged_out")
    <3>1. ~secret[b] /\ UNCHANGED <<workerVars, excuse>> => Out(b)'
      BY DEF SessionState, SessionOf, Out, Live, Holds, workerVars
    <3>2. LogsOut(b) => Out(b)'
      BY LogoutEnds DEF Out, TypeOK
    <3>3. ASSUME NEW why \in {"conflict", "mute"}, Excuse(b, why), LogsOut(b) \/ UNCHANGED workerVars
          PROVE  Out(b)'
      <4>1. why \in Excuses \ {"none"}
        BY DEF Excuses
      <4> QED
        BY <3>3, <4>1, ExcuseGiven
    <3>4. Out(b)'
      <4>1. \/ ~secret[b] /\ UNCHANGED <<workerVars, excuse>>
            \/ LogsOut(b)
            \/ \E why \in {"conflict", "mute"} : Excuse(b, why) /\ UNCHANGED workerVars
        BY <1>16, <2>1, <2>3 DEF LogoutStep, Reach
      <4> QED
        BY <3>1, <3>2, <3>3, <4>1
    <3>5. Reached(b, "logged_out")'
      BY <3>4 DEF Reached, Cleaned, Late
    <3> QED
      BY <1>15, <2>1, <2>2, <2>3, <3>5
  <2>4. CASE Reach("logout_wait")
    <3>1. ~GivesUpWaiting
      BY <1>16, <2>4 DEF LogoutStep, Reach
    <3>2. listed[b].waited + 1 < LogoutWaitPasses
      BY <2>1, <2>2, <3>1 DEF GivesUpWaiting, Row
    <3>3. Reached(b, "logout_wait")'
      BY DEF Reached, Cleaned, Late, SCALED_DOWN_STEPS
    <3> QED
      BY <1>15, <2>1, <2>2, <2>4, <3>2, <3>3
  <2> QED
    BY <1>16, <2>3, <2>4 DEF LogoutStep
<1>17. CASE ScaleStep \/ PodGoneStep \/ ClearS3Step \/ PurgeStep
  <2>1. PICK b \in Accounts : b = acct
    BY <1>17 DEF ScaleStep, PodGoneStep, ClearS3Step, PurgeStep, PassState, AdvancedState, AtAccount
  <2>2. /\ pc = "step" /\ storeVars' = storeVars /\ step \in SCALED_DOWN_STEPS
        /\ SCALED_DOWN_STEPS \subseteq Steps
    BY <1>17 DEF ScaleStep, PodGoneStep, ClearS3Step, PurgeStep, SCALED_DOWN_STEPS, Steps
  <2>3. OnItsWayOut(b, step) /\ Reached(b, step) /\ Lasts(b)
    BY <1>1, <2>1, <2>2, SessionStep DEF PassState, AdvancedState, AtAccount, OnItsWayOut
  <2>4. Out(b)'
    <3>1. BeingDeleted(b)
      BY <2>3 DEF OnItsWayOut, BeingDeleted, Row
    <3> QED
      BY <2>2, <2>3, <3>1 DEF Reached, Lasts
  <2>5. CASE ScaleStep \/ PodGoneStep
    <3>1. PICK s \in Steps : Reach(s) /\ s \notin Late /\ s # "logout_wait"
      BY <2>2, <2>5 DEF ScaleStep, PodGoneStep, SCALED_DOWN_STEPS, Late
    <3>2. Reached(b, s)'
      BY <2>4, <3>1 DEF Reached, Cleaned, Late
    <3> QED
      BY <1>15, <2>1, <2>2, <3>1, <3>2
  <2>6. CASE ClearS3Step
    <3>1. Reach("s3_deleted") /\ "s3_deleted" \in Steps
      BY <2>2, <2>6 DEF ClearS3Step, SCALED_DOWN_STEPS
    <3>2. ~stored'[b] /\ "s3" \in cleaned'[b]
      BY <2>1, <2>6, WorkersTyped DEF ClearS3Step, deletePrefix, TypeOK
    <3>3. Reached(b, "s3_deleted")'
      BY <2>4, <3>2 DEF Reached, Cleaned, Late, NoWayBack
    <3> QED
      BY <1>15, <2>1, <2>2, <3>1, <3>3
  <2>7. CASE PurgeStep
    <3>1. Reach("archive_purged") /\ "archive_purged" \in Steps /\ step = "s3_deleted"
      BY <2>2, <2>7 DEF PurgeStep, SCALED_DOWN_STEPS
    <3>2. NoWayBack(b)' /\ "s3" \in cleaned'[b]
      <4>1. Cleaned(b, "s3_deleted") /\ ~PodGoneStep
        BY <2>3, <2>7, <3>1 DEF Reached, PodGoneStep
      <4> QED
        BY <2>3, <4>1 DEF Cleaned, Late, Lasts
    <3>3. "archive" \in cleaned'[b]
      BY <2>1, <2>7 DEF PurgeStep, TypeOK
    <3>4. Reached(b, "archive_purged")'
      BY <2>4, <3>2, <3>3 DEF Reached, Cleaned, Late
    <3> QED
      BY <1>15, <2>1, <2>2, <3>1, <3>4
  <2> QED
    BY <1>17, <2>5, <2>6, <2>7
<1>18. CASE DropSecretStep \/ (WriteStep /\ step # "logout_wait")
  <2>1. /\ AtAccount /\ UNCHANGED <<listed, todo, acct, step>>
        /\ ~(DropRow \/ PodGoneStep)
        /\ pc' \in {"drop", "step"} /\ (pc' = "drop" => step = "archive_purged")
        /\ pc' = "step" => WriteStep
    BY <1>18 DEF DropSecretStep, WriteStep, AtAccount, DropRow, PodGoneStep
  <2>2. PICK b \in Accounts : b = acct /\ b \notin todo
    BY <2>1 DEF PassState, AdvancedState
  <2>3. PICK s \in Steps : s = step
    BY DEF TypeOK
  <2>4. OnItsWayOut(b, s)'
    <3>1. OnItsWayOut(b, s)
      BY <2>1, <2>2, <2>3 DEF PassState, AdvancedState
    <3> QED
      BY <1>1, <2>1, <3>1, StaysOnItsWay
  <2>5. ASSUME pc' = "step"
        PROVE  NoFurther(b, s)'
    <3>1. RowMoves(b) /\ WriteStep /\ HasRow(b) /\ b \in born
      BY <1>1, <2>1, <2>2, <2>5, RowMoved
         DEF PassState, AdvancedState, OnItsWayOut, RowOf
    <3>2. accounts'[b].step = s
      <4> DEFINE n == IF step = "logout_wait" THEN listed[acct].waited + 1 ELSE 0
      <4>1. SetStep(b, s, n) /\ n = 0
        BY <1>18, <2>2, <2>3, <3>1 DEF WriteStep, DropSecretStep
      <4>2. SetStep(b, s, 0) /\ 0 \in 0 .. LogoutWaitPasses /\ "active" \in Statuses
        BY <4>1 DEF Statuses
      <4> QED
        BY <2>3, <4>2, WrittenRow DEF TypeOK
    <3> QED
      BY <3>2 DEF NoFurther
  <2>6. AdvancedState'
    BY <2>1, <2>2, <2>3, <2>4, <2>5 DEF AdvancedState
  <2> QED
    BY <1>12, <2>1, <2>6 DEF InDeletions
<1>19. CASE HookFails
  BY <1>19 DEF HookFails, PassState, InDeletions, AdvancedState, AtAccount
<1> QED
  BY <1>5, <1>6, <1>8, <1>9, <1>10, <1>11, <1>14, <1>16, <1>17, <1>18, <1>19
     DEF Pass, PassFails

\* Every step keeps the accounts of the requests known.
LEMMA RequestStep ==
    ASSUME TypeOK, RequestState, Next
    PROVE  RequestState'
<1> USE DEF RequestState, TypeOK
<1>1. CASE UNCHANGED deletes
  BY <1>1
<1>2. ASSUME NEW d \in Deletes,
             \/ \E a \in Accounts : DeleteLoads(d, a)
             \/ DeleteWrites(d) \/ DeleteIsUnderWay(d) \/ DeleteFindsNoRow(d)
      PROVE  RequestState'
  BY <1>2 DEF DeleteLoads, DeleteWrites, DeleteIsUnderWay, DeleteFindsNoRow, Answered
<1>3. CASE Crash
  BY <1>3 DEF Crash, Answered
<1>4. CASE Pass
  BY <1>1, <1>4
     DEF Pass, PassBegins, AllApplied, AllSwept, DeletionsBegin, PollBegins, PassEnds, Apply, Sweep,
         ExpireReads, TakeDeletion, PollFindsLost, PollFindsNothing, ExpireWrites, PollWrites,
         LogoutStep, ScaleStep, PodGoneStep, PodStillThere, ClearS3Step, PurgeStep,
         DropSecretStep, DropRow, WriteStep, envVars
<1>5. CASE PassFails
  BY <1>1, <1>3, <1>5 DEF PassFails, ApplyFails, SweepFails, DeletionFails, HookFails, envVars
<1>6. CASE Tenant \/ Cluster
  BY <1>1, <1>6 DEF Tenant, Visit, InviteMoves, VisitEnds, Login, Cluster, envVars
<1> QED
  BY <1>2, <1>4, <1>5, <1>6 DEF Next, Admin

-----------------------------------------------------------------------------

\* Initially nothing has been given out.
LEMMA InitInv == Init => IInv
<1> SUFFICES ASSUME Init
             PROVE  IInv
  OBVIOUS
<1> USE DEF Init, StoreInit, WorkersInit, OnboardingInit
<1>1. TypeOK
  <2>1. StoreTypeOK
    BY DEF StoreTypeOK
  <2>2. WorkersTypeOK
    BY WorkersTyped DEF LoginStates
  <2>3. OnboardingTypeOK
    BY DEF OnboardingTypeOK, Idle, Stops
  <2>4. "null" \in Steps /\ "idle" \in Phases /\ "none" \in Excuses
    BY DEF Steps, Phases, Excuses
  <2> QED
    BY <2>1, <2>2, <2>3, <2>4 DEF TypeOK
<1>2. SessionState
  BY DEF SessionState, SessionOf, Out, Live
<1>3. RowState
  BY DEF RowState, RowOf, HasRow, Gone
<1>4. PassState /\ RequestState
  BY DEF PassState, InDeletions, AdvancedState, AtAccount, RequestState
<1> QED
  BY <1>1, <1>2, <1>3, <1>4 DEF IInv

\* Every step keeps the invariant.
LEMMA NextInv == IInv /\ [Next]_vars => IInv'
<1> SUFFICES ASSUME IInv, [Next]_vars
             PROVE  IInv'
  OBVIOUS
<1>1. TypeOK'
  BY TypeStep DEF IInv
<1>2. CASE Next
  <2>1. SessionState'
    BY <1>2, SessionStep DEF SessionState
  <2>2. RowState'
    BY <1>1, <1>2, RowStep DEF RowState
  <2>3. PassState'
    <3>1. Admin \/ Tenant \/ Cluster => UNCHANGED passVars
      BY DEF Admin, DeleteLoads, DeleteWrites, DeleteIsUnderWay, DeleteFindsNoRow, Tenant, Visit,
         InviteMoves, VisitEnds, Login, Cluster
    <3> QED
      BY <1>1, <1>2, <3>1, PassHolds, PassMoves DEF Next
  <2>4. RequestState'
    BY <1>2, RequestStep DEF IInv
  <2> QED
    BY <1>1, <2>1, <2>2, <2>3, <2>4 DEF IInv
<1>3. CASE UNCHANGED vars
  <2> USE <1>3 DEF vars, storeVars, workerVars, passVars, envVars, historyVars, IInv
  <2>1. SessionState' /\ RowState'
    BY DEF SessionState, SessionOf, Out, Live, Holds, RowState, RowOf, Reached, Cleaned, NoWayBack,
       HasRow, Gone
  <2>2. PassState' /\ RequestState'
    BY DEF PassState, ToApply, ToDelete, InDeletions, AdvancedState, AtAccount, NoFurther,
       OnItsWayOut, Reached, Cleaned, NoWayBack, Out, Live, Holds, HasRow, RequestState
  <2> QED
    BY <1>1, <2>1, <2>2
<1> QED
  BY <1>2, <1>3

(***************************************************************************)
(* The inductive invariant: what is known of an account's session, what    *)
(* its row stands for, and what the pass has listed and read, however      *)
(* stale, against what requests and tenants have made of it. A session is  *)
(* known to be over behind logged_out or the loss of the Secret, or else   *)
(* why it may not be is on record: no answer, 409, a duplicate, a late     *)
(* login.                                                                  *)
(***************************************************************************)
THEOREM Inductive == Spec => []IInv
<1>1. Init => IInv
  BY InitInv
<1>2. IInv /\ [Next]_vars => IInv'
  BY NextInv
<1> QED
  BY <1>1, <1>2, PTL DEF Spec

(***************************************************************************)
(* What has been deleted stays deleted: past the clearing of S3            *)
(* (advanceDeletion, lifecycle.ts) no binlog comes back unless a pod was   *)
(* started behind the check, and a row is dropped only when S3 and archive *)
(* have both been cleaned, whatever failed, crashed or was asked meanwhile.*)
(***************************************************************************)
THEOREM DeletedStaysDeleted == Spec => []LifecycleInv
<1>1. IInv => LifecycleInv
  <2> SUFFICES ASSUME IInv
               PROVE  LifecycleInv
    OBVIOUS
  <2>1. \A a \in Accounts : RowOf(a)
    BY DEF IInv, RowState
  <2>2. ClearedUnlessReborn
    BY <2>1 DEF ClearedUnlessReborn, PastClearing, Is, RowOf, Reached, Cleaned, Late, NoWayBack
  <2>3. GoneMeansCleaned
    BY <2>1 DEF GoneMeansCleaned, RowOf
  <2> QED
    BY <2>2, <2>3 DEF LifecycleInv, IInv
<1> QED
  BY <1>1, Inductive, PTL

(***************************************************************************)
(* A worker is scaled down (Replicas, manifests.ts) only when its session  *)
(* is over, or the one of the four reasons why it may not be is on record  *)
(* (lifecycle.ts:42 among them: a 409 of a worker that was still starting),*)
(* for any number of accounts and although the pass applies rows it has    *)
(* listed long before.                                                     *)
(***************************************************************************)
THEOREM DownOnlyLoggedOut == Spec => StoppedLoggedOut
<1>1. ASSUME IInv, [Next]_vars, NEW a \in Accounts, sts[a] # "down", sts'[a] = "down"
      PROVE  ~Live(a) \/ excuse[a] # "none"
  <2>1. sts \in [Accounts -> {"none", "up", "down"}]
    BY <1>1, WorkersTyped DEF IInv, TypeOK
  <2>2. Apply(a) \/ ApplyFails(a)
    <3>1. sts' # sts
      BY <1>1
    <3>2. ASSUME Pass \/ PassFails
          PROVE  \E b \in Accounts : Apply(b) \/ ApplyFails(b) \/ Sweep(b)
      BY <3>1, <3>2
         DEF Pass, PassFails, PassBegins, AllApplied,
             AllSwept, DeletionsBegin, PollBegins, PassEnds, ExpireReads, TakeDeletion, PollFindsLost,
             PollFindsNothing, ExpireWrites, PollWrites, LogoutStep, ScaleStep, PodGoneStep,
             PodStillThere, ClearS3Step, PurgeStep, DropSecretStep, DropRow, WriteStep, SweepFails,
             DeletionFails, HookFails, Crash, LogsOut, setSecret, seePodGone, deletePrefix,
             workerVars, kubeVars
    <3>3. ~Admin
      BY <3>1 DEF Admin, DeleteLoads, DeleteWrites, DeleteIsUnderWay, DeleteFindsNoRow, workerVars
    <3>4. ~Cluster
      BY <3>1
         DEF Cluster, PodStep, PodStarts, PodIsTold, PodEnds, Pushes, PodIsEvicted, Revoked,
             GatewayReady, GatewayQuits, GatewayCrashes, kubeVars
    <3>5. ~Tenant
      <4>1. ASSUME NEW v \in Visits, NEW b \in Accounts, Visit(v, b)
            PROVE  sts' = sts
        BY <4>1
           DEF Visit, VisitStep, VisitLogsOut, DuplicateWrites, CreateInserts, CreateApplies,
              CreateAttaches,
               GivesUp, GiveUpWrites, DuplicateOutcome, StrangerOutcome, FinishBegins,
               FinishActivates, FinishLogsOut, LogsOut, setSecret, workerVars, kubeVars
      <4>2. ASSUME NEW b \in Accounts, Login(b) \/ InviteMoves(b)
            PROVE  sts' = sts
        BY <4>2
           DEF Login, InviteMoves, InviteStep, InviteExpires, ReloginOpens, ReloginExpires,
               PageBeginsLogin, LoginBegins, LogsIn, workerVars, kubeVars
      <4>3. ASSUME NEW v \in Visits, VisitEnds(v)
            PROVE  sts' = sts
        BY <4>3 DEF VisitEnds, VisitFails, workerVars
      <4> QED
        BY <3>1, <4>1, <4>2, <4>3 DEF Tenant
    <3>6. PICK b \in Accounts : Apply(b) \/ ApplyFails(b) \/ Sweep(b)
      BY <1>1, <3>1, <3>2, <3>3, <3>4, <3>5 DEF Next, vars, workerVars
    <3>7. ~Sweep(b)
      BY <1>1, <2>1 DEF Sweep, deleteObjects, deleteRoute, workerVars
    <3>8. b = a
      BY <1>1, <2>1, <3>6, <3>7 DEF Apply, ApplyFails, applyObjects, applyInPart, workerVars
    <3> QED
      BY <3>6, <3>7, <3>8
  <2>3. ToApply(a)
    BY <1>1, <2>2 DEF IInv, PassState, Apply, ApplyFails
  <2>4. Replicas(listed[a]) = "down"
    BY <1>1, <2>1, <2>2 DEF Apply, ApplyFails, applyObjects, applyInPart, workerVars
  <2>5. listed[a].status = "deleting" /\ listed[a].step \in SCALED_DOWN_STEPS
    BY <2>4 DEF Replicas
  <2> QED
    BY <2>3, <2>5 DEF ToApply, Out
<1>2. IInv /\ [Next]_vars =>
        [\A a \in Accounts :
           sts[a] # "down" /\ sts'[a] = "down" => ~Live(a) \/ excuse[a] # "none"]_vars
  BY <1>1
<1> QED
  BY <1>2, Inductive, PTL DEF Spec, StoppedLoggedOut

\* What a pass has listed is old when it comes to the account, but what it goes by is
\* still true then: the requests that have come in between have called the deletion off
\* or begun it again, and done nothing else (reconcile.ts reads the rows once per pass).
THEOREM PassReadsStayTrue == Spec => []PassState
<1>1. IInv => PassState
  BY DEF IInv
<1> QED BY <1>1, Inductive, PTL

\* A worker is without its Secret (kube.ts:19-21) only while no session needs it, or why
\* one may is on record: from before the Secret is applied until behind its deletion.
THEOREM SecretsOutliveSessions == Spec => [](\A a \in Accounts : ~secret[a] => Out(a))
<1>1. IInv => \A a \in Accounts : ~secret[a] => Out(a)
  BY DEF IInv, SessionState, SessionOf
<1> QED BY <1>1, Inductive, PTL
=============================================================================
