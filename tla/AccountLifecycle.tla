-------------------------- MODULE AccountLifecycle --------------------------
(* The life of the accounts: the reconcile pass with its hooks (reconcile.ts, *)
(* lifecycle.ts, Onboarding.expire), one process that goes from await to      *)
(* await, and DELETE /admin/accounts/:id and the visits of onboarding, whose  *)
(* handlers run between its awaits.                                           *)
EXTENDS Onboarding, FiniteSets

CONSTANTS
    Deletes,           \* requests DELETE /admin/accounts/:id
    MaxTroubles        \* a bound: failed calls and crashes of the control plane,
                       \*   pods lost, gateways crashed, sessions revoked, logins of
                       \*   a user who is not the one expected or has an account

ASSUME LifecycleAssumption ==
    /\ MaxTroubles \in Nat
    /\ NoRow \notin Row

VARIABLES
    pc,                \* where the pass is
    listed,            \* the rows as the pass has last listed them
    todo,              \* accounts the current loop has not come to
    acct, step,        \* the account it is at, and `step` of advanceDeletion
    deletes,           \* [at, acct, seen] of each DELETE request
    troubles,
    cleaned,           \* histories: what of an account has been cleaned away,
    excuse             \*   and why its session may outlive its pod

passVars == <<pc, listed, todo, acct, step>>
historyVars == <<cleaned, excuse>>
envVars == <<deletes, onboardingVars, historyVars>>
vars == <<storeVars, workerVars, passVars, envVars, troubles>>

Phases == {"idle", "apply", "sweep", "expire", "expire_write", "deletions",
           "step", "write", "drop", "poll", "poll_write"}

\* The worker did not answer, or with 409 while it had a session; the logout of a
\* duplicate got lost; the tenant logged in behind the start of the deletion.
Excuses == {"none", "mute", "conflict", "duplicate", "late"}

TypeOK ==
    /\ StoreTypeOK
    /\ WorkersTypeOK
    /\ OnboardingTypeOK
    /\ pc \in Phases
    /\ listed \in [Accounts -> Row \cup {NoRow}]
    /\ todo \subseteq Accounts
    /\ acct \in Accounts \cup {NoAccount}
    /\ step \in Steps
    /\ deletes \in [Deletes -> [at : {"new", "loaded", "answered"},
                                acct : Accounts \cup {NoAccount},
                                seen : Statuses \cup {NoRow}]]
    /\ troubles \in 0 .. MaxTroubles
    /\ cleaned \in [Accounts -> SUBSET {"s3", "archive"}]
    /\ excuse \in [Accounts -> Excuses]

Init ==
    /\ StoreInit
    /\ WorkersInit
    /\ OnboardingInit
    /\ pc = "idle"
    /\ listed = [a \in Accounts |-> NoRow]
    /\ todo = {}
    /\ acct = NoAccount
    /\ step = "null"
    /\ deletes = [d \in Deletes |-> [at |-> "new", acct |-> NoAccount, seen |-> NoRow]]
    /\ troubles = 0
    /\ cleaned = [a \in Accounts |-> {}]
    /\ excuse = [a \in Accounts |-> "none"]

Trouble == troubles < MaxTroubles /\ troubles' = troubles + 1

\* Answered, or cut off: nothing of a request to delete matters any more.
Answered == [at |-> "answered", acct |-> NoAccount, seen |-> NoRow]

\* From here on the session of an account may outlive its pod, if it is alive.
Excuse(a, why) ==
    excuse' = [excuse EXCEPT ![a] = IF Live(a) /\ @ = "none" THEN why ELSE @]

Rows == {a \in Accounts : HasRow(a)}

\* Back in the loop over the accounts; what the last one left behind is dead.
Return(loop) ==
    /\ pc' = loop
    /\ acct' = NoAccount
    /\ step' = "null"
    /\ UNCHANGED <<listed, todo>>

\* The rows of a listing are not looked at any more.
Forget == listed' = [a \in Accounts |-> NoRow]

PassStops ==
    /\ pc' = "idle"
    /\ Forget
    /\ todo' = {}
    /\ acct' = NoAccount
    /\ step' = "null"

-----------------------------------------------------------------------------
(* reconcileOnce *)

\* A kick or the timer; listAccounts. A kick during a pass is one more pass.
PassBegins ==
    /\ pc = "idle"
    /\ pc' = "apply"
    /\ listed' = accounts
    /\ todo' = Rows
    /\ UNCHANGED <<storeVars, workerVars, acct, step, envVars, troubles>>

Apply(a) ==
    /\ pc = "apply" /\ a \in todo
    /\ todo' = todo \ {a}
    /\ applyObjects(a, listed[a])
    /\ UNCHANGED <<storeVars, pc, listed, acct, step, envVars, troubles>>

\* The error of one account does not stop the others.
ApplyFails(a) ==
    /\ pc = "apply" /\ a \in todo
    /\ Trouble
    /\ todo' = todo \ {a}
    /\ \/ applyInPart(a, listed[a])
       \/ UNCHANGED workerVars
    /\ UNCHANGED <<storeVars, pc, listed, acct, step, envVars>>

AllApplied ==
    /\ pc = "apply" /\ todo = {}
    /\ pc' = "sweep"
    /\ todo' = Accounts
    /\ UNCHANGED <<storeVars, workerVars, listed, acct, step, envVars, troubles>>

\* Mutant: orphans are left where they are.
MutSweepRoutesOnly(a) ==
    /\ pc = "sweep" /\ a \in todo
    /\ todo' = todo \ {a}
    /\ IF listed[a] # NoRow /\ listed[a].status # "active" THEN deleteRoute(a)
                                                        ELSE UNCHANGED workerVars
    /\ UNCHANGED <<storeVars, pc, listed, acct, step, envVars, troubles>>

\* Objects of an orphan go; of an account that is not active, its route.
Sweep(a) ==
    /\ pc = "sweep" /\ a \in todo
    /\ todo' = todo \ {a}
    /\ \/ listed[a] = NoRow /\ deleteObjects(a)
       \/ listed[a] # NoRow /\ listed[a].status # "active" /\ deleteRoute(a)
       \/ listed[a] # NoRow /\ listed[a].status = "active" /\ UNCHANGED workerVars
    /\ UNCHANGED <<storeVars, pc, listed, acct, step, envVars, troubles>>

\* An error while listing or deleting aborts the pass with its hooks.
SweepFails ==
    /\ pc = "sweep"
    /\ Trouble
    /\ PassStops
    /\ UNCHANGED <<storeVars, workerVars, envVars>>

-----------------------------------------------------------------------------
(* The first hook, Onboarding.expire, over the sessions found expired. *)

AllSwept ==
    /\ pc = "sweep" /\ todo = {}
    /\ pc' = "expire"
    /\ Forget
    /\ todo' = {a \in Accounts : page[a] = "expired"}
    /\ UNCHANGED <<storeVars, workerVars, acct, step, envVars, troubles>>

\* Of another account only the invite is released.
ExpireReads(a) ==
    /\ pc = "expire" /\ a \in todo
    /\ todo' = todo \ {a}
    /\ \/ /\ Is(a, "onboarding")
          /\ pc' = "expire_write" /\ acct' = a
          /\ UNCHANGED envVars
       \/ /\ ~Is(a, "onboarding")
          /\ Turn(a, "over")
          /\ UNCHANGED <<pc, acct, visits, deletes, historyVars>>
    /\ UNCHANGED <<storeVars, workerVars, listed, step, troubles>>

ExpireWrites ==
    /\ pc = "expire_write"
    /\ SetStatus(acct, "deleting")
    /\ Turn(acct, "over")
    /\ Return("expire")
    /\ UNCHANGED <<workerVars, visits, deletes, historyVars, troubles>>

-----------------------------------------------------------------------------
(* The second hook, advanceAllDeletions over advanceDeletion. A step is done, *)
(* then written; an error leaves the account where it was written last.       *)

DeletionsBegin ==
    /\ pc = "expire" /\ todo = {}
    /\ pc' = "deletions"
    /\ listed' = accounts
    /\ todo' = {a \in Accounts : Is(a, "deleting")}
    /\ UNCHANGED <<storeVars, workerVars, acct, step, envVars, troubles>>

TakeDeletion(a) ==
    /\ pc = "deletions" /\ a \in todo
    /\ todo' = todo \ {a}
    /\ acct' = a
    /\ step' = listed[a].step
    /\ pc' = "step"
    /\ UNCHANGED <<storeVars, workerVars, listed, envVars, troubles>>

\* `set(s)`: the variable at once, the row in the next step.
Reach(s) ==
    /\ step' = s
    /\ pc' = "write"
    /\ UNCHANGED <<listed, todo, acct>>

\* After so many passes the deletion goes on without the logout.
GivesUpWaiting == listed[acct].waited + 1 >= LogoutWaitPasses

\* 409 is taken to say that there is no session to end.
LogoutStep ==
    /\ pc = "step" /\ step \in {"null", "logout_wait"}
    /\ \/ ~secret[acct] /\ Reach("logged_out") /\ UNCHANGED <<workerVars, excuse>>
       \/ /\ LogsOut(acct) /\ Reach("logged_out")
          /\ excuse' = [excuse EXCEPT ![acct] = "none"]
       \/ /\ NotReady(acct) /\ Reach("logged_out")
          /\ Excuse(acct, "conflict")
          /\ UNCHANGED workerVars
       \/ \* no answer, or another error, whether or not the worker carries it out
          /\ secret[acct]
          /\ LogsOut(acct) \/ UNCHANGED workerVars
          /\ IF GivesUpWaiting THEN Reach("logged_out") /\ Excuse(acct, "mute")
                               ELSE Reach("logout_wait") /\ UNCHANGED excuse
    /\ UNCHANGED <<storeVars, deletes, onboardingVars, cleaned, troubles>>

\* Only a kick: replicas are for the reconcile of a later pass to set.
ScaleStep ==
    /\ pc = "step" /\ step = "logged_out"
    /\ Reach("scaled")
    /\ UNCHANGED <<storeVars, workerVars, envVars, troubles>>

PodGoneStep ==
    /\ pc = "step" /\ step = "scaled"
    /\ seePodGone(acct)
    /\ Reach("pod_gone")
    /\ UNCHANGED <<storeVars, envVars, troubles>>

PodStillThere ==
    /\ pc = "step" /\ step = "scaled"
    /\ ~podGone(acct)
    /\ Return("deletions")
    /\ UNCHANGED <<storeVars, workerVars, envVars, troubles>>

ClearS3Step ==
    /\ pc = "step" /\ step = "pod_gone"
    /\ deletePrefix(acct)
    /\ cleaned' = [cleaned EXCEPT ![acct] = @ \cup {"s3"}]
    /\ Reach("s3_deleted")
    /\ UNCHANGED <<storeVars, deletes, onboardingVars, excuse, troubles>>

\* The archiver has purged the account; a refusal is one of DeletionFails.
PurgeStep ==
    /\ pc = "step" /\ step = "s3_deleted"
    /\ cleaned' = [cleaned EXCEPT ![acct] = @ \cup {"archive"}]
    /\ Reach("archive_purged")
    /\ UNCHANGED <<storeVars, workerVars, deletes, onboardingVars, excuse, troubles>>

DropSecretStep ==
    /\ pc = "step" /\ step = "archive_purged"
    /\ setSecret(acct, FALSE)
    /\ pc' = "drop"
    /\ UNCHANGED <<storeVars, listed, todo, acct, step, envVars, troubles>>

DropRow ==
    /\ pc = "drop"
    /\ deleteAccount(acct)
    /\ Return("deletions")
    /\ UNCHANGED <<workerVars, envVars, troubles>>

\* advanceDeletion returns behind logout_wait and goes on behind the others.
WriteStep ==
    /\ pc = "write"
    /\ SetStep(acct, step, IF step = "logout_wait" THEN listed[acct].waited + 1 ELSE 0)
    /\ IF step = "logout_wait" THEN Return("deletions")
                               ELSE pc' = "step" /\ UNCHANGED <<listed, todo, acct, step>>
    /\ UNCHANGED <<workerVars, envVars, troubles>>

\* A call throws, or the purge is refused; deletePrefix may have got through.
DeletionFails ==
    /\ pc \in {"step", "write", "drop"}
    /\ Trouble
    /\ Return("deletions")
    /\ \/ UNCHANGED workerVars
       \/ pc = "step" /\ step = "pod_gone" /\ deletePrefix(acct)
    /\ UNCHANGED <<storeVars, envVars>>

-----------------------------------------------------------------------------
(* The third hook, pollActive. *)

PollBegins ==
    /\ pc = "deletions" /\ todo = {}
    /\ pc' = "poll"
    /\ Forget
    /\ todo' = {a \in Accounts : Is(a, "active")}
    /\ UNCHANGED <<storeVars, workerVars, acct, step, envVars, troubles>>

\* The state is one of LOST: the row is to be written.
PollFindsLost(a) ==
    /\ pc = "poll" /\ a \in todo
    /\ Answers(a)
    /\ \/ login[a] \in {"none", "closed"}
       \/ login[a] = "in" /\ ~valid[a]
    /\ todo' = todo \ {a}
    /\ acct' = a
    /\ pc' = "poll_write"
    /\ UNCHANGED <<storeVars, workerVars, listed, step, envVars, troubles>>

\* Ready, still starting, waiting for the user, or no answer.
PollFindsNothing(a) ==
    /\ pc = "poll" /\ a \in todo
    /\ todo' = todo \ {a}
    /\ UNCHANGED <<storeVars, workerVars, pc, listed, acct, step, envVars, troubles>>

PollWrites ==
    /\ pc = "poll_write"
    /\ SetStatus(acct, "needs_relogin")
    /\ Return("poll")
    /\ UNCHANGED <<workerVars, envVars, troubles>>

PassEnds ==
    /\ pc = "poll" /\ todo = {}
    /\ PassStops
    /\ UNCHANGED <<storeVars, workerVars, envVars, troubles>>

\* A hook throws: the rest of it is left out of this pass. The second hook can
\* only where it lists the accounts. The row may be written, its invite not.
HookFails ==
    /\ Trouble
    /\ \/ pc \in {"expire", "expire_write"} /\ pc' = "expire" /\ UNCHANGED storeVars
       \/ pc = "expire_write" /\ pc' = "expire" /\ SetStatus(acct, "deleting")
       \/ pc = "expire" /\ todo = {} /\ pc' = "deletions" /\ UNCHANGED storeVars
       \/ pc \in {"poll", "poll_write"} /\ pc' = "poll" /\ UNCHANGED storeVars
    /\ todo' = {}
    /\ acct' = NoAccount
    /\ UNCHANGED <<workerVars, listed, step, envVars>>

\* The process ends and is started again: requests and the pass are lost.
Crash ==
    /\ \/ pc # "idle"
       \/ \E v \in Visits : visits[v].at # "idle"
       \/ \E d \in Deletes : deletes[d].at = "loaded"
    /\ Trouble
    /\ PassStops
    /\ visits' = [v \in Visits |-> Idle]
    /\ deletes' = [d \in Deletes |->
                     IF deletes[d].at = "loaded" THEN Answered ELSE deletes[d]]
    /\ UNCHANGED <<storeVars, workerVars, page, historyVars>>

-----------------------------------------------------------------------------
(* DELETE /admin/accounts/:id: load, then write unless it is deleting already. *)

DeleteLoads(d, a) ==
    /\ deletes[d].at = "new" /\ HasRow(a)
    /\ deletes' = [deletes EXCEPT ![d] =
                     [at |-> "loaded", acct |-> a, seen |-> accounts[a].status]]
    /\ UNCHANGED <<storeVars, workerVars, passVars, onboardingVars, historyVars, troubles>>

DeleteWrites(d) ==
    /\ deletes[d].at = "loaded" /\ deletes[d].seen # "deleting"
    /\ SetStatusAndStep(deletes[d].acct, "deleting", "null")
    /\ deletes' = [deletes EXCEPT ![d] = Answered]
    /\ UNCHANGED <<workerVars, passVars, onboardingVars, historyVars, troubles>>

DeleteIsUnderWay(d) ==
    /\ deletes[d].at = "loaded" /\ deletes[d].seen = "deleting"
    /\ deletes' = [deletes EXCEPT ![d] = Answered]
    /\ UNCHANGED <<storeVars, workerVars, passVars, onboardingVars, historyVars, troubles>>

DeleteFindsNoRow(d) ==
    /\ deletes[d].at = "loaded" /\ deletes[d].seen # "deleting"
    /\ ~HasRow(deletes[d].acct)
    /\ deletes' = [deletes EXCEPT ![d] = Answered]
    /\ UNCHANGED <<storeVars, workerVars, passVars, onboardingVars, historyVars, troubles>>

-----------------------------------------------------------------------------
(* Onboarding, and what it means for the end of the session. *)

BeingDeleted(a) ==
    \/ ~secret[a] \/ ~HasRow(a)
    \/ HasRow(a) /\ (accounts[a].status = "deleting" \/ accounts[a].step # "null")
    \/ listed[a] # NoRow /\ listed[a].status = "deleting"

\* The user confirms a login that has been begun, be the account on its way out.
Login(a) ==
    /\ LogsIn(a)
    /\ excuse' = [excuse EXCEPT ![a] = IF BeingDeleted(a) THEN "late" ELSE @]
    /\ UNCHANGED <<storeVars, passVars, deletes, onboardingVars, cleaned, troubles>>

Visit(v, a) ==
    /\ \/ VisitStep(v, a) /\ UNCHANGED <<excuse, troubles>>
       \/ VisitLogsOut(v, a) /\ Trouble /\ UNCHANGED excuse
       \/ DuplicateWrites(v, a) /\ Excuse(a, "duplicate") /\ UNCHANGED troubles
    /\ UNCHANGED <<passVars, deletes, cleaned>>

InviteMoves(a) ==
    /\ InviteStep(a)
    /\ UNCHANGED <<passVars, deletes, historyVars, troubles>>

VisitEnds(v) ==
    /\ VisitFails(v)
    /\ UNCHANGED <<passVars, deletes, historyVars, troubles>>

-----------------------------------------------------------------------------

Pass ==
    \/ PassBegins \/ AllApplied \/ AllSwept \/ DeletionsBegin \/ PollBegins \/ PassEnds
    \/ \E a \in Accounts : Apply(a) \/ Sweep(a) \/ ExpireReads(a) \/ TakeDeletion(a)
                           \/ PollFindsLost(a) \/ PollFindsNothing(a)
    \/ ExpireWrites \/ PollWrites
    \/ LogoutStep \/ ScaleStep \/ PodGoneStep \/ PodStillThere \/ ClearS3Step \/ PurgeStep
    \/ DropSecretStep \/ DropRow \/ WriteStep

PassFails ==
    \/ \E a \in Accounts : ApplyFails(a)
    \/ SweepFails \/ DeletionFails \/ HookFails \/ Crash

Admin ==
    \E d \in Deletes :
        \/ \E a \in Accounts : DeleteLoads(d, a)
        \/ DeleteWrites(d) \/ DeleteIsUnderWay(d) \/ DeleteFindsNoRow(d)

Tenant ==
    \/ \E a \in Accounts : Login(a) \/ InviteMoves(a) \/ \E v \in Visits : Visit(v, a)
    \/ \E v \in Visits : VisitEnds(v)

Cluster ==
    /\ \E a \in Accounts :
         \/ /\ PodStep(a) \/ Pushes(a) \/ GatewayReady(a) \/ GatewayQuits(a)
            /\ UNCHANGED troubles
         \/ (PodIsEvicted(a) \/ GatewayCrashes(a) \/ Revoked(a)) /\ Trouble
    /\ UNCHANGED <<storeVars, passVars, envVars>>

Next == Pass \/ PassFails \/ Admin \/ Tenant \/ Cluster

Fairness ==
    /\ WF_vars(Pass)
    /\ \A a \in Accounts : WF_vars(PodStep(a) /\ UNCHANGED <<storeVars, passVars, envVars, troubles>>)

Spec == Init /\ [][Next]_vars /\ Fairness

-----------------------------------------------------------------------------
(* Properties *)

\* The session of an account ends before its worker is scaled down for good
\* (manifests.ts:97), in whatever order passes, visits, crashes and requests fall,
\* unless the last logout was not answered for LogoutWaitPasses passes or with
\* 409 too soon, that of a duplicate got lost, or the tenant logged in behind it.
StoppedLoggedOut ==
    [][\A a \in Accounts :
        sts[a] # "down" /\ sts'[a] = "down" => ~Live(a) \/ excuse[a] # "none"]_vars

PastClearing(a) == Is(a, "deleting") /\ accounts[a].step \in {"s3_deleted", "archive_purged"}

\* Once S3 has been cleared no binlog comes back to it (lifecycle.ts:23), in
\* whatever order troubles, crashes and requests fall, unless a pod was started
\* behind the check that there is none.
ClearedUnlessReborn ==
    \A a \in Accounts : PastClearing(a) \/ Gone(a) => ~stored[a] \/ reborn[a]

\* A row is dropped only when both S3 and the archive have been cleaned
\* (lifecycle.ts:65), although each of the calls may fail or be cut off.
GoneMeansCleaned ==
    \A a \in Accounts : Gone(a) => cleaned[a] = {"s3", "archive"}

\* What has been deleted stays deleted, whatever failed on the way.
LifecycleInv == TypeOK /\ ClearedUnlessReborn /\ GoneMeansCleaned

\* A deletion never gets stuck, be the worker mute, the pod slow or the process
\* restarted: the account goes, or a late write of its status calls it off.
DeletionCompletes ==
    \A a \in Accounts : Is(a, "deleting") ~> ~Is(a, "deleting")

\* When the row is gone the sweep removes what it stood for, for good.
NothingLeftBehind ==
    \A a \in Accounts :
        Gone(a) ~> [](sts[a] = "none" /\ ~route[a] /\ pod[a] = "none")

\* The public route goes when its account is not active any more (reconcile.ts:30).
StaleRouteGoes ==
    \A a \in Accounts : (route[a] /\ ~Is(a, "active")) ~> (~route[a] \/ Is(a, "active"))

\* The reconciler and its sweep find in the end whatever a fault or a crash has
\* left behind: workers of a row that is gone, a route of an account that is not
\* active.
LooseEndsAreFound == NothingLeftBehind /\ StaleRouteGoes

\* What lifecycle.ts:23-24 promises: S3 is cleared strictly after the pod has
\* stopped, so that no final push brings the binlog back.
ClearedStaysCleared ==
    \A a \in Accounts : PastClearing(a) \/ Gone(a) => ~stored[a]

=============================================================================
