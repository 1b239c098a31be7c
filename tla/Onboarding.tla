----------------------------- MODULE Onboarding -----------------------------
(* Onboarding and re-login (onboarding.ts): each visit of a tenant a process  *)
(* of its own, cut at every await behind which something is written, with the *)
(* pass of the reconciler, requests to delete and other visits in between.    *)
EXTENDS Workers

CONSTANTS
    Visits,            \* requests of tenants
    NoAccount

ASSUME OnboardingAssumption == NoAccount \notin Accounts

VARIABLES
    visits,            \* [at, acct]: what a visit is to do next, and for whom
    page               \* the session of the invite an account is, or was, opened with

onboardingVars == <<visits, page>>

Idle == [at |-> "idle", acct |-> NoAccount]

Stops == {"idle", "secret", "attach", "give_up", "new", "outcome", "duplicate",
          "relogin", "stranger"}

OnboardingTypeOK ==
    /\ visits \in [Visits -> [at : Stops, acct : Accounts \cup {NoAccount}]]
    /\ page \in [Accounts -> {"none", "new", "relogin", "expired", "over"}]

OnboardingInit ==
    /\ visits = [v \in Visits |-> Idle]
    /\ page = [a \in Accounts |-> "none"]

\* Visit v, which was to do `from`, is now to do `to` for account a.
Goes(v, from, to, a) ==
    /\ visits[v].at = from
    /\ from # "idle" => visits[v].acct = a
    /\ visits' = [visits EXCEPT ![v] = IF to = "idle" THEN Idle ELSE [at |-> to, acct |-> a]]

Turn(a, state) == page' = [page EXCEPT ![a] = state]

-----------------------------------------------------------------------------
(* open() *)

\* createAccount: the row, its Secret, and the invite it belongs to.
CreateInserts(v, a) ==
    /\ Goes(v, "idle", "secret", a)
    /\ insertAccount(a)
    /\ UNCHANGED <<workerVars, page>>

CreateApplies(v, a) ==
    /\ Goes(v, "secret", "attach", a)
    /\ setSecret(a, TRUE)
    /\ UNCHANGED <<storeVars, page>>

CreateAttaches(v, a) ==
    /\ Goes(v, "attach", "idle", a)
    /\ Turn(a, "new")
    /\ UNCHANGED <<storeVars, workerVars>>

\* The session of the invite runs out (SESSION_TTL_MS).
InviteExpires(a) ==
    /\ page[a] = "new"
    /\ Turn(a, "expired")
    /\ UNCHANGED <<storeVars, workerVars, visits>>

\* An invite for an account that has to log in again, and its end.
ReloginOpens(a) ==
    /\ Is(a, "needs_relogin") /\ page[a] # "relogin"
    /\ Turn(a, "relogin")
    /\ UNCHANGED <<storeVars, workerVars, visits>>

ReloginExpires(a) ==
    /\ page[a] = "relogin"
    /\ Turn(a, "over")
    /\ UNCHANGED <<storeVars, workerVars, visits>>

\* Too many attempts, or the invite is opened anew behind its expiry: the invite
\* lets go of the account, whose row has been read, and is to be written.
GivesUp(v, a) ==
    /\ Is(a, "onboarding") /\ page[a] \in {"new", "expired"}
    /\ Goes(v, "idle", "give_up", a)
    /\ Turn(a, "over")
    /\ UNCHANGED <<storeVars, workerVars>>

GiveUpWrites(v, a) ==
    /\ Goes(v, "give_up", "idle", a)
    /\ SetStatus(a, "deleting")
    /\ UNCHANGED <<workerVars, page>>

-----------------------------------------------------------------------------
(* submit() and fromState() *)

\* A page of the account has a login begun; a late request may do so behind the
\* end of its session, and submit() does not look at the status of the row.
PageBeginsLogin(a) ==
    /\ page[a] # "none"
    /\ LoginBegins(a)
    /\ UNCHANGED <<storeVars, onboardingVars>>

\* finish(): the worker is ready and me() has told whose session it has.
FinishBegins(v, a, kind) ==
    /\ HasRow(a)
    /\ Answers(a) /\ login[a] = "in"
    /\ page[a] = kind
    /\ Goes(v, "idle", kind, a)
    /\ UNCHANGED <<storeVars, workerVars, page>>

\* The session of a used invite lives on until it runs out, so nothing closes.
FinishActivates(v, a, kind) ==
    /\ Goes(v, kind, "idle", a)
    /\ SetStatus(a, "active")
    /\ UNCHANGED <<workerVars, page>>

\* Another account has this Telegram user, or it is not the one expected. What
\* comes of the logout is not looked at.
FinishLogsOut(v, a, kind) ==
    /\ \/ kind = "new" /\ Goes(v, "new", "outcome", a)
       \/ kind = "relogin" /\ Goes(v, "relogin", "stranger", a)
    /\ LogsOut(a) \/ UNCHANGED workerVars
    /\ UNCHANGED <<storeVars, page>>

\* setOutcome keeps later requests of the invite out.
DuplicateOutcome(v, a) ==
    /\ Goes(v, "outcome", "duplicate", a)
    /\ Turn(a, "over")
    /\ UNCHANGED <<storeVars, workerVars>>

DuplicateWrites(v, a) ==
    /\ Goes(v, "duplicate", "idle", a)
    /\ SetStatusAndStep(a, "deleting", "logged_out")
    /\ UNCHANGED <<workerVars, page>>

\* The row gets a new revision only, for which the pod is rolled.
StrangerOutcome(v, a) ==
    /\ Goes(v, "stranger", "idle", a)
    /\ Turn(a, "over")
    /\ UNCHANGED <<storeVars, workerVars>>

-----------------------------------------------------------------------------

\* A call throws (an update does without its row), and nobody tries again.
VisitFails(v) ==
    /\ visits[v].at # "idle"
    /\ visits' = [visits EXCEPT ![v] = Idle]
    /\ UNCHANGED <<storeVars, workerVars, page>>

\* All that a visit does, but for the logout and the write of a duplicate.
VisitStep(v, a) ==
    \/ CreateInserts(v, a) \/ CreateApplies(v, a) \/ CreateAttaches(v, a)
    \/ GivesUp(v, a) \/ GiveUpWrites(v, a)
    \/ DuplicateOutcome(v, a) \/ StrangerOutcome(v, a)
    \/ \E kind \in {"new", "relogin"} :
         FinishBegins(v, a, kind) \/ FinishActivates(v, a, kind)

VisitLogsOut(v, a) == \E kind \in {"new", "relogin"} : FinishLogsOut(v, a, kind)

InviteStep(a) ==
    InviteExpires(a) \/ ReloginOpens(a) \/ ReloginExpires(a) \/ PageBeginsLogin(a)

=============================================================================
