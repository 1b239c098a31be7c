------------------------------ MODULE Workers -------------------------------
(* What the control plane acts upon: the objects of each account in           *)
(* Kubernetes, its pod with the gateway in it, the session at Telegram, and   *)
(* the binlog in S3. Only apply, delete, podGone and the calls of the worker  *)
(* client are code of the control plane; the rest is its environment.         *)
EXTENDS AccountStore

VARIABLES
    sts,               \* StatefulSet (with Service and NetworkPolicy): its replicas
    route,             \* IngressRoute exists
    secret,            \* Secret with tokens and key exists
    pod,               \* the pod: none, up, or Terminating
    login,             \* how far the gateway in the pod is with its session
    valid,             \* Telegram still honours the account's session
    stored,            \* S3 holds a binlog with a session
    reborn             \* a history: a pod was started since podGone said yes

workerVars == <<sts, route, secret, pod, login, valid, stored, reborn>>
kubeVars == <<sts, route, secret>>
gatewayVars == <<pod, login, valid, stored, reborn>>

\* "none": wait_phone_number, or no gateway. "qr": a login has been begun, its
\* QR link or code is out. "starting": /v1/health answers, the state is not yet
\* ready. "in": ready. "closed": behind a logout.
LoginStates == {"none", "qr", "starting", "in", "closed"}

WorkersTypeOK ==
    /\ sts \in [Accounts -> {"none", "up", "down"}]
    /\ pod \in [Accounts -> {"none", "up", "stopping"}]
    /\ login \in [Accounts -> LoginStates]
    /\ \A v \in {route, secret, valid, stored, reborn} : v \in [Accounts -> BOOLEAN]

WorkersInit ==
    /\ sts = [a \in Accounts |-> "none"]
    /\ pod = [a \in Accounts |-> "none"]
    /\ login = [a \in Accounts |-> "none"]
    /\ \E none \in {[a \in Accounts |-> FALSE]} :
         /\ route = none /\ secret = none /\ valid = none /\ stored = none /\ reborn = none

\* The gateway has the binlog of a session, be it ready or still on its way there.
Holds(a) == login[a] \in {"starting", "in"}

\* Telegram honours the session and somebody has its binlog.
Live(a) == valid[a] /\ (Holds(a) \/ stored[a])

\* health() can be answered: the gateway runs, which needs the Secret.
Answers(a) == pod[a] = "up" /\ secret[a]

\* Mutant: a pod that is Terminating counts as gone.
MutTerminatingIsGone(a) == pod[a] # "up"

podGone(a) == pod[a] = "none"

-----------------------------------------------------------------------------
(* The environment: controllers, gateway, tenant. *)

\* The StatefulSet has a pod made; the gateway restores what S3 holds and waits
\* for TDLib to say what has become of it.
PodStarts(a) ==
    /\ sts[a] = "up" /\ pod[a] = "none"
    /\ pod' = [pod EXCEPT ![a] = "up"]
    /\ login' = [login EXCEPT ![a] = IF stored[a] THEN "starting" ELSE "none"]
    /\ reborn' = [reborn EXCEPT ![a] = TRUE]
    /\ UNCHANGED <<kubeVars, valid, stored>>

\* TDLib gets to Ready, also with a session it has yet to hear has ended.
GatewayReady(a) ==
    /\ pod[a] = "up" /\ login[a] = "starting"
    /\ login' = [login EXCEPT ![a] = "in"]
    /\ UNCHANGED <<kubeVars, pod, valid, stored, reborn>>

\* The session was ended from elsewhere: TDLib drops its files, the process
\* quits, and its successor in the pod restores what S3 holds.
GatewayQuits(a) ==
    /\ pod[a] = "up" /\ login[a] = "in" /\ ~valid[a]
    /\ login' = [login EXCEPT ![a] = IF stored[a] THEN "starting" ELSE "none"]
    /\ UNCHANGED <<kubeVars, pod, valid, stored, reborn>>

\* The process dies; its successor finds the binlog in the volume of the pod.
GatewayCrashes(a) ==
    /\ pod[a] = "up" /\ login[a] = "in" /\ valid[a]
    /\ login' = [login EXCEPT ![a] = "starting"]
    /\ UNCHANGED <<kubeVars, pod, valid, stored, reborn>>

PodIsTold(a) ==
    /\ pod[a] = "up" /\ sts[a] # "up"
    /\ pod' = [pod EXCEPT ![a] = "stopping"]
    /\ UNCHANGED <<kubeVars, login, valid, stored, reborn>>

\* Evicted, lost with its node, or rolled to another revision.
PodIsEvicted(a) ==
    /\ pod[a] = "up"
    /\ pod' = [pod EXCEPT ![a] = "stopping"]
    /\ UNCHANGED <<kubeVars, login, valid, stored, reborn>>

\* The final push, if there is a binlog to push and S3 takes it, and the end.
PodEnds(a) ==
    /\ pod[a] = "stopping"
    /\ pod' = [pod EXCEPT ![a] = "none"]
    /\ login' = [login EXCEPT ![a] = "none"]
    /\ \/ stored' = [stored EXCEPT ![a] = @ \/ Holds(a)]
       \/ UNCHANGED stored
    /\ UNCHANGED <<kubeVars, valid, reborn>>

Pushes(a) ==
    /\ pod[a] # "none" /\ Holds(a) /\ ~stored[a]
    /\ stored' = [stored EXCEPT ![a] = TRUE]
    /\ UNCHANGED <<kubeVars, pod, login, valid, reborn>>

\* The user ends the session from another device.
Revoked(a) ==
    /\ valid[a]
    /\ valid' = [valid EXCEPT ![a] = FALSE]
    /\ UNCHANGED <<kubeVars, pod, login, stored, reborn>>

\* POST /v1/auth/qr or /phone: from here on the user may confirm at any time.
LoginBegins(a) ==
    /\ Answers(a) /\ login[a] = "none"
    /\ login' = [login EXCEPT ![a] = "qr"]
    /\ UNCHANGED <<kubeVars, pod, valid, stored, reborn>>

\* The user has confirmed the login.
LogsIn(a) ==
    /\ pod[a] = "up" /\ login[a] = "qr"
    /\ login' = [login EXCEPT ![a] = "in"]
    /\ valid' = [valid EXCEPT ![a] = TRUE]
    /\ UNCHANGED <<kubeVars, pod, stored, reborn>>

\* POST /v1/auth/logout carried out; it is answered with 409 unless ready.
LogsOut(a) ==
    /\ Answers(a) /\ login[a] = "in"
    /\ login' = [login EXCEPT ![a] = "closed"]
    /\ valid' = [valid EXCEPT ![a] = FALSE]
    /\ UNCHANGED <<kubeVars, pod, stored, reborn>>

NotReady(a) == Answers(a) /\ login[a] # "in"

PodStep(a) == PodStarts(a) \/ PodIsTold(a) \/ PodEnds(a)

-----------------------------------------------------------------------------
(* What the control plane does to Kubernetes and S3. *)

\* Mutant: down by the status alone.
MutDownByStatus(row) == IF row.status = "deleting" THEN "down" ELSE "up"

\* Mutant: down only in the step in which a pass finds it.
MutDownInOneStep(row) ==
    IF row.status = "deleting" /\ row.step = "logged_out" THEN "down" ELSE "up"

Replicas(row) ==
    IF row.status = "deleting" /\ row.step \in SCALED_DOWN_STEPS THEN "down" ELSE "up"

\* desiredObjects, applied: a route is added for an active account, never taken.
applyObjects(a, row) ==
    /\ sts' = [sts EXCEPT ![a] = Replicas(row)]
    /\ route' = [route EXCEPT ![a] = @ \/ row.status = "active"]
    /\ UNCHANGED <<secret, gatewayVars>>

\* apply threw behind the StatefulSet.
applyInPart(a, row) ==
    /\ sts' = [sts EXCEPT ![a] = Replicas(row)]
    /\ UNCHANGED <<route, secret, gatewayVars>>

deleteObjects(a) ==
    /\ sts' = [sts EXCEPT ![a] = "none"]
    /\ route' = [route EXCEPT ![a] = FALSE]
    /\ UNCHANGED <<secret, gatewayVars>>

deleteRoute(a) ==
    /\ route' = [route EXCEPT ![a] = FALSE]
    /\ UNCHANGED <<sts, secret, gatewayVars>>

setSecret(a, exists) ==
    /\ secret' = [secret EXCEPT ![a] = exists]
    /\ UNCHANGED <<sts, route, gatewayVars>>

\* podGone said yes: whatever starts from here on is started behind it.
seePodGone(a) ==
    /\ podGone(a)
    /\ reborn' = [reborn EXCEPT ![a] = FALSE]
    /\ UNCHANGED <<kubeVars, pod, login, valid, stored>>

deletePrefix(a) ==
    /\ stored' = [stored EXCEPT ![a] = FALSE]
    /\ UNCHANGED <<kubeVars, pod, login, valid, reborn>>

=============================================================================
