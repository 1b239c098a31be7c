------------------------------- MODULE SyncGate -------------------------------
(***************************************************************************)
(* SyncGate and the detached thread it lets through (src/src/auth/         *)
(* s3_session.cpp:143-205).  The thread repeats syncOnce as long as        *)
(* finishStep finds a request that came in while it was running.           *)
(***************************************************************************)

VARIABLES
    running,   \* running_, and in_flight_ which is stored under the same lock
    pending,   \* pending_
    sync,      \* where the thread is; "none" when there is none
    owed       \* history: a request no reading of the binlog has served yet

gateVars == <<running, pending, sync, owed>>

SyncSteps == {"none", "check", "read", "send", "put", "finish"}

GateInit ==
    /\ running = FALSE
    /\ pending = FALSE
    /\ sync = "none"
    /\ owed = FALSE

\* tick: the timer's and push_now's.  tryStart under the mutex, then the
\* thread is started or the request is put off.
MutRequestDropped ==
    /\ owed' = TRUE
    /\ running' = TRUE
    /\ sync' = IF running THEN sync ELSE "check"
    /\ UNCHANGED pending
Request ==
    /\ owed' = TRUE
    /\ IF running
       THEN pending' = TRUE /\ UNCHANGED <<running, sync>>
       ELSE running' = TRUE /\ sync' = "check" /\ UNCHANGED pending

\* A step of the thread inside syncOnce.
SyncGoto(label) == sync' = label /\ UNCHANGED <<running, pending>>

FinishStep ==
    /\ sync = "finish"
    /\ IF pending
       THEN pending' = FALSE /\ sync' = "check" /\ UNCHANGED running
       ELSE running' = FALSE /\ sync' = "none" /\ UNCHANGED pending
    /\ UNCHANGED owed

MutInFlightWhilePutting == sync = "put"
InFlight == running

GateTypeOK ==
    /\ running \in BOOLEAN
    /\ pending \in BOOLEAN
    /\ sync \in SyncSteps
    /\ owed \in BOOLEAN

\* in_flight is up as long as the thread lives, and a request is put off only
\* to a thread.
GateMatchesThread == (running <=> sync # "none") /\ (pending => running)

\* A request during a running step is not lost (s3_session.cpp:190-191): as
\* long as the binlog has not been read for it, the thread has yet to read it
\* in this step or in one more.
RequestNotLost == owed => pending \/ sync \in {"check", "read"}
===============================================================================
