------------------------- MODULE MessageSendTracker -------------------------
(***************************************************************************)
(* MessageSendTracker (src/src/bridge/message_send_tracker.cpp): handlers  *)
(* wait for the confirmation of a message under its temporary id, which    *)
(* TDLib gives to one message only.  A wait ends by the confirmation (on   *)
(* the receiver thread), by its timer (on the handler's loop) or by a      *)
(* drain; whoever takes it out of the map resumes the handler.  The wait   *)
(* is taken, its result written and the resume queued without another     *)
(* party being able to see the state in between, so that is one step.      *)
(***************************************************************************)
CONSTANT Messages      \* temporary message ids

VARIABLES
    waitMap,    \* map_ : the ids with a handler waiting
    timers,     \* ids whose timer has not fired yet
    outcome,    \* outcome[m] : "none", "sent" or "failed" (SendWaitState::result)
    resumes     \* ids whose handler is queued to be resumed

trackerVars == <<waitMap, timers, outcome, resumes>>

TrackerInit ==
    /\ waitMap = {}
    /\ timers = {}
    /\ outcome = [m \in Messages |-> "none"]
    /\ resumes = {}

\* find + erase under the mutex.
TakeOut(ids) == waitMap' = waitMap \ ids

\* await_suspend: tryInsert, then runAfter on the handler's own loop.
WaitFor(m) ==
    /\ m \notin waitMap
    /\ waitMap' = waitMap \cup {m}
    /\ timers' = timers \cup {m}
    /\ UNCHANGED <<outcome, resumes>>

\* The timer's callback finds the wait and resumes the handler itself.
TimerWins(m) ==
    /\ m \in timers /\ m \in waitMap
    /\ timers' = timers \ {m}
    /\ TakeOut({m})
    /\ UNCHANGED <<outcome, resumes>>

\* Timers are never cancelled: one whose wait is over does nothing.
TimerLate(m) ==
    /\ m \in timers /\ m \notin waitMap
    /\ timers' = timers \ {m}
    /\ UNCHANGED <<waitMap, outcome, resumes>>

\* resolveWith, called by resolveSucceeded and resolveFailed: nothing is kept for a wait that starts later.
MutAlwaysSent(m, result) ==
    IF m \in waitMap
    THEN /\ TakeOut({m})
         /\ outcome' = [outcome EXCEPT ![m] = "sent"]
         /\ resumes' = resumes \cup {m}
         /\ UNCHANGED timers
    ELSE UNCHANGED trackerVars
MutResolveForgetsResume(m, result) ==
    IF m \in waitMap
    THEN /\ TakeOut({m})
         /\ outcome' = [outcome EXCEPT ![m] = result]
         /\ UNCHANGED <<timers, resumes>>
    ELSE UNCHANGED trackerVars
ResolveWith(m, result) ==
    IF m \in waitMap
    THEN /\ TakeOut({m})
         /\ outcome' = [outcome EXCEPT ![m] = result]
         /\ resumes' = resumes \cup {m}
         /\ UNCHANGED timers
    ELSE UNCHANGED trackerVars

\* drainAll: every wait ends as if its timeout had expired.
DrainAll ==
    /\ TakeOut(waitMap)
    /\ resumes' = resumes \cup waitMap
    /\ UNCHANGED <<timers, outcome>>

\* The loop runs a queued resume.
RunResume(m) ==
    /\ m \in resumes
    /\ resumes' = resumes \ {m}
    /\ UNCHANGED <<waitMap, timers, outcome>>
=============================================================================
